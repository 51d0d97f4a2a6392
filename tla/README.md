# Verification of the Kinova Gen3 driver

TLA+ models of the parts of `kinova_lowlevel` that decide who moves the arm, when it
stops and what it does next; the TLC runs that check them on small instances; and TLAPS
proofs of the main results for every value of the constants. Paths below are relative to
the repository, which this project sees as `src/`: `src/src/` is its library,
`src/include/` its headers, `src/apps/` the programs on top.

1. [The system](#1-the-system)
2. [Modules and the code](#2-modules-and-the-code)
3. [Runs](#3-runs)
4. [Bounds and fairness](#4-bounds-and-fairness)
5. [Proofs](#5-proofs)
6. [What the code does that it says it does not](#6-what-the-code-does-that-it-says-it-does-not)
7. [Not modelled](#7-not-modelled)
8. [Plan](#8-plan)

Check a run with `tlc -config X.cfg M` for the module M its entry in `PROJECT.json` names,
a proof with `tlapm M.tla`.

## 1. The system

```
 backends (ROS node, teleop server, tools)          orchestrator, e-stop button
        | CommandSink / StreamSink / GripperSink        | grant revoke estop
        v                                               v
   +--------------------------- Arbiter ---------------------------+   m_, atomic latch
        | the same sinks, only for the owner of the token
        v
   +-------------------------- Supervisor -------------------------+   q_mtx_, stream_mtx_
   | sampler thread (1 kHz): halts, deadlines, integrates, drains  |
   | the inbox, ticks the TrajectoryExecutor                       |
   +---------------------------------------------------------------+
        | targets (double buffers, atomics)   | request_mode     ^ on_link_state
        v                                     v                  |
   control modes + CommandWatchdog  <---  RtExecutor  <---  ArmLink (its own thread)
   GripperController, FeedbackTap        (1 kHz loop)        connect, fault, clear, retry
        |                                     |  ContactMonitor
        +------------- Transport (Kortex / Sim) --------------> arm
```

| Component | State | Operations | Hard behaviour | What makes it correct |
|---|---|---|---|---|
| **Arbiter** (`interface/arbiter.*`) | owner token, generation, e-stop latch, `m_` | `grant`, `revoke`, `estop`, `estop_clear`, every gated call, `on_halt` | a delegated call holds `m_` while it waits for a mode; `grant`/`revoke` unlock to halt; `estop` must not wait for `m_`, so it latches and halts twice | a completed stop is final; its first halt never waits; a delegated call belongs to the live owner; a new owner finds an arm at rest; an owner is replaced only by racing grants |
| **Supervisor** (`interface/supervisor.*`) | inbox, pending halt, goal in flight, open session, mode records, readiness, contact edge | goal vet/accept/cancel, halt, stream open/set/close, gripper, link and contact reports; the sampler's loop | five kinds of threads; mode switches that wait 250 ms with no lock; halts that overtake queued goals; trips and clears between two samples | each accepted goal is answered once and in the end; an open session is supervised; a down link is quiet; a tripped goal never runs later |
| **StreamingSession** (`interface/streaming_session.*`) | kind, deadline, last command | open, close, stamp, expired | a deadline that passes while the client sends | part of Supervisor |
| **TrajectoryExecutor** (`interface/trajectory_executor.*`) | active goal, trajectory clock, applied scale | `submit`, `tick`, the reset of a halt or cancel | a clock that accumulates, two scales that change under way, preemption; a measurement that wraps against a plan that does not | the clock never outruns the slowest scale asked for; the velocity fed forward is the motion commanded; only a real divergence aborts; a goal ends |
| **Control modes** (`joint_{position,impedance,velocity,torque}_mode.*`) | two double-buffered targets, source, freeze, IK fault | setters, `compute`, `on_enter`, `set_command_timeout`, `clear_ik_fault` | setters and the 1 kHz loop share buffers, an index, a source and a counter with no lock; entry clears them while a setter runs | a cycle goes after the latest complete command of this entry; what a stale stream left is not followed again; the reference stays on its leash and takes the short way round |
| **CommandWatchdog** (`command_watchdog.h`) | counter, timeout, staleness | `arm`, `bump`, `reset`, `tick` | counter and timeout are loaded one after the other | part of the modes |
| **RtExecutor** (`rt_executor.*`) | requested mode, active mode, last command, miss budget, fault counters | `request_mode`, `run` | a missed exchange defers a switch, a contact overrides a request, a switch between actuator modes needs a handshake | what is sent fits the actuators; a latched contact runs the contact mode only; link and arm are given up on exactly the right exchange |
| **ContactMonitor** (`contact_monitor.*`) | latch, counters, observer time | `step`, `request_clear`, `on_run_start` | skipped samples owe time; a clear from another thread | trips after exactly the debounce; only a clear unlatches |
| **ArmLink** (`arm_link.*`) | link state, fault latch, clear request, `clears_done` | `run`, `request_clear`, `status` | the arm can vanish, refuse, fault or reboot between two RPCs; clears race state changes | no run without a clear after trouble; runs start from POSITION; every clear answered once; a stop returns |
| **KortexTransport** (`kortex_transport.*`) | `low_level_`, per-actuator modes | connect, servoing, mode switch, exchange, hand-back | multi-RPC operations that fail half-way; the arm keeps what it was told | part of ArmLink |
| **GripperController** (`gripper_controller.*`) | double buffer, index, stamping flag; the submessage the transport re-sends | `set_target`, `release`, `stamp` | order of flag and index; a stamp between two stores; two calls during one stamp | unless a call laps the stamp, what goes out is one whole command, and never an older one again |
| **FeedbackTap, Seqlock** (`feedback_tap.h`) | snapshot and sequence number | `store`, `load` | torn reads, a bounded number of retries | a load that returns true is an atomic read |
| **State pump** (`Supervisor::pump_loop`) | version published last, contact version | look, load, publish | reads three things the RT loop writes, one after the other | nothing stale is presented as live |
| **SampleRing, telemetry** (`telemetry*.{h,cpp}`) | ring, drop counter, histogram | `push`, `pop`, `consume`, percentiles | two threads, a full ring | what is reported is exactly what was kept, and what was not is counted |
| **Programs** (`src/apps/`) | which step `main()` is at, its threads, `g_stop` | command line, take the arm, run, give it back, join | Ctrl-C at any point, early ways out, exceptions, threads that outlive their use, a lossy link to a teleop client | the arm is given back, after whoever drives it has stopped; a stopped program ends; an acknowledged control was carried out |
| **Gains, contact thresholds** (`interface/gains.*`, `interface/contact.*`) | none | validate, resolve | none | not modelled |
| **Dynamics, diff IK, momentum observer** | filters | real arithmetic | none a model checker reaches | not modelled |
| **SimTransport, RtSystem, route check, contact replay** | none of the core's | test double, kernel calls, tools | none | not modelled |

`PROJECT.json` lists every component with its files and status, and the hazards line by line.

## 2. Modules and the code

### Arbiter, EmergencyStop (abstract)

`Arbiter` has any number of callers: `Thread` sends commands, `Admin` grants, `Revoker`
revokes, `Stopper` stops and clears. A critical section that calls nothing is one action; a
call out of the arbiter is its own action, so others run during it. `grant` is `Grant`,
`GrantHalt`, `GrantInstall`/`GrantRefused` (the unlock is between them); `estop` is
`EstopLatch`, `EstopHalt` (no lock), `EstopRelatch`, `EstopRehalt` (locked). A gated call is
`Gated` (admission, `lock' = c`) and `Delegate`, which may or may not move the arm. `Return`
ends a call that has locals: `held`, the token it is about, and `since`, the history of the
generation a `grant` found in its first section. `moving` is the downstream: the grants whose commands arrived since the last halt. `EmergencyStop`
says in four actions what a stop promises; `Arbiter` implements it with `stopped` and
`moving` as they are.

### Supervisor, GoalLifecycle (abstract)

`pc[p]` is where each thread is. The sampler's loop goes through `edge` (contact edge),
halt, deadline, IK, integrate, drain, gate, switch, recheck, submit, tick in the order of
`sampler_loop`. `on_halt` and `close_stream` are run by several threads, so they are
operators over a process `p` (`StartClose`, `CloseMark`, `CloseHold`, `HaltGrip`,
`HaltQueue`). The two stores `request_mode` and `active_mode_kind_` are separate actions
(`...Request`, `...Record`) because another thread runs between them. A mode settle either
succeeds or times out, whatever the RT loop does meanwhile. The RT loop shows as `Adopt`,
`Float`, `Trip`, `Unlatch`, `IkFails`. `Scenarios` are the sets of disturbances a behaviour
draws from. `GoalLifecycle` is what the action's clients are promised: new, pending,
settled, one answer; the mapping reads a goal's status off `result` and the place the goal
is in.

### KortexTransport, ArmLink

`KortexTransport` is the arm (reachable, fault, servoing mode, whether some actuator is in
TORQUE) and the driver's memory of it (`low_level`), with one action or outcome operator per
operation: what is refused, what times out, what stops half-way. `ArmLink` EXTENDS it; `pc` is
the place in `run()`, `tell` a call to the listener, `after` the place to return to.
`SetState`, `Latch` and `Lost` are the helpers of the same name. `Operator`s read
`clears_done`, request a clear and wait for `clears_done` to move, as the code's callers do.

### ContactMonitor, RtExecutor

`ContactMonitor` abstracts a residual to the set of joints over their thresholds and time to
cycles. `RtExecutor` EXTENDS it. A step is what happens between two points where the other
thread's calls can be told apart: the loop boundary with the mode adoption (`Adopt`, `Keep`,
`AdoptThrows`, `StopSeen`), and the exchange with all behind it (`Good`, `Miss`,
`ExchangeThrows`). The ring of the last misses is kept as in the code, by slot, each slot
with its age. `recent`, `reports` and `streak` are histories the properties compare the
code's counters with; they are cut to what a property can depend on.

### CommandWatchdog, StreamedMode

`StreamedMode` EXTENDS `CommandWatchdog`; `mode` says which of the four modes it is, so one
module shows where they differ (`Sourced`, `Adopts`, `Cartesian`). The writer thread is
setter and session: `Fill` (the inactive buffer is half written), `Publish` (index),
`NameSource`, `BumpLast`; `Close` is a hold through the same four stores, then `Restore` and
`ClearIkFault`. The real-time thread loads counter, timeout, source, index and buffer one at
a time: `Cycle`, `StaleCycle`/`LiveCycle`, `LoadSource`, `LoadIndex`, `Copy`, `Solve`. A
command is its number, the number the watchdog's counter will have when the command is
complete; a copy taken from a buffer under write has two numbers. `follow` is what the cycle
went after.

### Register (abstract), Seqlock, SampleRing, GripperLine, RtChannels

One module per channel out of or into the RT thread, one atomic access (of a value: one
word) at a time. `Seqlock`: `StoreBegin`/`StorePart`/`StoreEnd` are the two increments of
`seq_` with the copy between, `LoadBegin` to `LoadTrue` one `load()` with its retries;
`Latest` is `Register` with the value whose store is complete. `SampleRing`: `PushBegin`
looks at head and tail, `PushWrite` fills the slot, `PushPublish` moves the head; `Pop...`
is the other side, and `Consume` what the sink counts. `GripperLine`: `SetBegin` to `SetFlag`
are `set_target` in its order, `StampFlag`, `StampIndex`, `StampField` are `stamp()` in its
own, `wire` the submessage of the cyclic command, which stays until it is overwritten.
`set_target` waits for no stamp, so a second call may refill the buffer the stamp under way
still copies; the histories `lapped` and `torn` say that of the stamp and of the wire.
`RtChannels` EXTENDS all three: `StartCycle` to `PushRest` are one cycle of `run()`, `Poll` is
ArmLink's read of a faulted arm, `Pump...` is `pump_loop`.

### JointReference, TrajectoryExecutor, Motion

One joint in integers; the arm is seven of them, and the code loops. `JointReference` is the
arithmetic of each mode's `compute` with its order of clamp, fold, walk, leash and range;
`wrap_to_pi` is a modulo on a turn of `2 * Half` units. `TrajectoryExecutor` is the class:
`Submit`, `Tick`, `Reset`; the clock counts units of `1 / Full`, so that a scale of
`n / Full` is exact; the cubic and quintic are the code's coefficients brought to a common
denominator. `Motion` puts it between the sampler (`Sample`: slew once, then tick or
integrate), the loop (`Cycle`: `compute` on the feedback of this cycle, then the arm) and an
arm that follows, is blocked or is pushed (`Pull`, `Push`).

### ArmSession (abstract), TeleopLink, ProgramScripts, Programs

`ProgramScripts` has for each program under `src/apps/` the command lines it tells apart and
accepts (`...Args`), and the steps its `main()` takes (`...Main`, `...Dry`): connect,
take the arm, start and join threads, run, give the arm back; a step that depends on an option
is `When` the option is given. `Programs` runs one of them:
one action per kind of step, the threads it started, `Interrupt` (Ctrl-C) and `Throws` at any
point. `TeleopLink` is the pair of socket threads of `teleop_socket_server` and a client that
sends a control again until `last_control_seq` names it. `ArmSession` is what every program
owes the arm; `Programs` implements it.

`MCx` modules give constants their values. Two of them check two modules each, in one run:
`MCOwnership` has `Programs` and `Arbiter` (who has the arm, and who may command it),
`MCRtChannels` has `RtChannels` and `StreamedMode` (what other threads exchange with the loop,
and with the mode it runs). The two modules of a pair have no variable in common, so their
steps commute and nothing is lost by not interleaving them: in `MCRtChannels` a behaviour is
of one module or of the other, in `MCOwnership` the arbiter's starts where one program has
refused its command line. These are not compositions of the components: no claim is made about
one in the presence of the other. `xProofs` hold the theorems. Operators named
`Mut...` are variants of an operator with a plausible bug; no specification uses them, they
are there to see that a property notices.

## 3. Runs

| Run | Checks | Shows |
|---|---|---|
| `MCOwnership` | `Programs`: `TypeOK`, `TeardownInOrder`, `ReportIsComplete`, `AckedIsDone`, `KeepsSession`, `EndsInTime`, `ControlAcked` | all eleven programs with every command line they tell apart; Ctrl-C or an exception anywhere; a link that loses and reorders |
| | `Arbiter`: `StopIsFinal`, `SwapIsARace`, `StopNeverWaits`, `ImplementsEmergencyStop` | two granting threads, one of which revokes, two commanding threads and two stoppers: every interleaving of commands, grants, revokes, stops and clears; a stop is final, its first halt does not wait for a stuck delegate, and a grant goes over a live owner only if that one came between its two sections |
| `MCSupervisor` | `SettledOnce`, `AnswersEveryGoal` | two goals in different modes, cancels, a halt and an outage: one answer each, in the end; the Supervisor implements `GoalLifecycle` with its fairness |
| `MCSupervisor_mixed` | `TypeOK`, `OpenIsSupervised`, `DownLinesUpPosition`, `DownIsQuiet`, `HaltReachesRunning`, `TrippedNeverRuns` | five scenarios of goals, streams, outages, one contact trip and two, IK faults and the gripper, with one backend thread |
| `MCArmLink` | `ResumeNeedsClear`, `StartsInPosition`, `ClearIsAnswered`, `StopReturns` | two operators and an arm that does everything an arm can do at any point |
| `MCRtExecutor` | `LatchedRunsOnlyContact`, `TripsExactly`, `LossExactly`, `FaultExactly`, `RequestTaken` | misses, contacts, garbled frames, faults, errors, clears and requests over any number of runs |
| `MCRtChannels` | `RtChannels`: `PublishesFresh`, `ReportsWhatWasKept`, `SnapshotIsAtomic`, `WireMovesForward` | the RT thread against the pump, the drain thread and the gripper's setter, with missed exchanges, polls, re-entries, a full ring, and calls that lap a stamp |
| | `StreamedMode`: `FollowsLatest`, `StaleStaysHeld` | setpoints, sessions, goals, entries and cycles of the four modes, one atomic access at a time |
| `MCMotion` | `TypeOK`, `ProgressWithinScale`, `CommandBounded`, `AbortsOnlyDiverged`, `FeedforwardIsTheMotion`, `Arrives` | a continuous and a bounded joint in four modes; plans on either branch of the wrap; preemption, scales, streams, halts, mode switches, and an arm blocked or pushed once |
| `MCArbiter_swap`, `MCSupervisor_writers`, `MCSupervisor_retrip`, `MCArmLink_handback`, `MCMotion_cancel` | `NoSilentSwap`, `OneWriter`, `RetripIsAnEdge`, `HandedBack`, `CancelHolds`, each violated | see section 6 |

Properties that a theorem of section 5 states and no run lists (`DelegationIsOwned`, `ListenerKnows`, `AnsweredOnce`, `ClearHitsItsEpisode`, `FreezeNeverSent`,
`CommandMatchesArm`, `SettledBeforeCounting`, `LatchHolds`, `RequestNotDropped` and the proved
`TypeOK`s) hold on the same instances; adding them to the cfg of their module shows it. So do
`IntegrateIsLive`, `ContactReasonSticks` and `TripClosesStream` in `MCSupervisor_mixed`, and
`HandoverFromRest` with one thread that grants and revokes.

`CHECK_DEADLOCK FALSE` stands where the system may come to rest: a behaviour has used its
goals and disturbances (`Supervisor`, `StreamedMode`, `Motion`, `RtChannels`), `run()` has returned
(`ArmLink`, `RtExecutor`). A program that ended stutters by an action of its own (`Stopped`).

`MCRtChannels` has a `VIEW`: a local of `StreamedMode` that is written before it is read again
(`Live`: the index and the source of a copy that is over, the kind of a write that is over, the
floor of a run that is over, `early` outside velocity) does not tell two states apart.

## 4. Bounds and fairness

A `Max...` bounds what the environment does and is a guard of the action it bounds; the others
are limits the code itself has, given small values.

| Bound | Value | Why it is enough |
|---|---|---|
| `Arbiter.MaxGrant` | 2 | an old and a new owner, also two that race; 3 in `MCArbiter_swap` |
| `Supervisor.MaxSession`, `MaxTrip`, `MaxDrop`, `MaxHalt` | 0–2 | two sessions: a close of one meets an open of the next; a trip after a clear needs two trips; an outage that overtakes a switch needs one. Where the arm trips twice (`"retrip"`) there is one session (`Sessions`), which both trips meet |
| one queued cancel (guard of `GoalCancel`) | — | a cancel names no goal; a second one before the drain finds nothing more to end |
| `KortexTransport.MaxDrop` | 1 | an outage between any two operations, with a reconnect behind it |
| `ArmLink.MaxClear`, `MaxHealth` | 2, 2 | a clear for each of two operators or two episodes; one failed probe that is survived and one that is not |
| `RtExecutor` limits | 2–3 | smallest values at which a row, a window and a ring with more than one slot differ from each other |
| `ContactMonitor` `Debounce` 2, `SettleTime` 3, `MaxStep` 2 | | a streak over two joints; settling in several steps, one of them capped |
| `StreamedMode.MaxCommands` | 4 | both buffers of a kind are filled twice, a close's hold included |
| `StreamedMode.MaxStale`, `Timeouts`, `Default` | 3, {1}, 0 (torque 3) | a deadline shorter than the default torque keeps, and modes without a default |
| `RtChannels` `MaxTargets`, `MaxFrames`, `MaxLooks` | 3, 3, 3 | both gripper buffers and one of them again; a ring of two slots filled and overrun; a snapshot before, during and after a look |
| `RtChannels` `Parts`, `Fields`, ring of 2, `MaxTries` 2 | | a value of two words can be torn; a load that retries and one that gives up |
| `RtChannels` action constraint `OneAwake` | | setter, pump and drain share no state, and every property is about what one of them shares with the RT thread: each runs against it with the other two asleep |
| `Motion` turn of 12, limits -5 and 5, `MaxLead` 3, `VelLead` 1, `MaxSpring` 3, `Band` 1, `MaxStep` 2, `VMax` 2, scales of halves | | the smallest turn in which a plan goes more than half way round, a leash and a step together are shorter than half a turn (`LeadAssumption`), and the leads differ from each other and from a step |
| `Motion` `MaxLag`, `MaxWork`, `MaxDisturb` | 2, 2, 1 | the sampler late by a cycle; a goal with a preemption, a switch, a halt or an override, or two of those; one push or block |
| `Motion` `Tolerances` | {4} | wider than what the loop lags behind by at these speeds, narrower than a turn |
| `Programs` `MaxSamples`, `MaxControls` | 2, 2 | a sample before and one after the drain's last look; an old control's copy under the next one |

Fairness is what a thread that is never blocked for ever does:

- `Arbiter`: WF of `EstopHalt` only. The claim is that a stop needs nobody else's fairness.
- `Supervisor`: WF of the sampler's step, of the steps of a teardown or restore already
  begun by any thread, of the link's and the operator's calls; SF of `TickCompletes`, for a
  trajectory's clock advances with every tick (`traj_t += dt * scale`, scale at least 0.01)
  and it ends, but each tick may also find it not ended yet. Nothing obliges a client to
  submit, cancel or open.
- `ArmLink`: WF of the run thread's step. The arm is under no obligation: it may stay
  unreachable or faulty, and every outcome of an RPC is an outcome of that step.
- `RtExecutor`: WF of a cycle. Nothing obliges anybody to call `run()`.
- `StreamedMode`, `RtChannels`: none; their properties are safety.
- `Motion`: WF of a cycle of the loop and of an iteration of the sampler, both periodic
  threads. They are stated over `lag`, which only `Cycle` counts up and only `Sample` clears, so
  that WF of "lag goes up" is WF of `Cycle` (and TLC need not enumerate the whole state for it).
- `Programs`: WF of `main()` and of the threads; a thread that waits for a time sees it pass.
  Nothing of the publisher of `joint_position_check`, whose sequence may not end, nor of Ctrl-C.
  The link may lose any datagram, but one that is sent for ever arrives in the end (SF).

## 5. Proofs

| Theorem | Says | Argument |
|---|---|---|
| `ArbiterProofs!TypeCorrect`, `LockHeld` | types; `m_` is held exactly inside a locked section | `LockInv`; `MutexStep`: a step takes a free `m_`, returns it or lets it be |
| `ArbiterProofs!StopFinal` | `StopIsFinal` | `StopInv`: also, nobody is delegating once stopped, and whoever is about to halt the second time has the latch set; needs `LockInv` for "nobody is delegating" |
| `ArbiterProofs!Refinement` | `ImplementsEmergencyStop` | each action maps to `Stop`, `Clear`, `Halt`, `Command` or a stutter; a command needs `~stopped`, from `StopInv` |
| `ArbiterProofs!DelegationOwned` | `DelegationIsOwned` | `LockInv`: whoever changes the owner holds `m_` |
| `ArbiterProofs!Handover` | `HandoverFromRest` when one thread grants and revokes (`OneAdmin`) | `RestInv`: commands of an old grant are left downstream only while a halt for them is on its way |
| `ArbiterProofs!SwapNeedsARace` | `SwapIsARace`, for any number of granting and revoking threads | `SwapInv`: whoever is between the sections of `grant` saw no owner or dropped the one it saw, so an owner there is now has a later generation than the one it noted (`since`); `OnlyGrantInstalls`: no other step makes an owner |
| `ArmLinkProofs!TypeCorrect` | `TypeOK` | in four parts: transport (`TransportTypes`), `LoopTypes`, `SharedTypes` (with: a request outlives no state but `kFaulted`), `FlagTypes` |
| `ArmLinkProofs!ResumeConsented`, `PositionFirst`, `ListenerTold` | `ResumeNeedsClear`, `StartsInPosition`, `ListenerKnows` | `ConsentInv` (consent, or latched, or commanding), `PositionInv`, `TellInv` |
| `ArmLinkProofs!AnswersCounted`, `ClearsOfThisEpisode` | `AnsweredOnce`, `ClearHitsItsEpisode` | `AnswerInv`: a pending clear is of this episode, a taken one is unresolved only between `TakeClear` and the next `SetState` |
| `RtExecutorProofs!FreezeReplaced`, `ContactStops`, `CommandsFit`, `RequestsKept` | the four command properties | `StopInv`: at the boundary either all is settled or a switch is due, and a due switch is not deferred because the last exchange was good |
| `RtExecutorProofs!LatchKept`, `CountsAreSettled`, `TripsAreExact` | the monitor | `CountInv`; `TallyInv`: a counter equals the trailing run of its joint in the history, saturated at `Debounce` |
| `RtExecutorProofs!FaultsAreExact` | `FaultExactly` | `FaultInv`: both counters are trailing runs of the reports |
| `RtExecutorProofs!LossesAreExact` | `LossExactly` | `CommsInv`: the misses in a row are the trailing run of the history; `RingTells`: the ages the ring of the last misses holds are those of misses, fall along the ring, and cover every miss in the window, so its oldest slot answers whether the window is spent |
| `RtExecutorProofs!TypeCorrect` | `TypeOK` | `BudgetInv` and `FaultInv`: while the loop is on, every counter is below its limit |
| `StreamedModeProofs!TypeCorrect`, `LatestFollowed` | `TypeOK`, `FollowsLatest` | `FollowInv`: `WriterInv` (a published command is newer than all complete ones, and the source names a buffer of this entry), `CycleInv` (what the cycle is about to copy is good) and `CopyInv` (the copies kept are of this entry, and as new as what the watchdog counted) |
| `StreamedModeProofs!StaleHeld` | `StaleStaysHeld`, for defaults of zero outside torque (`NoDefault`) | `StaleInv`: while the newest command is one that was given up, the session is open or its hold not complete and the watchdog still stale (`DeadInv`), so no unfrozen cycle gets as far as the source; what is about to be copied is newer than what was given up, or a hold (`AliveInv`) |
| `RtChannelsProofs!SeqlockInvariant`, `SeqlockIsRegister`, `SnapshotsAreAtomic` | `SnapshotIsAtomic`, of the seqlock alone and of the pump's loads in `RtChannels`, for any readers, words and retries | `Inv`: each word a load has copied is that of the store complete when it began, or `seq_` has moved on since; a load that sees `seq_` unmoved returns the register's value; every step of the composition is one of the seqlock's or leaves it alone |
| `RtChannelsProofs!PublicationsAreFresh` | `PublishesFresh` | `VersionInv`: the version read is newer than the one published last, and the snapshot loaded no older than it; `TwiceInv`: every snapshot published was stored before the version read next, so one published twice was the current one at the second reading and cannot be followed by a third; `LookInv`: live means the status moved between two looks |
| `RtChannelsProofs!WireGoesForward` | `WireMovesForward`, for any number of fields and calls, at any pace of `set_target` | `BuffersInv`: the active buffer is whole and the setter fills the other; `StampInv`: a stamp that was not lapped copies a whole command, the current one or the one before, and a lapped one only fields of calls; `WireInv`: unless it is torn the wire holds nothing newer than the copy under way |
| `RtChannelsProofs!TelemetryIsExact` | `ReportsWhatWasKept`, for every capacity (`RoundUpPow2` of it), number of samples and duration | `RingInv`: a list of the kept samples' places, extended by each push that is not dropped, whose first `tail` the sink was given and whose next `head - tail` are in the slots the ring holds; distinct slots because at most `Cap` are in use (`a % Cap` is injective on `Cap` numbers in a row). Percentiles: the bucket counts add up to the samples below a power of two (induction over the buckets, through least elements), and the bucket of a duration is the power of two it is at or above |
| `SupervisorProofs!TypeCorrect` | `TypeOK`: modes, lock and inbox; among them that a goal in the executor is marked in flight and that a cancel is drained as one | `LockInv` (`stream_mtx_` is held exactly at the places of `Holding`), `GoalsTyped`, `ModesInv` |
| `SupervisorProofs!EachGoalSettledOnce` | `SettledOnce` | `GoalsInv`: a goal is in one of inbox, sampler, executor, client (`GoalsApart`) and has no result while it is there; `CauseInv`: whoever is about to flush the inbox has a reason to mark it with. Together with the lock they are `Sound`, which the theorems below build on |
| `SupervisorProofs!GoalsLiveTheirLife` | `ImplementsGoalLifecycle`, the safety part of `AnswersEveryGoal` | `GoalEffects`: whatever the step, at most one goal is accepted or answered, and the rest keep waiting where they are or one place on; each of the three cases maps to `Accept`, `Answer` or a stutter |
| `SupervisorProofs!OvertakenGoalIsHalted`, `ContactStaysTheReason` | `HaltReachesRunning`, `ContactReasonSticks` | `DoomInv`: an overtaken goal is marked in the inbox (`DoomQueue`), or in the sampler's hands with a halt pending or a mark (`DoomPopped`), or running with a halt pending or being carried out (`DoomRunning`), until it has its result (`DoomPlaced`) |
| `SupervisorProofs!TrippedGoalsAreHalted` | `TrippedNeverRuns` | `TripInv`: once the latch is down or on its way (`ClearWay`), every goal the trip found has its result or was overtaken by a halt; the operator gets to `ClearWay` only through `HaltQueue` |
| `SupervisorProofs!SeenTripClosesStream`, `OutageIsQuiet` | `TripClosesStream` (of the trips the sampler takes for an edge; the claim about all of them, `RetripIsAnEdge`, is violated, section 6), `DownIsQuiet` | `EdgeInv`: the edge taken last is of this trip or an older one, and a stream opens only with the latch down; `DownInv`: while the arm is down its thread is at a known place of the halt, and what is behind that place is closed |
| `SupervisorProofs!OutageLinesUpPosition` | `DownLinesUpPosition` | `LineInv`: every goal waiting in an outage was overtaken by a halt; a mode other than position that is recorded or requested has somebody about to put it right: a pending halt, the sampler's own, or a client at its re-check |
| `SupervisorProofs!IntegrationIsLive`, `OpenSessionIsArmed` | `IntegrateIsLive`, `OpenIsSupervised` (the second with one backend thread, `OneClient`) | `CommandInv`: an opening session drops the old command; `ArmedInv`: whoever is about to hold the mode has closed the session first |
| `MotionProofs!ProgressBounded` | `ProgressWithinScale`, for every plan, every set of scales and every delay of the sampler | `ClockInv`: the clock and what the sampler still owes it are within the goal's own scale |
| `MotionProofs!Types`, `CommandStaysClose` | `TypeOK`; `CommandBounded` in the four modes, for every turn, lead, step, limit, plan and push | `MotionInv`: `PlaceInv` (measurement and references in a turn, or between the limits), `ScaleInv`, `PlanInv` (the running goal is one that was accepted and its clock before the end of its plan), `StreamInv`. Lemmas on the operators: what `wrap_to_pi` returns (`WrapIs`), the arc as the least of `\|a - b + 2 * Half * k\|` (`DistanceIs`), then one per branch of `NextRef`: a leashed step, a free one, a dragged anchor |
| `MotionProofs!AbortsByTheArc` | a tick aborts exactly if the tolerance is set and `Distance` is over it, and a goal that is done leaves no velocity: `AbortsOnlyDiverged` but for `disturbed > 0` | `DistanceIs`: the wrapped difference the code compares is the arc |
| `MotionProofs!FeedsTheMotion` | `FeedforwardIsTheMotion`, for every plan, scale and delay whose velocities a scale divides (`GridAssumption`) | `LineInv`: the target of a running goal is the sample of its last tick, no stream has written over it; the waypoints of a uniform plan are on a line (`LineKnots`, the least waypoint that is not), and on a line the cubic and the quintic through two waypoints are that line (`CubicLine`, `QuinticLine`), so every sample is (`SampleLine`) |
| `ProgramProofs!MainTypeCorrect`, `TornDownInOrder`, `ReportsAreComplete` | `TypeOK`, `TeardownInOrder`, `ReportIsComplete`, for every program, command line and number of samples | `ScriptsOrdered`: each script is in order, seen step by step (`Ordered`: a start is followed by its join, taking the arm by giving it back; no way out behind either, no owner behind the giving back, no `run` behind the drain's flag). Order is kept by the rest of a script (`OrderedTail`), so `MainInv` need only relate what was done to what is left: `ArmInv`, `ThreadInv`, `DrainInv` |
| `ProgramProofs!SessionKept` | `KeepsSession`, the refinement of `ArmSession` | `SessionStep`: each step maps to `Take`, `Give`, `End` or a stutter; `TakesOnce` and `ArmInv` for the guards of `Take` and `End` |
| `ProgramProofs!AcknowledgementIsTrue` | `AckedIsDone`, for every program and any number of controls | `LinkInv`: a number in the acknowledgement, on the wire or at the client, is that of a control carried out |

The assumptions are the `ASSUME`s of the modules: constants have their types, names that
must differ do, and limits the code relies on are positive. `Handover` also assumes
`OneAdmin`, and `OpenSessionIsArmed` assumes `OneClient`; without them the properties fail
(section 6). `NaNAssumption` says that NaN is not one of the scales. `StaleHeld` assumes `NoDefault`, as the
parameters of the three modes have it (`cmd_timeout_s = 0.0`); torque, which keeps 0.1 s, is in
section 6. `SnapshotAssumption` says that there is a reader and a word to read.
`RingAssumption` and `DurationsAssumption` keep a capacity and a duration in nanoseconds within 2^30, where
the code has 32 bits and more (the programs ask for 2^13 or 2^16 slots; 2^30 ns is a second, a cycle is a millisecond).
`LeadAssumption` says that a lead and a step together are less than half a turn: `max_following_error` is 0.35 rad,
the velocity lead 0.1 rad, the float band 2 degrees, a step at the rated speed a few milliradians; with a lead of
half a turn the short way round is not defined. `MotionAssumption` lets plans be any sequences of integer
waypoints; `NoGoalAssumption` says that no goal is the value that stands for none.
`GridAssumption` is about units: the code divides doubles, the model integers, so the velocity of a plan of
constant velocity is a multiple of `Full`, the denominator of the speed scales, and a scaled one is exact.
`ProgramsAssumption` names the eleven programs.

Why stronger invariants: none of the properties is inductive. `StopIsFinal`, for one, does
not exclude a delegate in flight that would move the arm on its next step; `FollowsLatest`
says nothing of the cycle between its loads.

Model-checked only:

- every liveness property (`StopNeverWaits`, `AnswersEveryGoal`, `ClearIsAnswered`, `StopReturns`,
  `RequestTaken`, `Arrives`, `EndsInTime`, `ControlAcked`): liveness under fairness is out of TLAPS's reach;
- that only a disturbed arm is aborted (`AbortsOnlyDiverged`): it depends on how closely the loop tracks at the speeds
  and tolerances of the instance.

## 6. What the code does that it says it does not

Each is a run that TLC ends with a counterexample:

- **`MCArbiter_swap`** (`arbiter.cpp:48`): two `grant()`s that both found no owner (or halted the
  one they found) install one after the other. The second takes the arm from the first with no
  revoke and no halt, while the first one's commands move it; `arbiter.cpp:40` says "never a
  silent swap under a moving arm". `SwapIsARace` says that this is the only way it happens.
- **`MCSupervisor_retrip`** (`supervisor.cpp:207`): "a re-trip after a clear is a new edge even if
  every sample here read latched" (`:205-206`) is not so if the sampler consumed the clear's flag
  before the RT loop unlatched: it takes the old latch for the new edge, and the next trip, which
  it reads as the same, leaves an open stream open.
- **`MCSupervisor_writers`** (`supervisor.cpp:848`): a stream opened while a goal waits for
  its mode runs together with the goal: two writers of one double buffer.
- **`MCArmLink_handback`** (`kortex_transport.cpp:479`): a hand-back lost with the connection is
  not made up for on the next one; `kFaulted` is published with the arm in low-level servoing.
- **`MCMotion_cancel`** (`supervisor.cpp:365`): a cancel writes no hold, so the impedance mode keeps
  the last target of a planned goal with the velocity (and acceleration) it had, and goes on
  feeding them forward at a reference that stands still; `supervisor.cpp:356-357` says the arm
  "holds where it was". A path-tolerance abort leaves the same target.

Three more are stated as properties and violated on the instance named:

- `StampIsWhole` in `MCRtChannels` (`gripper_controller.cpp:11-13`): `set_target` fills the
  inactive buffer without waiting for a stamp that still copies it. A call that publishes and a
  second one, within the nanoseconds of one stamp, give the arm a mix of two commands, and the
  transport re-sends it; `gripper_controller.h:21-22` says "Published through a double-buffer with a
  release store, so the RT reader never observes a torn command". `WireMovesForward` excepts
  that stamp by name (`torn`), and holds it to fields that some call asked for.
- `RecordedModeRuns` in `MCSupervisor_writers` with `StreamKind <- VelStream` (`supervisor.cpp:462`):
  two threads that switch modes may leave the record of the running mode at the other's mode,
  against `supervisor.h:226-231`.
- `StoppedForGood` in `MCRtChannels` with `Modes = {"torque"}` (`joint_torque_mode.cpp:90`):
  closing a torque session whose deadline was shorter than the mode's own brings the dead
  client's feedforward back for a while.

Windows that were met while modelling and have no run of their own:

- Arbiter. "Nothing can slip through the window" once the latch is set (`arbiter.cpp:74`) is
  true of admissions, not of a delegate admitted before: it may move the arm after the first halt, and
  the second one ends that, so a stop has to complete before it is final. That second halt runs under
  `m_` (`arbiter.cpp:102`), which `arbiter.h:24` says never happens. With a revoker that is not the granting thread a new grant can overtake
  the revoke's halt, and a new owner starts while the old one's motion goes on
  (`docs/guide/arbitration.md:65` says "always starts from a stationary arm").
- Supervisor. A deadline is looked at once per sample and may pass without a close if a
  setpoint comes in between (`supervisor.cpp:259`, `supervisor.h:162`). With two backend threads, the second
  one's refused open disarms the first one's watchdog (`supervisor.cpp:949`). A `clear_contact` that
  is past its halt when a new contact comes clears that contact too, and the goals accepted in between go
  on (`supervisor.cpp:784-786`); `tripped` leaves them out for that reason. A cancel ends whatever
  runs when it is drained; the id it carries is not read (`supervisor.cpp:355`).
- ArmLink. With two operators, the second's request can be taken for a fault that appears
  while the first's clear is under way (`arm_link.cpp:52`).
- RtExecutor. A switch on contact that needs no handshake keeps the old mode's time of the last
  `compute` (`rt_executor.cpp:258-266`, `rt_executor.h:84-90`). A request consumed by a switch that
  throws is gone.
- StreamedMode. Two setters within one copy of a buffer give a mix of two commands
  (`ReadsWhole`, for `joint_impedance_mode.h:139` and `gripper_controller.h:23`, whose comments say
  never torn). An IK solve that outlasts the close latches the fault again and the next session is
  closed for it (`FaultIsThisSessions`, `joint_position_mode.h:105`). Velocity, in a cycle that sees the
  source of a command its watchdog has not counted, runs its previous target of that kind once
  more (`joint_velocity_mode.cpp:124`); `FollowsLatest` and `StaleStaysHeld` except that cycle by name
  (`early`). `joint_torque_mode.cpp:50` says a command set around the entry is adopted "on the
  very next cycle either way"; one whose count the reset adopts is not.
- State pump. A snapshot can be published twice: the version is read before the load
  (`supervisor.cpp:119`), so a store in between makes the next look see a version it has in fact
  published; and `NanoHistogram` reads a duration of 0 as 1 ns.
- Programs. No `main()` catches what `run()` or `connect()` throws: `std::terminate`, the arm left in
  low-level servoing. Countdowns that print "Ctrl-C aborts." and do not look at the flag before
  they take the arm: `joint_position_check.cpp:367`, `velocity_probe.cpp:294`,
  `joint_torque_check.cpp:240`, `stream_check.cpp:340`. After its hard cap `joint_position_check` gives
  the arm back and may then wait for ever in `publisher.join()` (`:453`).
- Teleop. A shutdown sets `g_stop` before its number is stored, so its acknowledgement may never be
  sent, and a freeze that found no snapshot is acknowledged like one that did
  (`teleop_socket_server.cpp:411` "Acknowledge regardless"). `clear_faults()` runs on the rx thread
  while the loop exchanges on the same transport (`:395`). A datagram's `h.seq` and `flags` are not
  read: a late pose target is followed like a new one.

## 7. Not modelled

- Real arithmetic: impedance and torque laws, dynamics, differential IK, observer, sampled
  accelerations. Where their outcome steers control (a solve that converges, a joint over its
  threshold) it is a choice. References, leashes, limits, scales and the trajectory's polynomials
  are modelled for one joint in integers; a uniform scale over seven joints
  (`limit_joint_velocity`) is a clamp on one.
- Time but as cycles and as "the deadline has passed".
- The memory model below atomics: the code's publishing stores are releases and its loads
  acquires, so the interleavings of the accesses are all the behaviours there are. A buffer
  read while it is written is the one race, and it shows as a mix.
- Wrap-around of counters (`uint64_t` command counts; `seq_` wraps after 24 days inside one load).
- The settings: gains and thresholds, and their validation.
- I/O, kernel calls, CSV, logs, wording of reasons, what the programs measure and report. The
  teleop packets that move a target or set gains, and everything a malformed one is, are one
  datagram that is not acknowledged.

## 8. Plan

Written so far, in this order: Arbiter with EmergencyStop; Supervisor with GoalLifecycle;
KortexTransport with ArmLink; ContactMonitor with RtExecutor; CommandWatchdog with
StreamedMode; Register, Seqlock, SampleRing and GripperLine with RtChannels; ArmSession,
TeleopLink and ProgramScripts with Programs; JointReference and TrajectoryExecutor with Motion.
What is left, most important first:

1. KortexTransport's mode switch: the order of actuators, the frames pumped between, the hold.
2. Compositions: Arbiter over Supervisor (a stop ends goals and streams as well as commands);
   ArmLink over RtExecutor (every way out of `run()` is dealt with; a latched contact
   survives a reconnect).
