---------------------------- MODULE ProgramScripts ----------------------------
(* The programs under apps/ that drive an arm: which command lines each one    *)
(* accepts, and what its main() then does, in order. A step is a tuple; what   *)
(* it does is in Programs. Everything that is not control (what is printed,    *)
(* measured, reported) is left out.                                            *)
EXTENDS Sequences

Start(t) == <<"start", t>>                     \* std::thread t
Join(t)  == <<"join", t>>
When(c, step) == IF c THEN step ELSE <<"skip">>

CommandLine == <<"args">>
Connect == <<"connect">>
Receive == <<"receive">>
Servo == <<"servo">>
Run == <<"run">>
Shutdown == <<"shutdown">>
StopDrain == <<"stop_drain">>
Watch == <<"watch">>
Loop == <<"loop">>
StopRt == <<"stop_rt">>
Sleep == <<"sleep">>
Socket == <<"socket">>
Raise == <<"raise">>
Countdown(onAbort) == <<"countdown", onAbort>> \* a sleep, and where a stop seen after it leads
Ignored == <<<<"ignored">>>>                     \* the stop is not looked at
Open(onRefusal) == <<"open", onRefusal>>       \* a stream session, and where a refusal leads
-----------------------------------------------------------------------------
(* benchmark_grav_comp, benchmark_cartesian_impedance: a read-only loop, or   *)
(* the drain first, then the arm. timed: --duration above zero. The loop of   *)
(* the benchmarks runs on the main thread; the report is behind the last join. *)
GravCompArgs == [dry : BOOLEAN, timed : BOOLEAN]
GravCompDry == <<CommandLine, Connect, Watch, Shutdown>>
GravCompMain(timed) ==
    <<CommandLine, Start("drain"), Connect, Servo, When(timed, Start("watchdog")), Run, Shutdown,
      When(timed, Join("watchdog")), StopDrain, Join("drain")>>

CartesianImpedanceArgs == [dry : BOOLEAN, timed : BOOLEAN]
CartesianImpedanceDry == <<CommandLine, Connect, Watch, Shutdown>>
CartesianImpedanceMain(timed) ==
    <<CommandLine, Start("drain"), Connect, Servo, When(timed, Start("watchdog")), Run, Shutdown,
      When(timed, Join("watchdog")), StopDrain, Join("drain")>>

(* benchmark_joint_velocity always publishes, benchmark_joint_impedance with  *)
(* --track; neither has a dry run.                                            *)
JointVelocityArgs == {o \in [dry : BOOLEAN, timed : BOOLEAN, kind : {"joint", "twist"}] : ~o.dry}
JointVelocityMain(timed) ==
    <<CommandLine, Start("drain"), Connect, Servo, Start("publisher"), When(timed, Start("watchdog")),
      Run, Shutdown, When(timed, Join("watchdog")), Join("publisher"), StopDrain, Join("drain")>>

JointImpedanceArgs == {o \in [dry : BOOLEAN, timed : BOOLEAN, track : BOOLEAN] : ~o.dry}
JointImpedanceMain(timed, track) ==
    <<CommandLine, Start("drain"), Connect, Servo, When(track, Start("publisher")),
      When(timed, Start("watchdog")), Run, Shutdown, When(timed, Join("watchdog")),
      When(track, Join("publisher")), StopDrain, Join("drain")>>
-----------------------------------------------------------------------------
(* joint_position_check: one target, or --sequence, which gets a duration     *)
(* when none was given. A delta needs a joint, and a joint excludes a sequence. *)
JointPositionArgs ==
    LET Given == [dry : BOOLEAN, sequence : BOOLEAN, joint : {"none", "named", "out_of_range"},
                  delta : BOOLEAN, duration : {"default", "given", "zero"}, fromInRange : BOOLEAN]
        Refused(o) == \/ o.joint = "out_of_range" \/ ~o.fromInRange
                      \/ o.delta /\ ~o.sequence /\ o.joint = "none"
                      \/ o.sequence /\ o.joint = "named"
    IN  {[dry |-> o.dry, sequence |-> o.sequence, timed |-> o.duration # "zero"] :
            o \in {g \in Given : ~Refused(g)}}
JointPositionDry(sequence) == <<CommandLine, Connect, IF sequence THEN Receive ELSE Watch, Shutdown>>
JointPositionMain(timed) ==
    <<CommandLine, Connect, Receive, Countdown(Ignored), Servo, Start("drain"), Start("publisher"),
      When(timed, Start("watchdog")), Run, Shutdown, When(timed, Join("watchdog")),
      Join("publisher"), StopDrain, Join("drain")>>
-----------------------------------------------------------------------------
(* The checks that run the loop on a thread of its own and stop it by a flag  *)
(* of its own. Their guard rails (speed, travel, duration, the watchdog kept  *)
(* fresh) refuse a command line before anything is connected.                 *)
VelocityHoldArgs ==
    LET Given == [dry : BOOLEAN, phase : {"none", "hold", "stale", "track"}, inBounds : BOOLEAN]
    IN  {o \in Given : (o.dry \/ o.phase # "none") /\ o.inBounds}
VelocityHoldDry == <<CommandLine, Connect, Receive, Shutdown>>
MutVelocityHoldMain(phase) ==                       \* joins before it raises the flag
    <<CommandLine, Connect, Receive, Countdown(<<Shutdown>>), Servo, Start("rt"), Loop,
      When(phase # "hold", Loop), When(phase = "track", Loop), Sleep, Join("rt"), StopRt, Shutdown>>
\* The phases are loops: stale has a second one, track a third.
VelocityHoldMain(phase) ==
    <<CommandLine, Connect, Receive, Countdown(<<Shutdown>>), Servo, Start("rt"), Loop,
      When(phase # "hold", Loop), When(phase = "track", Loop), Sleep, StopRt, Join("rt"), Shutdown>>

VelocityProbeArgs == {o \in [dry : BOOLEAN, inBounds : BOOLEAN] : o.inBounds}
VelocityProbeDry == <<CommandLine, Connect, Receive, Shutdown>>
VelocityProbeMain ==
    <<CommandLine, Connect, Receive, Countdown(Ignored), Servo, Start("rt"), Loop, StopRt, Join("rt"),
      Shutdown>>

JointTorqueArgs == {o \in [dry : BOOLEAN, inBounds : BOOLEAN] : o.inBounds}
JointTorqueDry == <<CommandLine, Connect, Receive, Shutdown>>
JointTorqueMain ==
    <<CommandLine, Connect, Receive, Countdown(Ignored), Servo, Start("rt"), Loop, StopRt, Join("rt"),
      Shutdown>>
-----------------------------------------------------------------------------
(* trajectory_run: the entry is read in a dry run too, to plan from.          *)
TrajectoryArgs ==
    LET Given == [dry : BOOLEAN, joint : {"none", "named", "out_of_range"}, delta : BOOLEAN,
                  inBounds : BOOLEAN, scalesInRange : BOOLEAN]
    IN  {o \in Given : /\ o.joint # "out_of_range" /\ (o.delta => o.joint = "named")
                       /\ o.inBounds /\ o.scalesInRange}
TrajectoryDry == <<CommandLine, Connect, Receive, Shutdown>>
TrajectoryMain ==
    <<CommandLine, Connect, Receive, Countdown(<<Shutdown>>), Servo, Start("drain"), Start("publisher"),
      Run, Shutdown, Join("publisher"), StopDrain, Join("drain")>>
-----------------------------------------------------------------------------
(* stream_check: a session of a Supervisor; a refused open goes home.         *)
PairSupported == {<<"joint-position", "position">>, <<"joint-position", "impedance">>,
                  <<"pose", "position">>, <<"pose", "impedance">>, <<"joint-torque", "torque">>}
StreamArgs ==
    {o \in [dry : BOOLEAN, pair : {"joint-position", "pose", "joint-torque"} \X
                                  {"position", "impedance", "torque"}, inBounds : BOOLEAN] :
        o.pair \in PairSupported /\ o.inBounds}
StreamDry == <<CommandLine, Connect, Receive, Shutdown>>
MutStreamRefused == <<StopRt, Join("rt"), Join("supervisor")>>   \* plain return: the arm is kept
StreamRefused == <<StopRt, Join("rt"), Join("supervisor"), Shutdown>>
StreamMain ==
    <<CommandLine, Connect, Receive, Countdown(Ignored), Servo, Start("supervisor"), Start("rt"),
      Open(StreamRefused), Loop, Sleep, StopRt, Join("rt"), Join("supervisor"), Shutdown>>
-----------------------------------------------------------------------------
(* teleop_socket_server: the sockets before the arm, both threads joined      *)
(* before it is given back.                                                   *)
TeleopArgs == {[dry |-> FALSE, jointMode |-> j] : j \in BOOLEAN}
MutTeleopMain ==                                  \* gives the arm back while the rx thread runs
    <<CommandLine, Socket, Connect, Servo, Receive, Start("rx"), Start("feedback"), Run, Shutdown, Raise,
      Join("rx"), Join("feedback")>>
TeleopMain ==
    <<CommandLine, Socket, Connect, Servo, Receive, Start("rx"), Start("feedback"), Run, Raise,
      Join("rx"), Join("feedback"), Shutdown>>
=============================================================================
