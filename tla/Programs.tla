------------------------------- MODULE Programs -------------------------------
(* The programs under apps/: main() of each one (ProgramScripts) with the      *)
(* threads it starts, Ctrl-C at any point, and exceptions, which none of them  *)
(* catches: an uncaught one ends the process and leaves the arm as it is.      *)
EXTENDS ProgramScripts, TeleopLink

CONSTANTS ProgramNames,      \* those to be run
          MaxSamples         \* bound: cycles whose sample is kept
ASSUME ProgramsAssumption ==
    /\ ProgramNames \subseteq
          {"benchmark_grav_comp", "benchmark_cartesian_impedance", "benchmark_joint_velocity",
           "benchmark_joint_impedance", "joint_position_check", "velocity_hold_check", "velocity_probe",
           "joint_torque_check", "trajectory_run", "stream_check", "teleop_socket_server"}
    /\ MaxSamples \in Nat

VARIABLES prog, opts,        \* the program and its options
          todo,              \* the steps main() has not done yet
          arm, end,          \* what became of the arm; "running", "exited" or "aborted"
          stop,              \* the flag of a loop that runs on its own thread
          threads,           \* none, live, ended or joined
          draining, pushed, drained  \* the drain thread's flag, samples pushed and drained
mainVars == <<prog, opts, todo, arm, end, stop, threads, draining, pushed, drained>>
vars == <<mainVars, linkVars, g_stop>>

Args(p) ==
    CASE p = "benchmark_grav_comp" -> GravCompArgs
      [] p = "benchmark_cartesian_impedance" -> CartesianImpedanceArgs
      [] p = "benchmark_joint_velocity" -> JointVelocityArgs
      [] p = "benchmark_joint_impedance" -> JointImpedanceArgs
      [] p = "joint_position_check" -> JointPositionArgs
      [] p = "velocity_hold_check" -> VelocityHoldArgs
      [] p = "velocity_probe" -> VelocityProbeArgs
      [] p = "joint_torque_check" -> JointTorqueArgs
      [] p = "trajectory_run" -> TrajectoryArgs
      [] p = "stream_check" -> StreamArgs
      [] p = "teleop_socket_server" -> TeleopArgs
Script(p, o) ==
    CASE p = "benchmark_grav_comp" -> IF o.dry THEN GravCompDry ELSE GravCompMain(o.timed)
      [] p = "benchmark_cartesian_impedance" ->
            IF o.dry THEN CartesianImpedanceDry ELSE CartesianImpedanceMain(o.timed)
      [] p = "benchmark_joint_velocity" -> JointVelocityMain(o.timed)
      [] p = "benchmark_joint_impedance" -> JointImpedanceMain(o.timed, o.track)
      [] p = "joint_position_check" -> IF o.dry THEN JointPositionDry(o.sequence) ELSE JointPositionMain(o.timed)
      [] p = "velocity_hold_check" -> IF o.dry THEN VelocityHoldDry ELSE VelocityHoldMain(o.phase)
      [] p = "velocity_probe" -> IF o.dry THEN VelocityProbeDry ELSE VelocityProbeMain
      [] p = "joint_torque_check" -> IF o.dry THEN JointTorqueDry ELSE JointTorqueMain
      [] p = "trajectory_run" -> IF o.dry THEN TrajectoryDry ELSE TrajectoryMain
      [] p = "stream_check" -> IF o.dry THEN StreamDry ELSE StreamMain
      [] p = "teleop_socket_server" -> TeleopMain

ThreadNames == {"drain", "watchdog", "publisher", "rt", "supervisor", "rx", "feedback"}
Init ==
    /\ prog \in ProgramNames /\ opts \in Args(prog)
    /\ todo = Script(prog, opts)
    /\ arm = "free" /\ end = "running" /\ stop = FALSE
    /\ threads = [t \in ThreadNames |-> "none"]
    /\ draining = TRUE /\ pushed = 0 /\ drained = 0
    /\ g_stop = FALSE /\ LinkInit

Running == end = "running"
At(s) == Running /\ todo # <<>> /\ Head(todo)[1] = s
Timed == "timed" \in DOMAIN opts /\ opts.timed
-----------------------------------------------------------------------------
(* main(), one step at a time.                                               *)
Done(s) == At(s) /\ todo' = Tail(todo)
Rest == <<prog, opts>>
\* A bad option, model or address, or a socket that cannot be bound: nothing was connected.
Refuses ==
    /\ (At("args") \/ At("socket"))
    /\ end' = "exited"
    /\ UNCHANGED <<Rest, todo, arm, stop, threads, draining, pushed, drained, linkVars, g_stop>>
Passes ==
    /\ \/ Done("args") \/ Done("socket") \/ Done("connect") \/ Done("receive") \/ Done("sleep")
       \/ Done("watch") /\ (g_stop \/ Timed)
       \/ Done("loop") \/ Done("open") \/ Done("skip")
    /\ UNCHANGED <<Rest, arm, end, stop, threads, draining, pushed, drained, linkVars, g_stop>>
Throws ==
    /\ \/ At("connect") \/ At("receive") \/ At("servo") \/ At("run") \/ At("watch")
       \/ Running /\ threads["rt"] = "live"
    /\ end' = "aborted"
    /\ arm' \in {arm} \cup (IF At("servo") THEN {"taken"} ELSE {})
    /\ UNCHANGED <<Rest, todo, stop, threads, draining, pushed, drained, linkVars, g_stop>>
CountsDown ==
    /\ At("countdown")
    /\ LET onAbort == Head(todo)[2] IN
         todo' = IF g_stop /\ onAbort # Ignored THEN onAbort ELSE Tail(todo)
    /\ UNCHANGED <<Rest, arm, end, stop, threads, draining, pushed, drained, linkVars, g_stop>>
SessionRefused ==
    /\ At("open") /\ todo' = Head(todo)[2]
    /\ UNCHANGED <<Rest, arm, end, stop, threads, draining, pushed, drained, linkVars, g_stop>>
Servos ==
    /\ Done("servo") /\ arm' = "taken"
    /\ UNCHANGED <<Rest, end, stop, threads, draining, pushed, drained, linkVars, g_stop>>
Starts ==
    /\ Done("start")
    /\ LET t == Head(todo)[2] IN
         /\ threads' = [threads EXCEPT ![t] = "live"]
         /\ rx' = IF t = "rx" THEN [rx EXCEPT !.at = "recv"] ELSE rx
         /\ feedback' = IF t = "feedback" THEN [feedback EXCEPT !.at = "top"] ELSE feedback
    /\ UNCHANGED <<Rest, arm, end, stop, draining, pushed, drained,
                   client, inbound, outbound, lastControlSeq, done, g_stop>>
Ended(t) == CASE t = "rx" -> rx.at = "ended" [] t = "feedback" -> feedback.at = "ended"
              [] OTHER -> threads[t] = "ended"
Joins ==
    /\ Done("join")
    /\ LET t == Head(todo)[2] IN Ended(t) /\ threads' = [threads EXCEPT ![t] = "joined"]
    /\ UNCHANGED <<Rest, arm, end, stop, draining, pushed, drained, linkVars, g_stop>>
RunReturns ==
    /\ Done("run") /\ g_stop
    /\ UNCHANGED <<Rest, arm, end, stop, threads, draining, pushed, drained, linkVars, g_stop>>
Stops ==
    /\ \/ Done("stop_rt") /\ stop' = TRUE /\ UNCHANGED <<draining, g_stop>>
       \/ Done("stop_drain") /\ draining' = FALSE /\ UNCHANGED <<stop, g_stop>>
       \/ Done("raise") /\ g_stop' = TRUE /\ UNCHANGED <<stop, draining>>
    /\ UNCHANGED <<Rest, arm, end, threads, pushed, drained, linkVars>>
ShutsDown ==
    /\ Done("shutdown") /\ arm' = "given"
    /\ UNCHANGED <<Rest, end, stop, threads, draining, pushed, drained, linkVars, g_stop>>
Exits ==
    /\ Running /\ todo = <<>> /\ end' = "exited"
    /\ UNCHANGED <<Rest, todo, arm, stop, threads, draining, pushed, drained, linkVars, g_stop>>
Main == \/ Refuses \/ Passes \/ CountsDown \/ SessionRefused \/ Servos \/ Starts \/ Joins
        \/ RunReturns \/ Stops \/ ShutsDown \/ Exits
-----------------------------------------------------------------------------
(* The other threads, and the operator at the keyboard.                      *)
Live(t) == Running /\ threads[t] = "live"
Ends(t) == Live(t) /\ threads' = [threads EXCEPT ![t] = "ended"]
Others == <<Rest, todo, arm, end, stop, draining>>
Interrupt ==
    /\ Running /\ ~At("args") /\ ~g_stop /\ g_stop' = TRUE
    /\ UNCHANGED <<mainVars, linkVars>>
Cycle ==
    /\ \/ At("run")
       \/ Live("rt") /\ ~stop
    /\ threads["drain"] # "none" /\ pushed < MaxSamples /\ pushed' = pushed + 1
    /\ UNCHANGED <<Others, threads, drained, linkVars, g_stop>>
RtEnds ==
    /\ Ends("rt") /\ stop
    /\ UNCHANGED <<Others, pushed, drained, linkVars, g_stop>>
MutDrains ==         \* takes a sample from an empty ring
    /\ Live("drain") /\ drained < MaxSamples + 1 /\ drained' = drained + 1
    /\ UNCHANGED <<Others, threads, pushed, linkVars, g_stop>>
Drains ==
    /\ Live("drain") /\ drained < pushed /\ drained' = drained + 1
    /\ UNCHANGED <<Others, threads, pushed, linkVars, g_stop>>
MutDrainEnds ==      \* no final drain
    /\ Ends("drain") /\ ~draining
    /\ UNCHANGED <<Others, pushed, drained, linkVars, g_stop>>
\* Not before the final drain found the ring empty.
DrainEnds ==
    /\ Ends("drain") /\ ~draining /\ drained = pushed
    /\ UNCHANGED <<Others, pushed, drained, linkVars, g_stop>>
WatchdogEnds ==      \* its deadline passed, or somebody else stopped the program
    /\ Ends("watchdog") /\ g_stop' = TRUE
    /\ UNCHANGED <<Others, pushed, drained, linkVars>>
\* A stream of setpoints ends with the program, one target when it is published;
\* a sequence and a trajectory end the program, as does a trajectory refused.
PublisherEnds ==
    /\ Ends("publisher")
    /\ \/ /\ prog \in {"benchmark_joint_velocity", "benchmark_joint_impedance"}
          /\ g_stop /\ UNCHANGED g_stop
       \/ prog = "joint_position_check" /\ g_stop' = (g_stop \/ opts.sequence)
       \/ prog = "trajectory_run" /\ g_stop' = TRUE
    /\ UNCHANGED <<Others, pushed, drained, linkVars>>
SupervisorEnds ==    \* Supervisor::stop(), which main() calls to join its threads
    /\ Ends("supervisor") /\ At("join") /\ Head(todo)[2] = "supervisor"
    /\ UNCHANGED <<Others, pushed, drained, linkVars, g_stop>>
Linked(A) == Running /\ rx.at # "off" /\ A /\ UNCHANGED mainVars
Link == Linked(Rx \/ Feedback \/ Network)

Stopped == ~Running /\ UNCHANGED vars
Next == \/ Main \/ Throws \/ Interrupt \/ Cycle \/ RtEnds \/ Drains \/ DrainEnds \/ WatchdogEnds
        \/ PublisherEnds \/ SupervisorEnds \/ Link \/ Stopped

(* Every thread runs, the loops that wait for a time see it pass, and run()    *)
(* sees its flag. Nothing is assumed of the publisher of joint_position_check, *)
(* which may hang in its sequence, nor of Ctrl-C. A datagram that is sent for   *)
(* ever is not lost for ever.                                                  *)
Fairness ==
    /\ WF_vars(Main) /\ WF_vars(RtEnds) /\ WF_vars(Drains) /\ WF_vars(DrainEnds) /\ WF_vars(WatchdogEnds)
    /\ WF_vars(SupervisorEnds) /\ WF_vars(prog # "joint_position_check" /\ PublisherEnds)
    /\ WF_vars(Linked(ClientResends)) /\ WF_vars(Linked(ClientHears(client.seq)))
    /\ SF_vars(Linked(RxTakes(Control)))
    /\ WF_vars(Linked(RxObeys)) /\ WF_vars(Linked(RxAcks)) /\ WF_vars(Linked(RxEnds))
    /\ WF_vars(Linked(FeedbackBegins)) /\ WF_vars(Linked(FeedbackEnds))
    /\ WF_vars(Linked(FeedbackSends(TRUE) \/ FeedbackSends(FALSE)))
    /\ SF_vars(Linked(feedback.seq = client.seq /\ FeedbackSends(FALSE)))
Spec == Init /\ [][Next]_vars /\ Fairness
-----------------------------------------------------------------------------
TypeOK ==
    /\ arm \in {"free", "taken", "given"} /\ end \in {"running", "exited", "aborted"}
    /\ threads \in [ThreadNames -> {"none", "live", "ended", "joined"}]
    /\ drained <= pushed /\ pushed <= MaxSamples /\ g_stop \in BOOLEAN /\ stop \in BOOLEAN

(* However it ends short of an exception - a refused option, an aborted        *)
(* countdown, a refused session or trajectory, Ctrl-C, the end of its time - a *)
(* program takes the arm at most once, a dry run never does, and it exits only *)
(* after safe_shutdown() if it took it.                                        *)
Session == INSTANCE ArmSession WITH dry <- opts.dry, over <- end = "exited"
KeepsSession == Session!Spec

(* The arm is given back only when nobody drives it or answers for it any      *)
(* more, and a program that exits has joined every thread it started (a        *)
(* std::thread that is not joined would end it by std::terminate).             *)
TeardownInOrder ==
    /\ arm = "given" => \A t \in {"rt", "rx", "feedback", "supervisor"} : threads[t] \in {"none", "joined"}
    /\ end = "exited" => \A t \in ThreadNames : threads[t] \in {"none", "joined"}

(* The report of a benchmark is over every sample the loop kept: also those    *)
(* pushed between the drain thread's last look and its end.                    *)
ReportIsComplete == end = "exited" /\ threads["drain"] = "joined" => drained = pushed

(* A program that is stopped, or whose command line bounds its time, comes to  *)
(* its end; joint_position_check gives the arm back even if its sequence       *)
(* thread hangs.                                                               *)
Bounded == IF prog \in {"benchmark_grav_comp", "benchmark_cartesian_impedance", "benchmark_joint_velocity",
                        "benchmark_joint_impedance", "joint_position_check"} THEN opts.timed
           ELSE prog # "teleop_socket_server"
EndsInTime == (Bounded \/ g_stop) ~> (~Running \/ (prog = "joint_position_check" /\ arm = "given"))

(* A teleop client that resends until it is acknowledged stops in the end,     *)
(* over a network that loses and reorders: unless the program stops, and a     *)
(* shutdown makes it stop before it is sure to answer.                         *)
ControlAcked == ~client.acked ~> (client.acked \/ g_stop \/ ~Running)
=============================================================================
