----------------------------- MODULE MCOwnership -----------------------------
(***************************************************************************)
(* Instances of Programs and Arbiter for TLC: who has the arm, as a process *)
(* takes it and gives it back, and who may command it meanwhile.  The two   *)
(* modules have no variable in common, so nothing is gained by interleaving *)
(* them: a program runs first, and one that refuses its command line leaves *)
(* the rest of the behaviour to the arbiter.  The steps are listed one by   *)
(* one, for TLC to count each.                                              *)
(***************************************************************************)
EXTENDS Programs, Arbiter

AllPrograms ==
    {"benchmark_grav_comp", "benchmark_cartesian_impedance", "benchmark_joint_velocity",
     "benchmark_joint_impedance", "joint_position_check", "velocity_hold_check", "velocity_probe",
     "joint_torque_check", "trajectory_run", "stream_check", "teleop_socket_server"}

VARIABLE part     \* which of the two moves
partVars == <<part, vars, arbiterVars>>

\* The arbiter begins in both of its modes, before one program only.
Short == prog = "velocity_probe" /\ opts = CHOOSE o \in Args(prog) : TRUE
PartInit == part = "program" /\ Init /\ ArbiterInit /\ (Short \/ mode = "kEnforced")
HandOver ==
    /\ part = "program" /\ Short /\ end = "exited" /\ todo = Script(prog, opts)
    /\ part' = "arbiter" /\ UNCHANGED <<vars, arbiterVars>>

Runs(A) == part = "program" /\ A /\ UNCHANGED <<part, arbiterVars>>
Arbitrates(A) == part = "arbiter" /\ A /\ UNCHANGED <<part, vars>>

ProgramNext ==
    \/ Runs(Refuses) \/ Runs(Passes) \/ Runs(CountsDown) \/ Runs(SessionRefused) \/ Runs(Servos)
    \/ Runs(Starts) \/ Runs(Joins) \/ Runs(RunReturns) \/ Runs(Stops) \/ Runs(ShutsDown) \/ Runs(Exits)
    \/ Runs(Throws) \/ Runs(Interrupt) \/ Runs(Cycle) \/ Runs(RtEnds) \/ Runs(Drains) \/ Runs(DrainEnds)
    \/ Runs(WatchdogEnds) \/ Runs(PublisherEnds) \/ Runs(SupervisorEnds)
    \/ Runs(Linked(Rx)) \/ Runs(Linked(Feedback)) \/ Runs(Linked(Network)) \/ Runs(Stopped)
ThreadNext(c) ==
    (\E t \in Token \cup {ZeroToken} : Arbitrates(Gated(c, t))) \/ Arbitrates(OnHalt(c)) \/ Arbitrates(Delegate(c))
AdminNext(c) ==
    \/ \E t \in Token : Arbitrates(Grant(c, t))
    \/ Arbitrates(GrantHalt(c)) \/ Arbitrates(GrantInstall(c)) \/ Arbitrates(GrantRefused(c))
RevokerNext(c) == Arbitrates(Revoke(c)) \/ Arbitrates(RevokeHalt(c))
StopperNext(c) ==
    \/ Arbitrates(EstopLatch(c)) \/ Arbitrates(EstopHalt(c))
    \/ Arbitrates(EstopRelatch(c)) \/ Arbitrates(EstopRehalt(c)) \/ Arbitrates(EstopClear(c))

PartNext ==
    \/ ProgramNext \/ HandOver
    \/ \E c \in Thread : ThreadNext(c)
    \/ \E c \in Admin : AdminNext(c)
    \/ \E c \in Revoker : RevokerNext(c)
    \/ \E c \in Stopper : StopperNext(c)

\* The fairness of both. What stands still owes nothing: neither an ended program nor an
\* arbiter that nobody has called into has a fair step enabled.
PartSpec == PartInit /\ [][PartNext]_partVars /\ Fairness /\ StopFairness
=============================================================================
