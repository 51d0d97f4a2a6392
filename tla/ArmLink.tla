------------------------------- MODULE ArmLink -------------------------------
(***************************************************************************)
(* kinova::ArmLink: the life of the link to the arm.                        *)
(*                                                                          *)
(* One thread, run(), connects, checks for a fault, enters low-level        *)
(* servoing, puts every actuator in POSITION, calls RtExecutor::run() and   *)
(* deals with whatever comes out of it.  Its place in that loop is pc.      *)
(* Other threads call status() and request_clear() under m_, and the        *)
(* operators here are such callers: they read clears_done, ask for a clear  *)
(* and wait for clears_done to move.  A place between two operations of the *)
(* transport is a place where the arm, an operator or stop can intervene.   *)
(* Reasons, counters of reconnects and log lines are left out.              *)
(***************************************************************************)
EXTENDS KortexTransport

CONSTANTS
  Operator,     \* threads that ask for a clear
  MaxClear,     \* bound on accepted clear requests
  MaxHealth     \* ArmLinkConfig::health_max_failures

ASSUME LinkAssumption == MaxClear \in Nat /\ MaxHealth \in Nat \ {0}

VARIABLES
  pc,               \* where run() is
  after,            \* where run() goes once the listener has been told
  stop,             \* the stop flag
  connected,        \* run()'s connected
  commanding,       \* run()'s commanding
  latched,          \* latched_
  clearing,         \* clearing_
  clear_requested,  \* clear_requested_
  health,           \* wait_faulted()'s health_failures
  state,            \* st_.state
  faults,           \* st_.faults
  clears_done,      \* st_.clears_done
  told,             \* the last state the listener heard, "nothing" before
  op,               \* where each operator is: "idle", "ask" or "wait"
  base,             \* the clears_done each operator read before asking
  accepted,         \* history: clear requests accepted
  asked,            \* history: a request was accepted in the present faulted episode
  consent           \* history: a clear was taken since the arm was last commanded

loop == <<pc, after, connected, commanding, latched, clearing, health, told>>
status == <<state, faults, clears_done, clear_requested, asked>>
operators == <<op, base, accepted>>
vars == <<loop, status, stop, operators, consent, transport>>

Init ==
  /\ TransportInit
  /\ pc = "start" /\ after = "head"
  /\ stop = FALSE
  /\ connected = FALSE /\ commanding = FALSE
  /\ latched = FALSE /\ clearing = FALSE /\ clear_requested = FALSE
  /\ health = 0
  /\ state = "kConnecting" /\ faults = 0 /\ clears_done = 0
  /\ told = "nothing"
  /\ op = [o \in Operator |-> "idle"] /\ base = [o \in Operator |-> 0]
  /\ accepted = 0 /\ asked = FALSE
  /\ consent = TRUE

-----------------------------------------------------------------------------
(* The helpers of run() *)

MutSetStateDropsSilently(s, announce, next) ==  \* mutant: a dropped clear is not counted
  LET dropped == s # "kFaulted" /\ clear_requested IN
  /\ state' = s
  /\ asked' = (asked /\ s = "kFaulted")
  /\ clear_requested' = (clear_requested /\ ~dropped)
  /\ clears_done' = IF clearing THEN clears_done + 1 ELSE clears_done
  /\ clearing' = FALSE
  /\ IF announce \/ state # s
       THEN pc' = "tell" /\ after' = next
       ELSE pc' = next /\ UNCHANGED after

\* A clear asked for and not taken is dropped by any state but kFaulted; taken
\* or dropped, it is resolved here.
SetState(s, announce, next) ==
  LET dropped == s # "kFaulted" /\ clear_requested IN
  /\ state' = s
  /\ asked' = (asked /\ s = "kFaulted")
  /\ clear_requested' = (clear_requested /\ ~dropped)
  /\ clears_done' = IF clearing \/ dropped THEN clears_done + 1 ELSE clears_done
  /\ clearing' = FALSE
  /\ IF announce \/ state # s
       THEN pc' = "tell" /\ after' = next
       ELSE pc' = next /\ UNCHANGED after

\* A second failure while latched is the same fault.
Latch ==
  /\ latched' = TRUE
  /\ faults' = IF latched THEN faults ELSE faults + 1

\* CommsLost or TransportTimeout out of the loop body: a loss while commanding
\* latches, any other is just retried.
MutLostForgets ==              \* mutant: a loss while commanding is just retried
  /\ UNCHANGED <<latched, faults>>
  /\ commanding' = FALSE
  /\ SetState("kConnecting", FALSE, "shutdown")
  /\ UNCHANGED <<connected, told, health>>

Lost ==
  /\ IF commanding THEN Latch ELSE UNCHANGED <<latched, faults>>
  /\ commanding' = FALSE
  /\ SetState("kConnecting", FALSE, "shutdown")
  /\ UNCHANGED <<connected, told, health>>

\* Any other exception out of the loop body.
Failed ==
  /\ Latch
  /\ commanding' = FALSE
  /\ pc' = "head"
  /\ UNCHANGED <<after, connected, clearing, told, health>>
  /\ UNCHANGED <<state, clears_done, clear_requested, asked>>

\* How an RPC that is not accepted leaves the loop body.
Raise(outcome) == IF outcome = "timeout" THEN Lost ELSE outcome = "refused" /\ Failed

Goto(place) ==
  /\ pc' = place
  /\ UNCHANGED <<after, connected, commanding, latched, clearing, health, told, status>>

outside == <<stop, operators>>

-----------------------------------------------------------------------------
(* run() *)

\* The listener is told after m_ is released and before run() goes on.
Tell ==
  /\ pc = "tell"
  /\ told' = state
  /\ pc' = after
  /\ UNCHANGED <<after, connected, commanding, latched, clearing, health>>
  /\ UNCHANGED <<status, outside, consent, transport>>

\* The first announcement, made although the state does not change.
Start ==
  /\ pc = "start"
  /\ SetState("kConnecting", TRUE, "head")
  /\ UNCHANGED <<connected, commanding, latched, health, told, faults, outside, consent, transport>>

\* The loop condition; a stop ends in the last shutdown.
MutStopSkipsShutdown ==        \* mutant: the loop is left without the last shutdown
  /\ pc = "head" /\ stop
  /\ Goto("done")
  /\ UNCHANGED <<outside, consent, transport>>

StopSeen ==
  /\ pc = "head" /\ stop
  /\ Goto("last_shutdown")
  /\ UNCHANGED <<outside, consent, transport>>

\* connect(): up, not up (unreachable, still booting), or the wrong robot, the
\* one error that ends run().
Connect ==
  /\ pc = "head" /\ ~stop /\ ~connected
  /\ \E outcome \in ConnectOutcome :
       \/ /\ outcome = "up"
          /\ connected' = TRUE
          /\ pc' = "check"
          /\ UNCHANGED <<after, commanding, latched, clearing, health, told, status>>
       \/ outcome = "not_up" /\ Goto("shutdown")
       \/ outcome = "wrong_arm" /\ Goto("last_shutdown")
  /\ UNCHANGED <<outside, consent, transport>>

StillConnected ==
  /\ pc = "head" /\ ~stop /\ connected
  /\ Goto("check")
  /\ UNCHANGED <<outside, consent, transport>>

\* A latched fault comes first; otherwise the arm is asked.
Check ==
  /\ pc = "check"
  /\ \/ latched /\ Goto("faulted")
     \/ /\ ~latched
        /\ \E outcome \in Outcome :
             \/ outcome = "ok" /\ ~arm_fault /\ Goto("servo")
             \/ /\ outcome = "ok" /\ arm_fault
                /\ Latch
                /\ pc' = "faulted"
                /\ UNCHANGED <<after, connected, commanding, clearing, health, told>>
                /\ UNCHANGED <<state, clears_done, clear_requested, asked>>
             \/ Raise(outcome)
  /\ UNCHANGED <<outside, consent, transport>>

\* kFaulted is published, then the arm is handed back to its base.
Faulted ==
  /\ pc = "faulted"
  /\ SetState("kFaulted", FALSE, "release")
  /\ UNCHANGED <<connected, commanding, latched, health, told, faults, outside, consent, transport>>

Release ==
  /\ pc = "release"
  /\ ReleaseLowLevel
  /\ health' = 0
  /\ pc' = "wait"
  /\ UNCHANGED <<after, connected, commanding, latched, clearing, told, status, outside, consent>>

WaitStopped ==
  /\ pc = "wait" /\ stop
  /\ Goto("last_shutdown")
  /\ UNCHANGED <<outside, consent, transport>>

\* wait_faulted() returns kClear and run() marks the clear as taken.
TakeClear ==
  /\ pc = "wait" /\ ~stop /\ clear_requested
  /\ clear_requested' = FALSE
  /\ clearing' = TRUE
  /\ consent' = TRUE
  /\ pc' = "clear"
  /\ UNCHANGED <<after, connected, commanding, latched, health, told>>
  /\ UNCHANGED <<state, faults, clears_done, asked, outside, transport>>

NoClearYet ==
  /\ pc = "wait" /\ ~stop /\ ~clear_requested
  /\ Goto("health")
  /\ UNCHANGED <<outside, consent, transport>>

\* Is the base still there?  MaxHealth failures in a row are a lost link, even
\* when a clear has been requested since the flag was read.
Health ==
  /\ pc = "health"
  /\ \E outcome \in Outcome :
       IF outcome # "ok" /\ health + 1 = MaxHealth
         THEN Lost
         ELSE /\ health' = IF outcome = "ok" THEN 0 ELSE health + 1
              /\ pc' = "wait"
              /\ UNCHANGED <<after, connected, commanding, latched, clearing, told, status>>
  /\ UNCHANGED <<outside, consent, transport>>

Clear ==
  /\ pc = "clear"
  /\ ClearFaults
  /\ Goto("settle")
  /\ UNCHANGED <<outside, consent>>

\* fault_persists(): polls until the arm has left its fault, stop, or the
\* deadline; still in fault then, the clear has failed and the latch stays.
Settle ==
  /\ pc = "settle"
  /\ \E outcome \in Outcome :
       \/ outcome = "ok" /\ arm_fault /\ Goto("head")
       \/ /\ outcome = "ok" /\ ~arm_fault
          /\ latched' = FALSE
          /\ pc' = "servo"
          /\ UNCHANGED <<after, connected, commanding, clearing, health, told, status>>
       \/ Raise(outcome)
  /\ UNCHANGED <<outside, consent, transport>>

\* set_servoing_low_level(): accepted and seeded; accepted and the seed lost or
\* unparseable; not accepted.
Servo ==
  /\ pc = "servo"
  /\ \/ EnterLowLevel /\ (Goto("modes") \/ Lost \/ Failed)
     \/ (\E outcome \in Outcome : Raise(outcome)) /\ UNCHANGED transport
  /\ UNCHANGED <<outside, consent>>

\* Every actuator to POSITION before the first command of a run.
MutModesSkipped ==             \* mutant: the actuators are assumed to be in POSITION
  /\ pc = "modes"
  /\ Goto("running")
  /\ UNCHANGED <<outside, consent, transport>>

Modes ==
  /\ pc = "modes"
  /\ \/ AllToPosition /\ Goto("running")
     \/ SwitchModes /\ ~(torque' /\ ~torque) /\ (Lost \/ Failed)
     \/ ~reachable /\ Lost /\ UNCHANGED transport
  /\ UNCHANGED <<outside, consent>>

Running ==
  /\ pc = "running"
  /\ SetState("kRunning", FALSE, "exec")
  /\ commanding' = TRUE
  /\ consent' = FALSE
  /\ UNCHANGED <<connected, latched, health, told, faults, outside, transport>>

\* Inside RtExecutor::run(): it switches actuator modes ...
ExecSwitches ==
  /\ pc = "exec" /\ ~stop
  /\ SwitchModes
  /\ UNCHANGED <<loop, status, outside, consent>>

\* ... and ends: on stop, with CommsLost, or with ArmFault, ArmRejected or
\* anything else.
ExecEnds ==
  /\ pc = "exec"
  /\ \/ stop /\ Goto("last_shutdown")
     \/ Lost
     \/ reachable /\ Failed
  /\ UNCHANGED <<outside, consent, transport>>

\* safe_shutdown(), then the retry period.
Shutdown ==
  /\ pc = "shutdown"
  /\ SafeShutdown
  /\ connected' = FALSE
  /\ pc' = "head"
  /\ UNCHANGED <<after, commanding, latched, clearing, health, told, status, outside, consent>>

LastShutdown ==
  /\ pc = "last_shutdown"
  /\ SafeShutdown
  /\ connected' = FALSE
  /\ pc' = "done"
  /\ UNCHANGED <<after, commanding, latched, clearing, health, told, status, outside, consent>>

RunStep ==
  \/ Start \/ Tell \/ StopSeen \/ Connect \/ StillConnected \/ Check \/ Faulted \/ Release
  \/ WaitStopped \/ TakeClear \/ NoClearYet \/ Health \/ Clear \/ Settle \/ Servo \/ Modes \/ Running
  \/ ExecSwitches \/ ExecEnds \/ Shutdown \/ LastShutdown

-----------------------------------------------------------------------------
(* Other threads *)

\* A caller reads clears_done first,
ReadStatus(o) ==
  /\ op[o] = "idle" /\ accepted < MaxClear
  /\ op' = [op EXCEPT ![o] = "ask"]
  /\ base' = [base EXCEPT ![o] = clears_done]
  /\ UNCHANGED <<accepted, loop, status, stop, consent, transport>>

\* request_clear(): refused unless the arm is published as faulted.
RequestClear(o) ==
  /\ op[o] = "ask" /\ accepted < MaxClear
  /\ IF state = "kFaulted"
       THEN /\ clear_requested' = TRUE
            /\ accepted' = accepted + 1
            /\ asked' = TRUE
            /\ op' = [op EXCEPT ![o] = "wait"]
            /\ UNCHANGED base
       ELSE /\ op' = [op EXCEPT ![o] = "idle"]
            /\ base' = [base EXCEPT ![o] = 0]
            /\ UNCHANGED <<clear_requested, accepted, asked>>
  /\ UNCHANGED <<loop, state, faults, clears_done, stop, consent, transport>>

\* ... and an accepted clear has an outcome when clears_done has moved.
Answered(o) ==
  /\ op[o] = "wait" /\ clears_done # base[o]
  /\ op' = [op EXCEPT ![o] = "idle"]
  /\ base' = [base EXCEPT ![o] = 0]
  /\ UNCHANGED <<accepted, loop, status, stop, consent, transport>>

Stop ==
  /\ ~stop
  /\ stop' = TRUE
  /\ UNCHANGED <<loop, status, operators, consent, transport>>

OperatorStep == \E o \in Operator : ReadStatus(o) \/ RequestClear(o) \/ Answered(o)

Next ==
  \/ RunStep
  \/ OperatorStep
  \/ Stop
  \/ ArmStep /\ UNCHANGED <<loop, status, outside, consent>>

Spec == Init /\ [][Next]_vars

\* run()'s thread keeps running: every call it makes is bounded by a timeout,
\* and every wait by a period.  Nothing is assumed of the arm or the operators.
FairSpec == Spec /\ WF_vars(RunStep)

-----------------------------------------------------------------------------
(* Properties *)

Places == {"start", "tell", "head", "check", "faulted", "release", "wait", "health", "clear", "settle",
           "servo", "modes", "running", "exec", "shutdown", "last_shutdown", "done"}

\* The fields have their types, and a clear is pending only while the arm is
\* published as faulted.
TypeOK ==
  /\ TransportTypes
  /\ pc \in Places /\ after \in Places
  /\ stop \in BOOLEAN /\ connected \in BOOLEAN /\ commanding \in BOOLEAN
  /\ latched \in BOOLEAN /\ clearing \in BOOLEAN /\ clear_requested \in BOOLEAN
  /\ health \in 0..(MaxHealth - 1)
  /\ state \in {"kConnecting", "kRunning", "kFaulted"}
  /\ clear_requested => state = "kFaulted"
  /\ told \in {"nothing", "kConnecting", "kRunning", "kFaulted"}
  /\ faults \in Nat /\ clears_done \in Nat 
  /\ consent \in BOOLEAN
  /\ op \in [Operator -> {"idle", "ask", "wait"}]
  /\ base \in [Operator -> Nat]
  /\ accepted \in 0..MaxClear /\ asked \in BOOLEAN

\* An arm that was commanded is commanded again only after an operator's clear:
\* a fault, a rejection or a lost link between two runs never goes unnoticed
\* (the latch in latch() and lost()).
ResumeNeedsClear == pc = "running" => consent

\* A run starts with every actuator in POSITION, even when an outage kept the
\* last hand-back from the arm (set_actuator_modes before exec_.run()).
StartsInPosition == pc = "running" => ~torque

\* The listener has heard the published state whenever run() is not on its way
\* to tell it; in particular before the first command of a run.
ListenerKnows == pc \notin {"start", "tell"} => told = state

\* No clear is resolved twice, and none that is still pending or taken has been
\* resolved: clears_done only moves for a request that was accepted.
AnsweredOnce ==
  /\ clears_done <= accepted
  /\ clear_requested \/ clearing => clears_done + 1 <= accepted
  /\ clear_requested /\ clearing => clears_done + 2 <= accepted

\* A clear asked for in one faulted episode never fires in the next (set_state
\* drops what an episode leaves behind).
ClearHitsItsEpisode == [][pc = "wait" /\ pc' = "clear" => asked]_vars

\* An accepted clear gets its answer, unless the driver is stopped.
ClearIsAnswered == \A o \in Operator : op[o] = "wait" ~> (clears_done # base[o] \/ stop)

\* A stop ends run() from anywhere, with the transport shut down.
StopReturns == stop ~> (pc = "done" /\ ~connected /\ ~low_level)

\* arm_link.h: in kFaulted the arm has been handed back to its base, unless the
\* arm refused or did not answer.
HandedBack == pc = "wait" /\ ~balked => servoing = "single" /\ ~torque
=============================================================================
