------------------------------ MODULE Supervisor ------------------------------
(***************************************************************************)
(* kinova::interface::Supervisor: goals, streams, halts and mode changes.   *)
(*                                                                          *)
(* Processes: the sampler thread (the only owner of the trajectory          *)
(* executor), any number of backend threads, ArmLink's thread               *)
(* (on_link_state), the operator's thread (clear_contact) and the RT loop,  *)
(* of which only mode adoption, the contact latch and the IK fault show.    *)
(*                                                                          *)
(* q_mtx_ sections are short and call nothing, so each is one action.       *)
(* stream_mtx_ is `slock`; it is held across a teardown.  Atomics that the  *)
(* code stores one after the other (request_mode, active_mode_kind_) are    *)
(* separate actions: other threads run in between.  Goals and sessions are  *)
(* numbered in the order they are accepted and opened.                      *)
(***************************************************************************)
EXTENDS Naturals, Sequences, FiniteSets, SequencesExt

CONSTANTS
  Client,        \* backend threads
  Sampler, Link, Operator,
  Goal,          \* goals a backend may submit
  GoalMode,      \* Goal -> the control mode the goal asks for
  StreamKind,    \* the (mode, compliant) pairs a client may open
  Scenarios,     \* what may happen in an instance: sets of EnvAll
  MaxSession, MaxTrip, MaxDrop, MaxHalt,    \* bounds on the environment
  None           \* no goal, no lock holder

EnvAll == {"goal", "cancel", "stream", "halt", "link", "contact", "retrip", "gripper", "ik"}
Mode == {"pos", "imp", "tau", "vel"}
Proc == Client \cup {Sampler, Link, Operator}

ASSUME SupervisorAssumption ==
  /\ Scenarios \subseteq SUBSET EnvAll
  /\ GoalMode \in [Goal -> {"pos", "imp"}]
  /\ StreamKind \subseteq [mode : Mode, compliant : BOOLEAN]
  /\ \A k \in StreamKind : k.compliant => k.mode = "imp"
  /\ None \notin Goal \cup Proc
  /\ {Sampler, Link, Operator} \cap Client = {}
  /\ Sampler # Link /\ Sampler # Operator /\ Link # Operator
  /\ MaxSession \in Nat /\ MaxTrip \in Nat /\ MaxDrop \in Nat /\ MaxHalt \in Nat

VARIABLES
  env,           \* the scenario of this behaviour, never changed
  pc,            \* where each process is
  slock,         \* the holder of stream_mtx_
  arg,           \* the request each backend thread is working on: a goal, a stream kind
  popped,        \* the inbox entry the sampler is working on
  cause,         \* why each process halts or closes
  \* modes
  active,        \* active_mode_kind_
  bound,         \* traj_bound_kind_
  requested,     \* RtExecutor::requested_, None when consumed
  running,       \* the mode the RT loop runs: "none" at the start of a run, "float" on a contact
  watchdog,      \* modes whose watchdog a session has armed
  \* goals
  inbox,         \* inbox_
  haltPending, haltReason,
  current,       \* active_id, None when idle
  inFlight,      \* in_flight_
  result,        \* how each goal was settled
  settles,       \* how many times
  \* streams
  streamOpen,    \* stream_open_ and session_.is_open()
  session,       \* the current or last session: its number and its kind
  lapsed,        \* the session's deadline has passed
  command,       \* the session that stored the compliant velocity command
  ikFault,       \* pos_.ik_faulted()
  \* link, contact, gripper
  ready,         \* ready_
  drops,         \* outages so far
  halts,         \* on_halt calls by backends so far
  latched,       \* contact_->latched()
  trips,
  clearRequested,
  cleared,       \* contact_cleared_
  wasLatched,    \* the sampler's was_latched
  gripping,      \* the gripper controller is stamping
  \* history
  doomed,        \* the first reason each goal was halted for
  tripped,       \* goals unsettled at the last contact trip, if no clear was under way
  seen           \* the trip the sampler took for an edge last

goalVars == <<inbox, haltPending, haltReason, current, inFlight, result, settles, doomed>>
streamVars == <<streamOpen, session, lapsed, command, ikFault, watchdog>>
modeVars == <<active, bound, requested, running>>
contactVars == <<latched, trips, clearRequested, cleared, wasLatched, tripped, seen>>
linkVars == <<ready, drops, halts>>
procVars == <<env, pc, slock, arg, popped, cause>>
plant == <<contactVars, linkVars, gripping>>
outside == <<streamVars, plant>>
vars == <<procVars, modeVars, goalVars, outside>>

At(p, where) == pc[p] = where
Goto(p, where) == pc' = [pc EXCEPT ![p] = where]

\* An inbox entry; a cancel names no goal (the id it carries is not read).
Entry(g, queue, halted, why) ==
  [goal |-> g, queue |-> queue, halted |-> halted, why |-> why]
CancelEntry == Entry(None, FALSE, FALSE, "none")
NoEntry == CancelEntry

\* The state start() leaves: position mode requested, traj_ bound to it, idle.
Init ==
  /\ env \in Scenarios
  /\ pc = [p \in Proc |-> IF p = Sampler THEN "edge" ELSE "idle"]
  /\ slock = None
  /\ arg = [c \in Client |-> None]
  /\ popped = NoEntry
  /\ cause = [p \in Proc |-> "none"]
  /\ active = "pos" /\ bound = "pos" /\ requested = "pos" /\ running = "none"
  /\ watchdog = {}
  /\ inbox = <<>>
  /\ haltPending = FALSE /\ haltReason = "other"
  /\ current = None /\ inFlight = FALSE
  /\ result = [g \in Goal |-> "none"]
  /\ settles = [g \in Goal |-> 0]
  /\ streamOpen = FALSE
  /\ session = [id |-> 0, mode |-> "pos", compliant |-> FALSE]
  /\ lapsed = FALSE /\ command = 0 /\ ikFault = FALSE
  /\ ready = TRUE /\ drops = 0 /\ halts = 0
  /\ latched = FALSE /\ trips = 0 /\ clearRequested = FALSE
  /\ cleared = FALSE /\ wasLatched = FALSE
  /\ gripping = FALSE
  /\ doomed = [g \in Goal |-> "no"]
  /\ tripped = {} /\ seen = 0

\* Goals handed to on_trajectory_accepted that have no result yet.
Pending == {g \in Goal : /\ result[g] = "none"
                         /\ \/ \E i \in DOMAIN inbox : inbox[i].goal = g
                            \/ popped.goal = g
                            \/ current = g}

\* ActionServerPort::settle, called by the sampler only.
Settle(g, code) ==
  /\ result' = [result EXCEPT ![g] = code]
  /\ settles' = [settles EXCEPT ![g] = @ + 1]

HaltCode(why) == IF why = "contact" THEN "contact" ELSE "halted"

-----------------------------------------------------------------------------
(* close_stream and on_halt, run by any process *)

\* Where a process goes on after a teardown: on_halt, the sampler's next check,
\* or the end of on_stream_close.
AfterClose(p) ==
  IF cause[p] \in {"contact", "other"} THEN "h_grip"
  ELSE IF cause[p] = "deadline" THEN "ik"
  ELSE IF cause[p] = "ikfault" THEN "integrate" ELSE "idle"

StartClose(p, why) ==
  /\ cause' = [cause EXCEPT ![p] = why]
  /\ Goto(p, "cs_mark")

\* Mutant: the teardown does not keep stream_mtx_.
MutCloseMarkUnlocked(p) ==
  /\ At(p, "cs_mark") /\ slock = None
  /\ Goto(p, IF streamOpen THEN "cs_hold" ELSE AfterClose(p))
  /\ streamOpen' = FALSE
  /\ UNCHANGED <<env, slock, arg, popped, cause, modeVars, goalVars, session, lapsed,
                 command, ikFault, watchdog, plant>>

\* The session is marked closed first; the rest of the teardown keeps
\* stream_mtx_.
CloseMark(p) ==
  /\ At(p, "cs_mark") /\ slock = None
  /\ IF streamOpen THEN slock' = p /\ Goto(p, "cs_hold")
                   ELSE slock' = slock /\ Goto(p, AfterClose(p))
  /\ streamOpen' = FALSE
  /\ UNCHANGED <<env, arg, popped, cause, modeVars, goalVars, session, lapsed, command,
                 ikFault, watchdog, plant>>

\* Mutant: the teardown returns with stream_mtx_ locked.
MutCloseHoldKeepsLock(p) ==
  /\ At(p, "cs_hold")
  /\ watchdog' = watchdog \ {active}
  /\ ikFault' = FALSE
  /\ Goto(p, AfterClose(p))
  /\ UNCHANGED <<env, slock, arg, popped, cause, modeVars, goalVars, streamOpen, session,
                 lapsed, command, plant>>

\* The mode recorded as running is told to hold and gets its own timeout back.
CloseHold(p) ==
  /\ At(p, "cs_hold")
  /\ watchdog' = watchdog \ {active}
  /\ ikFault' = FALSE
  /\ slock' = None
  /\ Goto(p, AfterClose(p))
  /\ UNCHANGED <<env, arg, popped, cause, modeVars, goalVars, streamOpen, session, lapsed,
                 command, plant>>

\* on_halt, second part: the gripper stops stamping, under stream_mtx_.
HaltGrip(p) ==
  /\ At(p, "h_grip") /\ slock = None
  /\ gripping' = FALSE
  /\ Goto(p, "h_queue")
  /\ UNCHANGED <<env, slock, arg, popped, cause, modeVars, goalVars, streamVars,
                 contactVars, linkVars>>

AfterHalt(p) ==
  IF p = Sampler THEN "take" ELSE IF p = Link THEN "l_record"
  ELSE IF p = Operator THEN "c_record" ELSE "idle"

\* Mutants: the queue is emptied rather than marked; it keeps its goals unmarked.
MutFlushed(why) == {<<>>}
MutMarked(e, why) == e

Marked(e, why) == IF e.halted THEN e ELSE [e EXCEPT !.halted = TRUE, !.why = why]

\* A set of indices in increasing order, as a set of one sequence.
InOrder(S) == {f \in [1 .. Cardinality(S) -> S] :
                 Range(f) = S /\ \A i, j \in DOMAIN f : i < j => f[i] < f[j]}

\* The goals of the inbox in their order, each marked.
Flushed(why) ==
  LET kept == {i \in DOMAIN inbox : inbox[i].goal # None}
  IN  {[k \in DOMAIN f |-> Marked(inbox[f[k]], why)] : f \in InOrder(kept)}

\* on_halt, last part, under q_mtx_: queued cancels go, queued goals are marked,
\* and the sampler is told.  A pending contact halt keeps its reason.
HaltQueue(p) ==
  /\ At(p, "h_queue")
  /\ inbox' \in Flushed(cause[p])
  /\ haltReason' = IF haltPending /\ haltReason = "contact" THEN "contact" ELSE cause[p]
  /\ haltPending' = TRUE
  /\ doomed' = [g \in Goal |-> IF g \in Pending /\ doomed[g] = "no" THEN cause[p] ELSE doomed[g]]
  /\ Goto(p, AfterHalt(p))
  /\ UNCHANGED <<env, slock, arg, popped, cause, modeVars, current, inFlight, result,
                 settles, outside>>

HaltStep(p) == CloseMark(p) \/ CloseHold(p) \/ HaltGrip(p) \/ HaltQueue(p)

-----------------------------------------------------------------------------
(* Backend threads *)

\* on_trajectory_goal: the accept-time checks that depend on state.
GoalVet(c, g) ==
  /\ "goal" \in env
  /\ At(c, "idle")
  /\ result[g] = "none" /\ g \notin Pending
  /\ \A d \in Client : arg[d] # g
  /\ ready /\ ~latched /\ ~streamOpen
  /\ inFlight => GoalMode[g] = active
  /\ arg' = [arg EXCEPT ![c] = g]
  /\ Goto(c, "accepted")
  /\ UNCHANGED <<env, slock, popped, cause, modeVars, goalVars, outside>>

\* on_trajectory_accepted: a separate callback, so the link may have dropped or
\* the contact latch tripped since.
GoalAccepted(c) ==
  /\ At(c, "accepted")
  /\ LET why == IF latched THEN "contact" ELSE IF ~ready THEN "other" ELSE "none"
     IN  /\ \E queue \in BOOLEAN : inbox' = Append(inbox, Entry(arg[c], queue, why # "none", why))
         /\ doomed' = IF why = "none" THEN doomed ELSE [doomed EXCEPT ![arg[c]] = why]
  /\ arg' = [arg EXCEPT ![c] = None]
  /\ Goto(c, "idle")
  /\ UNCHANGED <<env, slock, popped, cause, modeVars, haltPending, haltReason, current,
                 inFlight, result, settles, outside>>

\* on_trajectory_cancel.  One cancel is queued at a time (bound).
GoalCancel(c) ==
  /\ "cancel" \in env
  /\ At(c, "idle")
  /\ CancelEntry \notin Range(inbox)
  /\ Pending # {}
  /\ inbox' = Append(inbox, CancelEntry)
  /\ UNCHANGED <<procVars, modeVars, haltPending, haltReason, current, inFlight, result,
                 settles, doomed, outside>>

BackendHalt(c) ==
  /\ "halt" \in env
  /\ At(c, "idle") /\ halts < MaxHalt
  /\ halts' = halts + 1
  /\ StartClose(c, "other")
  /\ UNCHANGED <<env, slock, arg, popped, modeVars, goalVars, streamVars, contactVars,
                 ready, drops, gripping>>

\* Bound: a second trip or a second session, not both.
Sessions == IF "retrip" \in env /\ MaxSession > 1 THEN 1 ELSE MaxSession

\* on_stream_open up to the mode switch: the checks made without a lock.
StreamVet(c, k) ==
  /\ "stream" \in env
  /\ At(c, "idle") /\ session.id < Sessions
  /\ ready /\ ~latched /\ ~inFlight /\ ~streamOpen
  /\ arg' = [arg EXCEPT ![c] = k]
  /\ Goto(c, IF k.mode = active THEN "o_lock" ELSE "o_request")
  /\ UNCHANGED <<env, slock, popped, cause, modeVars, goalVars, outside>>

StreamRequest(c) ==
  /\ At(c, "o_request")
  /\ requested' = arg[c].mode
  /\ Goto(c, "o_record")
  /\ UNCHANGED <<env, slock, arg, popped, cause, active, bound, running, goalVars, outside>>

StreamRecord(c) ==
  /\ At(c, "o_record")
  /\ active' = arg[c].mode
  /\ Goto(c, "o_lock")
  /\ UNCHANGED <<env, slock, arg, popped, cause, bound, requested, running, goalVars,
                 outside>>

\* The tail of on_stream_open, after the mode settle and under stream_mtx_: every
\* check the settle sleep can outdate is made again, then the mode's watchdog is
\* armed and the session opened.  Down: position is lined up again.
StreamNotReady(c) ==
  /\ At(c, "o_lock") /\ slock = None /\ ~ready
  /\ slock' = c
  /\ active' = "pos"
  /\ Goto(c, "o_restore")
  /\ UNCHANGED <<env, arg, popped, cause, bound, requested, running, goalVars, outside>>

StreamRestore(c) ==
  /\ At(c, "o_restore")
  /\ requested' = "pos"
  /\ slock' = None
  /\ arg' = [arg EXCEPT ![c] = None]
  /\ Goto(c, "idle")
  /\ UNCHANGED <<env, popped, cause, active, bound, running, goalVars, outside>>

\* Latched, or the mode was switched meanwhile, or another session got in first.
\* Only the last is found after the watchdog was armed and the compliant command
\* cleared, and gives the mode its own timeout back.
StreamRefused(c) ==
  /\ At(c, "o_lock") /\ slock = None /\ ready
  /\ \/ /\ latched \/ active # arg[c].mode
        /\ UNCHANGED <<watchdog, command>>
     \/ /\ ~latched /\ active = arg[c].mode /\ streamOpen
        /\ watchdog' = watchdog \ {active}
        /\ command' = IF arg[c].compliant THEN 0 ELSE command
  /\ arg' = [arg EXCEPT ![c] = None]
  /\ Goto(c, "idle")
  /\ UNCHANGED <<env, slock, popped, cause, modeVars, goalVars, streamOpen, session, lapsed,
                 ikFault, plant>>

\* Mutant: the link is not looked at again after the settle.
MutOpenWhenDown(c) ==
  /\ At(c, "o_lock") /\ slock = None
  /\ ~latched /\ active = arg[c].mode /\ ~streamOpen
  /\ session' = [id |-> session.id + 1, mode |-> arg[c].mode, compliant |-> arg[c].compliant]
  /\ streamOpen' = TRUE
  /\ watchdog' = watchdog \cup {active}
  /\ lapsed' = FALSE
  /\ command' = IF arg[c].compliant THEN 0 ELSE command
  /\ arg' = [arg EXCEPT ![c] = None]
  /\ Goto(c, "idle")
  /\ UNCHANGED <<env, slock, popped, cause, modeVars, goalVars, ikFault, plant>>

StreamOpened(c) ==
  /\ At(c, "o_lock") /\ slock = None
  /\ ready /\ ~latched /\ active = arg[c].mode /\ ~streamOpen
  /\ session' = [id |-> session.id + 1, mode |-> arg[c].mode, compliant |-> arg[c].compliant]
  /\ streamOpen' = TRUE
  /\ watchdog' = watchdog \cup {active}
  /\ lapsed' = FALSE
  /\ command' = IF arg[c].compliant THEN 0 ELSE command
  /\ arg' = [arg EXCEPT ![c] = None]
  /\ Goto(c, "idle")
  /\ UNCHANGED <<env, slock, popped, cause, modeVars, goalVars, ikFault, plant>>

StreamClose(c) ==
  /\ At(c, "idle") /\ streamOpen
  /\ StartClose(c, "client")
  /\ UNCHANGED <<env, slock, arg, popped, modeVars, goalVars, outside>>

\* Any of the five setpoint calls: admitted while the session is open, which
\* refreshes its deadline.
Setpoint(c) ==
  /\ At(c, "idle") /\ slock = None
  /\ streamOpen
  /\ lapsed' = FALSE
  /\ command' = IF session.compliant THEN session.id ELSE command
  /\ UNCHANGED <<procVars, modeVars, goalVars, streamOpen, session, ikFault, watchdog,
                 plant>>

GripperSetpoint(c) ==
  /\ "gripper" \in env
  /\ At(c, "idle") /\ slock = None
  /\ ready /\ ~latched
  /\ gripping' = TRUE
  /\ UNCHANGED <<procVars, modeVars, goalVars, streamVars, contactVars, linkVars>>

ClientStep(c) ==
  \/ \E g \in Goal : GoalVet(c, g)
  \/ GoalAccepted(c) \/ GoalCancel(c) \/ BackendHalt(c)
  \/ \E k \in StreamKind : StreamVet(c, k)
  \/ StreamRequest(c) \/ StreamRecord(c) \/ StreamNotReady(c) \/ StreamRestore(c)
  \/ StreamRefused(c) \/ StreamOpened(c)
  \/ StreamClose(c) \/ Setpoint(c) \/ GripperSetpoint(c)
  \/ HaltStep(c)

-----------------------------------------------------------------------------
(* The sampler, one iteration: halts, the three stream checks, the inbox, a tick *)

\* contact_cleared_ is exchanged before the latch is read.
EdgeReset ==
  /\ At(Sampler, "edge")
  /\ wasLatched' = (wasLatched /\ ~cleared)
  /\ cleared' = FALSE
  /\ Goto(Sampler, "latch")
  /\ UNCHANGED <<env, slock, arg, popped, cause, modeVars, goalVars, streamVars, latched,
                 trips, clearRequested, tripped, seen, linkVars, gripping>>

EdgeTaken ==
  /\ At(Sampler, "latch")
  /\ wasLatched' = latched
  /\ seen' = IF latched /\ ~wasLatched THEN trips ELSE seen
  /\ IF latched /\ ~wasLatched THEN StartClose(Sampler, "contact")
     ELSE Goto(Sampler, "take") /\ cause' = cause
  /\ UNCHANGED <<env, slock, arg, popped, modeVars, goalVars, streamVars, latched, trips,
                 clearRequested, cleared, tripped, linkVars, gripping>>

\* A halt jumps the queue.
HaltTaken ==
  /\ At(Sampler, "take")
  /\ haltPending' = FALSE
  /\ IF haltPending THEN /\ cause' = [cause EXCEPT ![Sampler] = haltReason]
                         /\ Goto(Sampler, "h_settle")
     ELSE cause' = cause /\ Goto(Sampler, "expire")
  /\ UNCHANGED <<env, slock, arg, popped, modeVars, inbox, haltReason, current, inFlight,
                 result, settles, doomed, outside>>

\* Mutant: the settled goal stays the running one.
MutHaltKeepsGoal ==
  /\ At(Sampler, "h_settle")
  /\ IF current = None THEN UNCHANGED <<result, settles>>
     ELSE Settle(current, HaltCode(cause[Sampler]))
  /\ requested' = IF ready THEN requested ELSE "pos"
  /\ Goto(Sampler, IF ready THEN "h_reset" ELSE "h_record")
  /\ UNCHANGED <<env, slock, arg, popped, cause, active, bound, running, inbox, haltPending,
                 haltReason, current, inFlight, doomed, outside>>

\* Mutant: position is not lined up again.
MutHaltNoLineUp ==
  /\ At(Sampler, "h_settle")
  /\ IF current = None THEN UNCHANGED <<result, settles>>
     ELSE Settle(current, HaltCode(cause[Sampler]))
  /\ current' = None
  /\ Goto(Sampler, "h_reset")
  /\ UNCHANGED <<env, slock, arg, popped, cause, active, bound, requested, running, inbox,
                 haltPending, haltReason, inFlight, doomed, outside>>

HaltSettles ==
  /\ At(Sampler, "h_settle")
  /\ IF current = None THEN UNCHANGED <<result, settles>>
     ELSE Settle(current, HaltCode(cause[Sampler]))
  /\ current' = None
  /\ requested' = IF ready THEN requested ELSE "pos"
  /\ Goto(Sampler, IF ready THEN "h_reset" ELSE "h_record")
  /\ UNCHANGED <<env, slock, arg, popped, cause, active, bound, running, inbox, haltPending,
                 haltReason, inFlight, doomed, outside>>

HaltRecords ==
  /\ At(Sampler, "h_record")
  /\ active' = "pos"
  /\ Goto(Sampler, "h_reset")
  /\ UNCHANGED <<env, slock, arg, popped, cause, bound, requested, running, goalVars,
                 outside>>

\* traj_ is rebuilt, bound to the mode recorded as running.
HaltResets ==
  /\ At(Sampler, "h_reset")
  /\ bound' = active
  /\ inFlight' = FALSE
  /\ Goto(Sampler, "expire")
  /\ UNCHANGED <<env, slock, arg, popped, cause, active, requested, running, inbox,
                 haltPending, haltReason, current, result, settles, doomed, outside>>

DeadlineCheck ==
  /\ At(Sampler, "expire")
  /\ IF streamOpen /\ lapsed THEN StartClose(Sampler, "deadline")
     ELSE Goto(Sampler, "ik") /\ cause' = cause
  /\ UNCHANGED <<env, slock, arg, popped, modeVars, goalVars, outside>>

IkCheck ==
  /\ At(Sampler, "ik")
  /\ IF streamOpen /\ active = "pos" /\ ikFault THEN StartClose(Sampler, "ikfault")
     ELSE Goto(Sampler, "integrate") /\ cause' = cause
  /\ UNCHANGED <<env, slock, arg, popped, modeVars, goalVars, outside>>

\* A compliant velocity session is integrated under stream_mtx_, re-checked there.
IntegrateCheck ==
  /\ At(Sampler, "integrate")
  /\ Goto(Sampler, IF streamOpen /\ session.compliant THEN "integrate_lock" ELSE "drain")
  /\ UNCHANGED <<env, slock, arg, popped, cause, modeVars, goalVars, outside>>

IntegrateLock ==
  /\ At(Sampler, "integrate_lock") /\ slock = None
  /\ IF streamOpen /\ session.compliant
     THEN slock' = Sampler /\ Goto(Sampler, "integrate_locked")
     ELSE slock' = slock /\ Goto(Sampler, "drain")
  /\ UNCHANGED <<env, arg, popped, cause, modeVars, goalVars, outside>>

\* The stored command becomes the impedance mode's joint target.
Integrate ==
  /\ At(Sampler, "integrate_locked")
  /\ slock' = None
  /\ Goto(Sampler, "drain")
  /\ UNCHANGED <<env, arg, popped, cause, modeVars, goalVars, outside>>

\* An accepted goal is refused, cancelled, halted or preempted: settled once.
Refuse(code) ==
  /\ Settle(popped.goal, code)
  /\ popped' = NoEntry
  /\ Goto(Sampler, "drain")

InboxEmpty ==
  /\ At(Sampler, "drain") /\ inbox = <<>>
  /\ Goto(Sampler, "tick")
  /\ UNCHANGED <<env, slock, arg, popped, cause, modeVars, goalVars, outside>>

Pop ==
  /\ At(Sampler, "drain") /\ inbox # <<>>
  /\ popped' = Head(inbox)
  /\ inbox' = Tail(inbox)
  /\ Goto(Sampler, IF Head(inbox) = CancelEntry THEN "cancel" ELSE "gate")
  /\ UNCHANGED <<env, slock, arg, cause, modeVars, haltPending, haltReason, current,
                 inFlight, result, settles, doomed, outside>>

\* A cancel ends whatever runs and rebuilds traj_; the id it names is not read.
Cancel ==
  /\ At(Sampler, "cancel")
  /\ IF current = None THEN UNCHANGED <<result, settles>> ELSE Settle(current, "preempted")
  /\ current' = None /\ inFlight' = FALSE
  /\ bound' = active
  /\ Goto(Sampler, "drain")
  /\ UNCHANGED <<env, slock, arg, popped, cause, active, requested, running, inbox,
                 haltPending, haltReason, doomed, outside>>

\* The refusals at the head of the drain, in order: halted while queued, a stream
\* open by now, a QUEUE goal behind a running one, a mode change under one.
GateRefuses ==
  /\ At(Sampler, "gate")
  /\ \/ popped.halted /\ Refuse(HaltCode(popped.why))
     \/ /\ ~popped.halted
        /\ \/ streamOpen
           \/ current # None /\ popped.queue
           \/ current # None /\ GoalMode[popped.goal] \notin {bound, active}
           \/ current # None /\ bound # active
        /\ Refuse("invalid")
  /\ UNCHANGED <<env, slock, arg, cause, modeVars, inbox, haltPending, haltReason, current,
                 inFlight, doomed, outside>>

\* The executor is rebound unless both records agree with the goal's mode.
GatePasses ==
  /\ At(Sampler, "gate")
  /\ ~popped.halted /\ ~streamOpen
  /\ LET mode == GoalMode[popped.goal]
         agree == mode = bound /\ mode = active
     IN  /\ current # None => agree /\ ~popped.queue
         /\ Goto(Sampler, IF agree THEN "recheck" ELSE "sw_request")
  /\ UNCHANGED <<env, slock, arg, popped, cause, modeVars, goalVars, outside>>

SwitchRequest ==
  /\ At(Sampler, "sw_request")
  /\ requested' = GoalMode[popped.goal]
  /\ Goto(Sampler, "sw_record")
  /\ UNCHANGED <<env, slock, arg, popped, cause, active, bound, running, goalVars, outside>>

\* The settle sleep follows: "recheck" comes at any time later.
SwitchRecord ==
  /\ At(Sampler, "sw_record")
  /\ active' = GoalMode[popped.goal]
  /\ bound' = GoalMode[popped.goal]
  /\ Goto(Sampler, "recheck")
  /\ UNCHANGED <<env, slock, arg, popped, cause, requested, running, goalVars, outside>>

\* A halt that landed after the pop did not mark the goal.
RecheckHalt ==
  /\ At(Sampler, "recheck")
  /\ IF haltPending THEN Refuse(HaltCode(haltReason))
     ELSE Goto(Sampler, "submit") /\ UNCHANGED <<popped, result, settles>>
  /\ UNCHANGED <<env, slock, arg, cause, modeVars, inbox, haltPending, haltReason, current,
                 inFlight, doomed, outside>>

\* The executor accepts: the goal runs, in place of the one running until now.
Submit ==
  /\ At(Sampler, "submit")
  /\ IF current = None THEN UNCHANGED <<result, settles>> ELSE Settle(current, "preempted")
  /\ current' = popped.goal
  /\ inFlight' = TRUE
  /\ popped' = NoEntry
  /\ Goto(Sampler, "drain")
  /\ UNCHANGED <<env, slock, arg, cause, modeVars, inbox, haltPending, haltReason, doomed,
                 outside>>

\* The executor refuses the trajectory or its speed scale.
SubmitRefused ==
  /\ At(Sampler, "submit")
  /\ Refuse("invalid")
  /\ UNCHANGED <<env, slock, arg, cause, modeVars, inbox, haltPending, haltReason, current,
                 inFlight, doomed, outside>>

Tick ==
  /\ At(Sampler, "tick")
  /\ Goto(Sampler, "edge")
  /\ UNCHANGED <<env, slock, arg, popped, cause, modeVars, goalVars, outside>>

\* The trajectory ends, or leaves its path tolerance.
TickCompletes ==
  /\ At(Sampler, "tick") /\ current # None
  /\ Settle(current, "done")
  /\ current' = None /\ inFlight' = FALSE
  /\ Goto(Sampler, "edge")
  /\ UNCHANGED <<env, slock, arg, popped, cause, modeVars, inbox, haltPending, haltReason,
                 doomed, outside>>

SamplerStep ==
  \/ EdgeReset \/ EdgeTaken \/ HaltTaken \/ HaltSettles \/ HaltRecords \/ HaltResets
  \/ DeadlineCheck \/ IkCheck \/ IntegrateCheck \/ IntegrateLock \/ Integrate
  \/ InboxEmpty \/ Pop \/ Cancel \/ GateRefuses \/ GatePasses
  \/ SwitchRequest \/ SwitchRecord \/ RecheckHalt \/ Submit \/ SubmitRefused
  \/ Tick \/ TickCompletes
  \/ HaltStep(Sampler)

-----------------------------------------------------------------------------
(* ArmLink's thread, the operator and the RT loop *)

\* on_link_state, leaving kRunning: the run has returned.  One halt per outage.
LinkDown ==
  /\ "link" \in env
  /\ At(Link, "idle") /\ ready /\ drops < MaxDrop
  /\ ready' = FALSE
  /\ drops' = drops + 1
  /\ StartClose(Link, "other")
  /\ UNCHANGED <<env, slock, arg, popped, modeVars, goalVars, streamVars, contactVars,
                 halts, gripping>>

\* Position is recorded and requested after the halt, for the next run.
LinkRecord ==
  /\ At(Link, "l_record")
  /\ active' = "pos"
  /\ Goto(Link, "l_request")
  /\ UNCHANGED <<env, slock, arg, popped, cause, bound, requested, running, goalVars,
                 outside>>

LinkRequest ==
  /\ At(Link, "l_request")
  /\ requested' = "pos"
  /\ Goto(Link, "idle")
  /\ UNCHANGED <<env, slock, arg, popped, cause, active, bound, running, goalVars, outside>>

\* kRunning: a new run, which has adopted nothing yet.
LinkUp ==
  /\ At(Link, "idle") /\ ~ready
  /\ ready' = TRUE
  /\ running' = "none"
  /\ UNCHANGED <<procVars, active, bound, requested, goalVars, streamVars, contactVars,
                 drops, halts, gripping>>

\* Mutant: the clear does not halt.
MutClearNoHalt ==
  /\ At(Operator, "idle") /\ latched
  /\ Goto(Operator, "c_record")
  /\ UNCHANGED <<env, slock, arg, popped, cause, modeVars, goalVars, outside>>

\* clear_contact, under contact_mtx_: halt, position recorded and requested, then
\* the monitor is asked and the sampler's edge detector reset.
ClearContact ==
  /\ At(Operator, "idle") /\ latched
  /\ StartClose(Operator, "contact")
  /\ UNCHANGED <<env, slock, arg, popped, modeVars, goalVars, outside>>

ClearRecord ==
  /\ At(Operator, "c_record")
  /\ active' = "pos"
  /\ Goto(Operator, "c_request")
  /\ UNCHANGED <<env, slock, arg, popped, cause, bound, requested, running, goalVars,
                 outside>>

ClearRequest ==
  /\ At(Operator, "c_request")
  /\ requested' = "pos"
  /\ Goto(Operator, "c_clear")
  /\ UNCHANGED <<env, slock, arg, popped, cause, active, bound, running, goalVars, outside>>

ClearMonitor ==
  /\ At(Operator, "c_clear")
  /\ clearRequested' = TRUE
  /\ Goto(Operator, "c_mark")
  /\ UNCHANGED <<env, slock, arg, popped, cause, modeVars, goalVars, streamVars, latched,
                 trips, cleared, wasLatched, tripped, seen, linkVars, gripping>>

ClearMark ==
  /\ At(Operator, "c_mark")
  /\ cleared' = TRUE
  /\ Goto(Operator, "idle")
  /\ UNCHANGED <<env, slock, arg, popped, cause, modeVars, goalVars, streamVars, latched,
                 trips, clearRequested, wasLatched, tripped, seen, linkVars, gripping>>

\* clear_contact past its halt: it is going to clear whatever is latched then.
Clearing == {"c_record", "c_request", "c_clear"}

\* The RT loop latches a contact and floats, whatever mode it ran.
Trip ==
  /\ "contact" \in env
  /\ ready /\ ~latched /\ trips < MaxTrip
  /\ trips = 0 \/ "retrip" \in env
  /\ latched' = TRUE /\ trips' = trips + 1
  /\ tripped' = IF clearRequested \/ pc[Operator] \in Clearing THEN {} ELSE Pending
  /\ running' = "float"
  /\ UNCHANGED <<procVars, active, bound, requested, goalVars, streamVars, clearRequested,
                 cleared, wasLatched, seen, linkVars, gripping>>

\* A clear is consumed by the next cycle of the RT loop.
Unlatch ==
  /\ ready /\ clearRequested
  /\ clearRequested' = FALSE /\ latched' = FALSE
  /\ UNCHANGED <<procVars, modeVars, goalVars, streamVars, trips, cleared, wasLatched,
                 tripped, seen, linkVars, gripping>>

\* The requested mode is adopted at a cycle boundary, unless latched: then float.
Adopt ==
  /\ ready /\ ~latched /\ requested # None
  /\ running' = requested
  /\ requested' = None
  /\ ikFault' = (ikFault /\ ~(requested = "pos" /\ running # "pos"))
  /\ UNCHANGED <<procVars, active, bound, goalVars, streamOpen, session, lapsed, command,
                 watchdog, plant>>

Float ==
  /\ ready /\ latched /\ running = "none"
  /\ running' = "float"
  /\ UNCHANGED <<procVars, active, bound, requested, goalVars, outside>>

\* Position mode stops converging on a streamed pose and holds.
IkFails ==
  /\ "ik" \in env
  /\ ready /\ running = "pos" /\ streamOpen /\ session.mode = "pos" /\ ~ikFault
  /\ ikFault' = TRUE
  /\ UNCHANGED <<procVars, modeVars, goalVars, streamOpen, session, lapsed, command,
                 watchdog, plant>>

\* Time passes: the open session has had no setpoint for its timeout.
Lapse ==
  /\ streamOpen /\ ~lapsed
  /\ lapsed' = TRUE
  /\ UNCHANGED <<procVars, modeVars, goalVars, streamOpen, session, command, ikFault,
                 watchdog, plant>>

LinkStep == LinkDown \/ LinkRecord \/ LinkRequest \/ LinkUp \/ HaltStep(Link)
OperatorStep == \/ ClearContact \/ ClearRecord \/ ClearRequest \/ ClearMonitor \/ ClearMark
                \/ HaltStep(Operator)
RtStep == Trip \/ Unlatch \/ Adopt \/ Float \/ IkFails \/ Lapse

Next ==
  \/ \E c \in Client : ClientStep(c)
  \/ SamplerStep
  \/ LinkStep
  \/ OperatorStep
  \/ RtStep

Spec == Init /\ [][Next]_vars

\* Every thread keeps being scheduled, and a trajectory has a finite duration.
FairSpec ==
  /\ Spec
  /\ WF_vars(SamplerStep) /\ SF_vars(TickCompletes)
  /\ WF_vars(HaltStep(Link) \/ LinkRecord \/ LinkRequest)
  /\ WF_vars(OperatorStep)
  /\ \A c \in Client : WF_vars(HaltStep(c) \/ StreamRestore(c))

-----------------------------------------------------------------------------
(* Properties *)

Thread == Client \cup {Sampler, Link, Operator}
Holding == {"cs_hold", "o_restore", "integrate_locked"}

\* The variables have their types, and stream_mtx_ is held exactly where the code
\* is inside a section that keeps it.
TypeOK ==
  /\ slock \in Thread \cup {None}
  /\ \A p \in Thread : pc[p] \in Holding <=> slock = p
  /\ active \in Mode /\ bound \in Mode /\ requested \in Mode \cup {None}
  /\ running \in Mode \cup {"none", "float"}
  /\ watchdog \subseteq Mode
  /\ current \in Goal \cup {None}
  /\ \A i \in DOMAIN inbox : inbox[i].goal \in Goal \/ inbox[i] = CancelEntry
  /\ current # None => inFlight
  /\ At(Sampler, "cancel") => popped = CancelEntry
  /\ \A g \in Goal : result[g] \in {"none", "done", "preempted", "invalid", "halted", "contact"}

\* Safety.  A goal waiting or running is in one place only (inbox, sampler, executor)
\* and no goal is settled twice, whatever halts, cancels and preemptions cross.
SettledOnce ==
  /\ \A g \in Goal : settles[g] <= 1 /\ (settles[g] = 1 <=> result[g] # "none")
  /\ current # None => result[current] = "none"
  /\ \A i, j \in DOMAIN inbox : i # j /\ inbox[i].goal # None => inbox[i].goal # inbox[j].goal

\* Safety.  A goal that a contact halt overtook first never reports a plain halt,
\* even when an e-stop or an outage halts again before the sampler gets to it: the
\* client's recovery is a clear.
ContactReasonSticks ==
  \A g \in Goal : doomed[g] = "contact" => result[g] # "halted"

\* Safety.  A goal some halt overtook may reach the executor (the recheck cannot
\* close that window), but only while a halt is pending that will end it.
HaltReachesRunning ==
  current # None /\ doomed[current] # "no" => haltPending \/ At(Sampler, "h_settle")

\* Safety.  A goal accepted before a contact trip does not run after the clear, unless
\* that clear was past its own halt when the contact came.
TrippedNeverRuns ==
  current # None /\ current \in tripped => latched \/ haltPending \/ At(Sampler, "h_settle")

\* Safety.  While a session is open its mode's watchdog is armed with the session's
\* timeout: no teardown, of this session or an earlier one, disarms it.
OpenIsSupervised ==
  streamOpen => session.mode \in watchdog

\* Safety.  Once on_link_state has handled an outage nothing streams and the gripper is
\* not stamped, and stays so until the arm is back.
DownIsQuiet ==
  ~ready /\ At(Link, "idle") => ~streamOpen /\ ~gripping

Switching == {"o_request", "o_record", "o_lock", "o_restore"}

\* Safety.  Position is lined up for the next run whenever an outage finds nobody in
\* the middle of a mode switch, whichever switch the drop overtook.
DownLinesUpPosition ==
  /\ ~ready /\ At(Link, "idle") /\ At(Operator, "idle") /\ ~haltPending
  /\ pc[Sampler] \notin {"h_settle", "h_record", "sw_request", "sw_record"}
  /\ \A c \in Client : pc[c] \notin Switching
  => active = "pos" /\ requested = "pos"

\* Safety.  A stream open over a contact the sampler took for an edge is about to be closed:
\* the sampler is on its way to close it, or a clear is about to reset its edge detector.
TripClosesStream ==
  streamOpen /\ latched /\ wasLatched /\ seen = trips
    => cleared \/ At(Operator, "c_mark") \/ At(Sampler, "cs_mark")

\* Safety.  The sampler integrates only into an open compliant session, and only a
\* command that session stored.
IntegrateIsLive ==
  At(Sampler, "integrate_locked")
    => streamOpen /\ session.compliant /\ command \in {0, session.id}

\* Refinement.  The Supervisor's goals live the life GoalLifecycle promises; under FairSpec
\* each accepted goal is also answered in the end.
GL == INSTANCE GoalLifecycle WITH
        status <- [g \in Goal |-> IF result[g] # "none" THEN "settled"
                                  ELSE IF g \in Pending THEN "pending" ELSE "new"],
        answers <- settles
ImplementsGoalLifecycle == GL!Spec
AnswersEveryGoal == GL!FairSpec

\* Refuted.  Sessions and trajectory goals are mutually exclusive.
OneWriter == ~(streamOpen /\ current # None)

\* Refuted.  A re-trip after a clear is a new edge, even if every sample read latched.
RetripIsAnEdge ==
  streamOpen /\ latched /\ wasLatched
    => cleared \/ At(Operator, "c_mark") \/ At(Sampler, "cs_mark")

\* Refuted.  With nobody switching and nothing left to adopt, the recorded mode is
\* the one the executor runs.
RecordedModeRuns ==
  /\ requested = None /\ running \in Mode
  /\ pc[Sampler] \notin {"sw_record", "h_record"}
  /\ \A c \in Client : pc[c] \notin Switching
  => running = active
=============================================================================
