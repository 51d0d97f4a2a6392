--------------------------- MODULE SupervisorProofs ---------------------------
(***************************************************************************)
(* Proofs about Supervisor.tla for every set of clients, goals, stream      *)
(* kinds and scenarios, and every number of trips, outages and halts.       *)
(***************************************************************************)
EXTENDS Supervisor, FiniteSetTheorems, TLAPS

\* The threads are themselves, and no goal, thread or mode is nobody.
LEMMA Names ==
  /\ Sampler \in Proc /\ Link \in Proc /\ Operator \in Proc /\ Client \subseteq Proc
  /\ None \notin Goal /\ None \notin Proc
  /\ Sampler \notin Client /\ Link \notin Client /\ Operator \notin Client
  /\ Sampler # Link /\ Sampler # Operator /\ Link # Operator
  BY SupervisorAssumption DEF SupervisorAssumption, Proc

\* stream_mtx_ is held exactly by the process in a section that keeps it.
LockInv ==
  /\ DOMAIN pc = Proc
  /\ slock \in Proc \cup {None}
  /\ \A p \in Proc : pc[p] \in Holding <=> slock = p

\* The steps that change who holds stream_mtx_, and the ones that do not.
LEMMA LockMoves ==
  ASSUME LockInv, NEW p \in Proc, NEW w, pc' = [pc EXCEPT ![p] = w],
         \/ slock' = slock /\ pc[p] \notin Holding /\ w \notin Holding
         \/ slock = None /\ slock' = p /\ w \in Holding
         \/ pc[p] \in Holding /\ slock' = None /\ w \notin Holding
  PROVE  LockInv'
<1>0. None \notin Proc
  BY Names
<1>1. DOMAIN pc' = Proc /\ slock' \in Proc \cup {None}
  BY DEF LockInv
<1>2. ASSUME NEW r \in Proc PROVE pc'[r] \in Holding <=> slock' = r
  <2>1. CASE r = p
    BY <1>0, <2>1 DEF LockInv
  <2>2. CASE r # p
    <3>1. pc'[r] = pc[r]
      BY <2>2 DEF LockInv
    <3>2. QED
      BY <1>0, <2>2, <3>1 DEF LockInv
  <2>3. QED
    BY <2>1, <2>2
<1>3. QED
  BY <1>1, <1>2 DEF LockInv

\* Where close_stream and on_halt lead, nobody holds the lock.
LEMMA AfterFree ==
  ASSUME NEW p
  PROVE  AfterClose(p) \notin Holding /\ AfterHalt(p) \notin Holding
  BY DEF AfterClose, AfterHalt, Holding

\* A teardown or halt takes the lock only to drop it.
LEMMA HaltLock == ASSUME LockInv, NEW p \in Proc, HaltStep(p) PROVE LockInv'
<1>1. CASE CloseMark(p)
  <2>1. CASE streamOpen
    BY <1>1, <2>1, LockMoves DEF CloseMark, Goto, At, Holding
  <2>2. CASE ~streamOpen
    BY <1>1, <2>2, LockMoves, AfterFree DEF CloseMark, Goto, At, Holding
  <2>3. QED
    BY <2>1, <2>2
<1>2. CASE CloseHold(p)
  BY <1>2, LockMoves, AfterFree DEF CloseHold, Goto, At, Holding
<1>3. CASE HaltGrip(p)
  BY <1>3, LockMoves DEF HaltGrip, Goto, At, Holding
<1>4. CASE HaltQueue(p)
  BY <1>4, LockMoves, AfterFree DEF HaltQueue, Goto, At, Holding
<1>5. QED
  BY <1>1, <1>2, <1>3, <1>4 DEF HaltStep

\* A backend call keeps the lock only between its look and its undo.
LEMMA ClientLock == ASSUME LockInv, NEW c \in Client, ClientStep(c) PROVE LockInv'
<1>0. c \in Proc
  BY Names
<1>1. CASE \E g \in Goal : GoalVet(c, g)
  BY <1>0, <1>1, LockMoves DEF GoalVet, Goto, At, Holding
<1>2. CASE GoalAccepted(c)
  BY <1>0, <1>2, LockMoves DEF GoalAccepted, Goto, At, Holding
<1>3. CASE GoalCancel(c) \/ Setpoint(c) \/ GripperSetpoint(c)
  BY <1>3 DEF GoalCancel, Setpoint, GripperSetpoint, procVars, LockInv
<1>4. CASE BackendHalt(c) \/ StreamClose(c)
  BY <1>0, <1>4, LockMoves DEF BackendHalt, StreamClose, StartClose, Goto, At, Holding
<1>5. CASE \E k \in StreamKind : StreamVet(c, k)
  BY <1>0, <1>5, LockMoves DEF StreamVet, Goto, At, Holding
<1>6. CASE StreamRequest(c) \/ StreamRecord(c)
  BY <1>0, <1>6, LockMoves DEF StreamRequest, StreamRecord, Goto, At, Holding
<1>7. CASE StreamNotReady(c)
  BY <1>0, <1>7, LockMoves DEF StreamNotReady, Goto, At, Holding
<1>8. CASE StreamRestore(c)
  BY <1>0, <1>8, LockMoves DEF StreamRestore, Goto, At, Holding
<1>9. CASE StreamRefused(c)
  BY <1>0, <1>9, LockMoves DEF StreamRefused, Goto, At, Holding
<1>10. CASE StreamOpened(c)
  BY <1>0, <1>10, LockMoves DEF StreamOpened, Goto, At, Holding
<1>11. CASE HaltStep(c)
  BY <1>0, <1>11, HaltLock
<1>12. QED
  BY <1>1, <1>2, <1>3, <1>4, <1>5, <1>6, <1>7, <1>8, <1>9, <1>10, <1>11 DEF ClientStep

\* The sampler holds the lock across its integration and a halt's mode request.
LEMMA SamplerLock == ASSUME LockInv, SamplerStep PROVE LockInv'
<1>0. Sampler \in Proc
  BY Names
<1> USE DEF Goto, At, Holding
<1>1. CASE EdgeReset
  BY <1>0, <1>1, LockMoves DEF EdgeReset
<1>2. CASE EdgeTaken
  BY <1>0, <1>2, LockMoves DEF EdgeTaken, StartClose
<1>3. CASE HaltTaken
  BY <1>0, <1>3, LockMoves DEF HaltTaken
<1>4. CASE HaltSettles
  BY <1>0, <1>4, LockMoves DEF HaltSettles
<1>5. CASE HaltRecords \/ HaltResets
  BY <1>0, <1>5, LockMoves DEF HaltRecords, HaltResets
<1>6. CASE DeadlineCheck
  BY <1>0, <1>6, LockMoves DEF DeadlineCheck, StartClose
<1>7. CASE IkCheck
  BY <1>0, <1>7, LockMoves DEF IkCheck, StartClose
<1>8. CASE IntegrateCheck
  BY <1>0, <1>8, LockMoves DEF IntegrateCheck
<1>9. CASE IntegrateLock
  BY <1>0, <1>9, LockMoves DEF IntegrateLock
<1>10. CASE Integrate \/ InboxEmpty
  BY <1>0, <1>10, LockMoves DEF Integrate, InboxEmpty
<1>11. CASE Pop
  BY <1>0, <1>11, LockMoves DEF Pop
<1>12. CASE Cancel
  BY <1>0, <1>12, LockMoves DEF Cancel
<1>13. CASE GateRefuses
  BY <1>0, <1>13, LockMoves DEF GateRefuses, Refuse
<1>14. CASE GatePasses
  BY <1>0, <1>14, LockMoves DEF GatePasses
<1>15. CASE SwitchRequest \/ SwitchRecord
  BY <1>0, <1>15, LockMoves DEF SwitchRequest, SwitchRecord
<1>16. CASE RecheckHalt
  BY <1>0, <1>16, LockMoves DEF RecheckHalt, Refuse
<1>17. CASE Submit \/ SubmitRefused
  BY <1>0, <1>17, LockMoves DEF Submit, SubmitRefused, Refuse
<1>18. CASE Tick \/ TickCompletes
  BY <1>0, <1>18, LockMoves DEF Tick, TickCompletes
<1>19. CASE HaltStep(Sampler)
  BY <1>0, <1>19, HaltLock
<1>20. QED
  BY <1>1, <1>2, <1>3, <1>4, <1>5, <1>6, <1>7, <1>8, <1>9, <1>10, <1>11, <1>12, <1>13, <1>14,
     <1>15, <1>16, <1>17, <1>18, <1>19 DEF SamplerStep

\* stream_mtx_ is taken and given back in matched pairs by every thread.
LEMMA LockKept == ASSUME LockInv, [Next]_vars PROVE LockInv'
<1>0. Link \in Proc /\ Operator \in Proc
  BY Names
<1>1. CASE \E c \in Client : ClientStep(c)
  BY <1>1, ClientLock
<1>2. CASE SamplerStep
  BY <1>2, SamplerLock
<1>3. CASE LinkStep
  <2>1. CASE HaltStep(Link)
    BY <1>0, <2>1, HaltLock
  <2>2. CASE LinkDown
    BY <1>0, <2>2, LockMoves DEF LinkDown, StartClose, Goto, At, Holding
  <2>3. CASE LinkRecord \/ LinkRequest
    BY <1>0, <2>3, LockMoves DEF LinkRecord, LinkRequest, Goto, At, Holding
  <2>4. CASE LinkUp
    BY <2>4 DEF LinkUp, procVars, LockInv
  <2>5. QED
    BY <1>3, <2>1, <2>2, <2>3, <2>4 DEF LinkStep
<1>4. CASE OperatorStep
  <2>1. CASE HaltStep(Operator)
    BY <1>0, <2>1, HaltLock
  <2>2. CASE ClearContact
    BY <1>0, <2>2, LockMoves DEF ClearContact, StartClose, Goto, At, Holding
  <2>3. CASE ClearRecord \/ ClearRequest
    BY <1>0, <2>3, LockMoves DEF ClearRecord, ClearRequest, Goto, At, Holding
  <2>4. CASE ClearMonitor \/ ClearMark
    BY <1>0, <2>4, LockMoves DEF ClearMonitor, ClearMark, Goto, At, Holding
  <2>5. QED
    BY <1>4, <2>1, <2>2, <2>3, <2>4 DEF OperatorStep
<1>5. CASE RtStep
  BY <1>5 DEF RtStep, Trip, Unlatch, Adopt, Float, IkFails, Lapse, procVars, LockInv
<1>6. CASE UNCHANGED vars
  BY <1>6 DEF vars, procVars, LockInv
<1>7. QED
  BY <1>1, <1>2, <1>3, <1>4, <1>5, <1>6 DEF Next

-----------------------------------------------------------------------------
(* What each thread leaves alone.                                          *)

\* A step of one thread moves nobody else.
LEMMA Moved ==
  ASSUME DOMAIN pc = Proc, NEW p \in Proc, NEW w, Goto(p, w)
  PROVE  pc'[p] = w /\ \A r \in Proc : r # p => pc'[r] = pc[r]
  BY DEF Goto

Stays(p) == \A r \in Proc : r # p => pc'[r] = pc[r]

\* A teardown or a halt opens nothing and touches no contact.
LEMMA HaltFrame ==
  ASSUME DOMAIN pc = Proc, NEW p \in Proc, HaltStep(p)
  PROVE  /\ Stays(p) /\ pc[p] \in {"cs_mark", "cs_hold", "h_grip", "h_queue"}
         /\ UNCHANGED <<contactVars, linkVars, modeVars, popped, current, inFlight, result,
                        settles, session, arg, cause>>
         /\ streamOpen' => streamOpen
<1>1. CASE CloseMark(p)
  BY <1>1, Moved DEF CloseMark, Stays, At, goalVars, plant, Goto
<1>2. CASE CloseHold(p)
  BY <1>2, Moved DEF CloseHold, Stays, At, goalVars, plant
<1>3. CASE HaltGrip(p)
  BY <1>3, Moved DEF HaltGrip, Stays, At, goalVars, streamVars
<1>4. CASE HaltQueue(p)
  BY <1>4, Moved DEF HaltQueue, Stays, At, outside, streamVars, plant
<1>5. QED
  BY <1>1, <1>2, <1>3, <1>4 DEF HaltStep

\* A client opens a session only with the arm up and nothing latched.
LEMMA ClientFrame ==
  ASSUME DOMAIN pc = Proc, NEW c \in Client, ClientStep(c)
  PROVE  /\ Stays(c) /\ UNCHANGED <<contactVars, ready, bound, running, popped, current,
                                     inFlight, result, settles>>
         /\ streamOpen' /\ ~streamOpen => StreamOpened(c)
<1>0. c \in Proc
  BY Names
<1>1. CASE \E g \in Goal : GoalVet(c, g)
  BY <1>0, <1>1, Moved DEF GoalVet, Stays, modeVars, goalVars, outside, plant, linkVars, streamVars
<1>2. CASE GoalAccepted(c)
  BY <1>0, <1>2, Moved DEF GoalAccepted, Stays, modeVars, outside, plant, linkVars, streamVars
<1>3. CASE GoalCancel(c)
  BY <1>3 DEF GoalCancel, Stays, procVars, modeVars, outside, plant, linkVars, streamVars
<1>4. CASE BackendHalt(c)
  BY <1>0, <1>4, Moved DEF BackendHalt, StartClose, Stays, modeVars, goalVars, streamVars
<1>5. CASE \E k \in StreamKind : StreamVet(c, k)
  BY <1>0, <1>5, Moved DEF StreamVet, Stays, modeVars, goalVars, outside, plant, linkVars, streamVars
<1>6. CASE StreamRequest(c) \/ StreamRecord(c) \/ StreamNotReady(c) \/ StreamRestore(c)
  BY <1>0, <1>6, Moved DEF StreamRequest, StreamRecord, StreamNotReady, StreamRestore, Stays,
     goalVars, outside, plant, linkVars, streamVars
<1>7. CASE StreamRefused(c)
  BY <1>0, <1>7, Moved DEF StreamRefused, Stays, modeVars, goalVars, plant, linkVars
<1>8. CASE StreamOpened(c)
  BY <1>0, <1>8, Moved DEF StreamOpened, Stays, modeVars, goalVars, plant, linkVars
<1>9. CASE StreamClose(c)
  BY <1>0, <1>9, Moved DEF StreamClose, StartClose, Stays, modeVars, goalVars, outside, plant,
     linkVars, streamVars
<1>10. CASE Setpoint(c) \/ GripperSetpoint(c)
  BY <1>10 DEF Setpoint, GripperSetpoint, Stays, procVars, modeVars, goalVars, plant, linkVars,
     streamVars
<1>11. CASE HaltStep(c)
  BY <1>0, <1>11, HaltFrame DEF linkVars, modeVars
<1>12. QED
  BY <1>1, <1>2, <1>3, <1>4, <1>5, <1>6, <1>7, <1>8, <1>9, <1>10, <1>11 DEF ClientStep

\* ArmLink's thread and the operator leave the goals and sessions to others.
LEMMA LinkFrame ==
  ASSUME DOMAIN pc = Proc, LinkStep
  PROVE  /\ Stays(Link)
         /\ UNCHANGED <<contactVars, bound, popped, current, inFlight, result, settles, session, arg>>
         /\ streamOpen' => streamOpen
<1>0. Link \in Proc
  BY Names
<1>1. CASE LinkDown
  BY <1>0, <1>1, Moved DEF LinkDown, StartClose, Stays, modeVars, goalVars, streamVars
<1>2. CASE LinkRecord \/ LinkRequest
  BY <1>0, <1>2, Moved DEF LinkRecord, LinkRequest, Stays, goalVars, outside, streamVars, plant
<1>3. CASE LinkUp
  BY <1>3 DEF LinkUp, Stays, procVars, goalVars, streamVars
<1>4. CASE HaltStep(Link)
  BY <1>0, <1>4, HaltFrame DEF modeVars
<1>5. QED
  BY <1>1, <1>2, <1>3, <1>4 DEF LinkStep

\* The operator touches the monitor only by asking for a clear and by marking it.
LEMMA OperatorFrame ==
  ASSUME DOMAIN pc = Proc, OperatorStep
  PROVE  /\ Stays(Operator)
         /\ UNCHANGED <<latched, trips, wasLatched, tripped, seen, ready, bound, popped, current,
                        inFlight, result, settles, session, arg>>
         /\ streamOpen' => streamOpen
         /\ cleared' # cleared \/ (pc[Operator] = "c_mark" /\ pc'[Operator] # "c_mark") => ClearMark
         /\ clearRequested' # clearRequested => ClearMonitor
<1>0. Operator \in Proc
  BY Names
<1>1. CASE ClearContact
  BY <1>0, <1>1, Moved DEF ClearContact, StartClose, Stays, At, modeVars, goalVars, outside, plant,
     contactVars, linkVars, streamVars
<1>2. CASE ClearRecord \/ ClearRequest
  BY <1>0, <1>2, Moved DEF ClearRecord, ClearRequest, Stays, At, goalVars, outside, plant,
     contactVars, linkVars, streamVars
<1>3. CASE ClearMonitor
  BY <1>0, <1>3, Moved DEF ClearMonitor, Stays, At, modeVars, goalVars, streamVars, linkVars
<1>4. CASE ClearMark
  BY <1>0, <1>4, Moved DEF ClearMark, Stays, At, modeVars, goalVars, streamVars, linkVars
<1>5. CASE HaltStep(Operator)
  BY <1>0, <1>5, HaltFrame DEF modeVars, contactVars, linkVars
<1>6. QED
  BY <1>1, <1>2, <1>3, <1>4, <1>5 DEF OperatorStep

\* The RT loop moves no thread, and only a trip and a clear it consumes show in
\* the monitor.
LEMMA RtFrame ==
  ASSUME RtStep
  PROVE  /\ UNCHANGED <<pc, slock, arg, popped, cause, goalVars, active, bound, session, streamOpen,
                        watchdog, cleared, wasLatched, seen, ready>>
         /\ Trip \/ Unlatch \/ UNCHANGED <<latched, trips, tripped, clearRequested>>
  BY DEF RtStep, Trip, Unlatch, Adopt, Float, IkFails, Lapse, procVars, goalVars, modeVars,
     streamVars, linkVars, plant, contactVars, outside

\* The sampler opens no session.
LEMMA SamplerFrame ==
  ASSUME DOMAIN pc = Proc, SamplerStep
  PROVE  /\ Stays(Sampler)
         /\ UNCHANGED <<ready, latched, trips, clearRequested, tripped, session, arg>>
         /\ streamOpen' => streamOpen
<1>0. Sampler \in Proc
  BY Names
<1> USE DEF Stays, modeVars, goalVars, streamVars, outside, plant, contactVars, linkVars
<1>1. CASE EdgeReset \/ EdgeTaken
  BY <1>0, <1>1, Moved DEF EdgeReset, EdgeTaken, StartClose, Goto
<1>2. CASE HaltTaken
  BY <1>0, <1>2, Moved DEF HaltTaken, Goto
<1>3. CASE HaltSettles \/ HaltRecords \/ HaltResets
  BY <1>0, <1>3, Moved DEF HaltSettles, HaltRecords, HaltResets
<1>4. CASE DeadlineCheck \/ IkCheck \/ IntegrateCheck
  BY <1>0, <1>4, Moved DEF DeadlineCheck, IkCheck, IntegrateCheck, StartClose, Goto
<1>5. CASE IntegrateLock \/ Integrate
  BY <1>0, <1>5, Moved DEF IntegrateLock, Integrate, Goto
<1>6. CASE InboxEmpty \/ Pop \/ Cancel
  BY <1>0, <1>6, Moved DEF InboxEmpty, Pop, Cancel
<1>7. CASE GateRefuses \/ GatePasses
  BY <1>0, <1>7, Moved DEF GateRefuses, GatePasses, Refuse
<1>8. CASE SwitchRequest \/ SwitchRecord \/ RecheckHalt
  BY <1>0, <1>8, Moved DEF SwitchRequest, SwitchRecord, RecheckHalt, Refuse, Goto
<1>9. CASE Submit \/ SubmitRefused \/ Tick \/ TickCompletes
  BY <1>0, <1>9, Moved DEF Submit, SubmitRefused, Tick, TickCompletes, Refuse
<1>10. CASE HaltStep(Sampler)
  BY <1>0, <1>10, HaltFrame
<1>11. QED
  BY <1>1, <1>2, <1>3, <1>4, <1>5, <1>6, <1>7, <1>8, <1>9, <1>10 DEF SamplerStep
\* Nothing runs yet.
LEMMA InitLock == Init => LockInv
<1> SUFFICES ASSUME Init PROVE LockInv
  OBVIOUS
<1>1. pc = [p \in Proc |-> IF p = Sampler THEN "edge" ELSE "idle"] /\ slock = None
  BY DEF Init
<1>2. QED
  BY <1>1, Names DEF LockInv, Holding

-----------------------------------------------------------------------------
(* Contacts and sessions.                                                  *)

\* The edge the sampler took last is of the latest trip, or of an older one.
EdgeInv == seen \in Nat /\ trips \in Nat /\ seen <= trips /\ TripClosesStream

\* The sampler's edge stays in step with the trips: an open over a seen trip is refused.
LEMMA EdgeKept == ASSUME LockInv, EdgeInv, [Next]_vars PROVE EdgeInv'
<1>0. DOMAIN pc = Proc
  BY DEF LockInv
<1> USE Names DEF EdgeInv, TripClosesStream, At, Stays, contactVars
<1>1. ASSUME NEW c \in Client, ClientStep(c) PROVE EdgeInv'
  <2>1. pc'[Sampler] = pc[Sampler] /\ pc'[Operator] = pc[Operator]
    BY <1>0, <1>1, ClientFrame
  <2>2. streamOpen' /\ ~streamOpen => ~latched
    BY <1>0, <1>1, ClientFrame DEF StreamOpened
  <2>3. QED
    BY <1>0, <1>1, <2>1, <2>2, ClientFrame
<1>2. CASE LinkStep
  BY <1>0, <1>2, LinkFrame
<1>3. CASE OperatorStep
  <2>1. pc'[Sampler] = pc[Sampler]
    BY <1>0, <1>3, OperatorFrame
  <2>2. CASE ClearMark
    BY <1>0, <1>3, <2>1, <2>2, OperatorFrame DEF ClearMark
  <2>3. CASE ~ClearMark
    BY <1>0, <1>3, <2>1, <2>3, OperatorFrame
  <2>4. QED
    BY <2>2, <2>3
<1>4. CASE RtStep
  <2>1. CASE Trip
    BY <1>4, <2>1, RtFrame DEF Trip
  <2>2. CASE Unlatch
    BY <1>4, <2>2, RtFrame DEF Unlatch
  <2>3. CASE UNCHANGED <<latched, trips, tripped, clearRequested>>
    BY <1>4, <2>3, RtFrame
  <2>4. QED
    BY <1>4, <2>1, <2>2, <2>3, RtFrame
<1>5. CASE SamplerStep
  <2>1. /\ pc'[Operator] = pc[Operator]
        /\ UNCHANGED <<latched, trips>> /\ (streamOpen' => streamOpen)
    BY <1>0, <1>5, SamplerFrame
  <2>2. CASE EdgeReset
    <3>1. wasLatched' => wasLatched /\ ~cleared
      BY <2>2 DEF EdgeReset
    <3>2. pc[Sampler] # "cs_mark" /\ seen' = seen
      BY <2>2 DEF EdgeReset
    <3>3. TripClosesStream'
      BY <2>1, <3>1, <3>2
    <3>4. QED
      BY <2>1, <3>2, <3>3
  <2>3. CASE EdgeTaken
    BY <1>0, <2>1, <2>3, Moved DEF EdgeTaken, StartClose
  <2>4. CASE CloseMark(Sampler)
    BY <2>1, <2>4 DEF CloseMark, plant
  <2>5. CASE ~EdgeReset /\ ~EdgeTaken /\ ~CloseMark(Sampler)
    <3>1. UNCHANGED <<wasLatched, seen, cleared>> /\ pc[Sampler] # "cs_mark"
      <4> USE DEF outside, plant
      <4>1. CASE HaltStep(Sampler)
        BY <2>5, <4>1, HaltFrame DEF HaltStep, CloseHold, HaltGrip, HaltQueue
      <4>2. CASE HaltTaken \/ HaltSettles \/ HaltRecords \/ HaltResets
        BY <4>2 DEF HaltTaken, HaltSettles, HaltRecords, HaltResets
      <4>3. CASE DeadlineCheck \/ IkCheck \/ IntegrateCheck \/ IntegrateLock \/ Integrate
        BY <4>3 DEF DeadlineCheck, IkCheck, IntegrateCheck, IntegrateLock, Integrate
      <4>4. CASE InboxEmpty \/ Pop \/ Cancel \/ GateRefuses \/ GatePasses
        BY <4>4 DEF InboxEmpty, Pop, Cancel, GateRefuses, GatePasses
      <4>5. CASE SwitchRequest \/ SwitchRecord \/ RecheckHalt
        BY <4>5 DEF SwitchRequest, SwitchRecord, RecheckHalt
      <4>6. CASE Submit \/ SubmitRefused \/ Tick \/ TickCompletes
        BY <4>6 DEF Submit, SubmitRefused, Tick, TickCompletes
      <4>7. QED
        BY <1>5, <2>5, <4>1, <4>2, <4>3, <4>4, <4>5, <4>6 DEF SamplerStep
    <3>2. QED
      BY <2>1, <3>1
  <2>6. QED
    BY <2>2, <2>3, <2>4, <2>5
<1>6. CASE UNCHANGED vars
  BY <1>6 DEF vars, procVars, outside, streamVars, plant
<1>7. QED
  BY <1>1, <1>2, <1>3, <1>4, <1>5, <1>6 DEF Next

\* A contact the sampler took for an edge leaves no stream open behind it
\* (sampler_loop, step 0-), whatever opens, closes and clears cross it.
THEOREM SeenTripClosesStream == Spec => []TripClosesStream
<1>1. Init => LockInv /\ EdgeInv
  BY InitLock DEF Init, EdgeInv, TripClosesStream
<1>2. (LockInv /\ EdgeInv) /\ [Next]_vars => (LockInv /\ EdgeInv)'
  BY LockKept, EdgeKept
<1>3. LockInv /\ EdgeInv => TripClosesStream
  BY DEF EdgeInv
<1>4. QED
  BY <1>1, <1>2, <1>3, PTL DEF Spec

\* The steps that open, close or feed a session, or arm and disarm a watchdog.
SessionMove ==
  \/ \E c \in Client : StreamOpened(c) \/ StreamRefused(c) \/ Setpoint(c)
  \/ \E p \in Proc : CloseMark(p) \/ CloseHold(p)

\* A halt or a teardown of one thread, seen from the sessions.
LEMMA HaltSession ==
  ASSUME DOMAIN pc = Proc, NEW p \in Proc, HaltStep(p)
  PROVE  /\ SessionMove \/ UNCHANGED <<streamOpen, session, command, watchdog>>
         /\ pc'[p] = "cs_hold" => CloseMark(p)
         /\ pc'[p] \notin Switching /\ pc'[p] # "integrate_locked"
<1>1. CASE CloseMark(p) \/ CloseHold(p)
  <2>1. pc'[p] \notin Switching /\ pc'[p] # "integrate_locked"
    BY <1>1, Moved, AfterFree DEF CloseMark, CloseHold, Goto, AfterClose, Switching
  <2>2. pc'[p] = "cs_hold" => CloseMark(p)
    BY <1>1, Moved DEF CloseHold, AfterClose
  <2>3. QED
    BY <1>1, <2>1, <2>2 DEF SessionMove
<1>2. CASE HaltGrip(p)
  BY <1>2, Moved DEF HaltGrip, Switching, streamVars
<1>3. CASE HaltQueue(p)
  BY <1>3, Moved DEF HaltQueue, AfterHalt, Switching, outside, streamVars
<1>4. QED
  BY <1>1, <1>2, <1>3 DEF HaltStep

\* Every other step leaves the session, its command and the watchdogs alone; only a
\* marked close holds, only a vetted open switches, only the lock lets integrate.
LEMMA SessionFrame ==
  ASSUME LockInv, [Next]_vars
  PROVE  /\ SessionMove \/ UNCHANGED <<streamOpen, session, command, watchdog>>
         /\ \A p \in Proc : pc'[p] = "cs_hold" => pc[p] = "cs_hold" \/ CloseMark(p)
         /\ \A c \in Client : pc'[c] \in Switching =>
              \/ pc[c] \in Switching /\ arg'[c] = arg[c]
              \/ \E k \in StreamKind : StreamVet(c, k)
         /\ pc'[Sampler] = "integrate_locked" => pc[Sampler] = "integrate_locked" \/ IntegrateLock
<1>0. DOMAIN pc = Proc
  BY DEF LockInv
<1> USE Names
<1>1. ASSUME NEW c \in Client, ClientStep(c)
      PROVE  /\ SessionMove \/ UNCHANGED <<streamOpen, session, command, watchdog>>
             /\ pc'[c] = "cs_hold" => pc[c] = "cs_hold" \/ CloseMark(c)
             /\ pc'[c] \in Switching =>
                  \/ pc[c] \in Switching /\ arg'[c] = arg[c]
                  \/ \E k \in StreamKind : StreamVet(c, k)
             /\ \A d \in Client : d # c /\ pc[d] \in Switching => arg'[d] = arg[d]
  <2> USE DEF outside, streamVars
  <2>1. CASE \E g \in Goal : GoalVet(c, g)
    BY <1>0, <2>1, Moved DEF GoalVet, Switching
  <2>2. CASE GoalAccepted(c)
    BY <1>0, <2>2, Moved DEF GoalAccepted, Switching
  <2>3. CASE GoalCancel(c)
    BY <2>3 DEF GoalCancel, procVars
  <2>4. CASE BackendHalt(c) \/ StreamClose(c)
    BY <1>0, <2>4, Moved DEF BackendHalt, StreamClose, StartClose, Switching
  <2>5. CASE \E k \in StreamKind : StreamVet(c, k)
    <3>1. \A d \in Client : d # c /\ pc[d] \in Switching => arg'[d] = arg[d]
      BY <2>5 DEF StreamVet
    <3>2. pc'[c] # "cs_hold" /\ UNCHANGED <<streamOpen, session, command, watchdog>>
      BY <1>0, <2>5, Moved DEF StreamVet
    <3>3. QED
      BY <2>5, <3>1, <3>2
  <2>6. CASE StreamRequest(c) \/ StreamRecord(c) \/ StreamNotReady(c)
    BY <1>0, <2>6, Moved DEF StreamRequest, StreamRecord, StreamNotReady, Switching, At
  <2>7. CASE StreamRestore(c)
    BY <1>0, <2>7, Moved DEF StreamRestore, Switching
  <2>8. CASE StreamRefused(c)
    <3>1. SessionMove
      BY <2>8 DEF SessionMove
    <3>2. QED
      BY <1>0, <2>8, <3>1, Moved DEF StreamRefused, Switching
  <2>9. CASE StreamOpened(c)
    <3>1. SessionMove
      BY <2>9 DEF SessionMove
    <3>2. QED
      BY <1>0, <2>9, <3>1, Moved DEF StreamOpened, Switching
  <2>10. CASE Setpoint(c)
    BY <2>10 DEF Setpoint, SessionMove, procVars
  <2>11. CASE GripperSetpoint(c)
    BY <2>11 DEF GripperSetpoint, procVars
  <2>12. CASE HaltStep(c)
    BY <1>0, <2>12, HaltSession, HaltFrame
  <2>13. QED
    BY <1>1, <2>1, <2>2, <2>3, <2>4, <2>5, <2>6, <2>7, <2>8, <2>9, <2>10, <2>11, <2>12
       DEF ClientStep
<1>2. CASE LinkStep
  <2>1. /\ SessionMove \/ UNCHANGED <<streamOpen, session, command, watchdog>>
        /\ pc'[Link] = "cs_hold" => pc[Link] = "cs_hold" \/ CloseMark(Link)
    <3>1. CASE LinkDown
      BY <1>0, <3>1, Moved DEF LinkDown, StartClose, streamVars
    <3>2. CASE LinkRecord \/ LinkRequest
      BY <1>0, <3>2, Moved DEF LinkRecord, LinkRequest, outside, streamVars
    <3>3. CASE LinkUp
      BY <3>3 DEF LinkUp, procVars, streamVars
    <3>4. CASE HaltStep(Link)
      BY <1>0, <3>4, HaltSession
    <3>5. QED
      BY <1>2, <3>1, <3>2, <3>3, <3>4 DEF LinkStep
  <2>2. QED
    BY <1>0, <1>2, <2>1, LinkFrame DEF Stays
<1>3. CASE OperatorStep
  <2>1. /\ SessionMove \/ UNCHANGED <<streamOpen, session, command, watchdog>>
        /\ pc'[Operator] = "cs_hold" => pc[Operator] = "cs_hold" \/ CloseMark(Operator)
    <3>1. CASE ClearContact
      BY <1>0, <3>1, Moved DEF ClearContact, StartClose, outside, streamVars
    <3>2. CASE ClearRecord \/ ClearRequest \/ ClearMonitor \/ ClearMark
      BY <1>0, <3>2, Moved DEF ClearRecord, ClearRequest, ClearMonitor, ClearMark, outside, streamVars
    <3>3. CASE HaltStep(Operator)
      BY <1>0, <3>3, HaltSession
    <3>4. QED
      BY <1>3, <3>1, <3>2, <3>3 DEF OperatorStep
  <2>2. QED
    BY <1>0, <1>3, <2>1, OperatorFrame DEF Stays
<1>4. CASE RtStep
  <2>1. UNCHANGED <<streamOpen, session, command, watchdog, pc, arg>>
    BY <1>4 DEF RtStep, Trip, Unlatch, Adopt, Float, IkFails, Lapse, procVars, streamVars, outside
  <2>2. QED
    BY <2>1
<1>5. CASE SamplerStep
  <2>1. /\ SessionMove \/ UNCHANGED <<streamOpen, session, command, watchdog>>
        /\ pc'[Sampler] = "cs_hold" => pc[Sampler] = "cs_hold" \/ CloseMark(Sampler)
        /\ pc'[Sampler] = "integrate_locked" => pc[Sampler] = "integrate_locked" \/ IntegrateLock
    <3> USE DEF outside, streamVars
    <3>1. CASE EdgeReset \/ EdgeTaken
      BY <1>0, <3>1, Moved DEF EdgeReset, EdgeTaken, StartClose, Goto
    <3>2. CASE HaltTaken \/ HaltSettles
      BY <1>0, <3>2, Moved DEF HaltTaken, HaltSettles, Goto
    <3>3. CASE HaltRecords \/ HaltResets
      BY <1>0, <3>3, Moved DEF HaltRecords, HaltResets
    <3>4. CASE DeadlineCheck \/ IkCheck \/ IntegrateCheck
      BY <1>0, <3>4, Moved DEF DeadlineCheck, IkCheck, IntegrateCheck, StartClose, Goto
    <3>5. CASE IntegrateLock
      BY <1>0, <3>5, Moved DEF IntegrateLock, Goto
    <3>6. CASE Integrate \/ InboxEmpty \/ Pop \/ Cancel
      BY <1>0, <3>6, Moved DEF Integrate, InboxEmpty, Pop, Cancel
    <3>7. CASE GateRefuses \/ GatePasses
      BY <1>0, <3>7, Moved DEF GateRefuses, GatePasses, Refuse
    <3>8. CASE SwitchRequest \/ SwitchRecord \/ RecheckHalt
      BY <1>0, <3>8, Moved DEF SwitchRequest, SwitchRecord, RecheckHalt, Refuse, Goto
    <3>9. CASE Submit \/ SubmitRefused \/ Tick \/ TickCompletes
      BY <1>0, <3>9, Moved DEF Submit, SubmitRefused, Tick, TickCompletes, Refuse
    <3>10. CASE HaltStep(Sampler)
      BY <1>0, <3>10, HaltSession
    <3>11. QED
      BY <1>5, <3>1, <3>2, <3>3, <3>4, <3>5, <3>6, <3>7, <3>8, <3>9, <3>10 DEF SamplerStep
  <2>2. QED
    BY <1>0, <1>5, <2>1, SamplerFrame DEF Stays
<1>6. CASE UNCHANGED vars
  BY <1>6 DEF vars, procVars, outside, streamVars
<1>7. QED
  <2>1. ASSUME NEW c \in Client, ClientStep(c)
        PROVE  \A p \in Proc : p # c => pc'[p] = pc[p]
    BY <1>0, <2>1, ClientFrame DEF Stays
  <2>2. CASE \E c \in Client : ClientStep(c)
    <3>1. PICK c \in Client : ClientStep(c)
      BY <2>2
    <3>2. \A p \in Proc : pc'[p] = "cs_hold" => pc[p] = "cs_hold" \/ CloseMark(p)
      BY <1>1, <2>1, <3>1
    <3>3. \A d \in Client : pc'[d] \in Switching =>
              \/ pc[d] \in Switching /\ arg'[d] = arg[d]
              \/ \E k \in StreamKind : StreamVet(d, k)
      BY <1>1, <2>1, <3>1
    <3>4. pc'[Sampler] = pc[Sampler]
      BY <2>1, <3>1
    <3>5. QED
      BY <1>1, <3>1, <3>2, <3>3, <3>4
  <2>3. QED
    BY <1>2, <1>3, <1>4, <1>5, <1>6, <2>2 DEF Next

\* A compliant session's command is its own or was cleared when it opened.
CommandInv == IntegrateIsLive /\ (session.compliant => command \in {0, session.id})

\* A session that opens drops the command an earlier one stored.
LEMMA CommandKept == ASSUME LockInv, CommandInv, [Next]_vars PROVE CommandInv'
<1> USE Names DEF CommandInv, IntegrateIsLive, At
<1>0. DOMAIN pc = Proc /\ (pc[Sampler] = "integrate_locked" => slock = Sampler)
  BY DEF LockInv, Holding
<1>1. pc'[Sampler] = "integrate_locked" => pc[Sampler] = "integrate_locked" \/ IntegrateLock
  BY SessionFrame
<1>2. CASE SessionMove
  <2>1. CASE \E c \in Client : StreamOpened(c)
    <3>1. slock = None /\ session'.compliant => command' = 0
      BY <2>1 DEF StreamOpened
    <3>2. slock = None
      BY <2>1 DEF StreamOpened
    <3>3. ~IntegrateLock
      BY <1>0, <2>1, Moved DEF StreamOpened, IntegrateLock
    <3>4. QED
      BY <1>0, <1>1, <3>1, <3>2, <3>3
  <2>2. CASE \E c \in Client : StreamRefused(c)
    <3>1. slock = None /\ session' = session /\ command' \in {0, command}
      BY <2>2 DEF StreamRefused
    <3>2. ~IntegrateLock
      BY <1>0, <2>2, Moved DEF StreamRefused, IntegrateLock
    <3>3. QED
      BY <1>0, <1>1, <3>1, <3>2
  <2>3. CASE \E c \in Client : Setpoint(c)
    BY <1>0, <1>1, <2>3 DEF Setpoint, IntegrateLock, procVars
  <2>4. ASSUME NEW p \in Proc, CloseMark(p) \/ CloseHold(p) PROVE CommandInv'
    <3>1. pc'[Sampler] # "integrate_locked" \/ p # Sampler
      BY <1>0, <2>4, HaltSession DEF HaltStep
    <3>2. session' = session /\ command' = command
      BY <2>4 DEF CloseMark, CloseHold
    <3>3. pc'[Sampler] = "integrate_locked" => pc[Sampler] = "integrate_locked"
      BY <1>0, <3>1, <2>4, HaltFrame DEF HaltStep, Stays
    <3>4. CASE CloseMark(p)
      BY <1>0, <3>2, <3>3, <3>4 DEF CloseMark
    <3>5. CASE CloseHold(p)
      BY <3>2, <3>3, <3>5 DEF CloseHold
    <3>6. QED
      BY <2>4, <3>4, <3>5
  <2>5. QED
    BY <1>2, <2>1, <2>2, <2>3, <2>4 DEF SessionMove
<1>3. CASE UNCHANGED <<streamOpen, session, command, watchdog>>
  <2>1. IntegrateLock /\ pc'[Sampler] = "integrate_locked" => streamOpen /\ session.compliant
    BY <1>0, Moved DEF IntegrateLock
  <2>2. streamOpen' = streamOpen /\ session' = session /\ command' = command
    BY <1>3
  <2>3. QED
    BY <1>1, <2>1, <2>2
<1>4. QED
  BY <1>2, <1>3, SessionFrame

\* The sampler integrates under stream_mtx_ into an open compliant session, and
\* only what that session commanded, however opens, refusals and teardowns cross
\* it (sampler_loop, step 0c; on_setpoint_twist's stale command of a dead session).
THEOREM IntegrationIsLive == Spec => []IntegrateIsLive
<1>1. Init => LockInv /\ CommandInv
  <2>1. Init => CommandInv
    BY Names DEF Init, CommandInv, IntegrateIsLive, At
  <2>2. QED
    BY <2>1, InitLock
<1>2. (LockInv /\ CommandInv) /\ [Next]_vars => (LockInv /\ CommandInv)'
  BY LockKept, CommandKept
<1>3. LockInv /\ CommandInv => IntegrateIsLive
  BY DEF CommandInv
<1>4. QED
  BY <1>1, <1>2, <1>3, PTL DEF Spec

\* With one backend thread: an open session's watchdog is armed, and whoever is
\* about to hold the mode has closed its session first.
OneClient == \A c, d \in Client : c = d

ArmedInv ==
  /\ OpenIsSupervised
  /\ \A p \in Proc : pc[p] = "cs_hold" => ~streamOpen
  /\ \A c \in Client : pc[c] \in Switching => ~streamOpen

\* An open session stays armed: teardowns disarm only after closing.
LEMMA ArmedKept == ASSUME OneClient, LockInv, ArmedInv, [Next]_vars PROVE ArmedInv'
<1> USE Names DEF ArmedInv, OpenIsSupervised, OneClient
<1>0. DOMAIN pc = Proc /\ \A p \in Proc : pc[p] = "cs_hold" => slock = p
  BY DEF LockInv, Holding
<1>1. \A p \in Proc : pc'[p] = "cs_hold" => pc[p] = "cs_hold" \/ CloseMark(p)
  BY SessionFrame
<1>2. \A c \in Client : pc'[c] \in Switching => pc[c] \in Switching \/ ~streamOpen
  <2>1. \A c \in Client : (\E k \in StreamKind : StreamVet(c, k)) => ~streamOpen
    BY DEF StreamVet
  <2>2. QED
    BY <2>1, SessionFrame
<1>3. CASE SessionMove
  <2>1. ASSUME NEW c \in Client, StreamOpened(c) PROVE ArmedInv'
    <3>1. slock = None /\ pc'[c] = "idle" /\ \A p \in Proc : p # c => pc'[p] = pc[p]
      BY <1>0, <2>1, Moved DEF StreamOpened
    <3>2. session'.mode \in watchdog'
      BY <2>1 DEF StreamOpened
    <3>3. \A p \in Proc : pc'[p] # "cs_hold"
      BY <1>0, <3>1
    <3>4. \A d \in Client : pc'[d] \notin Switching
      BY <3>1 DEF Switching
    <3>5. QED
      BY <3>2, <3>3, <3>4
  <2>2. ASSUME NEW c \in Client, StreamRefused(c) PROVE ArmedInv'
    <3>1. ~streamOpen
      BY <2>2 DEF StreamRefused, At, Switching
    <3>2. ~streamOpen'
      BY <2>2, <3>1 DEF StreamRefused
    <3>3. QED
      BY <3>2
  <2>3. ASSUME NEW c \in Client, Setpoint(c) PROVE ArmedInv'
    BY <2>3 DEF Setpoint, procVars
  <2>4. ASSUME NEW p \in Proc, CloseMark(p) PROVE ArmedInv'
    <3>1. ~streamOpen'
      BY <2>4 DEF CloseMark
    <3>2. QED
      BY <3>1
  <2>5. ASSUME NEW p \in Proc, CloseHold(p) PROVE ArmedInv'
    <3>1. ~streamOpen'
      BY <2>5 DEF CloseHold, At
    <3>2. QED
      BY <3>1
  <2>6. QED
    BY <1>3, <2>1, <2>2, <2>3, <2>4, <2>5 DEF SessionMove
<1>4. CASE UNCHANGED <<streamOpen, session, command, watchdog>>
  BY <1>1, <1>2, <1>4 DEF CloseMark
<1>5. QED
  BY <1>3, <1>4, SessionFrame

\* With one backend thread an open session keeps its watchdog, whatever teardowns
\* of the sampler, ArmLink's thread and the operator cross it (close_stream and
\* on_stream_open; a second backend thread's refused open can disarm it).
THEOREM OpenSessionIsArmed == ASSUME OneClient PROVE Spec => []OpenIsSupervised
<1>1. Init => LockInv /\ ArmedInv
  <2>1. Init => ~streamOpen
    BY DEF Init
  <2>2. QED
    BY <2>1, InitLock DEF ArmedInv, OpenIsSupervised
<1>2. (LockInv /\ ArmedInv) /\ [Next]_vars => (LockInv /\ ArmedInv)'
  BY LockKept, ArmedKept
<1>3. LockInv /\ ArmedInv => OpenIsSupervised
  BY DEF ArmedInv
<1>4. QED
  BY <1>1, <1>2, <1>3, PTL DEF Spec

\* Every thread has its reason and its request, every goal its record.
DomInv ==
  /\ DOMAIN cause = Proc /\ DOMAIN arg = Client
  /\ DOMAIN result = Goal /\ DOMAIN settles = Goal /\ DOMAIN doomed = Goal

\* Goals and threads keep their entries in the tables.
LEMMA DomKept == ASSUME DomInv, [Next]_vars PROVE DomInv'
<1> USE DEF DomInv, goalVars, StartClose
<1>1. ASSUME NEW p, HaltStep(p) PROVE DomInv'
  <2>1. CASE CloseMark(p) \/ CloseHold(p) \/ HaltGrip(p)
    BY <2>1 DEF CloseMark, CloseHold, HaltGrip
  <2>2. CASE HaltQueue(p)
    BY <2>2 DEF HaltQueue
  <2>3. QED
    BY <1>1, <2>1, <2>2 DEF HaltStep
<1>2. ASSUME NEW c \in Client, ClientStep(c) PROVE DomInv'
  <2>1. CASE \E g \in Goal : GoalVet(c, g)
    BY <2>1 DEF GoalVet
  <2>2. CASE GoalAccepted(c)
    BY <2>2 DEF GoalAccepted
  <2>3. CASE GoalCancel(c) \/ BackendHalt(c) \/ StreamClose(c) \/ Setpoint(c) \/ GripperSetpoint(c)
    BY <2>3 DEF GoalCancel, BackendHalt, StreamClose, Setpoint, GripperSetpoint, procVars
  <2>4. CASE \E k \in StreamKind : StreamVet(c, k)
    BY <2>4 DEF StreamVet
  <2>5. CASE StreamRequest(c) \/ StreamRecord(c) \/ StreamNotReady(c) \/ StreamRestore(c)
    BY <2>5 DEF StreamRequest, StreamRecord, StreamNotReady, StreamRestore
  <2>6. CASE StreamRefused(c) \/ StreamOpened(c)
    BY <2>6 DEF StreamRefused, StreamOpened
  <2>7. CASE HaltStep(c)
    BY <1>1, <2>7
  <2>8. QED
    BY <1>2, <2>1, <2>2, <2>3, <2>4, <2>5, <2>6, <2>7 DEF ClientStep
<1>3. CASE SamplerStep
  <2> USE DEF Settle, Refuse
  <2>1. CASE EdgeReset \/ EdgeTaken
    BY <2>1 DEF EdgeReset, EdgeTaken
  <2>2. CASE HaltTaken
    BY <2>2 DEF HaltTaken
  <2>3. CASE HaltSettles
    BY <2>3 DEF HaltSettles
  <2>4. CASE HaltRecords \/ HaltResets \/ IntegrateCheck \/ IntegrateLock \/ Integrate
    BY <2>4 DEF HaltRecords, HaltResets, IntegrateCheck, IntegrateLock, Integrate
  <2>5. CASE DeadlineCheck \/ IkCheck
    BY <2>5 DEF DeadlineCheck, IkCheck
  <2>6. CASE InboxEmpty \/ Pop \/ GatePasses \/ SwitchRequest \/ SwitchRecord \/ Tick
    BY <2>6 DEF InboxEmpty, Pop, GatePasses, SwitchRequest, SwitchRecord, Tick
  <2>7. CASE Cancel \/ Submit
    BY <2>7 DEF Cancel, Submit
  <2>8. CASE GateRefuses \/ RecheckHalt
    BY <2>8 DEF GateRefuses, RecheckHalt
  <2>9. CASE SubmitRefused \/ TickCompletes
    BY <2>9 DEF SubmitRefused, TickCompletes
  <2>10. CASE HaltStep(Sampler)
    BY <1>1, <2>10
  <2>11. QED
    BY <1>3, <2>1, <2>2, <2>3, <2>4, <2>5, <2>6, <2>7, <2>8, <2>9, <2>10 DEF SamplerStep
<1>4. CASE LinkStep
  BY <1>1, <1>4 DEF LinkStep, LinkDown, LinkRecord, LinkRequest, LinkUp, procVars
<1>5. CASE OperatorStep
  BY <1>1, <1>5 DEF OperatorStep, ClearContact, ClearRecord, ClearRequest, ClearMonitor, ClearMark
<1>6. CASE RtStep
  BY <1>6, RtFrame
<1>7. CASE UNCHANGED vars
  BY <1>7 DEF vars, procVars
<1>8. QED
  BY <1>2, <1>3, <1>4, <1>5, <1>6, <1>7 DEF Next

\* The domains and the lock together: what every later proof starts from.
Base == LockInv /\ DomInv

\* The lock and the tables start right.
LEMMA InitBase == Init => Base
  BY InitLock DEF Init, Base, DomInv

\* The lock and the tables stay right.
LEMMA BaseKept == Base /\ [Next]_vars => Base'
  BY LockKept, DomKept DEF Base

\* While the arm is down ArmLink's thread is in its halt, or has done with it; what
\* it has closed stays closed.
HaltWay == {"cs_mark", "cs_hold", "h_grip", "h_queue", "l_record", "l_request", "idle"}

DownInv ==
  /\ pc[Link] \in HaltWay
  /\ ready => pc[Link] = "idle"
  /\ pc[Link] # "idle" => cause[Link] = "other"
  /\ ~ready /\ pc[Link] # "cs_mark" => ~streamOpen
  /\ ~ready /\ pc[Link] \notin {"cs_mark", "cs_hold", "h_grip"} => ~gripping

\* Nobody but ArmLink's thread says the arm is down or up, nobody else moves that
\* thread, and nothing is opened or stamped while it is down.
LEMMA DownFrame ==
  ASSUME Base, [Next]_vars, ~LinkStep
  PROVE  /\ pc'[Link] = pc[Link] /\ ready' = ready /\ cause'[Link] = cause[Link]
         /\ ~ready => (streamOpen' => streamOpen) /\ (gripping' => gripping)
<1>0. DOMAIN pc = Proc /\ DOMAIN cause = Proc
  BY DEF Base, LockInv, DomInv
<1> USE Names DEF Stays
<1>1. ASSUME NEW p \in Proc, p # Link, HaltStep(p)
      PROVE  /\ pc'[Link] = pc[Link] /\ ready' = ready /\ cause'[Link] = cause[Link]
             /\ (streamOpen' => streamOpen) /\ (gripping' => gripping)
  <2>1. gripping' => gripping
    BY <1>1 DEF HaltStep, CloseMark, CloseHold, HaltGrip, HaltQueue, outside, plant
  <2>2. QED
    BY <1>0, <1>1, <2>1, HaltFrame DEF linkVars
<1>2. ASSUME NEW c \in Client, ClientStep(c)
      PROVE  /\ pc'[Link] = pc[Link] /\ ready' = ready /\ cause'[Link] = cause[Link]
             /\ ~ready => (streamOpen' => streamOpen) /\ (gripping' => gripping)
  <2>1. ~ready => (streamOpen' => streamOpen)
    BY <1>0, <1>2, ClientFrame DEF StreamOpened
  <2>2. cause'[Link] = cause[Link] /\ (~ready => (gripping' => gripping))
    <3>1. CASE (\E g \in Goal : GoalVet(c, g)) \/ GoalAccepted(c) \/ GoalCancel(c) \/ BackendHalt(c)
      BY <1>0, <3>1 DEF GoalVet, GoalAccepted, GoalCancel, BackendHalt, StartClose, procVars, outside, plant
    <3>2. CASE \E k \in StreamKind : StreamVet(c, k)
      BY <3>2 DEF StreamVet, outside, plant
    <3>3. CASE \/ StreamRequest(c) \/ StreamRecord(c) \/ StreamNotReady(c) \/ StreamRestore(c)
               \/ StreamRefused(c) \/ StreamOpened(c)
      BY <3>3 DEF StreamRequest, StreamRecord, StreamNotReady, StreamRestore, StreamRefused,
         StreamOpened, outside, plant
    <3>4. CASE StreamClose(c) \/ Setpoint(c) \/ GripperSetpoint(c)
      BY <1>0, <3>4 DEF StreamClose, StartClose, Setpoint, GripperSetpoint, procVars, outside, plant
    <3>5. CASE HaltStep(c)
      BY <1>1, <3>5
    <3>6. QED
      BY <1>2, <3>1, <3>2, <3>3, <3>4, <3>5 DEF ClientStep
  <2>3. QED
    BY <1>0, <1>2, <2>1, <2>2, ClientFrame
<1>3. CASE SamplerStep
  <2>1. (ready' = ready /\ gripping' = gripping /\ cause'[Link] = cause[Link]) \/ HaltStep(Sampler)
    <3> USE DEF outside, plant, linkVars
    <3>1. CASE EdgeReset \/ EdgeTaken \/ HaltTaken \/ HaltSettles \/ HaltRecords \/ HaltResets
      BY <1>0, <3>1 DEF EdgeReset, EdgeTaken, HaltTaken, HaltSettles, HaltRecords, HaltResets, StartClose
    <3>2. CASE DeadlineCheck \/ IkCheck \/ IntegrateCheck \/ IntegrateLock \/ Integrate
      BY <1>0, <3>2 DEF DeadlineCheck, IkCheck, IntegrateCheck, IntegrateLock, Integrate, StartClose
    <3>3. CASE InboxEmpty \/ Pop \/ Cancel \/ GateRefuses \/ GatePasses
      BY <3>3 DEF InboxEmpty, Pop, Cancel, GateRefuses, GatePasses
    <3>4. CASE \/ SwitchRequest \/ SwitchRecord \/ RecheckHalt \/ Submit \/ SubmitRefused
               \/ Tick \/ TickCompletes
      BY <3>4 DEF SwitchRequest, SwitchRecord, RecheckHalt, Submit, SubmitRefused, Tick, TickCompletes
    <3>5. QED
      BY <1>3, <3>1, <3>2, <3>3, <3>4 DEF SamplerStep
  <2>2. QED
    BY <1>0, <1>1, <1>3, <2>1, SamplerFrame
<1>4. CASE OperatorStep
  <2>1. (ready' = ready /\ gripping' = gripping /\ cause'[Link] = cause[Link]) \/ HaltStep(Operator)
    BY <1>0, <1>4 DEF OperatorStep, ClearContact, ClearRecord, ClearRequest, ClearMonitor, ClearMark,
       StartClose, outside, plant, linkVars
  <2>2. QED
    BY <1>0, <1>1, <1>4, <2>1, OperatorFrame
<1>5. CASE RtStep
  <2>1. gripping' = gripping
    BY <1>5 DEF RtStep, Trip, Unlatch, Adopt, Float, IkFails, Lapse, plant, outside
  <2>2. QED
    BY <1>5, <2>1, RtFrame
<1>6. CASE UNCHANGED vars
  BY <1>6 DEF vars, procVars, outside, streamVars, plant, linkVars
<1>7. QED
  BY <1>2, <1>3, <1>4, <1>5, <1>6 DEF Next

\* What on_link_state closed stays closed until the arm is back.
LEMMA DownKept == ASSUME Base, DownInv, [Next]_vars PROVE DownInv'
<1>0. DOMAIN pc = Proc /\ DOMAIN cause = Proc /\ Link \in Proc
  BY Names DEF Base, LockInv, DomInv
<1> USE DEF DownInv, HaltWay
<1>1. CASE ~LinkStep
  BY <1>1, DownFrame
<1>2. CASE LinkStep
  <2> USE DEF At
  <2>1. CASE LinkDown
    <3>1. pc'[Link] = "cs_mark" /\ ready' = FALSE
      BY <1>0, <2>1, Moved DEF LinkDown, StartClose
    <3>2. cause' = [cause EXCEPT ![Link] = "other"]
      BY <2>1 DEF LinkDown, StartClose
    <3>3. QED
      BY <1>0, <3>1, <3>2
  <2>2. CASE LinkRecord \/ LinkRequest
    BY <1>0, <2>2, Moved DEF LinkRecord, LinkRequest, outside, plant, streamVars, linkVars
  <2>3. CASE LinkUp
    BY <2>3 DEF LinkUp, procVars
  <2>4. CASE CloseMark(Link)
    BY <1>0, <2>4, Moved DEF CloseMark, AfterClose, Goto, plant, linkVars
  <2>5. CASE CloseHold(Link)
    BY <1>0, <2>5, Moved DEF CloseHold, AfterClose, Goto, plant, linkVars
  <2>6. CASE HaltGrip(Link)
    BY <1>0, <2>6, Moved DEF HaltGrip, streamVars, linkVars
  <2>7. CASE HaltQueue(Link)
    <3>1. pc'[Link] = "l_record"
      BY <1>0, <2>7, Names, Moved DEF HaltQueue, AfterHalt
    <3>2. UNCHANGED <<ready, cause, streamOpen, gripping>>
      BY <2>7 DEF HaltQueue, outside, plant, streamVars, linkVars
    <3>3. pc[Link] = "h_queue"
      BY <2>7 DEF HaltQueue
    <3>4. QED
      BY <3>1, <3>2, <3>3
  <2>8. QED
    BY <1>2, <2>1, <2>2, <2>3, <2>4, <2>5, <2>6, <2>7 DEF LinkStep, HaltStep
<1>3. QED
  BY <1>1, <1>2

\* After on_link_state has handled an outage nothing streams and the gripper is not
\* stamped until the arm is back, whatever opens and setpoints were under way.
THEOREM OutageIsQuiet == Spec => []DownIsQuiet
<1>1. Init => Base /\ DownInv
  <2>1. Init => DownInv
    BY Names DEF Init, DownInv, HaltWay
  <2>2. QED
    BY <2>1, InitBase
<1>2. (Base /\ DownInv) /\ [Next]_vars => (Base /\ DownInv)'
  BY BaseKept, DownKept
<1>3. Base /\ DownInv => DownIsQuiet
  BY DEF DownInv, DownIsQuiet, At
<1>4. QED
  BY <1>1, <1>2, <1>3, PTL DEF Spec

-----------------------------------------------------------------------------
(* Where goals are.                                                        *)

Reason == {"none", "contact", "other"}
Entries == [goal : Goal \cup {None}, queue : BOOLEAN, halted : BOOLEAN, why : Reason]

\* A mark changes no entry's goal, and no mark is written over.
LEMMA Marking ==
  ASSUME NEW e \in Entries, NEW why \in Reason
  PROVE  /\ Marked(e, why) \in Entries
         /\ Marked(e, why).goal = e.goal /\ Marked(e, why).halted = TRUE
         /\ Marked(e, why).why = IF e.halted THEN e.why ELSE why
<1>1. CASE e.halted
  <2>1. Marked(e, why) = e
    BY <1>1 DEF Marked
  <2>2. e.halted = TRUE
    BY <1>1 DEF Entries
  <2>3. QED
    BY <1>1, <2>1, <2>2
<1>2. CASE ~e.halted
  <2>1. Marked(e, why) = [e EXCEPT !.halted = TRUE, !.why = why]
    BY <1>2 DEF Marked
  <2>2. QED
    BY <1>2, <2>1 DEF Entries
<1>3. QED
  BY <1>1, <1>2

\* The flushed inbox is the goals of the inbox, each once and marked.
LEMMA Flushing ==
  ASSUME inbox \in Seq(Entries), NEW why \in Reason, NEW q \in Flushed(why)
  PROVE  /\ q \in Seq(Entries)
         /\ \E f \in [DOMAIN q -> DOMAIN inbox] :
              /\ \A i, j \in DOMAIN q : i # j => f[i] # f[j]
              /\ \A k \in DOMAIN q : /\ q[k] = Marked(inbox[f[k]], why)
                                     /\ inbox[f[k]].goal # None
              /\ \A i \in DOMAIN inbox : inbox[i].goal # None => \E k \in DOMAIN q : f[k] = i
<1> DEFINE kept == {i \in DOMAIN inbox : inbox[i].goal # None}
<1> DEFINE n == Cardinality(kept)
<1>1. \E f \in InOrder(kept) : q = [k \in DOMAIN f |-> Marked(inbox[f[k]], why)]
  BY DEF Flushed
<1>2. PICK f \in InOrder(kept) : q = [k \in DOMAIN f |-> Marked(inbox[f[k]], why)]
  BY <1>1
<1>3. /\ f \in [1 .. n -> kept] /\ Range(f) = kept
      /\ \A i, j \in DOMAIN f : i < j => f[i] < f[j]
  BY <1>2 DEF InOrder
<1>4. n \in Nat
  <2>1. Len(inbox) \in Nat /\ DOMAIN inbox = 1 .. Len(inbox)
    OBVIOUS
  <2>2. IsFiniteSet(DOMAIN inbox)
    BY <2>1, FS_Interval
  <2>3. IsFiniteSet(kept)
    BY <2>2, FS_Subset
  <2>4. QED
    BY <2>3, FS_CardinalityType
<1> HIDE DEF n
<1>5. DOMAIN f = 1 .. n /\ DOMAIN q = 1 .. n
  BY <1>2, <1>3
<1>6. \A k \in 1 .. n : /\ f[k] \in DOMAIN inbox /\ inbox[f[k]].goal # None
                        /\ q[k] = Marked(inbox[f[k]], why)
  BY <1>2, <1>3, <1>5
<1>7. \A k \in 1 .. n : q[k] \in Entries
  <2>1. \A i \in DOMAIN inbox : inbox[i] \in Entries
    OBVIOUS
  <2>2. ASSUME NEW k \in 1 .. n PROVE q[k] \in Entries
    <3>1. inbox[f[k]] \in Entries
      BY <1>6, <2>1
    <3>2. Marked(inbox[f[k]], why) \in Entries
      BY <3>1, Marking
    <3>3. QED
      BY <1>6, <3>2
  <2>3. QED
    BY <2>2
<1>8. q \in Seq(Entries)
  BY <1>2, <1>4, <1>5, <1>7
<1>9. \A i, j \in DOMAIN q : i # j => f[i] # f[j]
  <2> SUFFICES ASSUME NEW i \in 1 .. n, NEW j \in 1 .. n, i # j PROVE f[i] # f[j]
    BY <1>5
  <2>1. f[i] \in Nat /\ f[j] \in Nat
    BY <1>6
  <2>2. i < j \/ j < i
    BY <1>4
  <2>3. QED
    BY <1>3, <1>5, <2>1, <2>2
<1>10. \A i \in kept : \E k \in 1 .. n : f[k] = i
  BY <1>3, <1>5 DEF Range
<1>11. f \in [DOMAIN q -> DOMAIN inbox]
  BY <1>3, <1>5
<1>12. \A k \in DOMAIN q : q[k] = Marked(inbox[f[k]], why) /\ inbox[f[k]].goal # None
  BY <1>5, <1>6
<1>13. \A i \in DOMAIN inbox : inbox[i].goal # None => \E k \in DOMAIN q : f[k] = i
  BY <1>5, <1>10
<1>14. QED
  BY <1>8, <1>9, <1>11, <1>12, <1>13

\* A goal appended, and the head taken off.
LEMMA Appending ==
  ASSUME inbox \in Seq(Entries), NEW e \in Entries, inbox' = Append(inbox, e)
  PROVE  /\ inbox' \in Seq(Entries)
         /\ \E n \in DOMAIN inbox' : n \notin DOMAIN inbox /\ inbox'[n] = e
                                     /\ DOMAIN inbox' = DOMAIN inbox \cup {n}
         /\ \A i \in DOMAIN inbox : inbox'[i] = inbox[i]
<1>1. Len(inbox) \in Nat /\ DOMAIN inbox = 1 .. Len(inbox)
  OBVIOUS
<1>2. inbox' \in Seq(Entries) /\ Len(inbox') = Len(inbox) + 1
  OBVIOUS
<1>3. DOMAIN inbox' = 1 .. (Len(inbox) + 1)
  BY <1>2
<1>4. inbox'[Len(inbox) + 1] = e /\ \A i \in 1 .. Len(inbox) : inbox'[i] = inbox[i]
  OBVIOUS
<1>5. DOMAIN inbox' = DOMAIN inbox \cup {Len(inbox) + 1} /\ Len(inbox) + 1 \notin DOMAIN inbox
  BY <1>1, <1>3
<1>6. QED
  BY <1>1, <1>2, <1>3, <1>4, <1>5

\* Tail, from each side: every entry moves one place to the front.
LEMMA Popping ==
  ASSUME inbox \in Seq(Entries), inbox # <<>>, inbox' = Tail(inbox)
  PROVE  /\ inbox' \in Seq(Entries)
         /\ Head(inbox) = inbox[1] /\ 1 \in DOMAIN inbox
         /\ \A i \in DOMAIN inbox' : i + 1 \in DOMAIN inbox /\ inbox'[i] = inbox[i + 1] /\ i + 1 # 1
         /\ \A i \in DOMAIN inbox : i # 1 => i - 1 \in DOMAIN inbox' /\ inbox'[i - 1] = inbox[i]
<1>1. Len(inbox) \in Nat /\ Len(inbox) # 0 /\ DOMAIN inbox = 1 .. Len(inbox)
  OBVIOUS
<1>2. inbox' \in Seq(Entries) /\ Len(inbox') = Len(inbox) - 1
  OBVIOUS
<1>3. DOMAIN inbox' = 1 .. (Len(inbox) - 1)
  BY <1>2
<1>4. \A i \in 1 .. (Len(inbox) - 1) : inbox'[i] = inbox[i + 1]
  BY <1>1
<1>5. Head(inbox) = inbox[1]
  OBVIOUS
<1>6. QED
  BY <1>1, <1>2, <1>3, <1>4, <1>5

\* Where the sampler has a goal in its hands or settles the one that runs.
WithPopped == {"gate", "sw_request", "sw_record", "recheck", "submit"}
GoalPlaces == WithPopped \cup {"cancel", "h_settle", "h_record", "h_reset"}

SamplerGoalMove ==
  \/ HaltTaken \/ HaltSettles \/ HaltRecords \/ HaltResets
  \/ Pop \/ Cancel \/ GateRefuses \/ GatePasses \/ SwitchRequest \/ SwitchRecord
  \/ RecheckHalt \/ Submit \/ SubmitRefused \/ TickCompletes

GoalMove ==
  \/ \E c \in Client : (\E g \in Goal : GoalVet(c, g)) \/ GoalAccepted(c) \/ GoalCancel(c)
  \/ \E p \in Proc : HaltQueue(p)
  \/ SamplerGoalMove

\* A step no goal notices.
Quiet ==
  /\ UNCHANGED <<goalVars, popped>>
  /\ \/ pc'[Sampler] = pc[Sampler] /\ cause'[Sampler] = cause[Sampler]
     \/ pc[Sampler] \notin GoalPlaces /\ pc'[Sampler] \notin GoalPlaces
  /\ \A c \in Client : pc'[c] = "accepted" => pc[c] = "accepted" /\ arg'[c] = arg[c]

\* Every step moves goals or is one that none of them notices.
LEMMA GoalFrame == ASSUME Base, [Next]_vars PROVE GoalMove \/ Quiet
<1>0. DOMAIN pc = Proc /\ DOMAIN cause = Proc /\ DOMAIN arg = Client
  BY DEF Base, LockInv, DomInv
<1> USE Names
<1>1. ASSUME NEW p \in Proc, CloseMark(p) \/ CloseHold(p) \/ HaltGrip(p) PROVE Quiet
  <2>1. UNCHANGED <<goalVars, popped, arg, cause>>
    BY <1>1 DEF CloseMark, CloseHold, HaltGrip, goalVars
  <2>2. HaltStep(p) /\ pc[p] \in {"cs_mark", "cs_hold", "h_grip"}
    BY <1>1 DEF HaltStep, CloseMark, CloseHold, HaltGrip, At
  <2>3. \A r \in Proc : r # p => pc'[r] = pc[r]
    BY <1>0, <2>2, HaltFrame DEF Stays
  <2>4. pc'[p] \in {"cs_hold", "h_grip", "h_queue", "ik", "integrate", "idle"}
    BY <1>0, <1>1, Moved DEF CloseMark, CloseHold, HaltGrip, Goto, AfterClose
  <2>5. QED
    BY <2>1, <2>2, <2>3, <2>4 DEF Quiet, GoalPlaces, WithPopped
<1>2. ASSUME NEW c \in Client, ClientStep(c) PROVE GoalMove \/ Quiet
  <2>1. CASE (\E g \in Goal : GoalVet(c, g)) \/ GoalAccepted(c) \/ GoalCancel(c) \/ HaltQueue(c)
    BY <2>1 DEF GoalMove
  <2>2. CASE CloseMark(c) \/ CloseHold(c) \/ HaltGrip(c)
    BY <1>1, <2>2
  <2>3. CASE BackendHalt(c) \/ StreamClose(c)
    BY <1>0, <2>3, Moved DEF BackendHalt, StreamClose, StartClose, Quiet
  <2>4. CASE \E k \in StreamKind : StreamVet(c, k)
    BY <1>0, <2>4, Moved DEF StreamVet, Quiet
  <2>5. CASE StreamRequest(c) \/ StreamRecord(c) \/ StreamNotReady(c)
    BY <1>0, <2>5, Moved DEF StreamRequest, StreamRecord, StreamNotReady, Quiet
  <2>6. CASE StreamRestore(c) \/ StreamRefused(c) \/ StreamOpened(c)
    BY <1>0, <2>6, Moved DEF StreamRestore, StreamRefused, StreamOpened, Quiet
  <2>7. CASE Setpoint(c) \/ GripperSetpoint(c)
    BY <2>7 DEF Setpoint, GripperSetpoint, Quiet, procVars
  <2>8. QED
    BY <1>2, <2>1, <2>2, <2>3, <2>4, <2>5, <2>6, <2>7 DEF ClientStep, HaltStep
<1>3. CASE SamplerStep
  <2> USE DEF Quiet, GoalPlaces, WithPopped
  <2>1. CASE SamplerGoalMove \/ HaltQueue(Sampler)
    BY <2>1 DEF GoalMove
  <2>2. CASE CloseMark(Sampler) \/ CloseHold(Sampler) \/ HaltGrip(Sampler)
    BY <1>1, <2>2
  <2>3. CASE EdgeReset \/ EdgeTaken
    BY <1>0, <2>3, Moved DEF EdgeReset, EdgeTaken, StartClose, Goto, At
  <2>4. CASE DeadlineCheck \/ IkCheck
    BY <1>0, <2>4, Moved DEF DeadlineCheck, IkCheck, StartClose, Goto, At
  <2>5. CASE IntegrateCheck \/ IntegrateLock \/ Integrate
    BY <1>0, <2>5, Moved DEF IntegrateCheck, IntegrateLock, Integrate, Goto, At
  <2>6. CASE InboxEmpty \/ Tick
    BY <1>0, <2>6, Moved DEF InboxEmpty, Tick, At
  <2>7. QED
    BY <1>3, <2>1, <2>2, <2>3, <2>4, <2>5, <2>6 DEF SamplerStep, SamplerGoalMove, HaltStep
<1>4. CASE LinkStep
  <2>1. CASE HaltQueue(Link)
    BY <2>1 DEF GoalMove
  <2>2. CASE CloseMark(Link) \/ CloseHold(Link) \/ HaltGrip(Link)
    BY <1>1, <2>2
  <2>3. CASE LinkDown \/ LinkRecord \/ LinkRequest
    BY <1>0, <2>3, Moved DEF LinkDown, LinkRecord, LinkRequest, StartClose, Quiet
  <2>4. CASE LinkUp
    BY <2>4 DEF LinkUp, procVars, Quiet
  <2>5. QED
    BY <1>4, <2>1, <2>2, <2>3, <2>4 DEF LinkStep, HaltStep
<1>5. CASE OperatorStep
  <2>1. CASE HaltQueue(Operator)
    BY <2>1 DEF GoalMove
  <2>2. CASE CloseMark(Operator) \/ CloseHold(Operator) \/ HaltGrip(Operator)
    BY <1>1, <2>2
  <2>3. CASE ClearContact \/ ClearRecord \/ ClearRequest \/ ClearMonitor \/ ClearMark
    BY <1>0, <2>3, Moved DEF ClearContact, ClearRecord, ClearRequest, ClearMonitor, ClearMark,
       StartClose, Quiet
  <2>4. QED
    BY <1>5, <2>1, <2>2, <2>3 DEF OperatorStep, HaltStep
<1>6. CASE RtStep
  BY <1>6, RtFrame DEF Quiet
<1>7. CASE UNCHANGED vars
  BY <1>7 DEF vars, procVars, Quiet
<1>8. QED
  BY <1>2, <1>3, <1>4, <1>5, <1>6, <1>7 DEF Next

\* A thread that halts does so for a contact or for another halt.
CauseInv ==
  /\ \A p \in Proc : pc[p] \in {"h_grip", "h_queue"} => cause[p] \in {"contact", "other"}
  /\ haltReason \in {"contact", "other"}

\* A thread's reason is its own: it is set where a teardown starts, or by the sampler
\* when it takes a halt, and kept up to the last part of on_halt.
LEMMA CauseFrame ==
  ASSUME Base, [Next]_vars, NEW p \in Proc, pc'[p] \in {"h_grip", "h_queue"}
  PROVE  /\ cause'[p] = cause[p]
         /\ pc[p] \in {"h_grip", "h_queue"} \/ cause[p] \in {"contact", "other"}
<1>0. DOMAIN pc = Proc /\ DOMAIN cause = Proc
  BY DEF Base, LockInv, DomInv
<1> USE Names
<1>1. ASSUME NEW r \in Proc, HaltStep(r)
      PROVE  /\ cause' = cause
             /\ pc[p] \in {"h_grip", "h_queue"} \/ cause[p] \in {"contact", "other"}
  <2>1. CASE p # r
    BY <1>0, <1>1, <2>1, HaltFrame DEF Stays
  <2>2. CASE p = r
    <3>1. CASE CloseMark(p) \/ CloseHold(p)
      BY <1>0, <3>1, Moved DEF CloseMark, CloseHold, Goto, AfterClose
    <3>2. CASE HaltGrip(p) \/ HaltQueue(p)
      BY <3>2 DEF HaltGrip, HaltQueue, At
    <3>3. QED
      BY <1>1, <2>2, <3>1, <3>2 DEF HaltStep
  <2>3. QED
    BY <2>1, <2>2
<1>2. ASSUME NEW r \in Proc, NEW why, NEW w, cause' = [cause EXCEPT ![r] = why], Goto(r, w),
             w \notin {"h_grip", "h_queue"}
      PROVE  cause'[p] = cause[p] /\ pc[p] \in {"h_grip", "h_queue"}
  <2>1. p # r
    BY <1>0, <1>2, Moved
  <2>2. QED
    BY <1>0, <1>2, <2>1, Moved
<1>3. ASSUME NEW r \in Proc, NEW w, Goto(r, w), w \notin {"h_grip", "h_queue"}
      PROVE  pc[p] \in {"h_grip", "h_queue"}
  BY <1>0, <1>3, Moved
<1>4. ASSUME NEW c \in Client, ClientStep(c)
      PROVE  /\ cause'[p] = cause[p]
             /\ pc[p] \in {"h_grip", "h_queue"} \/ cause[p] \in {"contact", "other"}
  <2>1. CASE \E g \in Goal : GoalVet(c, g)
    BY <1>3, <2>1 DEF GoalVet
  <2>2. CASE GoalAccepted(c)
    BY <1>3, <2>2 DEF GoalAccepted
  <2>3. CASE GoalCancel(c) \/ Setpoint(c) \/ GripperSetpoint(c)
    BY <2>3 DEF GoalCancel, Setpoint, GripperSetpoint, procVars
  <2>4. CASE BackendHalt(c) \/ StreamClose(c)
    BY <1>2, <2>4 DEF BackendHalt, StreamClose, StartClose
  <2>5. CASE \E k \in StreamKind : StreamVet(c, k)
    <3>1. PICK k \in StreamKind : StreamVet(c, k)
      BY <2>5
    <3>2. Goto(c, IF k.mode = active THEN "o_lock" ELSE "o_request") /\ cause' = cause
      BY <3>1 DEF StreamVet
    <3>3. QED
      BY <1>3, <3>2
  <2>6. CASE StreamRequest(c) \/ StreamRecord(c) \/ StreamNotReady(c)
    BY <1>3, <2>6 DEF StreamRequest, StreamRecord, StreamNotReady
  <2>7. CASE StreamRestore(c) \/ StreamRefused(c) \/ StreamOpened(c)
    BY <1>3, <2>7 DEF StreamRestore, StreamRefused, StreamOpened
  <2>8. CASE HaltStep(c)
    BY <1>1, <2>8
  <2>9. QED
    BY <1>4, <2>1, <2>2, <2>3, <2>4, <2>5, <2>6, <2>7, <2>8 DEF ClientStep
<1>5. CASE SamplerStep
  <2>1. CASE EdgeReset \/ HaltRecords \/ HaltResets \/ Integrate \/ InboxEmpty
    BY <1>3, <2>1 DEF EdgeReset, HaltRecords, HaltResets, Integrate, InboxEmpty
  <2>2. CASE EdgeTaken
    BY <1>2, <1>3, <2>2 DEF EdgeTaken, StartClose
  <2>3. CASE HaltTaken
    BY <1>2, <1>3, <2>3 DEF HaltTaken
  <2>4. CASE DeadlineCheck
    BY <1>2, <1>3, <2>4 DEF DeadlineCheck, StartClose
  <2>5. CASE IkCheck
    BY <1>2, <1>3, <2>5 DEF IkCheck, StartClose
  <2>6. CASE HaltSettles
    BY <1>0, <2>6, Moved DEF HaltSettles, Goto
  <2>7. CASE IntegrateCheck \/ IntegrateLock
    BY <1>0, <2>7, Moved DEF IntegrateCheck, IntegrateLock, Goto
  <2>8. CASE Pop \/ Cancel \/ GatePasses
    BY <1>0, <2>8, Moved DEF Pop, Cancel, GatePasses, Goto
  <2>9. CASE GateRefuses \/ RecheckHalt
    BY <1>0, <2>9, Moved DEF GateRefuses, RecheckHalt, Refuse, Goto
  <2>10. CASE SwitchRequest \/ SwitchRecord \/ Submit \/ SubmitRefused \/ Tick \/ TickCompletes
    BY <1>3, <2>10 DEF SwitchRequest, SwitchRecord, Submit, SubmitRefused, Tick, TickCompletes, Refuse
  <2>11. CASE HaltStep(Sampler)
    BY <1>1, <2>11
  <2>12. QED
    BY <1>5, <2>1, <2>2, <2>3, <2>4, <2>5, <2>6, <2>7, <2>8, <2>9, <2>10, <2>11 DEF SamplerStep
<1>6. CASE LinkStep
  <2>1. CASE LinkDown
    BY <1>2, <2>1 DEF LinkDown, StartClose
  <2>2. CASE LinkRecord \/ LinkRequest
    BY <1>3, <2>2 DEF LinkRecord, LinkRequest
  <2>3. CASE LinkUp
    BY <2>3 DEF LinkUp, procVars
  <2>4. QED
    BY <1>1, <1>6, <2>1, <2>2, <2>3 DEF LinkStep
<1>7. CASE OperatorStep
  <2>1. CASE ClearContact
    BY <1>2, <2>1 DEF ClearContact, StartClose
  <2>2. CASE ClearRecord \/ ClearRequest \/ ClearMonitor \/ ClearMark
    BY <1>3, <2>2 DEF ClearRecord, ClearRequest, ClearMonitor, ClearMark
  <2>3. QED
    BY <1>1, <1>7, <2>1, <2>2 DEF OperatorStep
<1>8. CASE RtStep
  BY <1>8, RtFrame
<1>9. CASE UNCHANGED vars
  BY <1>9 DEF vars, procVars
<1>10. QED
  BY <1>4, <1>5, <1>6, <1>7, <1>8, <1>9 DEF Next

\* Whoever is about to flush the inbox has a reason to mark it with.
LEMMA CauseKept == ASSUME Base, CauseInv, [Next]_vars PROVE CauseInv'
<1>1. \A p \in Proc : pc'[p] \in {"h_grip", "h_queue"} => cause'[p] \in {"contact", "other"}
  BY CauseFrame DEF CauseInv
<1>2. haltReason' \in {"contact", "other"}
  <2>1. ASSUME NEW p \in Proc, HaltQueue(p) PROVE haltReason' \in {"contact", "other"}
    BY <2>1 DEF HaltQueue, CauseInv, At
  <2>2. CASE SamplerGoalMove
    BY <2>2 DEF SamplerGoalMove, HaltTaken, HaltSettles, HaltRecords, HaltResets, Pop, Cancel,
       GateRefuses, GatePasses, SwitchRequest, SwitchRecord, RecheckHalt, Submit, SubmitRefused,
       TickCompletes, goalVars, CauseInv
  <2>3. CASE Quiet
    BY <2>3 DEF Quiet, goalVars, CauseInv
  <2>4. ASSUME NEW c \in Client, (\E g \in Goal : GoalVet(c, g)) \/ GoalAccepted(c) \/ GoalCancel(c)
        PROVE  haltReason' \in {"contact", "other"}
    BY <2>4 DEF GoalVet, GoalAccepted, GoalCancel, goalVars, CauseInv
  <2>5. QED
    BY <2>1, <2>2, <2>3, <2>4, GoalFrame DEF GoalMove
<1>3. QED
  BY <1>1, <1>2 DEF CauseInv

Codes == {"done", "preempted", "invalid", "halted", "contact"}

\* What the goals' variables hold, and where the sampler has what it popped.
GoalsTyped ==
  /\ inbox \in Seq(Entries) /\ popped \in Entries /\ current \in Goal \cup {None}
  /\ result \in [Goal -> Codes \cup {"none"}]
  /\ settles = [g \in Goal |-> IF result[g] = "none" THEN 0 ELSE 1]
  /\ \A i \in DOMAIN inbox : inbox[i].goal = None => inbox[i] = CancelEntry
  /\ pc[Sampler] \in WithPopped <=> popped.goal # None
  /\ popped.goal = None => popped = CancelEntry
  /\ pc[Sampler] \in {"h_record", "h_reset"} => current = None
  /\ current # None => inFlight

\* A goal without a result is in one place at most: in the hands of one backend
\* thread, at one position of the inbox, with the sampler, or in the executor.
GoalsApart ==
  /\ \A i \in DOMAIN inbox : inbox[i].goal # None =>
       /\ result[inbox[i].goal] = "none"
       /\ inbox[i].goal # popped.goal /\ inbox[i].goal # current
  /\ \A i, j \in DOMAIN inbox : i # j /\ inbox[i].goal # None => inbox[i].goal # inbox[j].goal
  /\ popped.goal # None => result[popped.goal] = "none" /\ popped.goal # current
  /\ current # None => result[current] = "none"
  /\ \A c \in Client : pc[c] = "accepted" =>
       /\ arg[c] \in Goal /\ result[arg[c]] = "none"
       /\ arg[c] # popped.goal /\ arg[c] # current
       /\ \A i \in DOMAIN inbox : inbox[i].goal # arg[c]
       /\ \A d \in Client : pc[d] = "accepted" /\ d # c => arg[d] # arg[c]

GoalsInv == GoalsTyped /\ GoalsApart

\* Every place of the inbox holds an entry, of a goal or a cancel.
LEMMA InboxEntries ==
  ASSUME GoalsInv
  PROVE  \A i \in DOMAIN inbox : inbox[i] \in Entries /\ inbox[i].goal \in Goal \cup {None}
<1>1. inbox \in Seq(Entries)
  BY DEF GoalsInv, GoalsTyped
<1>2. \A i \in DOMAIN inbox : inbox[i] \in Entries
  BY <1>1
<1>3. \A e \in Entries : e.goal \in Goal \cup {None}
  BY DEF Entries
<1>4. QED
  BY <1>2, <1>3

\* The step of one thread, seen from the others' goals.
OnlySampler == \A c \in Client : pc'[c] = pc[c]

\* The sampler moves alone.
LEMMA SamplerMoves ==
  ASSUME DOMAIN pc = Proc, NEW w, Goto(Sampler, w)
  PROVE  pc'[Sampler] = w /\ OnlySampler
  BY Names, Moved DEF OnlySampler

\* The sampler moves on with what it has.
LEMMA SamplerWalks ==
  ASSUME Base, GoalsInv, NEW w, Goto(Sampler, w),
         w \in WithPopped <=> pc[Sampler] \in WithPopped,
         w \in {"h_record", "h_reset"} => current = None,
         UNCHANGED <<inbox, popped, current, result, settles, arg>>,
         current # None => inFlight'
  PROVE  GoalsInv'
<1>1. pc'[Sampler] = w /\ OnlySampler
  BY SamplerMoves DEF Base, LockInv
<1>2. GoalsTyped'
  BY <1>1 DEF GoalsInv, GoalsTyped
<1>3. GoalsApart'
  BY <1>1 DEF GoalsInv, GoalsApart, OnlySampler
<1>4. QED
  BY <1>2, <1>3 DEF GoalsInv

\* An answer changes the record of the goal it answers, which had none.
LEMMA Answered ==
  ASSUME GoalsInv, NEW g \in Goal, result[g] = "none", NEW code \in Codes, Settle(g, code)
  PROVE  /\ result' \in [Goal -> Codes \cup {"none"}]
         /\ result'[g] = code /\ code # "none"
         /\ \A h \in Goal : h # g => result'[h] = result[h]
         /\ settles' = [h \in Goal |-> IF result'[h] = "none" THEN 0 ELSE 1]
<1>1. /\ result \in [Goal -> Codes \cup {"none"}]
      /\ settles = [h \in Goal |-> IF result[h] = "none" THEN 0 ELSE 1]
  BY DEF GoalsInv, GoalsTyped
<1>2. /\ result' = [result EXCEPT ![g] = code]
      /\ settles' = [settles EXCEPT ![g] = @ + 1]
  BY DEF Settle
<1>3. code # "none"
  BY DEF Codes
<1>4. settles' = [h \in Goal |-> IF h = g THEN 1 ELSE settles[h]]
  BY <1>1, <1>2
<1>5. \A h \in Goal : settles'[h] = IF result'[h] = "none" THEN 0 ELSE 1
  BY <1>1, <1>2, <1>3, <1>4
<1>6. QED
  BY <1>1, <1>2, <1>3, <1>4, <1>5

\* The sampler answers the goal it popped.
LEMMA PoppedAnswered ==
  ASSUME Base, GoalsInv, pc[Sampler] \in WithPopped, NEW code \in Codes, Refuse(code),
         UNCHANGED <<inbox, current, inFlight, arg>>
  PROVE  GoalsInv'
<1> DEFINE g == popped.goal
<1>1. pc'[Sampler] = "drain" /\ OnlySampler
  BY SamplerMoves DEF Base, LockInv, Refuse
<1>2. g \in Goal /\ result[g] = "none" /\ g # current
  BY DEF GoalsInv, GoalsTyped, GoalsApart, Entries
<1>3. Settle(g, code) /\ popped' = NoEntry
  BY DEF Refuse
<1>4. popped'.goal = None /\ popped' = CancelEntry /\ popped' \in Entries
  BY <1>3 DEF NoEntry, CancelEntry, Entry, Entries, Reason
<1>5. /\ result' \in [Goal -> Codes \cup {"none"}]
      /\ \A h \in Goal : h # g => result'[h] = result[h]
      /\ settles' = [h \in Goal |-> IF result'[h] = "none" THEN 0 ELSE 1]
  BY <1>2, <1>3, Answered
<1>8. GoalsTyped'
  BY <1>1, <1>4, <1>5 DEF GoalsInv, GoalsTyped, WithPopped
<1>9. GoalsApart'
  <2>0. None \notin Goal
    BY Names
  <2>1. \A i \in DOMAIN inbox : inbox[i] \in Entries /\ inbox[i].goal \in Goal \cup {None}
    BY InboxEntries
  <2>2. \A i \in DOMAIN inbox : inbox[i].goal # None =>
          result'[inbox[i].goal] = "none" /\ inbox[i].goal # None /\ inbox[i].goal # current
    BY <1>5, <2>1 DEF GoalsInv, GoalsApart
  <2>3. current # None => result'[current] = "none"
    BY <1>2, <1>5 DEF GoalsInv, GoalsApart, GoalsTyped
  <2>4. \A c \in Client : pc'[c] = "accepted" =>
          /\ arg[c] \in Goal /\ result'[arg[c]] = "none" /\ arg[c] # None /\ arg[c] # current
          /\ \A i \in DOMAIN inbox : inbox[i].goal # arg[c]
          /\ \A d \in Client : pc'[d] = "accepted" /\ d # c => arg[d] # arg[c]
    BY <1>1, <1>5, <2>0 DEF GoalsInv, GoalsApart, OnlySampler
  <2>5. \A i, j \in DOMAIN inbox : i # j /\ inbox[i].goal # None => inbox[i].goal # inbox[j].goal
    BY DEF GoalsInv, GoalsApart
  <2>6. QED
    BY <1>4, <2>2, <2>3, <2>4, <2>5 DEF GoalsApart
<1>10. QED
  BY <1>8, <1>9 DEF GoalsInv

\* The running goal is answered and the executor is idle.
LEMMA CurrentAnswered ==
  ASSUME Base, GoalsInv, pc[Sampler] \notin WithPopped, NEW w, Goto(Sampler, w),
         w \notin WithPopped, NEW code \in Codes,
         IF current = None THEN UNCHANGED <<result, settles>> ELSE Settle(current, code),
         current' = None, UNCHANGED <<inbox, popped, arg>>
  PROVE  GoalsInv'
<1>1. pc'[Sampler] = w /\ OnlySampler
  BY SamplerMoves DEF Base, LockInv
<1>2. popped.goal = None /\ current \in Goal \cup {None} /\ None \notin Goal
  BY Names DEF GoalsInv, GoalsTyped
<1>3. CASE current = None
  <2>1. GoalsTyped'
    BY <1>1, <1>2, <1>3 DEF GoalsInv, GoalsTyped
  <2>2. GoalsApart'
    BY <1>1, <1>2, <1>3 DEF GoalsInv, GoalsApart, OnlySampler
  <2>3. QED
    BY <2>1, <2>2 DEF GoalsInv
<1>4. CASE current # None
  <2>1. Settle(current, code) /\ current \in Goal /\ result[current] = "none"
    BY <1>2, <1>4 DEF GoalsInv, GoalsApart
  <2>2. /\ result' \in [Goal -> Codes \cup {"none"}]
        /\ \A h \in Goal : h # current => result'[h] = result[h]
        /\ settles' = [h \in Goal |-> IF result'[h] = "none" THEN 0 ELSE 1]
    BY <2>1, Answered
  <2>5. GoalsTyped'
    BY <1>1, <1>2, <2>2 DEF GoalsInv, GoalsTyped
  <2>6. \A i \in DOMAIN inbox : inbox[i].goal # None =>
          result'[inbox[i].goal] = "none" /\ inbox[i].goal # None
    BY <2>2, InboxEntries DEF GoalsInv, GoalsApart
  <2>7. \A c \in Client : pc'[c] = "accepted" =>
          /\ arg[c] \in Goal /\ result'[arg[c]] = "none" /\ arg[c] # None
          /\ \A i \in DOMAIN inbox : inbox[i].goal # arg[c]
          /\ \A d \in Client : pc'[d] = "accepted" /\ d # c => arg[d] # arg[c]
    BY <1>1, <1>2, <2>2 DEF GoalsInv, GoalsApart, OnlySampler
  <2>8. \A i, j \in DOMAIN inbox : i # j /\ inbox[i].goal # None => inbox[i].goal # inbox[j].goal
    BY DEF GoalsInv, GoalsApart
  <2>9. GoalsApart'
    BY <1>2, <2>6, <2>7, <2>8 DEF GoalsApart
  <2>10. QED
    BY <2>5, <2>9 DEF GoalsInv
<1>5. QED
  BY <1>3, <1>4

\* The popped goal starts, in place of the one that ran.
LEMMA GoalStarted == ASSUME Base, GoalsInv, Submit PROVE GoalsInv'
<1> DEFINE g == popped.goal
<1>1. pc[Sampler] = "submit" /\ pc'[Sampler] = "drain" /\ OnlySampler
  BY SamplerMoves DEF Base, LockInv, Submit, At
<1>2. g \in Goal /\ result[g] = "none" /\ g # current /\ None \notin Goal
  BY <1>1, Names DEF GoalsInv, GoalsTyped, GoalsApart, WithPopped, Entries
<1>3. current' = g /\ inFlight' /\ popped' = NoEntry /\ UNCHANGED <<inbox, arg>>
  BY DEF Submit
<1>4. popped'.goal = None /\ popped' = CancelEntry /\ popped' \in Entries
  BY <1>3 DEF NoEntry, CancelEntry, Entry, Entries, Reason
<1>5. /\ \A h \in Goal : h # current => result'[h] = result[h]
      /\ result' \in [Goal -> Codes \cup {"none"}]
      /\ settles' = [h \in Goal |-> IF result'[h] = "none" THEN 0 ELSE 1]
  <2>1. CASE current = None
    <3>1. result' = result /\ settles' = settles
      BY <2>1 DEF Submit
    <3>2. QED
      BY <3>1 DEF GoalsInv, GoalsTyped
  <2>2. CASE current # None
    <3>1. Settle(current, "preempted") /\ "preempted" \in Codes
      BY <2>2 DEF Submit, Codes
    <3>2. current \in Goal /\ result[current] = "none"
      BY <2>2 DEF GoalsInv, GoalsApart, GoalsTyped
    <3>3. QED
      BY <3>1, <3>2, Answered
  <2>3. QED
    BY <2>1, <2>2
<1>6. GoalsTyped'
  BY <1>1, <1>2, <1>3, <1>4, <1>5 DEF GoalsInv, GoalsTyped, WithPopped
<1>7. GoalsApart'
  <2>1. \A i \in DOMAIN inbox : inbox[i].goal # None =>
          result'[inbox[i].goal] = "none" /\ inbox[i].goal # None /\ inbox[i].goal # g
    BY <1>5, InboxEntries DEF GoalsInv, GoalsApart
  <2>2. \A c \in Client : pc'[c] = "accepted" =>
          /\ arg[c] \in Goal /\ result'[arg[c]] = "none" /\ arg[c] # None /\ arg[c] # g
          /\ \A i \in DOMAIN inbox : inbox[i].goal # arg[c]
          /\ \A d \in Client : pc'[d] = "accepted" /\ d # c => arg[d] # arg[c]
    BY <1>1, <1>2, <1>5 DEF GoalsInv, GoalsApart, OnlySampler
  <2>3. result'[g] = "none"
    BY <1>2, <1>5
  <2>4. \A i, j \in DOMAIN inbox : i # j /\ inbox[i].goal # None => inbox[i].goal # inbox[j].goal
    BY DEF GoalsInv, GoalsApart
  <2>5. QED
    BY <1>3, <1>4, <2>1, <2>2, <2>3, <2>4 DEF GoalsApart
<1>8. QED
  BY <1>6, <1>7 DEF GoalsInv

\* The sampler pops an entry: a goal it now has in hand, or a cancel.
LEMMA GoalPopped == ASSUME Base, GoalsInv, Pop PROVE GoalsInv'
<1>1. inbox \in Seq(Entries) /\ inbox # <<>> /\ inbox' = Tail(inbox)
  BY DEF Pop, GoalsInv, GoalsTyped
<1>2. /\ inbox' \in Seq(Entries)
      /\ Head(inbox) = inbox[1] /\ 1 \in DOMAIN inbox
      /\ \A i \in DOMAIN inbox' : i + 1 \in DOMAIN inbox /\ inbox'[i] = inbox[i + 1] /\ i + 1 # 1
  BY <1>1, Popping
<1>3. popped' = inbox[1] /\ UNCHANGED <<arg, current, inFlight, result, settles>>
  BY <1>2 DEF Pop
<1>4. pc[Sampler] = "drain" /\ popped.goal = None
  BY DEF Pop, At, GoalsInv, GoalsTyped, WithPopped
<1>5. /\ pc'[Sampler] = IF inbox[1] = CancelEntry THEN "cancel" ELSE "gate"
      /\ OnlySampler
  BY <1>2, SamplerMoves DEF Base, LockInv, Pop
<1>6. inbox[1] \in Entries /\ (inbox[1].goal = None <=> inbox[1] = CancelEntry)
  <2>1. inbox[1].goal = None => inbox[1] = CancelEntry
    BY <1>2 DEF GoalsInv, GoalsTyped
  <2>2. CancelEntry.goal = None
    BY DEF CancelEntry, Entry
  <2>3. QED
    BY <1>2, <2>1, <2>2, InboxEntries
<1>7. \A i \in DOMAIN inbox' : inbox'[i].goal = None => inbox'[i] = CancelEntry
  BY <1>2 DEF GoalsInv, GoalsTyped
<1>8. GoalsTyped'
  <2>1. pc'[Sampler] \in WithPopped <=> popped'.goal # None
    BY <1>3, <1>5, <1>6 DEF WithPopped
  <2>2. pc'[Sampler] \notin {"h_record", "h_reset"}
    BY <1>5
  <2>3. QED
    BY <1>2, <1>3, <1>6, <1>7, <2>1, <2>2 DEF GoalsInv, GoalsTyped
<1>9. GoalsApart'
  <2>1. \A i \in DOMAIN inbox' : inbox'[i].goal # None =>
          /\ result[inbox'[i].goal] = "none"
          /\ inbox'[i].goal # inbox[1].goal /\ inbox'[i].goal # current
    BY <1>2 DEF GoalsInv, GoalsApart
  <2>2. \A i, j \in DOMAIN inbox' : i # j /\ inbox'[i].goal # None => inbox'[i].goal # inbox'[j].goal
    <3> SUFFICES ASSUME NEW i \in DOMAIN inbox', NEW j \in DOMAIN inbox', i # j, inbox'[i].goal # None
                 PROVE  inbox'[i].goal # inbox'[j].goal
      OBVIOUS
    <3>1. i \in Nat /\ j \in Nat
      BY <1>2
    <3>2. i + 1 # j + 1
      BY <3>1
    <3>3. QED
      BY <1>2, <3>2 DEF GoalsInv, GoalsApart
  <2>3. inbox[1].goal # None => result[inbox[1].goal] = "none" /\ inbox[1].goal # current
    BY <1>2 DEF GoalsInv, GoalsApart
  <2>4. \A c \in Client : pc'[c] = "accepted" =>
          /\ arg[c] \in Goal /\ result[arg[c]] = "none" /\ arg[c] # inbox[1].goal /\ arg[c] # current
          /\ \A i \in DOMAIN inbox' : inbox'[i].goal # arg[c]
          /\ \A d \in Client : pc'[d] = "accepted" /\ d # c => arg[d] # arg[c]
    BY <1>2, <1>5 DEF GoalsInv, GoalsApart, OnlySampler
  <2>5. current # None => result[current] = "none"
    BY DEF GoalsInv, GoalsApart
  <2>6. QED
    BY <1>3, <2>1, <2>2, <2>3, <2>4, <2>5 DEF GoalsApart
<1>10. QED
  BY <1>8, <1>9 DEF GoalsInv

\* A halt marks the goals of the inbox and drops its cancels.
LEMMA GoalsFlushed ==
  ASSUME Base, CauseInv, GoalsInv, NEW p \in Proc, HaltQueue(p)
  PROVE  GoalsInv'
<1>1. pc[p] = "h_queue" /\ cause[p] \in Reason
  BY DEF HaltQueue, At, CauseInv, Reason
<1>2. inbox \in Seq(Entries) /\ inbox' \in Flushed(cause[p])
  BY DEF HaltQueue, GoalsInv, GoalsTyped
<1>3. inbox' \in Seq(Entries)
  BY <1>1, <1>2, Flushing
<1>4. PICK f \in [DOMAIN inbox' -> DOMAIN inbox] :
        /\ \A i, j \in DOMAIN inbox' : i # j => f[i] # f[j]
        /\ \A k \in DOMAIN inbox' : /\ inbox'[k] = Marked(inbox[f[k]], cause[p])
                                    /\ inbox[f[k]].goal # None
  BY <1>1, <1>2, Flushing
<1>5. \A k \in DOMAIN inbox' : inbox'[k].goal = inbox[f[k]].goal /\ inbox'[k].goal # None
  <2> TAKE k \in DOMAIN inbox'
  <2>1. inbox[f[k]] \in Entries
    BY <1>4, InboxEntries
  <2>2. Marked(inbox[f[k]], cause[p]).goal = inbox[f[k]].goal
    BY <1>1, <2>1, Marking
  <2>3. QED
    BY <1>4, <2>2
<1>6. UNCHANGED <<popped, current, inFlight, result, settles, arg>>
  BY DEF HaltQueue
<1>7. /\ pc'[p] \in {"take", "l_record", "c_record", "idle"}
      /\ \A r \in Proc : r # p => pc'[r] = pc[r]
  BY Moved DEF Base, LockInv, HaltQueue, AfterHalt
<1>8. GoalsTyped'
  <2>1. /\ pc'[Sampler] \in WithPopped <=> pc[Sampler] \in WithPopped
        /\ pc'[Sampler] \in {"h_record", "h_reset"} => pc[Sampler] \in {"h_record", "h_reset"}
    BY <1>1, <1>7, Names DEF WithPopped
  <2>2. QED
    BY <1>3, <1>5, <1>6, <2>1 DEF GoalsInv, GoalsTyped
<1>9. GoalsApart'
  <2>1. \A i \in DOMAIN inbox' : inbox'[i].goal # None =>
          /\ result[inbox'[i].goal] = "none"
          /\ inbox'[i].goal # popped.goal /\ inbox'[i].goal # current
    BY <1>4, <1>5 DEF GoalsInv, GoalsApart
  <2>2. \A i, j \in DOMAIN inbox' : i # j /\ inbox'[i].goal # None => inbox'[i].goal # inbox'[j].goal
    BY <1>4, <1>5 DEF GoalsInv, GoalsApart
  <2>3. \A c \in Client : pc'[c] = "accepted" => pc[c] = "accepted"
    BY <1>1, <1>7, Names
  <2>4. \A c \in Client : pc'[c] = "accepted" =>
          /\ arg[c] \in Goal /\ result[arg[c]] = "none" /\ arg[c] # popped.goal /\ arg[c] # current
          /\ \A i \in DOMAIN inbox' : inbox'[i].goal # arg[c]
          /\ \A d \in Client : pc'[d] = "accepted" /\ d # c => arg[d] # arg[c]
    BY <1>4, <1>5, <2>3 DEF GoalsInv, GoalsApart
  <2>5. /\ popped.goal # None => result[popped.goal] = "none" /\ popped.goal # current
        /\ current # None => result[current] = "none"
    BY DEF GoalsInv, GoalsApart
  <2>6. QED
    BY <1>6, <2>1, <2>2, <2>4, <2>5 DEF GoalsApart
<1>10. QED
  BY <1>8, <1>9 DEF GoalsInv

\* A backend thread puts a goal it vetted, or a cancel, at the end of the inbox.
LEMMA GoalArrives ==
  ASSUME Base, GoalsInv, NEW c \in Client, GoalAccepted(c)
  PROVE  GoalsInv'
<1>1. PICK e \in Entries : inbox' = Append(inbox, e) /\ e.goal = arg[c]
  <2>1. PICK queue \in BOOLEAN, why \in Reason :
          inbox' = Append(inbox, Entry(arg[c], queue, why # "none", why))
    BY DEF GoalAccepted, Reason
  <2>2. arg[c] \in Goal
    BY DEF GoalAccepted, At, GoalsInv, GoalsApart
  <2>3. Entry(arg[c], queue, why # "none", why) \in Entries
    BY <2>2 DEF Entry, Entries
  <2>4. QED
    BY <2>1, <2>3 DEF Entry
<1>2. /\ arg[c] \in Goal /\ result[arg[c]] = "none" /\ None \notin Goal
      /\ arg[c] # popped.goal /\ arg[c] # current
      /\ \A i \in DOMAIN inbox : inbox[i].goal # arg[c]
      /\ \A d \in Client : pc[d] = "accepted" /\ d # c => arg[d] # arg[c]
  BY Names DEF GoalAccepted, At, GoalsInv, GoalsApart
<1>3. inbox \in Seq(Entries)
  BY DEF GoalsInv, GoalsTyped
<1>4. inbox' \in Seq(Entries) /\ \A i \in DOMAIN inbox : inbox'[i] = inbox[i]
  BY <1>1, <1>3, Appending
<1>5. PICK n \in DOMAIN inbox' : /\ n \notin DOMAIN inbox /\ inbox'[n] = e
                                 /\ DOMAIN inbox' = DOMAIN inbox \cup {n}
  BY <1>1, <1>3, Appending
<1>6. UNCHANGED <<popped, current, inFlight, result, settles>>
  BY DEF GoalAccepted
<1>7. /\ pc'[Sampler] = pc[Sampler] /\ pc'[c] # "accepted"
      /\ \A d \in Client : d # c => pc'[d] = pc[d] /\ arg'[d] = arg[d]
  BY Names, Moved DEF Base, LockInv, DomInv, GoalAccepted
<1>8. GoalsTyped'
  <2>1. \A i \in DOMAIN inbox' : inbox'[i].goal = None => inbox'[i] = CancelEntry
    BY <1>1, <1>2, <1>4, <1>5 DEF GoalsInv, GoalsTyped
  <2>2. QED
    BY <1>4, <1>6, <1>7, <2>1 DEF GoalsInv, GoalsTyped
<1>9. GoalsApart'
  <2>1. \A i \in DOMAIN inbox' : inbox'[i].goal # None =>
          /\ result[inbox'[i].goal] = "none"
          /\ inbox'[i].goal # popped.goal /\ inbox'[i].goal # current
    BY <1>1, <1>2, <1>4, <1>5 DEF GoalsInv, GoalsApart
  <2>2. \A i, j \in DOMAIN inbox' : i # j /\ inbox'[i].goal # None => inbox'[i].goal # inbox'[j].goal
    BY <1>1, <1>2, <1>4, <1>5 DEF GoalsInv, GoalsApart
  <2>3. \A d \in Client : pc'[d] = "accepted" =>
          /\ d # c /\ arg'[d] = arg[d] /\ pc[d] = "accepted"
    BY <1>7
  <2>4. \A d \in Client : pc'[d] = "accepted" =>
          /\ arg'[d] \in Goal /\ result[arg'[d]] = "none"
          /\ arg'[d] # popped.goal /\ arg'[d] # current
          /\ \A b \in Client : pc'[b] = "accepted" /\ b # d => arg'[b] # arg'[d]
    BY <2>3 DEF GoalsInv, GoalsApart
  <2>5. \A d \in Client : pc'[d] = "accepted" =>
          \A i \in DOMAIN inbox' : inbox'[i].goal # arg'[d]
    BY <1>1, <1>2, <1>4, <1>5, <2>3 DEF GoalsInv, GoalsApart
  <2>6. /\ popped.goal # None => result[popped.goal] = "none" /\ popped.goal # current
        /\ current # None => result[current] = "none"
    BY DEF GoalsInv, GoalsApart
  <2>7. QED
    BY <1>6, <2>1, <2>2, <2>4, <2>5, <2>6 DEF GoalsApart
<1>10. QED
  BY <1>8, <1>9 DEF GoalsInv

\* A cancel joins the inbox and names no goal.
LEMMA CancelArrives ==
  ASSUME Base, GoalsInv, NEW c \in Client, GoalCancel(c)
  PROVE  GoalsInv'
<1>1. CancelEntry \in Entries /\ CancelEntry.goal = None
  BY DEF CancelEntry, Entry, Entries, Reason
<1>2. inbox \in Seq(Entries) /\ inbox' = Append(inbox, CancelEntry)
  BY DEF GoalsInv, GoalsTyped, GoalCancel
<1>3. inbox' \in Seq(Entries) /\ \A i \in DOMAIN inbox : inbox'[i] = inbox[i]
  BY <1>1, <1>2, Appending
<1>4. PICK n \in DOMAIN inbox' : /\ n \notin DOMAIN inbox /\ inbox'[n] = CancelEntry
                                 /\ DOMAIN inbox' = DOMAIN inbox \cup {n}
  BY <1>1, <1>2, Appending
<1>5. UNCHANGED <<pc, arg, popped, current, inFlight, result, settles>>
  BY DEF GoalCancel, procVars
<1>6. GoalsTyped'
  BY <1>3, <1>4, <1>5 DEF GoalsInv, GoalsTyped
<1>7. \A i \in DOMAIN inbox' : inbox'[i].goal # None => i \in DOMAIN inbox /\ inbox'[i] = inbox[i]
  BY <1>1, <1>3, <1>4
<1>8. GoalsApart'
  <2>1. \A i \in DOMAIN inbox' : inbox'[i].goal # None =>
          /\ result[inbox'[i].goal] = "none"
          /\ inbox'[i].goal # popped.goal /\ inbox'[i].goal # current
    BY <1>7 DEF GoalsInv, GoalsApart
  <2>2. \A i, j \in DOMAIN inbox' : i # j /\ inbox'[i].goal # None => inbox'[i].goal # inbox'[j].goal
    BY <1>7 DEF GoalsInv, GoalsApart
  <2>3. \A d \in Client : pc[d] = "accepted" => \A i \in DOMAIN inbox' : inbox'[i].goal # arg[d]
    BY <1>7, Names DEF GoalsInv, GoalsApart
  <2>4. QED
    BY <1>5, <2>1, <2>2, <2>3 DEF GoalsInv, GoalsApart
<1>9. QED
  BY <1>6, <1>8 DEF GoalsInv

\* A goal that passes the vetting is in no other place, and is nobody else's.
LEMMA GoalVetted ==
  ASSUME Base, GoalsInv, NEW c \in Client, NEW g \in Goal, GoalVet(c, g)
  PROVE  GoalsInv'
<1>1. UNCHANGED <<inbox, popped, current, inFlight, result, settles>>
  BY DEF GoalVet, goalVars
<1>2. /\ pc'[Sampler] = pc[Sampler] /\ pc'[c] = "accepted" /\ arg'[c] = g
      /\ \A d \in Client : d # c => pc'[d] = pc[d] /\ arg'[d] = arg[d]
  BY Names, Moved DEF Base, LockInv, DomInv, GoalVet
<1>3. result[g] = "none" /\ (\A d \in Client : arg[d] # g) /\ g \notin Pending
  BY DEF GoalVet
<1>4. g # popped.goal /\ g # current /\ \A i \in DOMAIN inbox : inbox[i].goal # g
  BY <1>3 DEF Pending
<1>5. GoalsTyped'
  BY <1>1, <1>2 DEF GoalsInv, GoalsTyped
<1>6. GoalsApart'
  <2>1. \A d \in Client : pc'[d] = "accepted" =>
          /\ arg'[d] \in Goal /\ result[arg'[d]] = "none"
          /\ arg'[d] # popped.goal /\ arg'[d] # current
          /\ \A i \in DOMAIN inbox : inbox[i].goal # arg'[d]
    BY <1>2, <1>3, <1>4 DEF GoalsInv, GoalsApart
  <2>2. \A d, b \in Client : pc'[d] = "accepted" /\ pc'[b] = "accepted" /\ b # d => arg'[b] # arg'[d]
    BY <1>2, <1>3 DEF GoalsInv, GoalsApart
  <2>3. QED
    BY <1>1, <2>1, <2>2 DEF GoalsInv, GoalsApart
<1>7. QED
  BY <1>5, <1>6 DEF GoalsInv

\* Every goal stays in one place with at most one answer, whatever the step.
LEMMA GoalsKept == ASSUME Base, CauseInv, GoalsInv, [Next]_vars PROVE GoalsInv'
<1>1. CASE Quiet
  <2>1. GoalsTyped'
    BY <1>1 DEF Quiet, goalVars, GoalsInv, GoalsTyped, GoalPlaces, WithPopped
  <2>2. GoalsApart'
    <3>1. UNCHANGED <<inbox, popped, current, result>>
      BY <1>1 DEF Quiet, goalVars
    <3>2. \A c \in Client : pc'[c] = "accepted" => pc[c] = "accepted" /\ arg'[c] = arg[c]
      BY <1>1 DEF Quiet
    <3>3. \A c \in Client : pc'[c] = "accepted" =>
            /\ arg'[c] \in Goal /\ result[arg'[c]] = "none"
            /\ arg'[c] # popped.goal /\ arg'[c] # current
            /\ \A i \in DOMAIN inbox : inbox[i].goal # arg'[c]
            /\ \A d \in Client : pc'[d] = "accepted" /\ d # c => arg'[d] # arg'[c]
      BY <3>2 DEF GoalsInv, GoalsApart
    <3>4. QED
      BY <3>1, <3>3 DEF GoalsInv, GoalsApart
  <2>3. QED
    BY <2>1, <2>2 DEF GoalsInv
<1>2. CASE \E c \in Client : (\E g \in Goal : GoalVet(c, g)) \/ GoalAccepted(c) \/ GoalCancel(c)
  BY <1>2, GoalVetted, GoalArrives, CancelArrives
<1>3. CASE \E p \in Proc : HaltQueue(p)
  BY <1>3, GoalsFlushed
<1>4. CASE SamplerGoalMove
  <2> USE DEF At, WithPopped
  <2>0. (pc[Sampler] \in {"h_record", "h_reset"} => current = None) /\ (current # None => inFlight)
    BY DEF GoalsInv, GoalsTyped
  <2>1. CASE HaltTaken
    <3>1. \E w \in {"h_settle", "expire"} : Goto(Sampler, w)
      BY <2>1 DEF HaltTaken
    <3>2. UNCHANGED <<inbox, popped, current, result, settles, arg, inFlight>> /\ pc[Sampler] = "take"
      BY <2>1 DEF HaltTaken
    <3>3. QED
      BY <2>0, <3>1, <3>2, SamplerWalks
  <2>2. CASE HaltSettles
    <3>1. \E w \in {"h_reset", "h_record"} : Goto(Sampler, w)
      BY <2>2 DEF HaltSettles
    <3>2. \E code \in Codes : IF current = None THEN UNCHANGED <<result, settles>> ELSE Settle(current, code)
      BY <2>2 DEF HaltSettles, HaltCode, Codes
    <3>3. current' = None /\ UNCHANGED <<inbox, popped, arg>> /\ pc[Sampler] = "h_settle"
      BY <2>2 DEF HaltSettles
    <3>4. QED
      BY <3>1, <3>2, <3>3, CurrentAnswered
  <2>3. CASE HaltRecords
    BY <2>0, <2>3, SamplerWalks DEF HaltRecords, goalVars
  <2>4. CASE HaltResets
    <3>1. Goto(Sampler, "expire") /\ pc[Sampler] = "h_reset" /\ current = None
      BY <2>0, <2>4 DEF HaltResets
    <3>2. UNCHANGED <<inbox, popped, current, result, settles, arg>>
      BY <2>4 DEF HaltResets
    <3>3. QED
      BY <3>1, <3>2, SamplerWalks
  <2>5. CASE Pop
    BY <2>5, GoalPopped
  <2>6. CASE Cancel
    <3>1. Goto(Sampler, "drain") /\ pc[Sampler] = "cancel" /\ "preempted" \in Codes
      BY <2>6 DEF Cancel, Codes
    <3>2. IF current = None THEN UNCHANGED <<result, settles>> ELSE Settle(current, "preempted")
      BY <2>6 DEF Cancel
    <3>3. current' = None /\ UNCHANGED <<inbox, popped, arg>>
      BY <2>6 DEF Cancel
    <3>4. QED
      BY <3>1, <3>2, <3>3, CurrentAnswered
  <2>7. CASE GateRefuses
    <3>1. \E code \in Codes : Refuse(code)
      BY <2>7 DEF GateRefuses, HaltCode, Codes
    <3>2. UNCHANGED <<inbox, current, inFlight, arg>> /\ pc[Sampler] = "gate"
      BY <2>7 DEF GateRefuses
    <3>3. QED
      BY <3>1, <3>2, PoppedAnswered
  <2>8. CASE GatePasses
    <3>1. \E w \in {"recheck", "sw_request"} : Goto(Sampler, w)
      BY <2>8 DEF GatePasses
    <3>2. UNCHANGED <<inbox, popped, current, result, settles, arg, inFlight>> /\ pc[Sampler] = "gate"
      BY <2>8 DEF GatePasses, goalVars
    <3>3. QED
      BY <2>0, <3>1, <3>2, SamplerWalks
  <2>9. CASE SwitchRequest
    BY <2>0, <2>9, SamplerWalks DEF SwitchRequest, goalVars
  <2>10. CASE SwitchRecord
    BY <2>0, <2>10, SamplerWalks DEF SwitchRecord, goalVars
  <2>11. CASE RecheckHalt
    <3>1. UNCHANGED <<inbox, current, inFlight, arg>> /\ pc[Sampler] = "recheck"
      BY <2>11 DEF RecheckHalt
    <3>2. CASE haltPending
      <4>1. HaltCode(haltReason) \in Codes
        BY DEF HaltCode, Codes
      <4>2. Refuse(HaltCode(haltReason))
        BY <2>11, <3>2 DEF RecheckHalt
      <4>3. QED
        BY <3>1, <4>1, <4>2, PoppedAnswered
    <3>3. CASE ~haltPending
      <4>1. Goto(Sampler, "submit") /\ UNCHANGED <<popped, result, settles>>
        BY <2>11, <3>3 DEF RecheckHalt
      <4>2. QED
        BY <2>0, <3>1, <4>1, SamplerWalks
    <3>4. QED
      BY <3>2, <3>3
  <2>12. CASE Submit
    BY <2>12, GoalStarted
  <2>13. CASE SubmitRefused
    <3>1. Refuse("invalid") /\ "invalid" \in Codes /\ pc[Sampler] = "submit"
      BY <2>13 DEF SubmitRefused, Codes
    <3>2. UNCHANGED <<inbox, current, inFlight, arg>>
      BY <2>13 DEF SubmitRefused
    <3>3. QED
      BY <3>1, <3>2, PoppedAnswered
  <2>14. CASE TickCompletes
    <3>1. Goto(Sampler, "edge") /\ pc[Sampler] = "tick" /\ "done" \in Codes /\ current # None
      BY <2>14 DEF TickCompletes, Codes
    <3>2. Settle(current, "done") /\ current' = None /\ UNCHANGED <<inbox, popped, arg>>
      BY <2>14 DEF TickCompletes
    <3>3. QED
      BY <3>1, <3>2, CurrentAnswered
  <2>15. QED
    BY <1>4, <2>1, <2>2, <2>3, <2>4, <2>5, <2>6, <2>7, <2>8, <2>9, <2>10, <2>11, <2>12, <2>13, <2>14
       DEF SamplerGoalMove
<1>5. QED
  BY <1>1, <1>2, <1>3, <1>4, GoalFrame DEF GoalMove

\* What every later proof about goals starts from.
Sound == Base /\ CauseInv /\ GoalsInv

\* No goal waits at first.
LEMMA InitSound == Init => Sound
<1> SUFFICES ASSUME Init PROVE Sound
  OBVIOUS
<1>1. Base /\ CauseInv
  <2>1. CauseInv
    BY Names DEF Init, CauseInv
  <2>2. QED
    BY <2>1, InitBase
<1>2. /\ inbox = <<>> /\ popped = CancelEntry /\ current = None
      /\ \A c \in Client : pc[c] = "idle"
      /\ pc[Sampler] = "edge"
  BY Names DEF Init, NoEntry
<1>3. popped \in Entries /\ popped.goal = None
  BY <1>2 DEF CancelEntry, Entry, Entries, Reason
<1>4. inbox \in Seq(Entries) /\ DOMAIN inbox = {}
  BY <1>2
<1>5. /\ result \in [Goal -> Codes \cup {"none"}]
      /\ settles = [g \in Goal |-> IF result[g] = "none" THEN 0 ELSE 1]
  BY DEF Init
<1>6. GoalsInv
  BY <1>2, <1>3, <1>4, <1>5 DEF GoalsInv, GoalsTyped, GoalsApart, WithPopped
<1>7. QED
  BY <1>1, <1>6 DEF Sound

\* The lock, the reasons and the places of the goals stay right.
LEMMA SoundKept == Sound /\ [Next]_vars => Sound'
  BY BaseKept, CauseKept, GoalsKept DEF Sound

\* A goal waiting or running is in one place only and is answered at most once,
\* whatever halts, cancels, preemptions and refusals cross it (the inbox, the
\* sampler's drain and settle, on_halt).
THEOREM EachGoalSettledOnce == Spec => []SettledOnce
<1>1. Sound => SettledOnce
  <2> SUFFICES ASSUME Sound PROVE SettledOnce
    OBVIOUS
  <2>1. \A g \in Goal : settles[g] <= 1 /\ (settles[g] = 1 <=> result[g] # "none")
    BY DEF Sound, GoalsInv, GoalsTyped
  <2>2. QED
    BY <2>1 DEF Sound, GoalsInv, GoalsApart, SettledOnce
<1>2. QED
  BY <1>1, InitSound, SoundKept, PTL DEF Spec

-----------------------------------------------------------------------------
(* Modes, and the type invariant.                                          *)

ModesInv ==
  /\ active \in Mode /\ bound \in Mode /\ requested \in Mode \cup {None}
  /\ running \in Mode \cup {"none", "float"}
  /\ watchdog \subseteq Mode
  /\ \A c \in Client : pc[c] \in Switching => arg[c] \in StreamKind

\* A goal's and a session's mode are modes.
LEMMA ModeNames ==
  /\ "pos" \in Mode
  /\ \A g \in Goal : GoalMode[g] \in Mode
  /\ \A k \in StreamKind : k.mode \in Mode
<1>1. GoalMode \in [Goal -> {"pos", "imp"}] /\ StreamKind \subseteq [mode : Mode, compliant : BOOLEAN]
  BY SupervisorAssumption DEF SupervisorAssumption
<1>2. QED
  BY <1>1 DEF Mode

\* Every mode that is recorded, bound, requested or run is a mode.
LEMMA ModesKept == ASSUME Sound, ModesInv, [Next]_vars PROVE ModesInv'
<1>1. \A c \in Client : pc'[c] \in Switching => arg'[c] \in StreamKind
  <2>1. ASSUME NEW c \in Client, NEW k \in StreamKind, StreamVet(c, k) PROVE arg'[c] = k
    BY <2>1 DEF StreamVet, Sound, Base, DomInv
  <2>2. QED
    BY <2>1, SessionFrame DEF Sound, Base, ModesInv
<1> DEFINE Typed == /\ active' \in Mode /\ bound' \in Mode /\ requested' \in Mode \cup {None}
                    /\ running' \in Mode \cup {"none", "float"}
                    /\ watchdog' \subseteq Mode
<1> USE ModeNames DEF ModesInv, modeVars, streamVars, outside
<1>2. ASSUME NEW p \in Proc, HaltStep(p) PROVE Typed
  BY <1>2 DEF HaltStep, CloseMark, CloseHold, HaltGrip, HaltQueue
<1>3. ASSUME NEW c \in Client, ClientStep(c) PROVE Typed
  <2>1. CASE (\E g \in Goal : GoalVet(c, g)) \/ GoalAccepted(c) \/ GoalCancel(c) \/ BackendHalt(c)
    BY <2>1 DEF GoalVet, GoalAccepted, GoalCancel, BackendHalt
  <2>2. CASE (\E k \in StreamKind : StreamVet(c, k)) \/ StreamClose(c) \/ Setpoint(c) \/ GripperSetpoint(c)
    BY <2>2 DEF StreamVet, StreamClose, Setpoint, GripperSetpoint
  <2>3. CASE StreamRequest(c) \/ StreamRecord(c)
    <3>1. arg[c].mode \in Mode
      BY <2>3 DEF StreamRequest, StreamRecord, At, Switching
    <3>2. QED
      BY <2>3, <3>1 DEF StreamRequest, StreamRecord
  <2>4. CASE StreamNotReady(c) \/ StreamRestore(c)
    BY <2>4 DEF StreamNotReady, StreamRestore
  <2>5. CASE StreamRefused(c) \/ StreamOpened(c)
    BY <2>5 DEF StreamRefused, StreamOpened
  <2>6. CASE HaltStep(c)
    BY <1>2, <2>6, Names
  <2>7. QED
    BY <1>3, <2>1, <2>2, <2>3, <2>4, <2>5, <2>6 DEF ClientStep
<1>4. ASSUME SamplerStep PROVE Typed
  <2>1. CASE EdgeReset \/ EdgeTaken \/ HaltTaken \/ DeadlineCheck \/ IkCheck
    BY <2>1 DEF EdgeReset, EdgeTaken, HaltTaken, DeadlineCheck, IkCheck
  <2>2. CASE HaltSettles \/ HaltRecords \/ HaltResets \/ Cancel
    BY <2>2 DEF HaltSettles, HaltRecords, HaltResets, Cancel
  <2>3. CASE IntegrateCheck \/ IntegrateLock \/ Integrate \/ InboxEmpty \/ Pop \/ GatePasses
    BY <2>3 DEF IntegrateCheck, IntegrateLock, Integrate, InboxEmpty, Pop, GatePasses
  <2>4. CASE SwitchRequest \/ SwitchRecord
    <3>1. GoalMode[popped.goal] \in Mode
      BY <2>4 DEF SwitchRequest, SwitchRecord, At, Sound, GoalsInv, GoalsTyped, WithPopped, Entries
    <3>2. QED
      BY <2>4, <3>1 DEF SwitchRequest, SwitchRecord
  <2>5. CASE GateRefuses \/ RecheckHalt \/ Submit \/ SubmitRefused \/ Tick \/ TickCompletes
    BY <2>5 DEF GateRefuses, RecheckHalt, Submit, SubmitRefused, Tick, TickCompletes
  <2>6. CASE HaltStep(Sampler)
    BY <1>2, <2>6, Names
  <2>7. QED
    BY <1>4, <2>1, <2>2, <2>3, <2>4, <2>5, <2>6 DEF SamplerStep
<1>5. ASSUME LinkStep PROVE Typed
  BY <1>2, <1>5, Names DEF LinkStep, LinkDown, LinkRecord, LinkRequest, LinkUp
<1>6. ASSUME OperatorStep PROVE Typed
  BY <1>2, <1>6, Names
     DEF OperatorStep, ClearContact, ClearRecord, ClearRequest, ClearMonitor, ClearMark
<1>7. ASSUME RtStep PROVE Typed
  BY <1>7 DEF RtStep, Trip, Unlatch, Adopt, Float, IkFails, Lapse
<1>8. ASSUME UNCHANGED vars PROVE Typed
  BY <1>8 DEF vars
<1>9. Typed
  BY <1>3, <1>4, <1>5, <1>6, <1>7, <1>8 DEF Next
<1>10. QED
  BY <1>1, <1>9

\* The variables keep their types and stream_mtx_ is held exactly inside the sections
\* that keep it.
THEOREM TypeCorrect == Spec => []TypeOK
<1>1. Init => Sound /\ ModesInv
  <2>1. Init => ModesInv
    BY Names, ModeNames DEF Init, ModesInv, Switching
  <2>2. QED
    BY <2>1, InitSound
<1>2. (Sound /\ ModesInv) /\ [Next]_vars => (Sound /\ ModesInv)'
  BY SoundKept, ModesKept
<1>3. Sound /\ ModesInv => TypeOK
  <2> SUFFICES ASSUME Sound, ModesInv PROVE TypeOK
    OBVIOUS
  <2>1. Thread = Proc
    BY DEF Thread, Proc
  <2>2. slock \in Thread \cup {None} /\ \A p \in Thread : pc[p] \in Holding <=> slock = p
    BY <2>1 DEF Sound, Base, LockInv
  <2>3. \A i \in DOMAIN inbox : inbox[i].goal \in Goal \/ inbox[i] = CancelEntry
    BY InboxEntries DEF Sound, GoalsInv, GoalsTyped
  <2>4. current \in Goal \cup {None} /\ (current # None => inFlight)
    BY DEF Sound, GoalsInv, GoalsTyped
  <2>5. At(Sampler, "cancel") => popped = CancelEntry
    BY DEF Sound, GoalsInv, GoalsTyped, At, WithPopped
  <2>6. \A g \in Goal : result[g] \in {"none", "done", "preempted", "invalid", "halted", "contact"}
    BY DEF Sound, GoalsInv, GoalsTyped, Codes
  <2>7. QED
    BY <2>2, <2>3, <2>4, <2>5, <2>6 DEF TypeOK, ModesInv
<1>4. QED
  BY <1>1, <1>2, <1>3, PTL DEF Spec

-----------------------------------------------------------------------------
(* Goals a halt overtook.                                                  *)

Waiting(g) == (\E i \in DOMAIN inbox : inbox[i].goal = g) \/ popped.goal = g \/ current = g

\* In the inbox a goal is marked exactly if a halt overtook it, with its first reason.
DoomQueue == \A i \in DOMAIN inbox : inbox[i].goal # None =>
  /\ inbox[i].halted <=> doomed[inbox[i].goal] # "no"
  /\ inbox[i].halted => inbox[i].why = doomed[inbox[i].goal]

\* A goal overtaken in the sampler's hands is unmarked, but the halt is pending; past
\* the recheck a pending halt has overtaken it.
DoomPopped ==
  /\ pc[Sampler] \in WithPopped =>
       /\ popped.halted => doomed[popped.goal] # "no" /\ popped.why = doomed[popped.goal]
       /\ doomed[popped.goal] # "no" => popped.halted \/ haltPending
       /\ ~popped.halted /\ doomed[popped.goal] = "contact" => haltPending /\ haltReason = "contact"
  /\ pc[Sampler] \in WithPopped \ {"gate"} => ~popped.halted
  /\ pc[Sampler] = "submit" /\ haltPending => doomed[popped.goal] # "no"

\* A running goal was overtaken exactly if a halt is pending or being carried out,
\* and by a contact first only if that halt is reported as one.
DoomRunning == current # None =>
  /\ doomed[current] # "no" <=> haltPending \/ pc[Sampler] = "h_settle"
  /\ doomed[current] = "contact" /\ pc[Sampler] # "h_settle" => haltReason = "contact"
  /\ doomed[current] = "contact" /\ pc[Sampler] = "h_settle" => cause[Sampler] = "contact"

DoomPlaced == \A g \in Goal : doomed[g] # "no" /\ result[g] = "none" => Waiting(g)

DoomInv == DoomQueue /\ DoomPopped /\ DoomRunning /\ DoomPlaced /\ ContactReasonSticks

\* The sampler's steps that leave the inbox and the record of the overtaken alone.
LEMMA DoomQueueKept ==
  ASSUME DoomQueue, UNCHANGED <<inbox, doomed>>
  PROVE  DoomQueue'
  BY DEF DoomQueue

\* What the sampler and the executor hold are goals still to be answered.
LEMMA PlacedAreGoals ==
  ASSUME Sound
  PROVE  /\ None \notin Goal
         /\ current # None => current \in Goal /\ result[current] = "none"
         /\ pc[Sampler] \in WithPopped => popped.goal \in Goal /\ result[popped.goal] = "none"
                                          /\ popped.goal # current
         /\ pc[Sampler] \notin WithPopped => popped.goal = None
  BY Names DEF Sound, GoalsInv, GoalsTyped, GoalsApart, Entries

\* A sampler that moves on without touching a goal keeps the record of the overtaken.
LEMMA DoomWalks ==
  ASSUME Sound, DoomInv, UNCHANGED <<inbox, popped, current, result, doomed, haltPending, haltReason>>,
         \/ pc'[Sampler] = pc[Sampler] /\ cause'[Sampler] = cause[Sampler]
         \/ pc[Sampler] \notin GoalPlaces /\ pc'[Sampler] \notin GoalPlaces
         \/ pc[Sampler] \in {"h_record", "h_reset"} /\ pc'[Sampler] \notin GoalPlaces \ {"h_reset"}
         \/ /\ pc[Sampler] \in WithPopped \ {"submit"} /\ pc'[Sampler] \in WithPopped \ {"gate"}
            /\ ~popped.halted
            /\ pc'[Sampler] = "submit" => ~haltPending
  PROVE  DoomInv'
<1>1. DoomQueue'
  BY DoomQueueKept DEF DoomInv
<1>2. DoomPopped'
  BY DEF DoomInv, DoomPopped, GoalPlaces, WithPopped
<1>3. DoomRunning'
  BY DEF DoomInv, DoomRunning, GoalPlaces, WithPopped
<1>4. DoomPlaced' /\ ContactReasonSticks'
  BY DEF DoomInv, DoomPlaced, Waiting, ContactReasonSticks
<1>5. QED
  BY <1>1, <1>2, <1>3, <1>4 DEF DoomInv

\* The popped goal is answered: with the first reason if it was overtaken.
LEMMA DoomAnswered ==
  ASSUME Sound, DoomInv, pc[Sampler] \in WithPopped, NEW code \in Codes, Refuse(code),
         doomed[popped.goal] = "contact" => code # "halted",
         UNCHANGED <<inbox, current, doomed, haltPending, haltReason>>
  PROVE  DoomInv'
<1> DEFINE g == popped.goal
<1>1. g \in Goal /\ result[g] = "none" /\ g # current /\ None \notin Goal
  BY PlacedAreGoals
<1>2. /\ result'[g] = code /\ code # "none"
      /\ \A h \in Goal : h # g => result'[h] = result[h]
  BY <1>1, Answered DEF Refuse, Sound
<1>3. pc'[Sampler] = "drain"
  BY SamplerMoves DEF Refuse, Sound, Base, LockInv
<1>4. DoomQueue'
  BY DoomQueueKept DEF DoomInv
<1>5. DoomPopped'
  BY <1>3 DEF DoomPopped, WithPopped
<1>6. DoomRunning'
  BY <1>3 DEF DoomInv, DoomRunning, WithPopped
<1>7. DoomPlaced'
  <2> SUFFICES ASSUME NEW h \in Goal, doomed[h] # "no", result'[h] = "none" PROVE Waiting(h)'
    BY DEF DoomPlaced
  <2>1. h # g /\ result[h] = "none"
    BY <1>2
  <2>2. QED
    BY <2>1 DEF DoomInv, DoomPlaced, Waiting
<1>8. ContactReasonSticks'
  BY <1>2 DEF DoomInv, ContactReasonSticks
<1>9. QED
  BY <1>4, <1>5, <1>6, <1>7, <1>8 DEF DoomInv

\* The running goal is answered and none runs.
LEMMA DoomIdle ==
  ASSUME Sound, DoomInv, pc[Sampler] \notin WithPopped, pc'[Sampler] \notin WithPopped,
         NEW code \in Codes,
         IF current = None THEN UNCHANGED <<result, settles>> ELSE Settle(current, code),
         current # None /\ doomed[current] = "contact" => code # "halted",
         current' = None, UNCHANGED <<inbox, popped, doomed, haltPending, haltReason>>
  PROVE  DoomInv'
<1>1. DoomQueue'
  BY DoomQueueKept DEF DoomInv
<1>2. DoomPopped' /\ DoomRunning'
  BY DEF DoomPopped, DoomRunning, WithPopped
<1>3. CASE current = None
  BY <1>1, <1>2, <1>3 DEF DoomInv, DoomPlaced, Waiting, ContactReasonSticks
<1>4. CASE current # None
  <2>1. /\ result'[current] = code /\ code # "none" /\ current \in Goal
        /\ \A h \in Goal : h # current => result'[h] = result[h]
    BY <1>4, PlacedAreGoals, Answered DEF Sound
  <2>2. DoomPlaced'
    <3> SUFFICES ASSUME NEW h \in Goal, doomed[h] # "no", result'[h] = "none" PROVE Waiting(h)'
      BY DEF DoomPlaced
    <3>1. h # current /\ result[h] = "none"
      BY <2>1
    <3>2. QED
      BY <3>1 DEF DoomInv, DoomPlaced, Waiting
  <2>3. ContactReasonSticks'
    BY <1>4, <2>1 DEF DoomInv, ContactReasonSticks
  <2>4. QED
    BY <1>1, <1>2, <2>2, <2>3 DEF DoomInv
<1>5. QED
  BY <1>3, <1>4

\* A goal that arrives with the arm down or latched is overtaken there and then.
LEMMA DoomArrives ==
  ASSUME Sound, DoomInv, NEW c \in Client, GoalAccepted(c)
  PROVE  DoomInv'
<1> DEFINE g == arg[c]
<1>1. PICK queue \in BOOLEAN, why \in Reason :
        /\ inbox' = Append(inbox, Entry(g, queue, why # "none", why))
        /\ doomed' = IF why = "none" THEN doomed ELSE [doomed EXCEPT ![g] = why]
  BY DEF GoalAccepted, Reason
<1> DEFINE e == Entry(g, queue, why # "none", why)
<1>2. /\ g \in Goal /\ result[g] = "none" /\ g # popped.goal /\ g # current
      /\ \A i \in DOMAIN inbox : inbox[i].goal # g
  BY DEF GoalAccepted, At, Sound, GoalsInv, GoalsApart
<1>3. e \in Entries /\ e.goal = g /\ e.halted = (why # "none") /\ e.why = why
  BY <1>2 DEF Entry, Entries
<1>4. inbox \in Seq(Entries)
  BY DEF Sound, GoalsInv, GoalsTyped
<1>5. \A i \in DOMAIN inbox : inbox'[i] = inbox[i]
  BY <1>1, <1>3, <1>4, Appending
<1>6. PICK n \in DOMAIN inbox' : /\ n \notin DOMAIN inbox /\ inbox'[n] = e
                                 /\ DOMAIN inbox' = DOMAIN inbox \cup {n}
  BY <1>1, <1>3, <1>4, Appending
<1>7. UNCHANGED <<popped, cause, haltPending, haltReason, current, result>> /\ pc'[Sampler] = pc[Sampler]
  BY Names, Moved DEF GoalAccepted, Sound, Base, LockInv
<1>8. doomed[g] = "no"
  BY <1>2 DEF DoomInv, DoomPlaced, Waiting
<1>9. \A h \in Goal : h # g => doomed'[h] = doomed[h]
  BY <1>1 DEF Sound, Base, DomInv
<1>10. doomed'[g] = IF why = "none" THEN "no" ELSE why
  BY <1>1, <1>2, <1>8 DEF Sound, Base, DomInv
<1>11. why # "no"
  BY DEF Reason
<1>12. DoomQueue'
  <2> SUFFICES ASSUME NEW i \in DOMAIN inbox', inbox'[i].goal # None
               PROVE  /\ inbox'[i].halted <=> doomed'[inbox'[i].goal] # "no"
                      /\ inbox'[i].halted => inbox'[i].why = doomed'[inbox'[i].goal]
    BY DEF DoomQueue
  <2>1. CASE i = n
    BY <1>3, <1>6, <1>10, <1>11, <2>1
  <2>2. CASE i # n
    <3>1. i \in DOMAIN inbox /\ inbox'[i] = inbox[i]
      BY <1>5, <1>6, <2>2
    <3>2. inbox[i].goal \in Goal /\ inbox[i].goal # g
      BY <1>2, <3>1, InboxEntries DEF Sound
    <3>3. QED
      BY <1>9, <3>1, <3>2 DEF DoomInv, DoomQueue
  <2>3. QED
    BY <2>1, <2>2
<1>13. DoomPopped'
  <2>1. pc[Sampler] \in WithPopped => doomed'[popped.goal] = doomed[popped.goal]
    BY <1>2, <1>9, PlacedAreGoals
  <2>2. QED
    BY <1>7, <2>1 DEF DoomInv, DoomPopped, WithPopped
<1>14. DoomRunning'
  <2>1. current # None => doomed'[current] = doomed[current]
    BY <1>2, <1>9, PlacedAreGoals
  <2>2. QED
    BY <1>7, <2>1 DEF DoomInv, DoomRunning
<1>15. DoomPlaced'
  <2> SUFFICES ASSUME NEW h \in Goal, doomed'[h] # "no", result[h] = "none" PROVE Waiting(h)'
    BY <1>7 DEF DoomPlaced
  <2>1. CASE h = g
    BY <1>3, <1>6, <2>1 DEF Waiting
  <2>2. CASE h # g
    <3>1. Waiting(h)
      BY <1>9, <2>2 DEF DoomInv, DoomPlaced
    <3>2. QED
      BY <1>5, <1>6, <1>7, <3>1 DEF Waiting
  <2>3. QED
    BY <2>1, <2>2
<1>16. ContactReasonSticks'
  BY <1>2, <1>7, <1>9 DEF DoomInv, ContactReasonSticks
<1>17. QED
  BY <1>12, <1>13, <1>14, <1>15, <1>16 DEF DoomInv

\* A cancel in the inbox leaves the record of the overtaken alone.
LEMMA DoomCancelArrives ==
  ASSUME Sound, DoomInv, NEW c \in Client, GoalCancel(c)
  PROVE  DoomInv'
<1>1. CancelEntry \in Entries /\ CancelEntry.goal = None
  BY DEF CancelEntry, Entry, Entries, Reason
<1>2. inbox \in Seq(Entries) /\ inbox' = Append(inbox, CancelEntry)
  BY DEF Sound, GoalsInv, GoalsTyped, GoalCancel
<1>3. \A i \in DOMAIN inbox : inbox'[i] = inbox[i]
  BY <1>1, <1>2, Appending
<1>4. PICK n \in DOMAIN inbox' : /\ n \notin DOMAIN inbox /\ inbox'[n] = CancelEntry
                                 /\ DOMAIN inbox' = DOMAIN inbox \cup {n}
  BY <1>1, <1>2, Appending
<1>5. UNCHANGED <<pc, cause, popped, current, result, doomed, haltPending, haltReason>>
  BY DEF GoalCancel, procVars
<1>6. DoomQueue'
  BY <1>1, <1>3, <1>4, <1>5 DEF DoomInv, DoomQueue
<1>7. DoomPlaced'
  BY <1>3, <1>4, <1>5 DEF DoomInv, DoomPlaced, Waiting
<1>8. DoomPopped' /\ DoomRunning' /\ ContactReasonSticks'
  BY <1>5 DEF DoomInv, DoomPopped, DoomRunning, ContactReasonSticks
<1>9. QED
  BY <1>6, <1>7, <1>8 DEF DoomInv

\* A goal waits if and only if it is pending.
LEMMA WaitingIsPending ==
  ASSUME Sound, NEW g \in Goal
  PROVE  g \in Pending <=> Waiting(g)
<1>1. Waiting(g) => result[g] = "none"
  BY PlacedAreGoals DEF Sound, GoalsInv, GoalsApart, GoalsTyped, Waiting
<1>2. QED
  BY <1>1 DEF Pending, Waiting

\* A halt overtakes every goal that waits or runs.
LEMMA DoomFlushed ==
  ASSUME Sound, DoomInv, NEW p \in Proc, HaltQueue(p)
  PROVE  /\ DoomInv'
         /\ \A g \in Pending : doomed'[g] # "no"
         /\ \A g \in Goal : doomed[g] # "no" => doomed'[g] = doomed[g]
<1>1. pc[p] = "h_queue" /\ cause[p] \in {"contact", "other"} /\ cause[p] \in Reason
  BY DEF HaltQueue, At, Sound, CauseInv, Reason
<1>2. inbox \in Seq(Entries) /\ inbox' \in Flushed(cause[p])
  BY DEF HaltQueue, Sound, GoalsInv, GoalsTyped
<1>3. PICK f \in [DOMAIN inbox' -> DOMAIN inbox] :
        /\ \A k \in DOMAIN inbox' : /\ inbox'[k] = Marked(inbox[f[k]], cause[p])
                                    /\ inbox[f[k]].goal # None
        /\ \A i \in DOMAIN inbox : inbox[i].goal # None => \E k \in DOMAIN inbox' : f[k] = i
  BY <1>1, <1>2, Flushing
<1>4. ASSUME NEW k \in DOMAIN inbox'
      PROVE  /\ f[k] \in DOMAIN inbox /\ inbox'[k].goal = inbox[f[k]].goal
             /\ inbox[f[k]].goal \in Goal /\ inbox'[k].halted = TRUE
             /\ inbox'[k].why = IF inbox[f[k]].halted THEN inbox[f[k]].why ELSE cause[p]
  <2>1. f[k] \in DOMAIN inbox /\ inbox[f[k]] \in Entries /\ inbox[f[k]].goal \in Goal
    BY <1>3, InboxEntries DEF Sound
  <2>2. inbox'[k] = Marked(inbox[f[k]], cause[p])
    BY <1>3
  <2>3. /\ Marked(inbox[f[k]], cause[p]).goal = inbox[f[k]].goal
        /\ Marked(inbox[f[k]], cause[p]).halted = TRUE
        /\ Marked(inbox[f[k]], cause[p]).why = IF inbox[f[k]].halted THEN inbox[f[k]].why ELSE cause[p]
    BY <1>1, <2>1, Marking
  <2>4. QED
    BY <2>1, <2>2, <2>3
<1>5. \A g \in Goal : doomed'[g] = IF Waiting(g) /\ doomed[g] = "no" THEN cause[p] ELSE doomed[g]
  BY WaitingIsPending DEF HaltQueue
<1>6. \A g \in Goal : Waiting(g) => doomed'[g] # "no"
  BY <1>1, <1>5
<1>7. UNCHANGED <<popped, cause, current, result>> /\ haltPending' = TRUE
  BY DEF HaltQueue
<1>8. /\ cause[p] = "contact" => haltReason' = "contact"
      /\ haltPending /\ haltReason = "contact" => haltReason' = "contact"
  <2>1. haltReason' = IF haltPending /\ haltReason = "contact" THEN "contact" ELSE cause[p]
    BY DEF HaltQueue
  <2>2. QED
    BY <2>1
<1>9. /\ pc'[Sampler] = pc[Sampler] \/ (pc[Sampler] = "h_queue" /\ pc'[Sampler] = "take")
      /\ pc[Sampler] \in GoalPlaces => pc'[Sampler] = pc[Sampler]
  <2>1. pc'[p] = AfterHalt(p) /\ \A r \in Proc : r # p => pc'[r] = pc[r]
    BY Moved DEF HaltQueue, Sound, Base, LockInv
  <2>2. CASE p = Sampler
    BY <1>1, <2>1, <2>2 DEF AfterHalt, GoalPlaces, WithPopped
  <2>3. CASE p # Sampler
    BY <2>1, <2>3, Names
  <2>4. QED
    BY <2>2, <2>3
<1>10. DoomQueue'
  <2> SUFFICES ASSUME NEW k \in DOMAIN inbox', inbox'[k].goal # None
               PROVE  /\ inbox'[k].halted <=> doomed'[inbox'[k].goal] # "no"
                      /\ inbox'[k].halted => inbox'[k].why = doomed'[inbox'[k].goal]
    BY DEF DoomQueue
  <2> DEFINE i == f[k]
  <2>1. i \in DOMAIN inbox /\ inbox[i].goal \in Goal /\ inbox[i].goal # None
    BY <1>3, <1>4
  <2>2. Waiting(inbox[i].goal)
    BY <2>1 DEF Waiting
  <2>3. doomed'[inbox[i].goal] = IF doomed[inbox[i].goal] = "no" THEN cause[p] ELSE doomed[inbox[i].goal]
    BY <1>5, <2>1, <2>2
  <2>4. /\ inbox[i].halted <=> doomed[inbox[i].goal] # "no"
        /\ inbox[i].halted => inbox[i].why = doomed[inbox[i].goal]
    BY <2>1 DEF DoomInv, DoomQueue
  <2>5. QED
    BY <1>1, <1>4, <2>3, <2>4
<1>11. DoomPopped'
  <2>1. CASE pc[Sampler] \notin WithPopped
    BY <1>9, <2>1 DEF DoomPopped, WithPopped
  <2>2. CASE pc[Sampler] \in WithPopped
    <3>1. popped.goal \in Goal /\ Waiting(popped.goal) /\ pc'[Sampler] = pc[Sampler]
      BY <1>9, <2>2, PlacedAreGoals DEF Waiting, GoalPlaces
    <3>2. doomed'[popped.goal] = IF doomed[popped.goal] = "no" THEN cause[p] ELSE doomed[popped.goal]
      BY <1>5, <3>1
    <3>3. QED
      BY <1>1, <1>7, <1>8, <2>2, <3>1, <3>2 DEF DoomInv, DoomPopped
  <2>3. QED
    BY <2>1, <2>2
<1>12. DoomRunning'
  <2> SUFFICES ASSUME current # None PROVE DoomRunning'
    BY <1>7 DEF DoomRunning
  <2>1. current \in Goal /\ Waiting(current)
    BY PlacedAreGoals DEF Waiting
  <2>2. doomed'[current] = IF doomed[current] = "no" THEN cause[p] ELSE doomed[current]
    BY <1>5, <2>1
  <2>3. CASE pc[Sampler] = "h_settle"
    <3>1. pc'[Sampler] = "h_settle"
      BY <1>9, <2>3
    <3>2. doomed[current] # "no"
      BY <2>3 DEF DoomInv, DoomRunning
    <3>3. QED
      BY <1>7, <2>2, <2>3, <3>1, <3>2 DEF DoomInv, DoomRunning
  <2>4. CASE pc[Sampler] # "h_settle"
    <3>1. pc'[Sampler] # "h_settle"
      BY <1>9, <2>4
    <3>2. QED
      BY <1>1, <1>7, <1>8, <2>2, <2>4, <3>1 DEF DoomInv, DoomRunning
  <2>5. QED
    BY <2>3, <2>4
<1>13. DoomPlaced'
  <2> SUFFICES ASSUME NEW g \in Goal, doomed'[g] # "no", result[g] = "none" PROVE Waiting(g)'
    BY <1>7 DEF DoomPlaced
  <2>1. Waiting(g)
    BY <1>5 DEF DoomInv, DoomPlaced
  <2>2. CASE \E i \in DOMAIN inbox : inbox[i].goal = g
    <3>1. PICK i \in DOMAIN inbox : inbox[i].goal = g
      BY <2>2
    <3>2. PICK k \in DOMAIN inbox' : f[k] = i
      BY <1>3, <3>1, PlacedAreGoals
    <3>3. inbox'[k].goal = g
      BY <1>4, <3>1, <3>2
    <3>4. QED
      BY <3>3 DEF Waiting
  <2>3. QED
    BY <1>7, <2>1, <2>2 DEF Waiting
<1>14. ContactReasonSticks'
  <2> SUFFICES ASSUME NEW g \in Goal, doomed'[g] = "contact" PROVE result[g] # "halted"
    BY <1>7 DEF ContactReasonSticks
  <2>1. CASE Waiting(g)
    BY <2>1, WaitingIsPending DEF Pending
  <2>2. CASE ~Waiting(g)
    BY <1>5, <2>2 DEF DoomInv, ContactReasonSticks
  <2>3. QED
    BY <2>1, <2>2
<1>15. \A g \in Pending : doomed'[g] # "no"
  BY <1>6, WaitingIsPending DEF Pending
<1>16. \A g \in Goal : doomed[g] # "no" => doomed'[g] = doomed[g]
  BY <1>5
<1>17. QED
  BY <1>10, <1>11, <1>12, <1>13, <1>14, <1>15, <1>16 DEF DoomInv

\* The sampler takes the halt: what runs was overtaken, and is about to be settled.
LEMMA DoomTaken == ASSUME Sound, DoomInv, HaltTaken PROVE DoomInv'
<1>1. /\ UNCHANGED <<inbox, popped, current, result, doomed, haltReason>>
      /\ pc[Sampler] = "take" /\ haltPending' = FALSE
  BY DEF HaltTaken, At
<1>2. /\ haltPending => pc'[Sampler] = "h_settle" /\ cause'[Sampler] = haltReason
      /\ ~haltPending => pc'[Sampler] = "expire"
  BY Names, Moved DEF HaltTaken, Sound, Base, LockInv, DomInv
<1>3. DoomQueue'
  BY <1>1, DoomQueueKept DEF DoomInv
<1>4. DoomPopped'
  BY <1>1, <1>2 DEF DoomPopped, WithPopped
<1>5. DoomRunning'
  <2>1. CASE haltPending
    BY <1>1, <1>2, <2>1 DEF DoomInv, DoomRunning
  <2>2. CASE ~haltPending
    BY <1>1, <1>2, <2>2 DEF DoomInv, DoomRunning
  <2>3. QED
    BY <2>1, <2>2
<1>6. DoomPlaced' /\ ContactReasonSticks'
  BY <1>1 DEF DoomInv, DoomPlaced, Waiting, ContactReasonSticks
<1>7. QED
  BY <1>3, <1>4, <1>5, <1>6 DEF DoomInv

\* The sampler pops: a goal overtaken in the inbox is marked.
LEMMA DoomTakenUp == ASSUME Sound, DoomInv, Pop PROVE DoomInv'
<1>1. inbox \in Seq(Entries) /\ inbox # <<>> /\ inbox' = Tail(inbox)
  BY DEF Pop, Sound, GoalsInv, GoalsTyped
<1>2. /\ Head(inbox) = inbox[1] /\ 1 \in DOMAIN inbox
      /\ \A i \in DOMAIN inbox' : i + 1 \in DOMAIN inbox /\ inbox'[i] = inbox[i + 1]
      /\ \A i \in DOMAIN inbox : i # 1 => i - 1 \in DOMAIN inbox' /\ inbox'[i - 1] = inbox[i]
  BY <1>1, Popping
<1>3. popped' = inbox[1] /\ UNCHANGED <<cause, current, result, doomed, haltPending, haltReason>>
  BY <1>2 DEF Pop
<1>4. /\ pc[Sampler] = "drain" /\ popped.goal = None
      /\ pc'[Sampler] = IF inbox[1] = CancelEntry THEN "cancel" ELSE "gate"
  BY <1>2, SamplerMoves DEF Pop, At, Sound, Base, LockInv, GoalsInv, GoalsTyped, WithPopped
<1>5. DoomQueue'
  BY <1>2, <1>3 DEF DoomInv, DoomQueue
<1>6. DoomPopped'
  <2>1. CASE inbox[1] = CancelEntry
    BY <1>4, <2>1 DEF DoomPopped, WithPopped
  <2>2. CASE inbox[1] # CancelEntry
    <3>1. inbox[1].goal # None
      BY <1>2, <2>2 DEF Sound, GoalsInv, GoalsTyped
    <3>2. /\ inbox[1].halted <=> doomed[inbox[1].goal] # "no"
          /\ inbox[1].halted => inbox[1].why = doomed[inbox[1].goal]
      BY <1>2, <3>1 DEF DoomInv, DoomQueue
    <3>3. pc'[Sampler] = "gate"
      BY <1>4, <2>2
    <3>4. QED
      BY <1>3, <3>2, <3>3 DEF DoomPopped, WithPopped
  <2>3. QED
    BY <2>1, <2>2
<1>7. DoomRunning'
  BY <1>3, <1>4 DEF DoomInv, DoomRunning
<1>8. DoomPlaced'
  <2> SUFFICES ASSUME NEW g \in Goal, Waiting(g) PROVE Waiting(g)'
    BY <1>3 DEF DoomInv, DoomPlaced
  <2>1. CASE \E i \in DOMAIN inbox : inbox[i].goal = g
    <3>1. PICK i \in DOMAIN inbox : inbox[i].goal = g
      BY <2>1
    <3>2. CASE i = 1
      BY <1>3, <3>1, <3>2 DEF Waiting
    <3>3. CASE i # 1
      BY <1>2, <3>1, <3>3 DEF Waiting
    <3>4. QED
      BY <3>2, <3>3
  <2>2. CASE current = g
    BY <1>3, <2>2 DEF Waiting
  <2>3. QED
    BY <1>4, <2>1, <2>2, Names DEF Waiting
<1>9. ContactReasonSticks'
  BY <1>3 DEF DoomInv, ContactReasonSticks
<1>10. QED
  BY <1>5, <1>6, <1>7, <1>8, <1>9 DEF DoomInv

\* The popped goal starts: if a halt overtook it after the recheck, that halt is
\* still pending.
LEMMA DoomStarted == ASSUME Sound, DoomInv, Submit PROVE DoomInv'
<1> DEFINE g == popped.goal
<1>1. pc[Sampler] = "submit" /\ pc'[Sampler] = "drain"
  BY SamplerMoves DEF Submit, At, Sound, Base, LockInv
<1>2. g \in Goal /\ result[g] = "none" /\ g # current
  BY <1>1, PlacedAreGoals DEF WithPopped
<1>3. current' = g /\ UNCHANGED <<inbox, doomed, haltPending, haltReason>>
  BY DEF Submit
<1>4. \A h \in Goal : h # current => result'[h] = result[h]
  BY PlacedAreGoals, Answered DEF Submit, Codes, Sound
<1>5. current # None => result'[current] = "preempted"
  BY PlacedAreGoals, Answered DEF Submit, Codes, Sound
<1>6. DoomQueue'
  BY <1>3, DoomQueueKept DEF DoomInv
<1>7. DoomPopped'
  BY <1>1 DEF DoomPopped, WithPopped
<1>8. DoomRunning'
  <2>1. /\ doomed[g] # "no" <=> haltPending
        /\ doomed[g] = "contact" => haltReason = "contact"
    BY <1>1 DEF DoomInv, DoomPopped, WithPopped
  <2>2. QED
    BY <1>1, <1>3, <2>1 DEF DoomRunning
<1>9. DoomPlaced'
  <2> SUFFICES ASSUME NEW h \in Goal, doomed[h] # "no", result'[h] = "none" PROVE Waiting(h)'
    BY <1>3 DEF DoomPlaced
  <2>1. h # current /\ result[h] = "none"
    BY <1>4, <1>5, PlacedAreGoals
  <2>2. QED
    BY <1>3, <2>1 DEF DoomInv, DoomPlaced, Waiting
<1>10. ContactReasonSticks'
  <2>1. \A h \in Goal : result'[h] = result[h] \/ result'[h] = "preempted"
    BY <1>4, <1>5, PlacedAreGoals
  <2>2. QED
    BY <1>3, <2>1 DEF DoomInv, ContactReasonSticks
<1>11. QED
  BY <1>6, <1>7, <1>8, <1>9, <1>10 DEF DoomInv

\* Whatever the step, an overtaken goal is marked, or a halt that will end it is pending.
LEMMA DoomKept == ASSUME Sound, DoomInv, [Next]_vars PROVE DoomInv'
<1>1. CASE Quiet
  BY <1>1, DoomWalks DEF Quiet, goalVars
<1>2. CASE \E c \in Client : (\E g \in Goal : GoalVet(c, g)) \/ GoalAccepted(c) \/ GoalCancel(c)
  <2>1. ASSUME NEW c \in Client, NEW g \in Goal, GoalVet(c, g) PROVE DoomInv'
    <3>1. pc'[Sampler] = pc[Sampler] /\ cause' = cause
      BY <2>1, Names, Moved DEF GoalVet, Sound, Base, LockInv
    <3>2. UNCHANGED <<inbox, popped, current, result, doomed, haltPending, haltReason>>
      BY <2>1 DEF GoalVet, goalVars
    <3>3. QED
      BY <3>1, <3>2, DoomWalks
  <2>2. QED
    BY <1>2, <2>1, DoomArrives, DoomCancelArrives
<1>3. CASE \E p \in Proc : HaltQueue(p)
  BY <1>3, DoomFlushed
<1>4. CASE SamplerGoalMove
  <2>0. \A w : Goto(Sampler, w) => pc'[Sampler] = w
    BY SamplerMoves DEF Sound, Base, LockInv
  <2>1. CASE HaltTaken
    BY <2>1, DoomTaken
  <2>2. CASE HaltSettles
    <3>1. pc[Sampler] = "h_settle" /\ pc'[Sampler] \in {"h_reset", "h_record"}
      BY <2>0, <2>2 DEF HaltSettles, At
    <3>2. HaltCode(cause[Sampler]) \in Codes
      BY DEF HaltCode, Codes
    <3>3. current # None /\ doomed[current] = "contact" => HaltCode(cause[Sampler]) # "halted"
      BY <3>1 DEF DoomInv, DoomRunning, HaltCode
    <3>4. /\ IF current = None THEN UNCHANGED <<result, settles>> ELSE Settle(current, HaltCode(cause[Sampler]))
          /\ current' = None /\ UNCHANGED <<inbox, popped, doomed, haltPending, haltReason>>
      BY <2>2 DEF HaltSettles
    <3>5. pc[Sampler] \notin WithPopped /\ pc'[Sampler] \notin WithPopped
      BY <3>1 DEF WithPopped
    <3>6. QED
      BY <3>2, <3>3, <3>4, <3>5, DoomIdle
  <2>3. CASE HaltRecords \/ HaltResets
    <3>1. /\ pc[Sampler] \in {"h_record", "h_reset"}
          /\ pc'[Sampler] \notin GoalPlaces \ {"h_reset"}
      BY <2>0, <2>3 DEF HaltRecords, HaltResets, At, GoalPlaces, WithPopped
    <3>2. UNCHANGED <<inbox, popped, current, result, doomed, haltPending, haltReason>>
      BY <2>3 DEF HaltRecords, HaltResets, goalVars
    <3>3. QED
      BY <3>1, <3>2, DoomWalks
  <2>4. CASE Pop
    BY <2>4, DoomTakenUp
  <2>5. CASE Cancel
    <3>1. pc[Sampler] \notin WithPopped /\ pc'[Sampler] \notin WithPopped /\ "preempted" \in Codes
      BY <2>0, <2>5 DEF Cancel, At, WithPopped, Codes
    <3>2. /\ IF current = None THEN UNCHANGED <<result, settles>> ELSE Settle(current, "preempted")
          /\ current' = None /\ UNCHANGED <<inbox, popped, doomed, haltPending, haltReason>>
      BY <2>5 DEF Cancel
    <3>3. QED
      BY <3>1, <3>2, DoomIdle
  <2>6. CASE GateRefuses
    <3>1. pc[Sampler] \in WithPopped /\ UNCHANGED <<inbox, current, doomed, haltPending, haltReason>>
      BY <2>6 DEF GateRefuses, At, WithPopped
    <3>2. CASE popped.halted
      <4>1. Refuse(HaltCode(popped.why)) /\ HaltCode(popped.why) \in Codes
        BY <2>6, <3>2 DEF GateRefuses, HaltCode, Codes
      <4>2. doomed[popped.goal] = "contact" => HaltCode(popped.why) # "halted"
        BY <3>1, <3>2 DEF DoomInv, DoomPopped, HaltCode
      <4>3. QED
        BY <3>1, <4>1, <4>2, DoomAnswered
    <3>3. CASE ~popped.halted
      <4>1. Refuse("invalid") /\ "invalid" \in Codes
        BY <2>6, <3>3 DEF GateRefuses, Codes
      <4>2. QED
        BY <3>1, <4>1, DoomAnswered
    <3>4. QED
      BY <3>2, <3>3
  <2>7. CASE GatePasses
    <3>1. /\ pc[Sampler] = "gate" /\ pc'[Sampler] \in {"recheck", "sw_request"} /\ ~popped.halted
          /\ UNCHANGED <<inbox, popped, current, result, doomed, haltPending, haltReason>>
      BY <2>0, <2>7 DEF GatePasses, At, goalVars
    <3>2. QED
      BY <3>1, DoomWalks DEF WithPopped
  <2>8. CASE SwitchRequest \/ SwitchRecord
    <3>1. /\ pc[Sampler] \in {"sw_request", "sw_record"} /\ pc'[Sampler] \in {"recheck", "sw_record"}
          /\ UNCHANGED <<inbox, popped, current, result, doomed, haltPending, haltReason>>
      BY <2>0, <2>8 DEF SwitchRequest, SwitchRecord, At, goalVars
    <3>2. ~popped.halted
      BY <3>1 DEF DoomInv, DoomPopped, WithPopped
    <3>3. QED
      BY <3>1, <3>2, DoomWalks DEF WithPopped
  <2>9. CASE RecheckHalt
    <3>1. /\ pc[Sampler] = "recheck"
          /\ UNCHANGED <<inbox, current, doomed, haltPending, haltReason>>
      BY <2>9 DEF RecheckHalt, At
    <3>2. ~popped.halted
      BY <3>1 DEF DoomInv, DoomPopped, WithPopped
    <3>3. CASE haltPending
      <4>1. Refuse(HaltCode(haltReason)) /\ HaltCode(haltReason) \in Codes
        BY <2>9, <3>3 DEF RecheckHalt, HaltCode, Codes
      <4>2. doomed[popped.goal] = "contact" => HaltCode(haltReason) # "halted"
        BY <3>1, <3>2 DEF DoomInv, DoomPopped, WithPopped, HaltCode
      <4>3. QED
        BY <3>1, <4>1, <4>2, DoomAnswered DEF WithPopped
    <3>4. CASE ~haltPending
      <4>1. pc'[Sampler] = "submit" /\ UNCHANGED <<popped, result>>
        BY <2>0, <2>9, <3>4 DEF RecheckHalt
      <4>2. QED
        BY <3>1, <3>2, <3>4, <4>1, DoomWalks DEF WithPopped
    <3>5. QED
      BY <3>3, <3>4
  <2>10. CASE Submit
    BY <2>10, DoomStarted
  <2>11. CASE SubmitRefused
    <3>1. /\ pc[Sampler] \in WithPopped /\ Refuse("invalid") /\ "invalid" \in Codes
          /\ UNCHANGED <<inbox, current, doomed, haltPending, haltReason>>
      BY <2>11 DEF SubmitRefused, At, WithPopped, Codes
    <3>2. QED
      BY <3>1, DoomAnswered
  <2>12. CASE TickCompletes
    <3>1. pc[Sampler] \notin WithPopped /\ pc'[Sampler] \notin WithPopped /\ "done" \in Codes
      BY <2>0, <2>12 DEF TickCompletes, At, WithPopped, Codes
    <3>2. /\ IF current = None THEN UNCHANGED <<result, settles>> ELSE Settle(current, "done")
          /\ current' = None /\ UNCHANGED <<inbox, popped, doomed, haltPending, haltReason>>
      BY <2>12 DEF TickCompletes
    <3>3. QED
      BY <3>1, <3>2, DoomIdle
  <2>13. QED
    BY <1>4, <2>1, <2>2, <2>3, <2>4, <2>5, <2>6, <2>7, <2>8, <2>9, <2>10, <2>11, <2>12
       DEF SamplerGoalMove
<1>5. QED
  BY <1>1, <1>2, <1>3, <1>4, GoalFrame DEF GoalMove, Sound

\* No halt has overtaken anything at first.
LEMMA InitDoom == Init => DoomInv
<1> SUFFICES ASSUME Init PROVE DoomInv
  OBVIOUS
<1>1. /\ DOMAIN inbox = {} /\ current = None /\ pc[Sampler] = "edge"
      /\ doomed = [g \in Goal |-> "no"]
  BY Names DEF Init
<1>2. QED
  BY <1>1 DEF DoomInv, DoomQueue, DoomPopped, DoomRunning, DoomPlaced, ContactReasonSticks, WithPopped

\* A goal some halt overtook, even between the sampler's recheck and its start, runs
\* only while a halt is pending or being carried out that will end it.
THEOREM OvertakenGoalIsHalted == Spec => []HaltReachesRunning
<1>1. Init => Sound /\ DoomInv
  BY InitSound, InitDoom
<1>2. (Sound /\ DoomInv) /\ [Next]_vars => (Sound /\ DoomInv)'
  BY SoundKept, DoomKept
<1>3. Sound /\ DoomInv => HaltReachesRunning
  BY DEF DoomInv, DoomRunning, HaltReachesRunning, At
<1>4. QED
  BY <1>1, <1>2, <1>3, PTL DEF Spec

\* A goal a contact halt overtook first never reports a plain halt, even if an e-stop
\* or an outage halts again before the sampler answers it.
THEOREM ContactStaysTheReason == Spec => []ContactReasonSticks
<1>1. Init => Sound /\ DoomInv
  BY InitSound, InitDoom
<1>2. (Sound /\ DoomInv) /\ [Next]_vars => (Sound /\ DoomInv)'
  BY SoundKept, DoomKept
<1>3. Sound /\ DoomInv => ContactReasonSticks
  BY DEF DoomInv
<1>4. QED
  BY <1>1, <1>2, <1>3, PTL DEF Spec

-----------------------------------------------------------------------------
(* The life of a goal: accepted, waiting, answered.                        *)

Accepts(g) ==
  /\ \E c \in Client : GoalAccepted(c) /\ arg[c] = g
  /\ UNCHANGED <<result, settles>> /\ result[g] = "none"
  /\ ~Waiting(g) /\ Waiting(g)'
  /\ \A h \in Goal : h # g => (Waiting(h)' <=> Waiting(h))

Answers(g) ==
  /\ Waiting(g) /\ result'[g] # "none" /\ settles' = [settles EXCEPT ![g] = @ + 1]
  /\ \A h \in Goal : h # g => result'[h] = result[h] /\ (Waiting(h)' <=> Waiting(h))

Steady ==
  /\ UNCHANGED <<result, settles>>
  /\ \A h \in Goal : Waiting(h)' <=> Waiting(h)

\* The popped goal is answered, and nothing else changes place.
LEMMA AnswersPopped ==
  ASSUME Sound, pc[Sampler] \in WithPopped, NEW code \in Codes, Refuse(code), UNCHANGED <<inbox, current>>
  PROVE  Answers(popped.goal)
<1> DEFINE g == popped.goal
<1>1. g \in Goal /\ result[g] = "none" /\ g # current
  BY PlacedAreGoals
<1>2. Settle(g, code) /\ popped' = NoEntry
  BY DEF Refuse
<1>3. result'[g] # "none" /\ \A h \in Goal : h # g => result'[h] = result[h]
  BY <1>1, <1>2, Answered DEF Sound
<1>4. popped'.goal = None /\ None \notin Goal
  BY <1>2, Names DEF NoEntry, CancelEntry, Entry
<1>5. \A h \in Goal : h # g => (Waiting(h)' <=> Waiting(h))
  BY <1>4 DEF Waiting
<1>6. Waiting(g) /\ settles' = [settles EXCEPT ![g] = @ + 1]
  BY <1>2 DEF Waiting, Settle
<1>7. QED
  BY <1>3, <1>5, <1>6 DEF Answers

\* The running goal, if any, is answered.
LEMMA AnswersCurrent ==
  ASSUME Sound, NEW code \in Codes,
         IF current = None THEN UNCHANGED <<result, settles>> ELSE Settle(current, code),
         current' = None, UNCHANGED <<inbox, popped>>
  PROVE  Steady \/ \E g \in Goal : Answers(g)
<1>1. CASE current = None
  BY <1>1 DEF Steady, Waiting
<1>2. CASE current # None
  <2>1. current \in Goal /\ result[current] = "none" /\ Settle(current, code) /\ None \notin Goal
    BY <1>2, PlacedAreGoals
  <2>2. result'[current] # "none" /\ \A h \in Goal : h # current => result'[h] = result[h]
    BY <2>1, Answered DEF Sound
  <2>3. \A h \in Goal : h # current => (Waiting(h)' <=> Waiting(h))
    BY <2>1 DEF Waiting
  <2>4. Waiting(current) /\ settles' = [settles EXCEPT ![current] = @ + 1]
    BY <2>1 DEF Waiting, Settle
  <2>5. Answers(current)
    BY <2>2, <2>3, <2>4 DEF Answers
  <2>6. QED
    BY <2>1, <2>5
<1>3. QED
  BY <1>1, <1>2

\* A submit answers the goal it preempts, and moves the popped one on.
LEMMA AnswersPreempted == ASSUME Sound, Submit PROVE Steady \/ \E g \in Goal : Answers(g)
<1>1. pc[Sampler] = "submit"
  BY DEF Submit, At
<1>2. /\ popped.goal \in Goal /\ popped.goal # current /\ None \notin Goal
      /\ current # None => current \in Goal /\ result[current] = "none"
  BY <1>1, PlacedAreGoals DEF WithPopped
<1>3. /\ current' = popped.goal /\ inbox' = inbox /\ popped' = NoEntry
      /\ IF current = None THEN UNCHANGED <<result, settles>> ELSE Settle(current, "preempted")
  BY DEF Submit
<1>4. popped'.goal = None
  BY <1>3 DEF NoEntry, CancelEntry, Entry
<1>5. \A h \in Goal : h # current => (Waiting(h)' <=> Waiting(h))
  BY <1>2, <1>3, <1>4 DEF Waiting
<1>6. CASE current = None
  <2>1. \A h \in Goal : h # current
    BY <1>2, <1>6
  <2>2. QED
    BY <1>3, <1>5, <1>6, <2>1 DEF Steady
<1>7. CASE current # None
  <2>1. result'[current] # "none" /\ \A h \in Goal : h # current => result'[h] = result[h]
    BY <1>2, <1>3, <1>7, Answered DEF Sound, Codes
  <2>2. Waiting(current) /\ settles' = [settles EXCEPT ![current] = @ + 1]
    BY <1>3, <1>7 DEF Waiting, Settle
  <2>3. QED
    BY <1>2, <1>5, <1>7, <2>1, <2>2 DEF Answers
<1>8. QED
  BY <1>6, <1>7

\* Whatever the step, at most one goal is accepted or answered, and every other goal
\* stays where it is or moves from one place to the next.
LEMMA GoalEffects ==
  ASSUME Sound, [Next]_vars
  PROVE  Steady \/ \E g \in Goal : Accepts(g) \/ Answers(g)
<1>1. CASE Quiet
  BY <1>1 DEF Quiet, goalVars, Steady, Waiting
<1>2. ASSUME NEW c \in Client, (\E g \in Goal : GoalVet(c, g)) \/ GoalAccepted(c) \/ GoalCancel(c)
      PROVE  Steady \/ \E g \in Goal : Accepts(g)
  <2>1. CASE \E g \in Goal : GoalVet(c, g)
    BY <2>1 DEF GoalVet, goalVars, Steady, Waiting
  <2>2. CASE GoalAccepted(c)
    <3>1. PICK g \in Goal : g = arg[c]
      BY <2>2 DEF GoalAccepted, At, Sound, GoalsInv, GoalsApart
    <3>2. PICK queue \in BOOLEAN, why \in Reason :
            inbox' = Append(inbox, Entry(g, queue, why # "none", why))
      BY <2>2, <3>1 DEF GoalAccepted, Reason
    <3>3. result[g] = "none" /\ ~Waiting(g)
      BY <2>2, <3>1 DEF GoalAccepted, At, Sound, GoalsInv, GoalsApart, Waiting
    <3> DEFINE e == Entry(g, queue, why # "none", why)
    <3>4. e \in Entries /\ e.goal = g
      BY DEF Entry, Entries
    <3>5. inbox \in Seq(Entries)
      BY DEF Sound, GoalsInv, GoalsTyped
    <3>6. PICK n \in DOMAIN inbox' :
            /\ inbox'[n] = e /\ DOMAIN inbox' = DOMAIN inbox \cup {n}
            /\ \A i \in DOMAIN inbox : inbox'[i] = inbox[i]
      BY <3>2, <3>4, <3>5, Appending
    <3>7. UNCHANGED <<popped, current, result, settles>>
      BY <2>2 DEF GoalAccepted
    <3> HIDE DEF e
    <3>8. Waiting(g)'
      BY <3>4, <3>6 DEF Waiting
    <3>9. \A h \in Goal : h # g => (Waiting(h)' <=> Waiting(h))
      BY <3>4, <3>6, <3>7 DEF Waiting
    <3>10. Accepts(g)
      BY <2>2, <3>1, <3>3, <3>7, <3>8, <3>9 DEF Accepts
    <3>11. QED
      BY <3>10
  <2>3. CASE GoalCancel(c)
    <3>1. CancelEntry \in Entries /\ CancelEntry.goal = None /\ None \notin Goal
      BY Names DEF CancelEntry, Entry, Entries, Reason
    <3>2. inbox \in Seq(Entries) /\ inbox' = Append(inbox, CancelEntry)
      BY <2>3 DEF Sound, GoalsInv, GoalsTyped, GoalCancel
    <3>3. \A i \in DOMAIN inbox : inbox'[i] = inbox[i]
      BY <3>1, <3>2, Appending
    <3>4. \E n \in DOMAIN inbox' : inbox'[n] = CancelEntry /\ DOMAIN inbox' = DOMAIN inbox \cup {n}
      BY <3>1, <3>2, Appending
    <3>5. UNCHANGED <<popped, current, result, settles>>
      BY <2>3 DEF GoalCancel, procVars
    <3>6. ASSUME NEW h \in Goal PROVE Waiting(h)' <=> Waiting(h)
      BY <3>1, <3>3, <3>4, <3>5 DEF Waiting
    <3>7. QED
      BY <3>5, <3>6 DEF Steady
  <2>4. QED
    BY <1>2, <2>1, <2>2, <2>3
<1>3. ASSUME NEW p \in Proc, HaltQueue(p) PROVE Steady
  <2>1. cause[p] \in Reason
    BY <1>3 DEF HaltQueue, At, Sound, CauseInv, Reason
  <2>2. inbox \in Seq(Entries) /\ inbox' \in Flushed(cause[p])
    BY <1>3 DEF HaltQueue, Sound, GoalsInv, GoalsTyped
  <2>3. PICK f \in [DOMAIN inbox' -> DOMAIN inbox] :
        /\ \A k \in DOMAIN inbox' : /\ inbox'[k] = Marked(inbox[f[k]], cause[p])
                                    /\ inbox[f[k]].goal # None
        /\ \A i \in DOMAIN inbox : inbox[i].goal # None => \E k \in DOMAIN inbox' : f[k] = i
    BY <2>1, <2>2, Flushing
  <2>4. \A k \in DOMAIN inbox' : f[k] \in DOMAIN inbox /\ inbox'[k].goal = inbox[f[k]].goal
    <3> TAKE k \in DOMAIN inbox'
    <3>1. f[k] \in DOMAIN inbox /\ inbox[f[k]] \in Entries
      BY InboxEntries DEF Sound
    <3>2. Marked(inbox[f[k]], cause[p]).goal = inbox[f[k]].goal
      BY <2>1, <3>1, Marking
    <3>3. QED
      BY <2>3, <3>1, <3>2
  <2>5. UNCHANGED <<popped, current, result, settles>>
    BY <1>3 DEF HaltQueue
  <2>6. ASSUME NEW h \in Goal
        PROVE  (\E k \in DOMAIN inbox' : inbox'[k].goal = h) <=> \E i \in DOMAIN inbox : inbox[i].goal = h
    BY <2>3, <2>4, Names
  <2>7. \A h \in Goal : Waiting(h)' <=> Waiting(h)
    BY <2>5, <2>6 DEF Waiting
  <2>8. QED
    BY <2>5, <2>7 DEF Steady
<1>4. CASE SamplerGoalMove
  <2>1. CASE HaltTaken \/ HaltRecords \/ HaltResets \/ GatePasses \/ SwitchRequest \/ SwitchRecord
    <3>1. UNCHANGED <<inbox, popped, current, result, settles>>
      BY <2>1 DEF HaltTaken, HaltRecords, HaltResets, GatePasses, SwitchRequest, SwitchRecord, goalVars
    <3>2. QED
      BY <3>1 DEF Steady, Waiting
  <2>2. CASE HaltSettles
    BY <2>2, AnswersCurrent DEF HaltSettles, HaltCode, Codes
  <2>3. CASE Pop
    <3>1. inbox \in Seq(Entries) /\ inbox # <<>> /\ inbox' = Tail(inbox)
      BY <2>3 DEF Pop, Sound, GoalsInv, GoalsTyped
    <3>2. /\ Head(inbox) = inbox[1] /\ 1 \in DOMAIN inbox
          /\ \A i \in DOMAIN inbox' : i + 1 \in DOMAIN inbox /\ inbox'[i] = inbox[i + 1]
          /\ \A i \in DOMAIN inbox : i # 1 => i - 1 \in DOMAIN inbox' /\ inbox'[i - 1] = inbox[i]
      BY <3>1, Popping
    <3>3. popped' = inbox[1] /\ UNCHANGED <<current, result, settles>>
      BY <2>3, <3>2 DEF Pop
    <3>4. popped.goal = None /\ None \notin Goal
      BY <2>3, PlacedAreGoals DEF Pop, At, WithPopped
    <3>5. ASSUME NEW h \in Goal PROVE Waiting(h)' <=> Waiting(h)
      <4>1. ASSUME Waiting(h) PROVE Waiting(h)'
        <5>1. CASE \E i \in DOMAIN inbox : inbox[i].goal = h
          <6>1. PICK i \in DOMAIN inbox : inbox[i].goal = h
            BY <5>1
          <6>2. i = 1 => Waiting(h)'
            BY <3>3, <6>1 DEF Waiting
          <6>3. i # 1 => Waiting(h)'
            BY <3>2, <6>1 DEF Waiting
          <6>4. QED
            BY <6>2, <6>3
        <5>2. CASE current = h
          BY <3>3, <5>2 DEF Waiting
        <5>3. QED
          BY <3>4, <4>1, <5>1, <5>2 DEF Waiting
      <4>2. ASSUME Waiting(h)' PROVE Waiting(h)
        <5>1. CASE \E i \in DOMAIN inbox' : inbox'[i].goal = h
          BY <3>2, <5>1 DEF Waiting
        <5>2. CASE popped'.goal = h
          BY <3>2, <3>3, <5>2 DEF Waiting
        <5>3. CASE current' = h
          BY <3>3, <5>3 DEF Waiting
        <5>4. QED
          BY <4>2, <5>1, <5>2, <5>3 DEF Waiting
      <4>3. QED
        BY <4>1, <4>2
    <3>6. QED
      BY <3>3, <3>5 DEF Steady
  <2>4. CASE Cancel
    BY <2>4, AnswersCurrent DEF Cancel, Codes
  <2>5. CASE GateRefuses \/ SubmitRefused
    <3>1. \E code \in Codes : Refuse(code)
      BY <2>5 DEF GateRefuses, SubmitRefused, HaltCode, Codes
    <3>2. UNCHANGED <<inbox, current>> /\ pc[Sampler] \in WithPopped
      BY <2>5 DEF GateRefuses, SubmitRefused, At, WithPopped
    <3>3. popped.goal \in Goal
      BY <3>2, PlacedAreGoals
    <3>4. QED
      BY <3>1, <3>2, <3>3, AnswersPopped
  <2>6. CASE RecheckHalt
    <3>1. UNCHANGED <<inbox, current>> /\ pc[Sampler] \in WithPopped
      BY <2>6 DEF RecheckHalt, At, WithPopped
    <3>2. CASE haltPending
      <4>1. Refuse(HaltCode(haltReason)) /\ HaltCode(haltReason) \in Codes
        BY <2>6, <3>2 DEF RecheckHalt, HaltCode, Codes
      <4>2. popped.goal \in Goal
        BY <3>1, PlacedAreGoals
      <4>3. QED
        BY <3>1, <4>1, <4>2, AnswersPopped
    <3>3. CASE ~haltPending
      BY <2>6, <3>1, <3>3 DEF RecheckHalt, Steady, Waiting
    <3>4. QED
      BY <3>2, <3>3
  <2>7. CASE Submit
    BY <2>7, AnswersPreempted
  <2>8. CASE TickCompletes
    <3>1. Settle(current, "done") /\ current # None /\ current' = None /\ "done" \in Codes
      BY <2>8 DEF TickCompletes, Codes
    <3>2. UNCHANGED <<inbox, popped>>
      BY <2>8 DEF TickCompletes
    <3>3. QED
      BY <3>1, <3>2, AnswersCurrent
  <2>9. QED
    BY <1>4, <2>1, <2>2, <2>3, <2>4, <2>5, <2>6, <2>7, <2>8 DEF SamplerGoalMove
<1>5. QED
  BY <1>1, <1>2, <1>3, <1>4, GoalFrame DEF GoalMove, Sound

\* The status GoalLifecycle's clients see.
Status == [g \in Goal |-> IF result[g] # "none" THEN "settled"
                          ELSE IF g \in Pending THEN "pending" ELSE "new"]

\* An accepted goal becomes pending, and only it changes status.
LEMMA AcceptsMaps == ASSUME Sound, NEW g \in Goal, Accepts(g) PROVE GL!Accept(g)
<1>1. result' = result /\ settles' = settles /\ result[g] = "none"
  BY DEF Accepts
<1>2. \A h \in Goal : result[h] = "none" => (h \in Pending' <=> Waiting(h)')
  BY <1>1 DEF Pending, Waiting
<1>3. \A h \in Goal : h \in Pending <=> Waiting(h)
  BY WaitingIsPending
<1>4. g \notin Pending /\ g \in Pending'
  BY <1>1, <1>2, <1>3 DEF Accepts
<1>5. \A h \in Goal : h # g => (result[h] = "none" => (h \in Pending' <=> h \in Pending))
  BY <1>2, <1>3 DEF Accepts
<1>6. Status[g] = "new" /\ Status' = [Status EXCEPT ![g] = "pending"]
  BY <1>1, <1>4, <1>5 DEF Status
<1>7. QED
  BY <1>1, <1>6 DEF GL!Accept, Status

\* An answered goal was pending, is settled, and its client has one answer more.
LEMMA AnswersMaps == ASSUME Sound, NEW g \in Goal, Answers(g) PROVE GL!Answer(g)
<1>1. result[g] = "none"
  BY WaitingIsPending DEF Answers, Pending
<1>2. result'[g] # "none" /\ settles' = [settles EXCEPT ![g] = @ + 1]
  BY DEF Answers
<1>3. \A h \in Goal : h # g => result'[h] = result[h]
  BY DEF Answers
<1>4. \A h \in Goal : result'[h] = "none" => (h \in Pending' <=> Waiting(h)')
  BY DEF Pending, Waiting
<1>5. \A h \in Goal : h \in Pending <=> Waiting(h)
  BY WaitingIsPending
<1>6. g \in Pending
  BY <1>5 DEF Answers
<1>7. \A h \in Goal : h # g => (result'[h] = "none" => (h \in Pending' <=> h \in Pending))
  BY <1>4, <1>5 DEF Answers
<1>8. Status[g] = "pending" /\ Status' = [Status EXCEPT ![g] = "settled"]
  BY <1>1, <1>2, <1>3, <1>6, <1>7 DEF Status
<1>9. QED
  BY <1>2, <1>8 DEF GL!Answer, Status

\* A step that neither accepts nor answers leaves the abstract state alone.
LEMMA SteadyMaps == ASSUME Sound, Steady PROVE UNCHANGED GL!vars
<1>1. result' = result /\ settles' = settles
  BY DEF Steady
<1>2. \A h \in Goal : result[h] = "none" => (h \in Pending' <=> Waiting(h)')
  BY <1>1 DEF Pending, Waiting
<1>3. \A h \in Goal : h \in Pending <=> Waiting(h)
  BY WaitingIsPending
<1>4. \A h \in Goal : result[h] = "none" => (h \in Pending' <=> h \in Pending)
  BY <1>2, <1>3 DEF Steady
<1>5. Status' = Status
  BY <1>1, <1>4 DEF Status
<1>6. QED
  BY <1>1, <1>5 DEF GL!vars, Status

\* The Supervisor implements GoalLifecycle: seen from its client each goal is accepted
\* once, waits, and is answered exactly once, whichever of the inbox, the sampler's hands
\* and the executor it waits in, and whatever halts, cancels and preemptions meet it there.
THEOREM GoalsLiveTheirLife == Spec => ImplementsGoalLifecycle
<1>1. Init => GL!Init
  <2> SUFFICES ASSUME Init PROVE GL!Init
    OBVIOUS
  <2>1. /\ popped.goal = None /\ inbox = <<>> /\ current = None
        /\ settles = [g \in Goal |-> 0] /\ \A g \in Goal : result[g] = "none"
    BY DEF Init, NoEntry, CancelEntry, Entry
  <2>2. \A g \in Goal : g \notin Pending
    BY <2>1, Names DEF Pending
  <2>3. QED
    BY <2>1, <2>2 DEF GL!Init
<1>2. Sound /\ [Next]_vars => [GL!Next]_(GL!vars)
  <2> SUFFICES ASSUME Sound, [Next]_vars PROVE [GL!Next]_(GL!vars)
    OBVIOUS
  <2>1. CASE Steady
    BY <2>1, SteadyMaps
  <2>2. ASSUME NEW g \in Goal, Accepts(g) \/ Answers(g) PROVE GL!Next
    BY <2>2, AcceptsMaps, AnswersMaps DEF GL!Next
  <2>3. QED
    BY <2>1, <2>2, GoalEffects
<1>3. QED
  BY <1>1, <1>2, InitSound, SoundKept, PTL DEF Spec, ImplementsGoalLifecycle, GL!Spec

-----------------------------------------------------------------------------
(* Goals a contact trip found unsettled.                                   *)

\* The first reason a goal is halted for is kept.
LEMMA DoomSticks ==
  ASSUME Sound, DoomInv, [Next]_vars
  PROVE  \A g \in Goal : doomed[g] # "no" => doomed'[g] = doomed[g]
<1>1. CASE Quiet
  BY <1>1 DEF Quiet, goalVars
<1>2. ASSUME NEW c \in Client, (\E g \in Goal : GoalVet(c, g)) \/ GoalAccepted(c) \/ GoalCancel(c)
      PROVE  \A g \in Goal : doomed[g] # "no" => doomed'[g] = doomed[g]
  <2>1. CASE (\E g \in Goal : GoalVet(c, g)) \/ GoalCancel(c)
    BY <2>1 DEF GoalVet, GoalCancel, goalVars
  <2>2. CASE GoalAccepted(c)
    <3>1. PICK why \in Reason : doomed' = IF why = "none" THEN doomed ELSE [doomed EXCEPT ![arg[c]] = why]
      BY <2>2 DEF GoalAccepted, Reason
    <3>2. /\ arg[c] \in Goal /\ result[arg[c]] = "none" /\ arg[c] # popped.goal /\ arg[c] # current
          /\ \A i \in DOMAIN inbox : inbox[i].goal # arg[c]
      BY <2>2 DEF GoalAccepted, At, Sound, GoalsInv, GoalsApart
    <3>3. doomed[arg[c]] = "no"
      BY <3>2 DEF DoomInv, DoomPlaced, Waiting
    <3>4. QED
      BY <3>1, <3>3 DEF Sound, Base, DomInv
  <2>3. QED
    BY <1>2, <2>1, <2>2
<1>3. CASE \E p \in Proc : HaltQueue(p)
  BY <1>3, DoomFlushed
<1>4. CASE SamplerGoalMove
  <2>1. doomed' = doomed
    <3>1. CASE HaltTaken \/ HaltSettles \/ HaltRecords \/ HaltResets
      BY <3>1 DEF HaltTaken, HaltSettles, HaltRecords, HaltResets, goalVars
    <3>2. CASE Pop \/ Cancel \/ GateRefuses \/ GatePasses \/ SwitchRequest \/ SwitchRecord
      BY <3>2 DEF Pop, Cancel, GateRefuses, GatePasses, SwitchRequest, SwitchRecord, goalVars
    <3>3. CASE RecheckHalt \/ Submit \/ SubmitRefused \/ TickCompletes
      BY <3>3 DEF RecheckHalt, Submit, SubmitRefused, TickCompletes, goalVars
    <3>4. QED
      BY <1>4, <3>1, <3>2, <3>3 DEF SamplerGoalMove
  <2>2. QED
    BY <2>1
<1>5. QED
  BY <1>1, <1>2, <1>3, <1>4, GoalFrame DEF GoalMove, Sound

\* A goal that has its result keeps one; a goal that waits goes on waiting until then.
LEMMA GoalsOnlySettle ==
  ASSUME Sound, [Next]_vars, NEW g \in Goal, result'[g] = "none"
  PROVE  result[g] = "none" /\ (Waiting(g) => Waiting(g)')
  BY GoalEffects DEF Steady, Accepts, Answers

\* The operator gets past the halt of a clear only by carrying it out.
LEMMA ClearingAfterHalt ==
  ASSUME Sound, [Next]_vars, pc'[Operator] \in Clearing
  PROVE  pc[Operator] \in Clearing \/ HaltQueue(Operator)
<1>0. DOMAIN pc = Proc
  BY DEF Sound, Base, LockInv
<1> USE Names
<1>1. CASE \E c \in Client : ClientStep(c)
  BY <1>0, <1>1, ClientFrame DEF Stays
<1>2. CASE SamplerStep
  BY <1>0, <1>2, SamplerFrame DEF Stays
<1>3. CASE LinkStep
  BY <1>0, <1>3, LinkFrame DEF Stays
<1>4. CASE OperatorStep
  <2>1. CASE ClearContact
    BY <1>0, <2>1, Moved DEF ClearContact, StartClose, Clearing
  <2>2. CASE ClearRecord \/ ClearRequest \/ ClearMonitor \/ ClearMark
    BY <1>0, <2>2, Moved DEF ClearRecord, ClearRequest, ClearMonitor, ClearMark, At, Clearing
  <2>3. CASE HaltStep(Operator)
    <3>1. CASE CloseMark(Operator)
      BY <1>0, <3>1, Moved DEF CloseMark, AfterClose, Clearing, Goto
    <3>2. CASE CloseHold(Operator)
      BY <1>0, <3>2, Moved DEF CloseHold, AfterClose, Clearing, Goto
    <3>3. CASE HaltGrip(Operator)
      BY <1>0, <3>3, Moved DEF HaltGrip, Clearing
    <3>4. QED
      BY <2>3, <3>1, <3>2, <3>3 DEF HaltStep
  <2>4. QED
    BY <1>4, <2>1, <2>2, <2>3 DEF OperatorStep
<1>5. CASE RtStep
  BY <1>5, RtFrame
<1>6. CASE UNCHANGED vars
  BY <1>6 DEF vars, procVars
<1>7. QED
  BY <1>1, <1>2, <1>3, <1>4, <1>5, <1>6 DEF Next

\* Only a trip, a clear of the operator and the cycle that consumes it touch the latch.
LEMMA LatchFrame ==
  ASSUME Sound, [Next]_vars
  PROVE  Trip \/ Unlatch \/ ClearMonitor \/ UNCHANGED <<latched, tripped, clearRequested>>
<1>0. DOMAIN pc = Proc
  BY DEF Sound, Base, LockInv
<1>1. CASE \E c \in Client : ClientStep(c)
  BY <1>0, <1>1, ClientFrame DEF contactVars
<1>2. CASE SamplerStep
  BY <1>0, <1>2, SamplerFrame
<1>3. CASE LinkStep
  BY <1>0, <1>3, LinkFrame DEF contactVars
<1>4. CASE OperatorStep
  BY <1>0, <1>4, OperatorFrame
<1>5. CASE RtStep
  BY <1>5, RtFrame
<1>6. CASE UNCHANGED vars
  BY <1>6 DEF vars, outside, plant, contactVars
<1>7. QED
  BY <1>1, <1>2, <1>3, <1>4, <1>5, <1>6 DEF Next

\* A goal the trip found is still waiting or has its result; once the latch is clear,
\* or is going to be, a halt has overtaken each of them.
ClearWay == ~latched \/ clearRequested \/ pc[Operator] \in Clearing
TripInv ==
  /\ \A g \in tripped : g \in Goal /\ (result[g] = "none" => Waiting(g))
  /\ ClearWay => \A g \in tripped : result[g] = "none" => doomed[g] # "no"

\* The goals a trip found wait or have their result; a clear has halted them first.
LEMMA TripKept == ASSUME Sound, DoomInv, TripInv, [Next]_vars PROVE TripInv'
<1>1. CASE Trip
  <2>1. UNCHANGED <<inbox, popped, current, result, doomed, pc, clearRequested>> /\ latched'
    BY <1>1 DEF Trip, procVars, goalVars
  <2>2. tripped' = IF clearRequested \/ pc[Operator] \in Clearing THEN {} ELSE Pending
    BY <1>1 DEF Trip
  <2>3. ClearWay' <=> clearRequested \/ pc[Operator] \in Clearing
    BY <2>1 DEF ClearWay
  <2>4. \A g \in Pending : g \in Goal /\ Waiting(g)
    BY WaitingIsPending DEF Pending
  <2>5. \A g \in tripped' : g \in Goal /\ Waiting(g)'
    BY <2>1, <2>2, <2>4 DEF Waiting
  <2>6. ClearWay' => tripped' = {}
    BY <2>2, <2>3
  <2>7. QED
    BY <2>5, <2>6 DEF TripInv
<1>2. CASE ~Trip
  <2>1. tripped' = tripped
    BY <1>2, LatchFrame DEF Unlatch, ClearMonitor
  <2>2. \A g \in tripped : g \in Goal /\ (result'[g] = "none" => Waiting(g)')
    BY GoalsOnlySettle DEF TripInv
  <2>3. ClearWay' => ClearWay \/ HaltQueue(Operator)
    <3>1. CASE Unlatch
      BY <3>1 DEF Unlatch, ClearWay
    <3>2. CASE ClearMonitor
      BY <3>2 DEF ClearMonitor, At, ClearWay, Clearing
    <3>3. CASE UNCHANGED <<latched, tripped, clearRequested>>
      BY <3>3, ClearingAfterHalt DEF ClearWay
    <3>4. QED
      BY <1>2, <3>1, <3>2, <3>3, LatchFrame
  <2>4. ASSUME ClearWay', NEW g \in tripped, result'[g] = "none" PROVE doomed'[g] # "no"
    <3>1. g \in Goal /\ result[g] = "none" /\ Waiting(g)
      BY <2>4, GoalsOnlySettle DEF TripInv
    <3>2. CASE ClearWay
      BY <3>1, <3>2, DoomSticks DEF TripInv
    <3>3. CASE HaltQueue(Operator)
      BY <3>1, <3>3, Names, WaitingIsPending, DoomFlushed
    <3>4. QED
      BY <2>3, <2>4, <3>2, <3>3
  <2>5. QED
    BY <2>1, <2>2, <2>4 DEF TripInv
<1>3. QED
  BY <1>1, <1>2

\* A goal accepted before a contact trip does not run after the clear: the clear's halt
\* overtook it, and the halt it left pending ends it before the executor moves the arm on.
THEOREM TrippedGoalsAreHalted == Spec => []TrippedNeverRuns
<1>1. Init => Sound /\ DoomInv /\ TripInv
  BY InitSound, InitDoom DEF Init, TripInv
<1>2. (Sound /\ DoomInv /\ TripInv) /\ [Next]_vars => (Sound /\ DoomInv /\ TripInv)'
  BY SoundKept, DoomKept, TripKept
<1>3. Sound /\ DoomInv /\ TripInv => TrippedNeverRuns
  <2> SUFFICES ASSUME Sound, DoomInv, TripInv, current # None, current \in tripped, ~latched
               PROVE  haltPending \/ At(Sampler, "h_settle")
    BY DEF TrippedNeverRuns
  <2>1. result[current] = "none"
    BY PlacedAreGoals
  <2>2. doomed[current] # "no"
    BY <2>1 DEF TripInv, ClearWay
  <2>3. QED
    BY <2>2 DEF DoomInv, DoomRunning, At
<1>4. QED
  BY <1>1, <1>2, <1>3, PTL DEF Spec

-----------------------------------------------------------------------------
(* Position is lined up while the arm is down.                             *)

\* ArmLink's thread is past the halt of an outage; past the record as well; done.
Halted == ~ready /\ pc[Link] \in {"l_record", "l_request", "idle"}
Recorded == ~ready /\ pc[Link] \in {"l_request", "idle"}
Handled == ~ready /\ pc[Link] = "idle"

\* Every goal that waits in an outage was overtaken by its halt.  A mode recorded then
\* has somebody about to put it right, and so has a mode requested.
LineInv ==
  /\ Halted => \A g \in Goal : Waiting(g) => doomed[g] # "no"
  /\ Recorded /\ active # "pos" =>
       \/ haltPending \/ pc[Sampler] \in {"h_settle", "h_record"}
       \/ \E c \in Client : pc[c] = "o_lock"
  /\ Handled /\ requested # "pos" =>
       \/ haltPending \/ pc[Sampler] = "h_settle"
       \/ \E c \in Client : pc[c] \in {"o_record", "o_lock", "o_restore"}

\* How ArmLink's thread gets past its halt, its record and its request.
LEMMA LinkWay ==
  ASSUME Base, DownInv, [Next]_vars
  PROVE  /\ Halted' => Halted \/ (HaltQueue(Link) /\ ~ready)
         /\ Recorded' => Recorded \/ LinkRecord
         /\ Handled' => Handled \/ LinkRequest
<1>0. DOMAIN pc = Proc /\ Link \in Proc
  BY Names DEF Base, LockInv
<1> USE DEF Halted, Recorded, Handled
<1>1. CASE ~LinkStep
  BY <1>1, DownFrame
<1>2. CASE LinkStep
  <2> USE DEF At
  <2>1. CASE LinkDown
    <3>1. pc'[Link] = "cs_mark"
      BY <1>0, <2>1, Moved DEF LinkDown, StartClose
    <3>2. QED
      BY <3>1
  <2>2. CASE LinkRecord \/ LinkRequest
    <3>1. ready' = ready
      BY <2>2 DEF LinkRecord, LinkRequest, outside, plant, linkVars
    <3>2. LinkRecord => pc[Link] = "l_record" /\ pc'[Link] = "l_request"
      BY <1>0, Moved DEF LinkRecord
    <3>3. LinkRequest => pc[Link] = "l_request" /\ pc'[Link] = "idle"
      BY <1>0, Moved DEF LinkRequest
    <3>4. QED
      BY <2>2, <3>1, <3>2, <3>3
  <2>3. CASE LinkUp
    BY <2>3 DEF LinkUp
  <2>4. CASE CloseMark(Link) \/ CloseHold(Link)
    <3>1. pc[Link] \in {"cs_mark", "cs_hold"} /\ ready' = ready
      BY <2>4 DEF CloseMark, CloseHold, plant, linkVars
    <3>2. ~ready => cause[Link] = "other"
      BY <3>1 DEF DownInv
    <3>3. ~ready => pc'[Link] \in {"cs_hold", "h_grip"}
      BY <1>0, <2>4, <3>2, Moved DEF CloseMark, CloseHold, AfterClose, Goto
    <3>4. QED
      BY <3>1, <3>3
  <2>5. CASE HaltGrip(Link)
    BY <1>0, <2>5, Moved DEF HaltGrip, linkVars
  <2>6. CASE HaltQueue(Link)
    <3>1. pc'[Link] = "l_record" /\ ready' = ready
      BY <1>0, <2>6, Names, Moved DEF HaltQueue, AfterHalt, outside, plant, linkVars
    <3>2. QED
      BY <2>6, <3>1
  <2>7. QED
    BY <1>2, <2>1, <2>2, <2>3, <2>4, <2>5, <2>6 DEF LinkStep, HaltStep
<1>3. QED
  BY <1>1, <1>2

\* The goals of an outage stay overtaken: one that is accepted into it is marked at once.
LEMMA HaltedKept ==
  ASSUME Sound, DoomInv, DownInv, LineInv, [Next]_vars, Halted'
  PROVE  \A g \in Goal : Waiting(g)' => doomed'[g] # "no"
<1> SUFFICES ASSUME NEW g \in Goal, Waiting(g)' PROVE doomed'[g] # "no"
  OBVIOUS
<1>1. ~ready
  BY LinkWay DEF Halted, Sound
<1>2. CASE Waiting(g)
  <2>1. CASE Halted
    BY <1>2, <2>1, DoomSticks DEF LineInv
  <2>2. CASE HaltQueue(Link)
    BY <1>2, <2>2, Names, WaitingIsPending, DoomFlushed
  <2>3. QED
    BY <2>1, <2>2, LinkWay DEF Sound
<1>3. CASE ~Waiting(g)
  <2>1. PICK c \in Client : GoalAccepted(c) /\ arg[c] = g
    BY <1>3, GoalEffects DEF Steady, Accepts, Answers
  <2>2. PICK why \in Reason : /\ why = IF latched THEN "contact" ELSE "other"
                              /\ doomed' = [doomed EXCEPT ![g] = why]
    BY <1>1, <2>1 DEF GoalAccepted, Reason
  <2>3. doomed'[g] = why
    BY <2>2 DEF Sound, Base, DomInv
  <2>4. QED
    BY <2>2, <2>3
<1>4. QED
  BY <1>2, <1>3

\* The steps that request or record a mode, or finish doing so, while the arm is down.
LineMove ==
  \/ LinkRecord \/ LinkRequest \/ ClearRecord \/ ClearRequest
  \/ HaltTaken \/ HaltSettles \/ HaltRecords \/ SwitchRequest \/ SwitchRecord
  \/ \E c \in Client : StreamRequest(c) \/ StreamRecord(c) \/ StreamNotReady(c) \/ StreamRestore(c)

\* The others leave the modes, and whoever is about to set them, as they are.
LineStill ==
  /\ UNCHANGED <<active, requested>>
  /\ haltPending => haltPending'
  /\ pc[Sampler] \in {"h_settle", "h_record"} => pc'[Sampler] = pc[Sampler]
  /\ \A c \in Client : pc[c] \in Switching => pc'[c] = pc[c]

\* Every step with the arm down is one or the other.
LEMMA LineFrame == ASSUME Base, ~ready, [Next]_vars PROVE LineMove \/ LineStill
<1>0. DOMAIN pc = Proc
  BY DEF Base, LockInv
<1> USE Names DEF Stays, Switching
<1>1. ASSUME NEW p \in Proc, HaltStep(p) PROVE LineStill
  <2>1. UNCHANGED <<active, requested>> /\ Stays(p)
    BY <1>0, <1>1, HaltFrame DEF modeVars
  <2>2. pc[p] \notin Switching \cup {"h_settle", "h_record"}
    BY <1>0, <1>1, HaltFrame
  <2>3. haltPending => haltPending'
    BY <1>1 DEF HaltStep, CloseMark, CloseHold, HaltGrip, HaltQueue, goalVars
  <2>4. QED
    BY <2>1, <2>2, <2>3 DEF LineStill
<1>2. ASSUME NEW c \in Client, ClientStep(c) PROVE LineMove \/ LineStill
  <2>1. CASE GoalCancel(c) \/ Setpoint(c) \/ GripperSetpoint(c)
    BY <2>1 DEF GoalCancel, Setpoint, GripperSetpoint, procVars, modeVars, goalVars, LineStill
  <2>2. CASE GoalAccepted(c)
    <3>1. Stays(c) /\ pc[c] = "accepted"
      BY <1>0, <1>2, <2>2, ClientFrame DEF GoalAccepted, At
    <3>2. UNCHANGED <<active, requested, haltPending>>
      BY <2>2 DEF GoalAccepted, modeVars
    <3>3. QED
      BY <3>1, <3>2 DEF LineStill
  <2>3. CASE BackendHalt(c) \/ StreamClose(c)
    <3>1. Stays(c) /\ pc[c] = "idle"
      BY <1>0, <1>2, <2>3, ClientFrame DEF BackendHalt, StreamClose, At
    <3>2. UNCHANGED <<active, requested, haltPending>>
      BY <2>3 DEF BackendHalt, StreamClose, modeVars, goalVars
    <3>3. QED
      BY <3>1, <3>2 DEF LineStill
  <2>4. CASE HaltStep(c)
    BY <1>1, <2>4
  <2>5. CASE (\E g \in Goal : GoalVet(c, g)) \/ (\E k \in StreamKind : StreamVet(c, k))
    BY <2>5 DEF GoalVet, StreamVet
  <2>6. CASE StreamRefused(c) \/ StreamOpened(c)
    BY <2>6 DEF StreamRefused, StreamOpened
  <2>7. CASE StreamRequest(c) \/ StreamRecord(c) \/ StreamNotReady(c) \/ StreamRestore(c)
    BY <2>7 DEF LineMove
  <2>8. QED
    BY <1>2, <2>1, <2>2, <2>3, <2>4, <2>5, <2>6, <2>7 DEF ClientStep
<1>3. CASE SamplerStep
  <2>1. Stays(Sampler)
    BY <1>0, <1>3, SamplerFrame
  <2> USE DEF At, modeVars, goalVars
  <2>2. CASE EdgeReset \/ EdgeTaken
    BY <2>1, <2>2 DEF EdgeReset, EdgeTaken, LineStill
  <2>3. CASE HaltResets \/ DeadlineCheck \/ IkCheck \/ IntegrateCheck \/ IntegrateLock \/ Integrate
    BY <2>1, <2>3 DEF HaltResets, DeadlineCheck, IkCheck, IntegrateCheck, IntegrateLock, Integrate, LineStill
  <2>4. CASE InboxEmpty \/ Pop \/ Cancel \/ GateRefuses \/ GatePasses
    BY <2>1, <2>4 DEF InboxEmpty, Pop, Cancel, GateRefuses, GatePasses, LineStill
  <2>5. CASE RecheckHalt \/ Submit \/ SubmitRefused \/ Tick \/ TickCompletes
    BY <2>1, <2>5 DEF RecheckHalt, Submit, SubmitRefused, Tick, TickCompletes, LineStill
  <2>6. CASE HaltStep(Sampler)
    BY <1>1, <2>6
  <2>7. CASE HaltTaken \/ HaltSettles \/ HaltRecords \/ SwitchRequest \/ SwitchRecord
    BY <2>7 DEF LineMove
  <2>8. QED
    BY <1>3, <2>2, <2>3, <2>4, <2>5, <2>6, <2>7 DEF SamplerStep
<1>4. CASE LinkStep
  <2>1. CASE LinkDown
    BY <2>1 DEF LinkDown
  <2>2. CASE LinkUp
    BY <2>2 DEF LinkUp, procVars, goalVars, LineStill
  <2>3. CASE HaltStep(Link)
    BY <1>1, <2>3
  <2>4. QED
    BY <1>4, <2>1, <2>2, <2>3 DEF LinkStep, LineMove
<1>5. CASE OperatorStep
  <2>1. Stays(Operator)
    BY <1>0, <1>5, OperatorFrame
  <2>2. CASE ClearContact \/ ClearMonitor \/ ClearMark
    BY <2>1, <2>2 DEF ClearContact, ClearMonitor, ClearMark, modeVars, goalVars, LineStill
  <2>3. CASE HaltStep(Operator)
    BY <1>1, <2>3
  <2>4. QED
    BY <1>5, <2>2, <2>3 DEF OperatorStep, LineMove
<1>6. CASE RtStep
  BY <1>6 DEF RtStep, Trip, Unlatch, Adopt, Float, IkFails, Lapse, procVars, modeVars, goalVars, LineStill
<1>7. CASE UNCHANGED vars
  BY <1>7 DEF vars, procVars, modeVars, goalVars, LineStill
<1>8. QED
  BY <1>2, <1>3, <1>4, <1>5, <1>6, <1>7 DEF Next

\* Past its gate a goal that the outage's halt overtook has that halt still pending.
LEMMA SwitchUnderHalt ==
  ASSUME Sound, DoomInv, LineInv, Halted, pc[Sampler] \in {"sw_request", "sw_record"}
  PROVE  haltPending
<1>1. popped.goal \in Goal /\ Waiting(popped.goal)
  BY PlacedAreGoals DEF WithPopped, Waiting
<1>2. doomed[popped.goal] # "no"
  BY <1>1 DEF LineInv
<1>3. QED
  BY <1>2 DEF DoomInv, DoomPopped, WithPopped

\* Whatever the step, the modes stay lined up or have somebody about to see to it.
LEMMA LineKept == ASSUME Sound, DoomInv, DownInv, LineInv, [Next]_vars PROVE LineInv'
<1>0. DOMAIN pc = Proc
  BY DEF Sound, Base, LockInv
<1>1. Halted' => \A g \in Goal : Waiting(g)' => doomed'[g] # "no"
  BY HaltedKept
<1>2. ASSUME Recorded', active' # "pos"
      PROVE  \/ haltPending' \/ pc'[Sampler] \in {"h_settle", "h_record"}
             \/ \E c \in Client : pc'[c] = "o_lock"
  <2>1. Recorded /\ ~LinkRecord
    BY <1>2, LinkWay DEF Sound, LinkRecord
  <2>2. ~ready /\ Halted
    BY <2>1 DEF Recorded, Halted
  <2>3. CASE LineStill
    <3>1. active # "pos"
      BY <1>2, <2>3 DEF LineStill
    <3>2. QED
      BY <2>1, <2>3, <3>1 DEF LineStill, LineInv, Switching
  <2>4. CASE LinkRequest \/ ClearRequest
    <3>1. UNCHANGED <<active, haltPending>>
      BY <2>4 DEF LinkRequest, ClearRequest, goalVars
    <3>2. pc'[Sampler] = pc[Sampler] /\ \A c \in Client : pc'[c] = pc[c]
      BY <1>0, <2>4, Names, Moved DEF LinkRequest, ClearRequest
    <3>3. QED
      BY <1>2, <2>1, <3>1, <3>2 DEF LineInv
  <2>5. CASE ClearRecord \/ HaltRecords
    BY <1>2, <2>5 DEF ClearRecord, HaltRecords
  <2>6. CASE HaltTaken
    <3>1. haltPending => pc'[Sampler] = "h_settle"
      BY <1>0, <2>6, Names, Moved DEF HaltTaken
    <3>2. pc[Sampler] = "take" /\ active' = active /\ \A c \in Client : pc'[c] = pc[c]
      BY <1>0, <2>6, Names, Moved DEF HaltTaken, At, modeVars, Goto
    <3>3. QED
      BY <1>2, <2>1, <3>1, <3>2 DEF LineInv
  <2>7. CASE HaltSettles
    BY <1>0, <2>2, <2>7, Names, Moved DEF HaltSettles
  <2>8. CASE SwitchRequest \/ SwitchRecord
    <3>1. haltPending /\ haltPending' = haltPending
      BY <2>2, <2>8, SwitchUnderHalt DEF SwitchRequest, SwitchRecord, At, goalVars
    <3>2. QED
      BY <3>1
  <2>9. ASSUME NEW c \in Client, StreamRequest(c) \/ StreamRecord(c) \/ StreamNotReady(c) \/ StreamRestore(c)
        PROVE  \/ haltPending' \/ pc'[Sampler] \in {"h_settle", "h_record"}
               \/ \E d \in Client : pc'[d] = "o_lock"
    <3>1. CASE StreamRecord(c)
      BY <1>0, <3>1, Names, Moved DEF StreamRecord
    <3>2. CASE StreamNotReady(c)
      BY <1>2, <3>2 DEF StreamNotReady
    <3>3. CASE StreamRequest(c) \/ StreamRestore(c)
      <4>1. active' = active /\ haltPending' = haltPending /\ pc[c] # "o_lock"
        BY <3>3 DEF StreamRequest, StreamRestore, At, goalVars
      <4>2. \A r \in Proc : r # c => pc'[r] = pc[r]
        BY <1>0, <3>3, Names, Moved DEF StreamRequest, StreamRestore
      <4>3. QED
        BY <1>2, <2>1, <4>1, <4>2, Names DEF LineInv
    <3>4. QED
      BY <2>9, <3>1, <3>2, <3>3
  <2>10. QED
    BY <2>1, <2>2, <2>3, <2>4, <2>5, <2>6, <2>7, <2>8, <2>9, LineFrame DEF LineMove, Sound
<1>3. ASSUME Handled', requested' # "pos"
      PROVE  \/ haltPending' \/ pc'[Sampler] = "h_settle"
             \/ \E c \in Client : pc'[c] \in {"o_record", "o_lock", "o_restore"}
  <2>1. Handled /\ ~LinkRequest
    BY <1>3, LinkWay DEF Sound, LinkRequest
  <2>2. ~ready /\ Halted /\ ~LinkRecord
    BY <2>1 DEF Handled, Halted, LinkRecord, At
  <2>3. CASE LineStill
    <3>1. requested # "pos"
      BY <1>3, <2>3 DEF LineStill
    <3>2. QED
      BY <2>1, <2>3, <3>1 DEF LineStill, LineInv, Switching
  <2>4. CASE ClearRecord \/ HaltRecords
    <3>1. UNCHANGED <<requested, haltPending>>
      BY <2>4 DEF ClearRecord, HaltRecords, goalVars
    <3>2. \A c \in Client : pc'[c] = pc[c]
      BY <1>0, <2>4, Names, Moved DEF ClearRecord, HaltRecords
    <3>3. pc[Sampler] = "h_settle" => pc'[Sampler] = "h_settle"
      BY <1>0, <2>4, Names, Moved DEF ClearRecord, HaltRecords, At
    <3>4. QED
      BY <1>3, <2>1, <3>1, <3>2, <3>3 DEF LineInv
  <2>5. CASE ClearRequest \/ HaltSettles
    BY <1>3, <2>2, <2>5 DEF ClearRequest, HaltSettles
  <2>6. CASE HaltTaken
    <3>1. haltPending => pc'[Sampler] = "h_settle"
      BY <1>0, <2>6, Names, Moved DEF HaltTaken
    <3>2. pc[Sampler] = "take" /\ requested' = requested /\ \A c \in Client : pc'[c] = pc[c]
      BY <1>0, <2>6, Names, Moved DEF HaltTaken, At, modeVars, Goto
    <3>3. QED
      BY <1>3, <2>1, <3>1, <3>2 DEF LineInv
  <2>7. CASE SwitchRequest \/ SwitchRecord
    <3>1. haltPending /\ haltPending' = haltPending
      BY <2>2, <2>7, SwitchUnderHalt DEF SwitchRequest, SwitchRecord, At, goalVars
    <3>2. QED
      BY <3>1
  <2>8. ASSUME NEW c \in Client, StreamRequest(c) \/ StreamRecord(c) \/ StreamNotReady(c) \/ StreamRestore(c)
        PROVE  \/ haltPending' \/ pc'[Sampler] = "h_settle"
               \/ \E d \in Client : pc'[d] \in {"o_record", "o_lock", "o_restore"}
    <3>1. CASE StreamRequest(c) \/ StreamRecord(c) \/ StreamNotReady(c)
      <4>1. pc'[c] \in {"o_record", "o_lock", "o_restore"}
        BY <1>0, <3>1, Names, Moved DEF StreamRequest, StreamRecord, StreamNotReady
      <4>2. QED
        BY <4>1
    <3>2. CASE StreamRestore(c)
      BY <1>3, <3>2 DEF StreamRestore
    <3>3. QED
      BY <2>8, <3>1, <3>2
  <2>9. QED
    BY <2>1, <2>2, <2>3, <2>4, <2>5, <2>6, <2>7, <2>8, LineFrame DEF LineMove, Sound
<1>4. QED
  BY <1>1, <1>2, <1>3 DEF LineInv

\* Once on_link_state has handled an outage and nobody is in the middle of a mode switch,
\* position is recorded and requested for the next run, whichever switch of a client, the
\* sampler or the operator the drop overtook.
THEOREM OutageLinesUpPosition == Spec => []DownLinesUpPosition
<1>1. Init => Sound /\ DoomInv /\ DownInv /\ LineInv
  <2>1. ASSUME Init PROVE DownInv /\ LineInv
    <3>1. ready = TRUE /\ pc = [p \in Proc |-> IF p = Sampler THEN "edge" ELSE "idle"]
      BY <2>1 DEF Init
    <3>2. pc[Link] = "idle"
      BY <3>1, Names
    <3>3. QED
      BY <3>1, <3>2 DEF DownInv, HaltWay, LineInv, Halted, Recorded, Handled
  <2>2. QED
    BY <2>1, InitSound, InitDoom
<1>2. (Sound /\ DoomInv /\ DownInv /\ LineInv) /\ [Next]_vars => (Sound /\ DoomInv /\ DownInv /\ LineInv)'
  BY SoundKept, DoomKept, DownKept, LineKept DEF Sound
<1>3. LineInv => DownLinesUpPosition
  BY DEF LineInv, DownLinesUpPosition, Handled, Recorded, Switching, At
<1>4. QED
  BY <1>1, <1>2, <1>3, PTL DEF Spec
=============================================================================
