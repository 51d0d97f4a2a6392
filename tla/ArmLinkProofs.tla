---------------------------- MODULE ArmLinkProofs ----------------------------
(***************************************************************************)
(* Proofs about ArmLink.tla for any number of operators, outages, clears    *)
(* and health failures.  run() is one thread, so each invariant says what   *)
(* its local flags are worth at each place of its loop; the actions of the  *)
(* arm and of the operators leave those alone.                              *)
(***************************************************************************)
EXTENDS ArmLink, TLAPS

\* Who owes a clear: an arm that was commanded and not cleared since is either
\* still being commanded or latched, and a latched run() cannot be on the way
\* to a new run.  run() goes on from "tell" to one of four places only.
ConsentInv ==
  /\ latched \in BOOLEAN /\ consent \in BOOLEAN /\ commanding \in BOOLEAN
  /\ consent \/ latched \/ commanding
  /\ commanding => pc \in {"exec", "last_shutdown", "done"} \/ (pc = "tell" /\ after = "exec")
  /\ pc \in {"servo", "modes", "running"} => ~latched
  /\ pc \in {"clear", "settle"} => consent
  /\ pc = "tell" => after \in {"head", "shutdown", "release", "exec"}

\* A clear that is pending was asked for in this episode; one that is taken
\* and not resolved leaves run() between TakeClear and the next set_state.
AnswerInv ==
  /\ clear_requested \in BOOLEAN /\ clearing \in BOOLEAN /\ asked \in BOOLEAN
  /\ accepted \in Nat /\ clears_done \in Nat
  /\ AnsweredOnce
  /\ pc \in {"release", "wait", "health", "tell"} => ~clearing
  /\ clear_requested => asked

\* run() does not go straight from telling the listener to a new start or run.
PositionInv == StartsInPosition /\ after # "running"

TellInv ==
  /\ pc \notin {"start", "tell"} => told = state
  /\ after # "start"

-----------------------------------------------------------------------------

\* run() commands the arm again only after a clear (ResumeNeedsClear): the latch
\* of every way out of a run is kept across reconnects.
THEOREM ResumeConsented == Spec => []ResumeNeedsClear
<1>1. Init => ConsentInv
  BY DEF Init, TransportInit, ConsentInv
<1>2. ConsentInv /\ [Next]_vars => ConsentInv'
  <2> SUFFICES ASSUME ConsentInv, [Next]_vars
               PROVE  ConsentInv'
    OBVIOUS
  <2> USE DEF ConsentInv, vars, loop, status, operators, outside, transport, arm
  <2>1. CASE Start
    BY <2>1 DEF Start, SetState
  <2>2. CASE Tell
    BY <2>2 DEF Tell
  <2>3. CASE StopSeen
    BY <2>3 DEF StopSeen, Goto
  <2>4. CASE Connect
    BY <2>4 DEF Connect, ConnectOutcome, Goto
  <2>5. CASE StillConnected
    BY <2>5 DEF StillConnected, Goto
  <2>6. CASE Check
    BY <2>6 DEF Check, Goto, Raise, Outcome, Lost, Failed, Latch, SetState
  <2>7. CASE Faulted
    BY <2>7 DEF Faulted, SetState
  <2>8. CASE Release
    BY <2>8 DEF Release, ReleaseLowLevel
  <2>9. CASE WaitStopped
    BY <2>9 DEF WaitStopped, Goto
  <2>10. CASE TakeClear
    BY <2>10 DEF TakeClear
  <2>11. CASE NoClearYet
    BY <2>11 DEF NoClearYet, Goto
  <2>12. CASE Health
    BY <2>12 DEF Health, Outcome, Lost, Latch, SetState
  <2>13. CASE Clear
    BY <2>13 DEF Clear, ClearFaults, Goto
  <2>14. CASE Settle
    BY <2>14 DEF Settle, Goto, Raise, Outcome, Lost, Failed, Latch, SetState
  <2>l. ASSUME ~commanding, consent, Lost, UNCHANGED consent
        PROVE  ConsentInv'
    BY <2>l DEF Lost, SetState
  <2>f. ASSUME ~commanding, consent, Failed, UNCHANGED consent
        PROVE  ConsentInv'
    BY <2>f DEF Failed, Latch
  <2>15. CASE Servo
    <3>1. ~commanding /\ consent
      BY <2>15 DEF Servo
    <3> QED
      BY <2>15, <3>1, <2>l, <2>f DEF Servo, Goto, Raise
  <2>16. CASE Modes
    <3>1. ~commanding /\ consent
      BY <2>16 DEF Modes
    <3> QED
      BY <2>16, <3>1, <2>l, <2>f DEF Modes, Goto
  <2>17. CASE Running
    BY <2>17 DEF Running, SetState
  <2>18. CASE ExecSwitches
    BY <2>18 DEF ExecSwitches, SwitchModes
  <2>19. CASE ExecEnds
    BY <2>19 DEF ExecEnds, Goto, Lost, Failed, Latch, SetState
  <2>20. CASE Shutdown
    BY <2>20 DEF Shutdown, SafeShutdown, ReleaseLowLevel
  <2>21. CASE LastShutdown
    BY <2>21 DEF LastShutdown, SafeShutdown, ReleaseLowLevel
  <2>22. ASSUME NEW o \in Operator, ReadStatus(o) \/ RequestClear(o) \/ Answered(o)
         PROVE  ConsentInv'
    BY <2>22 DEF ReadStatus, RequestClear, Answered
  <2>23. CASE Stop
    BY <2>23 DEF Stop
  <2>24. CASE ArmStep /\ UNCHANGED <<loop, status, outside, consent>>
    BY <2>24 DEF ArmStep, Unreachable, ReachableAgain, Reboots, Faults, FaultGone, ForcedOut
  <2>25. CASE UNCHANGED vars
    BY <2>25
  <2> QED
    BY <2>1, <2>2, <2>3, <2>4, <2>5, <2>6, <2>7, <2>8, <2>9, <2>10, <2>11, <2>12, <2>13, <2>14, <2>15, <2>16, <2>17, <2>18, <2>19, <2>20, <2>21, <2>22, <2>23, <2>24, <2>25
    DEF Next, RunStep, OperatorStep
<1>3. ConsentInv => ResumeNeedsClear
  BY DEF ConsentInv, ResumeNeedsClear
<1> QED
  BY <1>1, <1>2, <1>3, PTL DEF Spec

\* Every run starts with the actuators in POSITION (StartsInPosition).
THEOREM PositionFirst == Spec => []StartsInPosition
<1>1. Init => PositionInv
  BY DEF Init, TransportInit, PositionInv, StartsInPosition
<1>2. PositionInv /\ [Next]_vars => PositionInv'
  <2> SUFFICES ASSUME PositionInv, [Next]_vars
               PROVE  PositionInv'
    OBVIOUS
  <2> USE DEF PositionInv, StartsInPosition, vars, loop, status, operators, outside, transport, arm
  <2>1. CASE Start
    BY <2>1 DEF Start, SetState
  <2>2. CASE Tell
    BY <2>2 DEF Tell
  <2>3. CASE StopSeen
    BY <2>3 DEF StopSeen, Goto
  <2>4. CASE Connect
    BY <2>4 DEF Connect, ConnectOutcome, Goto
  <2>5. CASE StillConnected
    BY <2>5 DEF StillConnected, Goto
  <2>6. CASE Check
    BY <2>6 DEF Check, Goto, Raise, Outcome, Lost, Failed, Latch, SetState
  <2>7. CASE Faulted
    BY <2>7 DEF Faulted, SetState
  <2>8. CASE Release
    BY <2>8 DEF Release, ReleaseLowLevel
  <2>9. CASE WaitStopped
    BY <2>9 DEF WaitStopped, Goto
  <2>10. CASE TakeClear
    BY <2>10 DEF TakeClear
  <2>11. CASE NoClearYet
    BY <2>11 DEF NoClearYet, Goto
  <2>12. CASE Health
    BY <2>12 DEF Health, Outcome, Lost, Latch, SetState
  <2>13. CASE Clear
    BY <2>13 DEF Clear, ClearFaults, Goto
  <2>14. CASE Settle
    BY <2>14 DEF Settle, Goto, Raise, Outcome, Lost, Failed, Latch, SetState
  <2>15. CASE Servo
    BY <2>15 DEF Servo, EnterLowLevel, Goto, Lost, Failed, Raise, Outcome, Latch, SetState
  <2>16. CASE Modes
    BY <2>16 DEF Modes, AllToPosition, SwitchModes, Goto, Lost, Failed, Latch, SetState
  <2>17. CASE Running
    BY <2>17 DEF Running, SetState
  <2>18. CASE ExecSwitches
    BY <2>18 DEF ExecSwitches, SwitchModes
  <2>19. CASE ExecEnds
    BY <2>19 DEF ExecEnds, Goto, Lost, Failed, Latch, SetState
  <2>20. CASE Shutdown
    BY <2>20 DEF Shutdown, SafeShutdown, ReleaseLowLevel
  <2>21. CASE LastShutdown
    BY <2>21 DEF LastShutdown, SafeShutdown, ReleaseLowLevel
  <2>22. ASSUME NEW o \in Operator, ReadStatus(o) \/ RequestClear(o) \/ Answered(o)
         PROVE  PositionInv'
    BY <2>22 DEF ReadStatus, RequestClear, Answered
  <2>23. CASE Stop
    BY <2>23 DEF Stop
  <2>24. CASE ArmStep /\ UNCHANGED <<loop, status, outside, consent>>
    BY <2>24 DEF ArmStep, Unreachable, ReachableAgain, Reboots, Faults, FaultGone, ForcedOut
  <2>25. CASE UNCHANGED vars
    BY <2>25
  <2> QED
    BY <2>1, <2>2, <2>3, <2>4, <2>5, <2>6, <2>7, <2>8, <2>9, <2>10, <2>11, <2>12, <2>13, <2>14, <2>15, <2>16, <2>17, <2>18, <2>19, <2>20, <2>21, <2>22, <2>23, <2>24, <2>25
    DEF Next, RunStep, OperatorStep
<1>3. PositionInv => StartsInPosition
  BY DEF PositionInv
<1> QED
  BY <1>1, <1>2, <1>3, PTL DEF Spec

\* The listener is never behind the published state outside set_state
\* (ListenerKnows).
THEOREM ListenerTold == Spec => []ListenerKnows
<1>1. Init => TellInv
  BY DEF Init, TransportInit, TellInv
<1>2. TellInv /\ [Next]_vars => TellInv'
  <2> SUFFICES ASSUME TellInv, [Next]_vars
               PROVE  TellInv'
    OBVIOUS
  <2> USE DEF TellInv, vars, loop, status, operators, outside, transport, arm
  <2>1. CASE Start
    BY <2>1 DEF Start, SetState
  <2>2. CASE Tell
    BY <2>2 DEF Tell
  <2>3. CASE StopSeen
    BY <2>3 DEF StopSeen, Goto
  <2>4. CASE Connect
    BY <2>4 DEF Connect, ConnectOutcome, Goto
  <2>5. CASE StillConnected
    BY <2>5 DEF StillConnected, Goto
  <2>6. CASE Check
    BY <2>6 DEF Check, Goto, Raise, Outcome, Lost, Failed, Latch, SetState
  <2>7. CASE Faulted
    BY <2>7 DEF Faulted, SetState
  <2>8. CASE Release
    BY <2>8 DEF Release, ReleaseLowLevel
  <2>9. CASE WaitStopped
    BY <2>9 DEF WaitStopped, Goto
  <2>10. CASE TakeClear
    BY <2>10 DEF TakeClear
  <2>11. CASE NoClearYet
    BY <2>11 DEF NoClearYet, Goto
  <2>12. CASE Health
    BY <2>12 DEF Health, Outcome, Lost, Latch, SetState
  <2>13. CASE Clear
    BY <2>13 DEF Clear, ClearFaults, Goto
  <2>14. CASE Settle
    BY <2>14 DEF Settle, Goto, Raise, Outcome, Lost, Failed, Latch, SetState
  <2>15. CASE Servo
    BY <2>15 DEF Servo, EnterLowLevel, Goto, Lost, Failed, Raise, Outcome, Latch, SetState
  <2>16. CASE Modes
    BY <2>16 DEF Modes, AllToPosition, SwitchModes, Goto, Lost, Failed, Latch, SetState
  <2>17. CASE Running
    BY <2>17 DEF Running, SetState
  <2>18. CASE ExecSwitches
    BY <2>18 DEF ExecSwitches, SwitchModes
  <2>19. CASE ExecEnds
    BY <2>19 DEF ExecEnds, Goto, Lost, Failed, Latch, SetState
  <2>20. CASE Shutdown
    BY <2>20 DEF Shutdown, SafeShutdown, ReleaseLowLevel
  <2>21. CASE LastShutdown
    BY <2>21 DEF LastShutdown, SafeShutdown, ReleaseLowLevel
  <2>22. ASSUME NEW o \in Operator, ReadStatus(o) \/ RequestClear(o) \/ Answered(o)
         PROVE  TellInv'
    BY <2>22 DEF ReadStatus, RequestClear, Answered
  <2>23. CASE Stop
    BY <2>23 DEF Stop
  <2>24. CASE ArmStep /\ UNCHANGED <<loop, status, outside, consent>>
    BY <2>24 DEF ArmStep, Unreachable, ReachableAgain, Reboots, Faults, FaultGone, ForcedOut
  <2>25. CASE UNCHANGED vars
    BY <2>25
  <2> QED
    BY <2>1, <2>2, <2>3, <2>4, <2>5, <2>6, <2>7, <2>8, <2>9, <2>10, <2>11, <2>12, <2>13, <2>14, <2>15, <2>16, <2>17, <2>18, <2>19, <2>20, <2>21, <2>22, <2>23, <2>24, <2>25
    DEF Next, RunStep, OperatorStep
<1>3. TellInv => ListenerKnows
  BY DEF TellInv, ListenerKnows
<1> QED
  BY <1>1, <1>2, <1>3, PTL DEF Spec

\* set_state() resolves at most what is pending or taken, whatever it publishes.
LEMMA SetStateResolves ==
  ASSUME AnswerInv, NEW s, NEW announce, NEW next, SetState(s, announce, next),
         accepted' = accepted
  PROVE  AnswerInv'
<1> USE DEF SetState
<1>1. clear_requested \in BOOLEAN /\ clearing \in BOOLEAN /\ asked \in BOOLEAN
  BY DEF AnswerInv
<1>2. clear_requested' \in BOOLEAN /\ clearing' = FALSE /\ asked' \in BOOLEAN
  BY Zenon
<1>3. clear_requested' => asked'
  BY DEF AnswerInv
<1>4. AnsweredOnce' /\ clears_done' \in Nat /\ accepted' \in Nat
  <2>1. accepted \in Nat /\ clears_done \in Nat /\ AnsweredOnce
    BY DEF AnswerInv
  <2> QED
    BY <1>1, <2>1 DEF AnsweredOnce
<1> QED
  BY <1>2, <1>3, <1>4 DEF AnswerInv

\* A step that leaves the flags, the counters and the request alone keeps
\* AnswerInv wherever a taken clear may still be open.
LEMMA NothingResolved ==
  ASSUME AnswerInv, UNCHANGED <<clear_requested, clearing, asked, accepted, clears_done>>,
         pc' \in {"release", "wait", "health", "tell"} => ~clearing
  PROVE  AnswerInv'
<1>1. AnsweredOnce'
  BY DEF AnswerInv, AnsweredOnce
<1> QED
  BY <1>1 DEF AnswerInv

\* The inductive invariant behind the two theorems on clears.
LEMMA AnswerInvariant == Spec => []AnswerInv
<1>1. Init => AnswerInv
  <2> SUFFICES ASSUME Init PROVE AnswerInv
    OBVIOUS
  <2>1. /\ clear_requested = FALSE /\ clearing = FALSE /\ asked = FALSE
        /\ accepted = 0 /\ clears_done = 0 /\ pc = "start"
    BY DEF Init
  <2>2. AnsweredOnce
    BY <2>1 DEF AnsweredOnce
  <2> QED
    BY <2>1, <2>2 DEF AnswerInv
<1>2. AnswerInv /\ [Next]_vars => AnswerInv'
  <2> SUFFICES ASSUME AnswerInv, [Next]_vars
               PROVE  AnswerInv'
    OBVIOUS
  <2> USE DEF vars, loop, status, operators, outside, transport, arm
  <2>a. ASSUME Lost, UNCHANGED outside
        PROVE  AnswerInv'
    BY <2>a, SetStateResolves DEF Lost
  <2>b. ASSUME Failed, UNCHANGED outside
        PROVE  AnswerInv'
    BY <2>b, NothingResolved DEF Failed
  <2>c. ASSUME NEW place, Goto(place), UNCHANGED outside,
               place \in {"release", "wait", "health", "tell"} => ~clearing
        PROVE  AnswerInv'
    BY <2>c, NothingResolved DEF Goto
  <2>1. CASE Start
    BY <2>1, SetStateResolves DEF Start
  <2>2. CASE Tell
    BY <2>2, NothingResolved DEF Tell, AnswerInv
  <2>3. CASE StopSeen
    BY <2>3, <2>c DEF StopSeen
  <2>4. CASE Connect
    <3>1. CASE Goto("shutdown") \/ Goto("last_shutdown")
      BY <2>4, <3>1, <2>c DEF Connect
    <3>2. CASE pc' = "check" /\ UNCHANGED <<clear_requested, clearing, asked, accepted, clears_done>>
      BY <3>2, NothingResolved
    <3> QED
      BY <2>4, <3>1, <3>2 DEF Connect
  <2>5. CASE StillConnected
    BY <2>5, <2>c DEF StillConnected
  <2>6. CASE Check
    <3>1. CASE pc' = "faulted" /\ UNCHANGED <<clear_requested, clearing, asked, accepted, clears_done>>
      BY <3>1, NothingResolved
    <3>2. CASE Lost \/ Failed
      BY <2>6, <3>2, <2>a, <2>b DEF Check
    <3> QED
      BY <2>6, <3>1, <3>2, <2>c DEF Check, Raise
  <2>7. CASE Faulted
    BY <2>7, SetStateResolves DEF Faulted
  <2>8. CASE Release
    BY <2>8, NothingResolved DEF Release, AnswerInv
  <2>9. CASE WaitStopped
    BY <2>9, <2>c DEF WaitStopped
  <2>10. CASE TakeClear
    <3>1. clearing = FALSE /\ clear_requested = TRUE
      BY <2>10 DEF TakeClear, AnswerInv
    <3>2. clearing' = TRUE /\ clear_requested' = FALSE /\ pc' = "clear"
      BY <2>10 DEF TakeClear
    <3>3. UNCHANGED <<asked, accepted, clears_done>>
      BY <2>10 DEF TakeClear
    <3>4. AnsweredOnce'
      BY <3>1, <3>2, <3>3 DEF AnswerInv, AnsweredOnce
    <3> QED
      BY <3>2, <3>3, <3>4 DEF AnswerInv
  <2>11. CASE NoClearYet
    BY <2>11, <2>c DEF NoClearYet, AnswerInv
  <2>12. CASE Health
    <3>1. ~clearing
      BY <2>12 DEF Health, AnswerInv
    <3>2. CASE Lost
      BY <2>12, <3>2, <2>a DEF Health
    <3>3. CASE UNCHANGED <<clear_requested, clearing, asked, accepted, clears_done>>
      BY <3>1, <3>3, NothingResolved
    <3> QED
      BY <2>12, <3>2, <3>3 DEF Health
  <2>13. CASE Clear
    BY <2>13, <2>c DEF Clear
  <2>14. CASE Settle
    <3>1. CASE pc' = "servo" /\ UNCHANGED <<clear_requested, clearing, asked, accepted, clears_done>>
      BY <3>1, NothingResolved
    <3>2. CASE Lost \/ Failed
      BY <2>14, <3>2, <2>a, <2>b DEF Settle
    <3> QED
      BY <2>14, <3>1, <3>2, <2>c DEF Settle, Raise
  <2>15. CASE Servo
    BY <2>15, <2>a, <2>b, <2>c DEF Servo, Raise
  <2>16. CASE Modes
    BY <2>16, <2>a, <2>b, <2>c DEF Modes, Raise
  <2>17. CASE Running
    BY <2>17, SetStateResolves DEF Running
  <2>18. CASE ExecSwitches
    BY <2>18, NothingResolved DEF ExecSwitches, AnswerInv
  <2>19. CASE ExecEnds
    BY <2>19, <2>a, <2>b, <2>c DEF ExecEnds, Raise
  <2>20. CASE Shutdown
    BY <2>20, NothingResolved DEF Shutdown, AnswerInv
  <2>21. CASE LastShutdown
    BY <2>21, NothingResolved DEF LastShutdown, AnswerInv
  <2>22. ASSUME NEW o \in Operator, RequestClear(o)
         PROVE  AnswerInv'
    <3>1. CASE state = "kFaulted"
      <4>1. clear_requested' = TRUE /\ asked' = TRUE /\ accepted' = accepted + 1
        BY <2>22, <3>1 DEF RequestClear
      <4>2. UNCHANGED <<clearing, clears_done, pc>>
        BY <2>22 DEF RequestClear
      <4>3. AnsweredOnce' /\ accepted' \in Nat
        BY <4>1, <4>2 DEF AnswerInv, AnsweredOnce
      <4> QED
        BY <4>1, <4>2, <4>3 DEF AnswerInv
    <3>2. CASE state # "kFaulted"
      BY <2>22, <3>2, NothingResolved DEF RequestClear, AnswerInv
    <3> QED
      BY <3>1, <3>2
  <2>23. ASSUME NEW o \in Operator, ReadStatus(o) \/ Answered(o)
         PROVE  AnswerInv'
    BY <2>23, NothingResolved DEF ReadStatus, Answered, AnswerInv
  <2>24. CASE Stop
    BY <2>24, NothingResolved DEF Stop, AnswerInv
  <2>25. CASE ArmStep /\ UNCHANGED <<loop, status, outside, consent>>
    BY <2>25, NothingResolved DEF AnswerInv
  <2>26. CASE UNCHANGED vars
    BY <2>26, NothingResolved DEF AnswerInv
  <2> QED
    BY <2>1, <2>2, <2>3, <2>4, <2>5, <2>6, <2>7, <2>8, <2>9, <2>10, <2>11, <2>12, <2>13, <2>14, <2>15, <2>16, <2>17, <2>18, <2>19, <2>20, <2>21, <2>22, <2>23, <2>24, <2>25, <2>26
    DEF Next, RunStep, OperatorStep
<1> QED
  BY <1>1, <1>2, PTL DEF Spec

\* No accepted clear is resolved twice, for any number of operators
\* (AnsweredOnce).
THEOREM AnswersCounted == Spec => []AnsweredOnce
<1>1. AnswerInv => AnsweredOnce
  BY DEF AnswerInv
<1> QED
  BY <1>1, AnswerInvariant, PTL

\* A clear that is taken was asked for in the present faulted episode
\* (ClearHitsItsEpisode).
THEOREM ClearsOfThisEpisode == Spec => ClearHitsItsEpisode
<1>1. AnswerInv /\ [Next]_vars => [pc = "wait" /\ pc' = "clear" => asked]_vars
  <2> SUFFICES ASSUME AnswerInv, Next, pc = "wait", pc' = "clear"
               PROVE  asked
    BY DEF vars, loop
  <2>1. CASE TakeClear
    BY <2>1 DEF TakeClear, AnswerInv
  <2>2. CASE WaitStopped \/ NoClearYet
    BY <2>2 DEF WaitStopped, NoClearYet, Goto
  <2>3. ~(OperatorStep \/ Stop \/ (ArmStep /\ UNCHANGED <<loop, status, outside, consent>>))
    BY DEF OperatorStep, ReadStatus, RequestClear, Answered, Stop, loop
  <2>4. ~(Start \/ Tell \/ StopSeen \/ Connect \/ StillConnected \/ Check \/ Faulted \/ Release
            \/ Health \/ Clear \/ Settle \/ Servo \/ Modes \/ Running \/ ExecSwitches \/ ExecEnds
            \/ Shutdown \/ LastShutdown)
    BY DEF Start, Tell, StopSeen, Connect, StillConnected, Check, Faulted, Release, Health, Clear,
           Settle, Servo, Modes, Running, ExecSwitches, ExecEnds, Shutdown, LastShutdown
  <2> QED
    BY <2>1, <2>2, <2>3, <2>4 DEF Next, RunStep
<1> QED
  BY <1>1, AnswerInvariant, PTL DEF Spec, ClearHitsItsEpisode

\* Where run() is, what it has published and what it keeps for itself.
LoopTypes ==
  /\ pc \in Places /\ after \in Places
  /\ connected \in BOOLEAN /\ commanding \in BOOLEAN
  /\ latched \in BOOLEAN /\ clearing \in BOOLEAN
  /\ health \in 0..(MaxHealth - 1)
  /\ told \in {"nothing", "kConnecting", "kRunning", "kFaulted"}
  /\ faults \in Nat

\* What is shared with the callers of request_clear(), and those callers.
SharedTypes ==
  /\ clear_requested \in BOOLEAN /\ asked \in BOOLEAN
  /\ state \in {"kConnecting", "kRunning", "kFaulted"}
  /\ clear_requested => state = "kFaulted"
  /\ clears_done \in Nat
  /\ op \in [Operator -> {"idle", "ask", "wait"}]
  /\ base \in [Operator -> Nat]
  /\ accepted \in 0..MaxClear

FlagTypes == stop \in BOOLEAN /\ consent \in BOOLEAN

\* TypeOK is these four parts.
LEMMA TypeParts == TypeOK <=> TransportTypes /\ LoopTypes /\ SharedTypes /\ FlagTypes
BY DEF TypeOK, LoopTypes, SharedTypes, FlagTypes

\* set_state() publishes a state and goes to the listener or straight on; a
\* request is left over only in kFaulted.
LEMMA SetStateTyped ==
  ASSUME LoopTypes, SharedTypes, NEW s \in {"kConnecting", "kRunning", "kFaulted"},
         NEW announce, NEW next \in Places, SetState(s, announce, next),
         connected' \in BOOLEAN, commanding' \in BOOLEAN, latched' \in BOOLEAN,
         faults' \in Nat, UNCHANGED <<health, told, operators>>
  PROVE  LoopTypes' /\ SharedTypes'
<1>1. pc' \in Places /\ after' \in Places
  BY DEF SetState, LoopTypes, Places
<1>2. clearing' = FALSE /\ state' = s /\ clears_done' \in {clears_done, clears_done + 1}
  BY DEF SetState
<1>3. clear_requested' \in BOOLEAN /\ asked' \in BOOLEAN
  <2>1. clear_requested' = (clear_requested /\ ~(s # "kFaulted" /\ clear_requested))
    BY DEF SetState
  <2>2. asked' = (asked /\ s = "kFaulted")
    BY DEF SetState
  <2> QED
    BY <2>1, <2>2, Zenon DEF SharedTypes
<1>4. clear_requested' => s = "kFaulted"
  BY DEF SetState
<1>5. LoopTypes'
  BY <1>1, <1>2 DEF LoopTypes
<1> QED
  BY <1>2, <1>3, <1>4, <1>5 DEF SharedTypes, operators

\* latch() and lost() count a fault once.
LEMMA LatchTyped ==
  ASSUME faults \in Nat, Latch
  PROVE  latched' = TRUE /\ faults' \in Nat
<1>1. CASE latched
  BY <1>1 DEF Latch
<1>2. CASE ~latched
  BY <1>2 DEF Latch
<1> QED
  BY <1>1, <1>2

\* A lost link leaves every field typed, latched or not ...
LEMMA LostTyped ==
  ASSUME LoopTypes, SharedTypes, Lost, UNCHANGED operators
  PROVE  LoopTypes' /\ SharedTypes'
<1>1. latched' \in BOOLEAN /\ faults' \in Nat /\ commanding' = FALSE /\ connected' \in BOOLEAN
  <2>1. CASE commanding
    BY <2>1, LatchTyped DEF Lost, LoopTypes
  <2>2. CASE ~commanding
    BY <2>2 DEF Lost, LoopTypes
  <2> QED
    BY <2>1, <2>2
<1>2. SetState("kConnecting", FALSE, "shutdown") /\ UNCHANGED <<health, told, operators>>
  BY DEF Lost
<1>3. "shutdown" \in Places
  BY DEF Places
<1> QED
  BY <1>1, <1>2, <1>3, SetStateTyped

\* ... and so does any other exception out of the loop body ...
LEMMA FailedTyped ==
  ASSUME LoopTypes, SharedTypes, Failed, UNCHANGED operators
  PROVE  LoopTypes' /\ SharedTypes'
<1>1. latched' = TRUE /\ faults' \in Nat
  BY LatchTyped DEF Failed, LoopTypes
<1>2. LoopTypes'
  BY <1>1 DEF Failed, LoopTypes, Places
<1>3. SharedTypes'
  BY DEF Failed, SharedTypes, operators
<1> QED
  BY <1>2, <1>3

\* ... and a plain step of run().
LEMMA GotoTyped ==
  ASSUME LoopTypes, SharedTypes, NEW place \in Places, Goto(place), UNCHANGED operators
  PROVE  LoopTypes' /\ SharedTypes'
BY DEF Goto, LoopTypes, SharedTypes, operators, status

\* The transport and the arm keep their types whoever acts on them.
LEMMA TransportTyped ==
  ASSUME TransportTypes, [Next]_vars
  PROVE  TransportTypes'
<1> USE DEF TransportTypes
<1>1. CASE UNCHANGED transport
  BY <1>1 DEF transport, arm
<1>2. CASE ReleaseLowLevel
  <2>1. /\ low_level' = FALSE /\ UNCHANGED <<reachable, drops, right_arm, arm_fault>>
        /\ servoing' \in {"single", servoing}
    BY <1>2 DEF ReleaseLowLevel
  <2>2. PICK actuators \in BOOLEAN, handed \in BOOLEAN :
          torque' = (torque /\ ~actuators) /\ balked' = (low_level /\ ~(actuators /\ handed))
    BY <1>2 DEF ReleaseLowLevel
  <2>3. torque' \in BOOLEAN /\ balked' \in BOOLEAN
    BY <2>2, Zenon
  <2> QED
    BY <2>1, <2>3
<1>3. CASE EnterLowLevel \/ AllToPosition \/ SwitchModes \/ ClearFaults
  BY <1>3 DEF EnterLowLevel, AllToPosition, SwitchModes, ClearFaults
<1>4. CASE ArmStep
  <2>1. CASE Unreachable
    <3>1. drops' \in 0..MaxDrop
      BY <2>1, DropAssumption DEF Unreachable
    <3> QED
      BY <2>1, <3>1 DEF Unreachable
  <2>2. CASE ReachableAgain
    BY <2>2 DEF ReachableAgain
  <2>3. CASE Reboots
    BY <2>3 DEF Reboots
  <2>4. CASE Faults
    BY <2>4 DEF Faults
  <2>5. CASE FaultGone \/ ForcedOut
    BY <2>5 DEF FaultGone, ForcedOut
  <2> QED
    BY <1>4, <2>1, <2>2, <2>3, <2>4, <2>5 DEF ArmStep
<1>5. UNCHANGED transport \/ ReleaseLowLevel \/ EnterLowLevel \/ AllToPosition \/ SwitchModes \/ ClearFaults
      \/ ArmStep
  BY DEF Next, RunStep, OperatorStep, vars, Start, Tell, StopSeen, Connect, StillConnected, Check,
         Faulted, Release, WaitStopped, TakeClear, NoClearYet, Health, Clear, Settle, Servo, Modes,
         Running, ExecSwitches, ExecEnds, Shutdown, LastShutdown, SafeShutdown, ReadStatus,
         RequestClear, Answered, Stop
<1> QED
  BY <1>1, <1>2, <1>3, <1>4, <1>5

\* The fields have their types, and a clear is pending only while the arm is
\* published as faulted (TypeOK): set_state() drops what an episode leaves.
THEOREM TypeCorrect == Spec => []TypeOK
<1>1. Init => TypeOK
  <2> SUFFICES ASSUME Init PROVE TypeOK
    OBVIOUS
  <2>1. TransportTypes
    <3>1. drops \in 0..MaxDrop
      BY DropAssumption DEF Init, TransportInit
    <3> QED
      BY <3>1 DEF Init, TransportInit, TransportTypes
  <2>2. LoopTypes
    <3>1. health \in 0..(MaxHealth - 1) /\ faults \in Nat
      BY LinkAssumption DEF Init
    <3> QED
      BY <3>1 DEF Init, LoopTypes, Places
  <2>3. SharedTypes
    <3>1. accepted \in 0..MaxClear /\ clears_done \in Nat
      BY LinkAssumption DEF Init
    <3>2. op \in [Operator -> {"idle", "ask", "wait"}] /\ base \in [Operator -> Nat]
      BY DEF Init
    <3> QED
      BY <3>1, <3>2 DEF Init, SharedTypes
  <2>4. FlagTypes
    BY DEF Init, FlagTypes
  <2> QED
    BY <2>1, <2>2, <2>3, <2>4, TypeParts
<1>2. TypeOK /\ [Next]_vars => TypeOK'
  <2> SUFFICES ASSUME TypeOK, [Next]_vars
               PROVE  TypeOK'
    OBVIOUS
  <2>t. TransportTypes' /\ LoopTypes /\ SharedTypes /\ FlagTypes
    BY TypeParts, TransportTyped
  <2>f. FlagTypes'
    BY <2>t DEF FlagTypes, Next, RunStep, OperatorStep, vars, outside, Start, Tell, StopSeen,
         Connect, StillConnected, Check, Faulted, Release, WaitStopped, TakeClear, NoClearYet,
         Health, Clear, Settle, Servo, Modes, Running, ExecSwitches, ExecEnds, Shutdown,
         LastShutdown, ReadStatus, RequestClear, Answered, Stop
  <2> SUFFICES LoopTypes' /\ SharedTypes'
    BY <2>t, <2>f DEF TypeOK, LoopTypes, SharedTypes, FlagTypes
  <2>p. /\ {"head", "check", "faulted", "release", "wait", "health", "clear", "settle"} \subseteq Places
        /\ {"servo", "modes", "running", "exec", "shutdown", "last_shutdown", "done"} \subseteq Places
    BY DEF Places
  <2>k. ASSUME UNCHANGED <<loop, status, operators>>
        PROVE  LoopTypes' /\ SharedTypes'
    BY <2>t, <2>k DEF LoopTypes, SharedTypes, loop, status, operators
  <2>s. ASSUME UNCHANGED <<status, operators>>
        PROVE  SharedTypes'
    BY <2>t, <2>s DEF SharedTypes, status, operators
  <2>l. ASSUME Lost \/ Failed, UNCHANGED outside
        PROVE  LoopTypes' /\ SharedTypes'
    BY <2>t, <2>l, LostTyped, FailedTyped DEF outside
  <2>g. ASSUME NEW place \in Places, Goto(place), UNCHANGED outside
        PROVE  LoopTypes' /\ SharedTypes'
    BY <2>t, <2>g, GotoTyped DEF outside
  <2>1. CASE Start
    BY <2>1, <2>t, <2>p, SetStateTyped DEF Start, outside, LoopTypes
  <2>2. CASE Tell
    <3>1. LoopTypes'
      BY <2>2, <2>t DEF Tell, LoopTypes, SharedTypes, status
    <3> QED
      BY <2>2, <3>1, <2>s DEF Tell, outside
  <2>3. CASE StopSeen \/ StillConnected \/ WaitStopped \/ NoClearYet \/ Clear
    BY <2>3, <2>p, <2>g DEF StopSeen, StillConnected, WaitStopped, NoClearYet, Clear
  <2>4. CASE Connect
    <3>1. CASE Goto("shutdown") \/ Goto("last_shutdown")
      BY <2>4, <3>1, <2>p, <2>g DEF Connect
    <3>2. CASE connected' = TRUE /\ pc' = "check"
               /\ UNCHANGED <<after, commanding, latched, clearing, health, told, status>>
      <4>1. LoopTypes'
        BY <3>2, <2>t DEF LoopTypes, Places, status
      <4> QED
        BY <2>4, <3>2, <4>1, <2>s DEF Connect, outside
    <3> QED
      BY <2>4, <3>1, <3>2 DEF Connect
  <2>5. CASE Check
    <3>1. CASE Goto("faulted") \/ Goto("servo")
      BY <2>5, <3>1, <2>p, <2>g DEF Check
    <3>2. CASE Lost \/ Failed
      BY <2>5, <3>2, <2>l DEF Check
    <3>3. CASE Latch /\ pc' = "faulted"
               /\ UNCHANGED <<after, connected, commanding, clearing, health, told>>
               /\ UNCHANGED <<state, clears_done, clear_requested, asked>>
      <4>1. LoopTypes'
        BY <3>3, <2>t DEF LoopTypes, Places, Latch
      <4>2. SharedTypes'
        BY <2>5, <3>3, <2>t DEF Check, SharedTypes, outside, operators
      <4> QED
        BY <4>1, <4>2
    <3> QED
      BY <2>5, <3>1, <3>2, <3>3 DEF Check, Raise
  <2>6. CASE Faulted
    BY <2>6, <2>t, <2>p, SetStateTyped DEF Faulted, outside, LoopTypes
  <2>7. CASE Release
    <3>1. LoopTypes'
      <4>1. health' \in 0..(MaxHealth - 1)
        BY <2>7, LinkAssumption DEF Release
      <4> QED
        BY <2>7, <4>1, <2>t DEF Release, LoopTypes, Places, status
    <3> QED
      BY <2>7, <3>1, <2>s DEF Release, outside
  <2>8. CASE TakeClear
    <3>1. LoopTypes'
      BY <2>8, <2>t DEF TakeClear, LoopTypes, Places
    <3>2. SharedTypes'
      BY <2>8, <2>t DEF TakeClear, SharedTypes, outside, operators
    <3> QED
      BY <3>1, <3>2
  <2>9. CASE Health
    <3>1. CASE Lost
      BY <2>9, <3>1, <2>l DEF Health
    <3>2. CASE ~Lost
      <4>1. PICK outcome \in Outcome :
              /\ ~(outcome # "ok" /\ health + 1 = MaxHealth)
              /\ health' = IF outcome = "ok" THEN 0 ELSE health + 1
              /\ pc' = "wait"
              /\ UNCHANGED <<after, connected, commanding, latched, clearing, told, status>>
        BY <2>9, <3>2 DEF Health
      <4>2. LoopTypes'
        <5>1. health' \in 0..(MaxHealth - 1)
          BY <4>1, <2>t, LinkAssumption DEF LoopTypes
        <5> QED
          BY <4>1, <5>1, <2>t DEF LoopTypes, Places, status
      <4> QED
        BY <2>9, <4>1, <4>2, <2>s DEF Health, outside
    <3> QED
      BY <3>1, <3>2
  <2>10. CASE Settle
    <3>1. CASE Goto("head")
      BY <2>10, <3>1, <2>p, <2>g DEF Settle
    <3>2. CASE Lost \/ Failed
      BY <2>10, <3>2, <2>l DEF Settle
    <3>3. CASE latched' = FALSE /\ pc' = "servo"
               /\ UNCHANGED <<after, connected, commanding, clearing, health, told, status>>
      <4>1. LoopTypes'
        BY <3>3, <2>t DEF LoopTypes, Places, status
      <4> QED
        BY <2>10, <3>3, <4>1, <2>s DEF Settle, outside
    <3> QED
      BY <2>10, <3>1, <3>2, <3>3 DEF Settle, Raise
  <2>11. CASE Servo
    BY <2>11, <2>p, <2>g, <2>l DEF Servo, Raise
  <2>12. CASE Modes
    BY <2>12, <2>p, <2>g, <2>l DEF Modes
  <2>13. CASE Running
    BY <2>13, <2>t, <2>p, SetStateTyped DEF Running, outside, LoopTypes
  <2>14. CASE ExecSwitches
    BY <2>14, <2>k DEF ExecSwitches, outside
  <2>15. CASE ExecEnds
    BY <2>15, <2>p, <2>g, <2>l DEF ExecEnds
  <2>16. CASE Shutdown \/ LastShutdown
    <3>1. LoopTypes'
      BY <2>16, <2>t DEF Shutdown, LastShutdown, LoopTypes, Places, status
    <3> QED
      BY <2>16, <3>1, <2>s DEF Shutdown, LastShutdown, outside
  <2>17. ASSUME NEW o \in Operator, ReadStatus(o) \/ Answered(o)
         PROVE  LoopTypes' /\ SharedTypes'
    BY <2>17, <2>t DEF ReadStatus, Answered, LoopTypes, SharedTypes, loop, status
  <2>18. ASSUME NEW o \in Operator, RequestClear(o)
         PROVE  LoopTypes' /\ SharedTypes'
    <3>1. LoopTypes'
      BY <2>18, <2>t DEF RequestClear, LoopTypes, loop
    <3>2. CASE state = "kFaulted"
      <4>1. /\ clear_requested' = TRUE /\ accepted' = accepted + 1 /\ asked' = TRUE
            /\ op' = [op EXCEPT ![o] = "wait"] /\ UNCHANGED <<base, state, clears_done>>
            /\ accepted < MaxClear
        BY <2>18, <3>2 DEF RequestClear
      <4>2. op' \in [Operator -> {"idle", "ask", "wait"}] /\ accepted' \in 0..MaxClear
        BY <2>t, <4>1, LinkAssumption DEF SharedTypes
      <4> QED
        BY <2>t, <3>1, <3>2, <4>1, <4>2 DEF SharedTypes
    <3>3. CASE state # "kFaulted"
      <4>1. /\ op' = [op EXCEPT ![o] = "idle"] /\ base' = [base EXCEPT ![o] = 0]
            /\ UNCHANGED <<clear_requested, accepted, asked, state, clears_done>>
        BY <2>18, <3>3 DEF RequestClear
      <4> QED
        BY <2>t, <3>1, <4>1 DEF SharedTypes
    <3> QED
      BY <3>2, <3>3
  <2>19. CASE Stop \/ (ArmStep /\ UNCHANGED <<loop, status, outside, consent>>) \/ UNCHANGED vars
    BY <2>19, <2>k DEF Stop, outside, vars
  <2> QED
    BY <2>1, <2>2, <2>3, <2>4, <2>5, <2>6, <2>7, <2>8, <2>9, <2>10, <2>11, <2>12, <2>13, <2>14,
       <2>15, <2>16, <2>17, <2>18, <2>19
    DEF Next, RunStep, OperatorStep
<1> QED
  BY <1>1, <1>2, PTL DEF Spec
=============================================================================
