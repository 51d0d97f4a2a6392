------------------------------ MODULE RtExecutor ------------------------------
(***************************************************************************)
(* kinova::RtExecutor: the real-time loop and its contact stop.             *)
(*                                                                          *)
(* One real-time thread calls run(), and calls it again after it returned   *)
(* or threw; a supervisor calls request_mode() and request_clear() from its *)
(* own thread at any time.  The loop thread touches what is shared with     *)
(* atomics, once per step below, so a step is what happens between two      *)
(* points where the other thread's calls can be told apart: the boundary    *)
(* with the mode adoption, and the exchange with all that follows it.       *)
(* Pacing, timestamps and the sample ring are left out.                     *)
(***************************************************************************)
EXTENDS ContactMonitor, FiniteSets

CONSTANTS
  Mode,            \* the control modes
  OnContact,       \* on_contact_
  Actuator,        \* the actuator modes
  Required,        \* required_modes(), for every control mode
  NoMode,          \* nullptr
  MaxConsecutive,  \* ExecutorConfig::max_consecutive_misses
  MaxWindow,       \* ExecutorConfig::max_window_misses
  MissWindow,      \* ExecutorConfig::miss_window
  FaultConfirm,    \* kFaultConfirmExchanges
  LowConfirm,      \* kLeftLowLevelConfirmExchanges
  ExitOnFault,     \* ExecutorConfig::exit_on_fault
  Scenarios        \* what may disturb a behaviour: sets of Disturbance

Disturbance == {"miss", "fault", "contact", "garbled", "error"}

ASSUME ExecutorAssumption ==
  /\ OnContact \in Mode /\ NoMode \notin Mode
  /\ {"zero", "freeze"} \cap Mode = {}
  /\ Required \in [Mode -> Actuator]
  /\ {MaxConsecutive, MaxWindow, MissWindow, FaultConfirm, LowConfirm} \subseteq Nat \ {0}
  /\ ExitOnFault \in BOOLEAN
  /\ Scenarios \subseteq SUBSET Disturbance

VARIABLES
  requested,   \* requested_
  pc,          \* where run() is, or how the last one ended: one of Over
  active,      \* active, kept as it was when run() ended
  cmd,         \* what cmd holds: the benign hold "zero", a mode's command, a "freeze"
  actuators,   \* the actuator modes the arm is in
  misses,      \* misses
  missAge,     \* miss_at, as exchanges since then, no more than MissWindow
  missNext,    \* total_misses % miss_at.size()
  missFull,    \* total_misses >= miss_at.size()
  faulty,      \* faulty
  not_low,     \* not_low_level
  recent,      \* history: TRUE for every miss among the last exchanges of this run
  reports,     \* history: what the last good exchanges of the loop reported
  env          \* the disturbances of this behaviour, never changed

budget == <<misses, missAge, missNext, missFull, recent>>
watch == <<faulty, not_low, reports>>
vars == <<monitor, budget, watch, requested, pc, active, cmd, actuators, env>>

Slot == 0..(MaxWindow - 1)
Report == [fault : BOOLEAN, low : BOOLEAN]
Over == {"never", "stopped", "lost", "fault", "threw"}
Most(a, b) == IF a < b THEN b ELSE a

TypeOK ==
  /\ MonitorTypeOK
  /\ requested \in Mode \cup {NoMode} /\ active \in Mode \cup {NoMode}
  /\ pc \in {"seed", "boundary", "exchange"} \cup Over
  /\ cmd \in Mode \cup {"zero", "freeze"}
  /\ actuators \in Actuator
  /\ misses \in 0..MaxConsecutive
  /\ missAge \in [Slot -> 0..MissWindow] /\ missNext \in Slot /\ missFull \in BOOLEAN
  /\ faulty \in 0..FaultConfirm /\ not_low \in 0..LowConfirm
  /\ recent \in Seq(BOOLEAN) /\ reports \in Seq(Report)
  /\ env \in Scenarios

Init ==
  /\ MonitorInit
  /\ requested = NoMode /\ pc = "never"
  /\ active = NoMode /\ cmd = "zero" /\ actuators \in Actuator
  /\ misses = 0 /\ missAge = [s \in Slot |-> MissWindow] /\ missNext = 0 /\ missFull = FALSE
  /\ faulty = 0 /\ not_low = 0 /\ recent = <<>> /\ reports = <<>>
  /\ env \in Scenarios

-----------------------------------------------------------------------------
(* The supervisor's thread.                                                 *)

\* request_mode(): the latest request replaces a pending one.
RequestMode(m) ==
  /\ requested' = m
  /\ UNCHANGED <<monitor, budget, watch, pc, active, cmd, actuators, env>>

\* ContactMonitor::request_clear(), in a run or between two.
ClearContact ==
  /\ RequestClear
  /\ UNCHANGED <<budget, watch, requested, pc, active, cmd, actuators, env>>

-----------------------------------------------------------------------------
(* run(), on the real-time thread.                                          *)

\* run() is called: its locals start afresh and the monitor is told.  What the
\* actuators are in is up to whoever called.
Start ==
  /\ pc \in Over
  /\ pc' = "seed"
  /\ active' = NoMode /\ cmd' = "zero" /\ actuators' \in Actuator
  /\ misses' = 0 /\ missAge' = [s \in Slot |-> MissWindow] /\ missNext' = 0 /\ missFull' = FALSE
  /\ faulty' = 0 /\ not_low' = 0 /\ recent' = <<>> /\ reports' = <<>>
  /\ OnRunStart
  /\ UNCHANGED <<requested, env>>

\* How much of the history an exchange can depend on.
Past == Most(MaxConsecutive, MissWindow)

\* Every slot of the ring, one exchange later.
Aged == [s \in Slot |-> AtMost(missAge[s] + 1, MissWindow)]

\* exchange_ok() returned true.
MutAnsweredKeeps ==            \* mutant: a good exchange leaves the misses in a row
  /\ missAge' = Aged
  /\ recent' = Latest(Append(recent, FALSE), Past)
  /\ UNCHANGED <<misses, missNext, missFull>>

Answered ==
  /\ misses' = 0
  /\ missAge' = Aged
  /\ recent' = Latest(Append(recent, FALSE), Past)
  /\ UNCHANGED <<missNext, missFull>>

\* The oldest of the last MaxWindow misses, this one included, is still inside
\* the window: it is in the slot the next miss will take.
MutWindowSpent(age, next, full) == full /\ age[next] <= MissWindow - 2   \* mutant: off by one

WindowSpent(age, next, full) == full /\ age[next] < MissWindow

\* exchange_ok() on a timeout, when it is survived and when it throws.
Recorded ==
  /\ missAge' = [Aged EXCEPT ![missNext] = 0]
  /\ missNext' = (missNext + 1) % MaxWindow
  /\ missFull' = (missFull \/ missNext' = 0)

Missed ==
  /\ misses' = misses + 1
  /\ recent' = Latest(Append(recent, TRUE), Past)
  /\ IF misses' < MaxConsecutive THEN Recorded ELSE UNCHANGED <<missAge, missNext, missFull>>

\* run() gives the link up by throwing CommsLost.
Lost == misses' >= MaxConsecutive \/ WindowSpent(missAge', missNext', missFull')

\* The seed read, before the loop: retried when it is missed.
SeedRead ==
  /\ pc = "seed"
  /\ \/ Answered /\ pc' = "boundary"
     \/ "miss" \in env /\ Missed /\ (IF Lost THEN pc' = "lost" ELSE UNCHANGED pc)
     \/ "error" \in env /\ UNCHANGED budget /\ pc' = "threw"
  /\ UNCHANGED <<monitor, watch, requested, active, cmd, actuators, env>>

\* The stop flag is seen at the top of the loop.
StopSeen ==
  /\ pc = "boundary"
  /\ pc' = "stopped"
  /\ UNCHANGED <<monitor, budget, watch, requested, active, cmd, actuators, env>>

\* The mode that step 3 adopts, and what is left of the request.
MutRequestFirst ==             \* mutant: a request goes before the latch
  IF misses # 0 THEN NoMode
  ELSE IF requested # NoMode THEN requested
  ELSE IF latched THEN OnContact ELSE NoMode

ToAdopt ==
  IF misses # 0 THEN NoMode
  ELSE IF latched THEN OnContact
  ELSE requested

\* Step 3 takes the request, and nothing of it is left.
TakeRequest ==
  requested' = IF misses = 0 /\ ~latched THEN NoMode ELSE requested

\* Step 3 with nothing to adopt.
Keep ==
  /\ pc = "boundary"
  /\ ToAdopt \in {NoMode, active}
  /\ TakeRequest
  /\ pc' = "exchange"
  /\ UNCHANGED <<monitor, budget, watch, active, cmd, actuators, env>>

\* Step 3 adopts: the outgoing mode leaves, the incoming mode enters and
\* computes the command that the switch and the next exchange send.
Adopt ==
  /\ pc = "boundary"
  /\ ToAdopt \notin {NoMode, active}
  /\ TakeRequest
  /\ cmd' = ToAdopt
  /\ active' = ToAdopt
  /\ actuators' = Required[ToAdopt]
  /\ pc' = "exchange"
  /\ UNCHANGED <<monitor, budget, watch, env>>

\* on_enter() or compute() throws, or set_actuator_modes() throws having
\* switched any of the actuators: a timeout is comms loss, the rest propagates.
AdoptThrows ==
  /\ pc = "boundary"
  /\ ToAdopt \notin {NoMode, active}
  /\ TakeRequest
  /\ actuators' \in Actuator
  /\ \/ "miss" \in env /\ pc' = "lost"
     \/ "error" \in env /\ pc' = "threw"
  /\ UNCHANGED <<monitor, budget, watch, active, cmd, env>>

\* Step 4 is missed: the monitor skips the sample and cmd is sent again.
Miss ==
  /\ pc = "exchange" /\ "miss" \in env
  /\ Missed
  /\ IF Lost THEN pc' = "lost" /\ UNCHANGED monitor
     ELSE StepSkipped /\ pc' = "boundary"
  /\ UNCHANGED <<watch, requested, active, cmd, actuators, env>>

\* The transport throws anything but a timeout.
ExchangeThrows ==
  /\ pc = "exchange" /\ "error" \in env
  /\ pc' = "threw"
  /\ UNCHANGED <<monitor, budget, watch, requested, active, cmd, actuators, env>>

\* check_fault() on a good exchange; it throws when Confirmed.
MutCheckFault(r) ==            \* mutant: a good frame leaves the counters
  /\ faulty' = IF r.fault THEN faulty + 1 ELSE faulty
  /\ not_low' = IF r.low THEN not_low ELSE not_low + 1
  /\ reports' = Latest(Append(reports, r), Most(FaultConfirm, LowConfirm))

CheckFault(r) ==
  /\ faulty' = IF r.fault THEN faulty + 1 ELSE 0
  /\ not_low' = IF r.low THEN 0 ELSE not_low + 1
  /\ reports' = Latest(Append(reports, r), Most(FaultConfirm, LowConfirm))

Confirmed == faulty' >= FaultConfirm \/ not_low' >= LowConfirm

\* Step 5b and 6 after the monitor's step: a latch switches to OnContact at
\* once when the actuators need not change, else the command is a freeze;
\* otherwise the active mode computes.
ContactSwitch ==
  IF latched' /\ active # OnContact
  THEN IF active # NoMode /\ Required[active] = Required[OnContact]
       THEN active' = OnContact /\ cmd' = OnContact
       ELSE UNCHANGED active /\ cmd' = "freeze"
  ELSE UNCHANGED active /\ cmd' = IF active = NoMode THEN cmd ELSE active

\* The samples of an exchange that was answered.
Monitored ==
  \/ StepGood({})
  \/ "contact" \in env /\ \E over \in SUBSET Joint \ {{}} : StepGood(over)
  \/ "garbled" \in env /\ StepSkipped

\* Steps 4 to 6 of a cycle whose exchange was answered.
Good(r) ==
  /\ pc = "exchange"
  /\ r # [fault |-> FALSE, low |-> TRUE] => "fault" \in env
  /\ Answered
  /\ IF ExitOnFault THEN CheckFault(r) ELSE UNCHANGED watch
  /\ IF ExitOnFault /\ Confirmed
     THEN pc' = "fault" /\ UNCHANGED <<monitor, active, cmd>>
     ELSE /\ pc' = "boundary"
          /\ Monitored
          /\ ContactSwitch
  /\ UNCHANGED <<requested, actuators, env>>

Cycle ==
  \/ SeedRead \/ Keep \/ Adopt \/ AdoptThrows
  \/ Miss \/ ExchangeThrows
  \/ \E r \in Report : Good(r)

Next ==
  \/ Start \/ Cycle \/ StopSeen
  \/ ClearContact
  \/ \E m \in Mode : RequestMode(m)

Spec == Init /\ [][Next]_vars

\* run() is a loop that waits for nobody: once called it keeps going.
FairSpec == Spec /\ WF_vars(Cycle)

-----------------------------------------------------------------------------
(* Properties.                                                              *)

\* The freeze that a contact leaves in cmd when the actuator modes must change
\* is replaced before the next exchange: it is never sent.
FreezeNeverSent == pc = "exchange" => cmd # "freeze"

\* While the latch is set no exchange sends a command of any mode but the one
\* for contact, missed exchanges, pending requests and new runs included.
LatchedRunsOnlyContact ==
  pc = "exchange" /\ latched => active = OnContact /\ cmd = OnContact

\* What is sent is the active mode's own command, to actuators that are in the
\* modes it was computed for, also after a switch that made no handshake and
\* on a command sent again after a miss.
CommandMatchesArm ==
  pc = "exchange" /\ active # NoMode => cmd = active /\ actuators = Required[active]

\* The link is given up: MaxConsecutive misses in a row, or MaxWindow among the
\* last MissWindow exchanges.
TooManyMisses(history) ==
  \/ /\ Len(history) >= MaxConsecutive
     /\ \A i \in (Len(history) + 1 - MaxConsecutive)..Len(history) : history[i]
  \/ Cardinality({i \in 1..Len(history) : history[i] /\ i + MissWindow > Len(history)}) >= MaxWindow

\* A run ends with comms lost on exactly the miss that makes too many of them:
\* a counter and a ring of the last misses agree with the whole history.
LossExactly ==
  [][misses' = misses + 1 => (pc' = "lost" <=> TooManyMisses(recent'))]_vars

\* FaultConfirm good exchanges in a row reported a fault, or LowConfirm that the
\* base is not in low-level servoing.
FaultSeen(history) ==
  \/ /\ Len(history) >= FaultConfirm
     /\ \A i \in (Len(history) + 1 - FaultConfirm)..Len(history) : history[i].fault
  \/ /\ Len(history) >= LowConfirm
     /\ \A i \in (Len(history) + 1 - LowConfirm)..Len(history) : ~history[i].low

\* A run gives the arm up on exactly the good exchange that confirms a fault;
\* misses in between neither confirm nor clear one.
FaultExactly ==
  [][reports' # reports => (pc' = "fault" <=> FaultSeen(reports'))]_vars

\* A request is dropped only by the mode becoming the active one, or by a switch
\* that ends the run: a miss or the latch makes it wait.
RequestNotDropped ==
  [][requested # NoMode /\ requested' = NoMode => active' = requested \/ pc' \in Over]_vars

\* A request made to a running loop is taken, unless the latch stops it or the
\* run ends.  It waits for a good exchange, and only the loss limits promise
\* one.
RequestTaken ==
  (requested # NoMode /\ pc \notin Over) ~> (requested = NoMode \/ latched \/ pc \in Over)
=============================================================================
