---------------------------- MODULE MCRtChannels ----------------------------
(***************************************************************************)
(* Instances of RtChannels and StreamedMode for TLC: what the other threads *)
(* exchange with the RT loop, and with the mode the loop runs.  The two     *)
(* modules have no variable in common, so a behaviour is of the one or of   *)
(* the other.  The steps are listed one by one, for TLC to count each.      *)
(***************************************************************************)
EXTENDS RtChannels, StreamedMode

\* A missed cycle waits out the timeout; the others take 0, 1, 3, ... ns.
Ns(i, missed) == IF missed THEN 9 ELSE IF i = 0 THEN 0 ELSE 2 * i - 1

\* The deployed defaults: only torque keeps a watchdog of its own.
DefaultTimeout == [m \in Modes |-> IF m = "torque" THEN 3 ELSE 0]

(* The setter, the pump and the drain share nothing with each other, and every *)
(* property is about the state one of them shares with the RT thread: each is  *)
(* run against the RT thread with the other two asleep.                        *)
Awake == {t \in {"setter", "pump", "drain"} :
            CASE t = "setter" -> calls > 0 [] t = "pump" -> looks > 0
              [] t = "drain" -> tail > 0 \/ pop.at # "idle"}
OneAwake == Cardinality(Awake') <= 1

VARIABLE part     \* which of the two this behaviour is of
partVars == <<part, threadVars, modeVars>>

PartInit ==
    /\ part \in {"channels", "mode"} /\ ThreadsInit /\ ModeInit
    /\ part = "channels" => mode = CHOOSE m \in Modes : TRUE

Crosses(A) == part = "channels" /\ A /\ UNCHANGED <<part, modeVars>>
Streams(A) == part = "mode" /\ A /\ UNCHANGED <<part, threadVars>>

ChannelsNext ==
    \/ Crosses(StartCycle) \/ Crosses(StampRest) \/ Crosses(Exchange) \/ Crosses(Poll)
    \/ Crosses(StoreSnapshot) \/ Crosses(StoreStatus) \/ Crosses(PushSample) \/ Crosses(PushRest)
    \/ Crosses(Reenter) \/ Crosses(PumpLook) \/ Crosses(PumpVersion) \/ Crosses(PumpLoad)
    \/ Crosses(PumpPublish) \/ Crosses(DrainThread) \/ Crosses(SetterThread)
WritesNext ==
    \/ \E k \in Kind, t \in Timeouts : Streams(Open(k, t))
    \/ Streams(Setpoint) \/ Streams(Track) \/ Streams(Close) \/ Streams(Publish)
    \/ Streams(NameSource) \/ Streams(BumpLast) \/ Streams(Restore) \/ Streams(ClearIkFault)
ReadsNext ==
    \/ Streams(Enter) \/ Streams(EnterReset) \/ Streams(Leave) \/ Streams(Cycle)
    \/ Streams(StaleCycle) \/ Streams(LiveCycle) \/ Streams(LoadSource) \/ Streams(LoadIndex)
    \/ Streams(Copy) \/ \E converged \in BOOLEAN : Streams(Solve(converged))

\* States that differ in a local which is written before it is read again are one state.
Live(v, when) == IF when THEN <<v>> ELSE <<>>
View == <<part, threadVars, watchdog, mode, shared, wpc, closing, session, rpc, copied, frozen,
          lastSource, ikBad, faulted, follow, entered, stopped, holds,
          Live(floor, rpc # "out"), Live(early, mode = "velocity" /\ rpc # "out"), Live(cmd, wpc \in {"publish", "source"}),
          Live(src, rpc \in {"index", "copy"}), Live(slot, rpc = "copy")>>

PartNext == ChannelsNext \/ WritesNext \/ ReadsNext
PartSpec == PartInit /\ [][PartNext]_partVars
=============================================================================
