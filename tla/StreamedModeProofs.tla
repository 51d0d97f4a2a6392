-------------------------- MODULE StreamedModeProofs --------------------------
(***************************************************************************)
(* What a cycle goes after, for every mode, default, deadline and number    *)
(* of commands: ModeTypeOK, FollowsLatest and StaleStaysHeld of StreamedMode.   *)
(***************************************************************************)
EXTENDS StreamedMode, TLAPS

Held == rpc \notin {"out", "entering"}
Newest(k) == buf[k][active[k]]
Good(S) == \A n \in S : n > entered /\ n >= floor

\* The writer: what is published is newer than all that is complete, and the
\* source names a buffer whose command is of this entry.
WriterInv ==
  /\ wpc \in {"source", "bump"} => \A n \in Newest(cmd) : n = count + 1
  /\ wpc = "bump" /\ source # "entry" => source = cmd
  /\ source # "entry" => \A n \in Newest(source) : n >= count /\ n > entered
  /\ mode = "torque" => /\ source = "entry" /\ wpc # "source"
                        /\ session # "cartesian"
                        /\ cmd = "joint"
                        /\ \A n \in Newest("joint") : n >= count

\* The cycle: what it is about to copy is good, and the source it loaded is
\* still named unless a command it has not counted is on its way.
CycleInv ==
  /\ Held => floor = last_seen /\ entered <= last_seen
  /\ rpc = "age" /\ fresh => floor > entered
  /\ rpc = "index" => src \in Kind /\ Good(Newest(src))
  /\ rpc = "copy" => src \in Kind /\ Good(buf[src][slot])
  /\ rpc = "solve" => mode = "position" /\ Good(copied["cartesian"])
  /\ mode = "torque" => rpc # "source" /\ (rpc \in {"index", "copy"} => src = "joint")
  /\ rpc \in {"index", "copy"} /\ mode = "velocity" =>
       source \in {src, "entry"} \/ count > last_seen \/ wpc = "bump"
  /\ rpc = "source" /\ mode = "velocity" /\ fresh => ~frozen

\* The copies the real-time thread keeps are of this entry.  Those of torque are
\* as new as the watchdog's count, those of velocity too as long as the source
\* is of a command it has counted.
CopyInv ==
  /\ rpc # "out" => \A k \in Kind : \A n \in copied[k] : n > entered
  /\ rpc = "entering" => \A k \in Kind : copied[k] = {}
  /\ mode = "torque" /\ (rpc = "cycle" \/ (rpc = "age" /\ ~fresh)) =>
       \A n \in copied["joint"] : n >= last_seen
  /\ mode = "velocity" /\ (rpc = "cycle" \/ (rpc \in {"age", "source"} /\ ~fresh)) =>
       \A k \in Kind : source = k /\ count = last_seen /\ wpc # "bump" =>
         \A n \in copied[k] : n >= last_seen

FollowInv == WriterInv /\ CycleInv /\ CopyInv /\ FollowsLatest
-----------------------------------------------------------------------------
(* The types. *)

\* The variables start with their types.
LEMMA TypeInit == ModeInit => ModeTypeOK
<1> SUFFICES ASSUME ModeInit PROVE ModeTypeOK
  OBVIOUS
<1> USE ModeAssumption DEF ModeAssumption
<1>1. {0} \in SUBSET Command
  BY DEF Command
<1>2. "joint" \in Kind
  BY DEF Kind
<1>a. fresh \in BOOLEAN /\ ~fresh
  BY DEF ModeInit, WatchdogInit
<1>b. frozen \in BOOLEAN /\ faulted \in BOOLEAN /\ early \in BOOLEAN /\ closing \in BOOLEAN
  BY DEF ModeInit
<1>c. Default[mode] \in 0..MaxStale /\ mode \in Modes
  BY DEF ModeInit
<1>d. /\ count = 0 /\ timeout = Default[mode] /\ last_seen = 0 /\ stale_s = 0
  BY DEF ModeInit, WatchdogInit
<1>3. WatchdogType /\ count <= MaxCommands
  BY <1>a, <1>c, <1>d DEF WatchdogType
<1>6. /\ ikBad \in 0..IkFault /\ entered \in 0..count /\ floor \in 0..count
      /\ stopped \in 0..count /\ holds \subseteq Command /\ follow \subseteq Command
  BY <1>d DEF ModeInit
<1>7. /\ source \in Kind \cup {"entry"} /\ src \in Kind \cup {"entry"} /\ slot = 0
      /\ lastSource \in Kind \cup {"entry"} /\ session = "closed" /\ cmd = "joint"
      /\ wpc = "idle" /\ rpc = "out"
  BY DEF ModeInit
<1>4. buf \in [Kind -> [0..1 -> SUBSET Command]] /\ active \in [Kind -> 0..1]
  BY <1>1 DEF ModeInit
<1>5. copied \in [Kind -> SUBSET Command]
  BY DEF ModeInit
<1> QED
  BY <1>2, <1>3, <1>4, <1>5, <1>b, <1>c, <1>6, <1>7 DEF ModeTypeOK

\* Every step keeps the types.
LEMMA TypeStep == ModeTypeOK /\ [ModeNext]_modeVars => ModeTypeOK'
<1> SUFFICES ASSUME ModeTypeOK, [ModeNext]_modeVars PROVE ModeTypeOK'
  OBVIOUS
<1>a. "joint" \in Kind /\ "cartesian" \in Kind /\ Kind \subseteq {"joint", "cartesian"}
  BY DEF Kind
<1>b. 0 \in Command /\ (count < MaxCommands => count + 1 \in Command)
  BY ModeAssumption DEF ModeAssumption, ModeTypeOK, WatchdogType, Command
<1> USE <1>a, <1>b, ModeAssumption DEF ModeAssumption, ModeTypeOK, WatchdogType
<1>1. ASSUME NEW k \in Kind, NEW t \in Timeouts, Open(k, t) PROVE ModeTypeOK'
  BY <1>1 DEF Open, Arm, shared, reader, history
<1>2. ASSUME Setpoint PROVE ModeTypeOK'
  BY <1>2 DEF Setpoint, Fill, watchdog, reader, history
<1>3. ASSUME Track PROVE ModeTypeOK'
  BY <1>3 DEF Track, Fill, watchdog, reader, history
<1>4. ASSUME Close PROVE ModeTypeOK'
  <2>1. CASE mode = "torque"
    BY <1>4, <2>1 DEF Close, watchdog, reader
  <2>2. CASE mode # "torque"
    BY <1>4, <2>2 DEF Close, Fill, watchdog, reader
  <2> QED BY <2>1, <2>2
<1>5. ASSUME Publish PROVE ModeTypeOK'
  BY <1>5 DEF Publish, watchdog, reader, history, Sourced
<1>6. ASSUME NameSource PROVE ModeTypeOK'
  BY <1>6 DEF NameSource, watchdog, reader, history
<1>7. ASSUME BumpLast PROVE ModeTypeOK'
  BY <1>7 DEF BumpLast, Bump, shared, reader, history
<1>8. ASSUME Restore PROVE ModeTypeOK'
  BY <1>8 DEF Restore, Arm, shared, reader, history
<1>9. ASSUME ClearIkFault PROVE ModeTypeOK'
  BY <1>9 DEF ClearIkFault, watchdog, shared, reader, history
<1>10. ASSUME Enter PROVE ModeTypeOK'
  <2>1. copied' \in [Kind -> SUBSET Command]
    BY <1>10 DEF Enter
  <2>2. WatchdogType' /\ count' = count
    BY <1>10 DEF Enter, watchdog
  <2>3. ikBad' \in 0..IkFault
    BY <1>10 DEF Enter
  <2>4. faulted' \in BOOLEAN
    BY <1>10 DEF Enter
  <2>5. source' = "entry" \/ source' = source
    BY <1>10 DEF Enter
  <2>6. frozen' = FALSE /\ lastSource' = "entry" /\ rpc' = "entering" /\ entered' = count
    BY <1>10 DEF Enter
  <2>7. UNCHANGED <<mode, buf, active, wpc, cmd, closing, session, src, slot, follow,
                    floor, early, stopped, holds>>
    BY <1>10 DEF Enter, writer
  <2>8. frozen' \in BOOLEAN /\ early' \in BOOLEAN /\ closing' \in BOOLEAN
    BY <2>6, <2>7
  <2> QED BY <2>1, <2>2, <2>3, <2>4, <2>5, <2>6, <2>7, <2>8
<1>11. ASSUME EnterReset PROVE ModeTypeOK'
  <2>a. fresh' \in BOOLEAN /\ ~fresh'
    BY <1>11 DEF EnterReset, Reset
  <2>b. last_seen' = count /\ stale_s' = 0 /\ count' = count /\ timeout' = timeout
    BY <1>11 DEF EnterReset, Reset
  <2>1. WatchdogType'
    BY <2>a, <2>b
  <2>2. follow' = {} /\ floor' = count /\ rpc' = "cycle"
    BY <1>11 DEF EnterReset
  <2>3. UNCHANGED <<mode, buf, active, source, wpc, cmd, closing, session, src, slot,
                    copied, frozen, lastSource, ikBad, faulted, entered, early, stopped, holds>>
    BY <1>11 DEF EnterReset, shared, writer, reader
  <2> QED BY <2>b, <2>1, <2>2, <2>3
<1>12. ASSUME Leave PROVE ModeTypeOK'
  BY <1>12 DEF Leave, watchdog, shared, writer, reader, history
<1>13. ASSUME Cycle PROVE ModeTypeOK'
  <2>a. fresh' \in BOOLEAN
    BY <1>13 DEF Cycle, Tick
  <2>b. fresh' => count # last_seen
    BY <1>13 DEF Cycle, Tick
  <2>c. /\ last_seen' = count /\ count' = count /\ timeout' = timeout
        /\ stale_s' = IF count # last_seen THEN 0
                      ELSE IF stale_s < MaxStale THEN stale_s + 1 ELSE MaxStale
    BY <1>13 DEF Cycle, Tick
  <2>d. stale_s' \in 0..MaxStale /\ (count # last_seen => stale_s' = 0)
    BY <2>c
  <2>1. WatchdogType'
    BY <2>a, <2>b, <2>c, <2>d
  <2>2. floor' = count /\ early' = FALSE /\ rpc' = "age"
    BY <1>13 DEF Cycle
  <2>3. UNCHANGED <<mode, buf, active, source, wpc, cmd, closing, session, src, slot, follow,
                    copied, frozen, lastSource, ikBad, faulted, entered, stopped, holds>>
    BY <1>13 DEF Cycle, shared, writer, reader
  <2> QED BY <2>c, <2>1, <2>2, <2>3
<1>14. ASSUME StaleCycle PROVE ModeTypeOK'
  BY <1>14 DEF StaleCycle, Frozen, Stale, watchdog, shared, writer
<1>15. ASSUME LiveCycle PROVE ModeTypeOK'
  BY <1>15 DEF LiveCycle, Frozen, Stale, watchdog, shared, writer, history
<1>16. ASSUME LoadSource PROVE ModeTypeOK'
  <2>1. WatchdogType' /\ count' = count
    BY <1>16 DEF LoadSource, watchdog
  <2>2. early' \in BOOLEAN /\ faulted' \in BOOLEAN
    BY <1>16, Zenon DEF LoadSource
  <2>4. ikBad' \in 0..IkFault
    BY <1>16 DEF LoadSource
  <2>3. /\ src' = source /\ lastSource' \in Kind \cup {"entry"}
        /\ rpc' \in {"cycle", "index"} /\ follow' \subseteq Command
        /\ rpc' = "index" => source \in Kind
    BY <1>16 DEF LoadSource
  <2> QED BY <1>16, <2>1, <2>2, <2>3, <2>4 DEF LoadSource, shared, writer
<1>17. ASSUME LoadIndex PROVE ModeTypeOK'
  BY <1>17 DEF LoadIndex, watchdog, shared, writer, history
<1>18. ASSUME Copy PROVE ModeTypeOK'
  BY <1>18 DEF Copy, watchdog, shared, writer, history
<1>19. ASSUME NEW c \in BOOLEAN, Solve(c) PROVE ModeTypeOK'
  BY <1>19 DEF Solve, watchdog, shared, writer, history
<1>20. ASSUME UNCHANGED modeVars PROVE ModeTypeOK'
  BY <1>20 DEF modeVars, watchdog, shared, writer, reader, history
<1> QED
  BY <1>1, <1>2, <1>3, <1>4, <1>5, <1>6, <1>7, <1>8, <1>9, <1>10, <1>11, <1>12,
     <1>13, <1>14, <1>15, <1>16, <1>17, <1>18, <1>19, <1>20 DEF ModeNext, Write, Read
-----------------------------------------------------------------------------
(* What a cycle goes after. *)

\* Nothing is followed at first.
LEMMA FollowInit == ModeInit => FollowInv
  BY ModeAssumption DEF ModeAssumption, ModeInit, WatchdogInit, FollowInv, WriterInv, CycleInv, CopyInv, FollowsLatest, Newest, Kind, Held

\* Every step keeps the cycle on the newest command it could have copied.
LEMMA FollowStep == ModeTypeOK /\ FollowInv /\ [ModeNext]_modeVars => FollowInv'
<1> SUFFICES ASSUME ModeTypeOK, FollowInv, [ModeNext]_modeVars PROVE FollowInv'
  OBVIOUS
<1>a. "joint" \in Kind /\ "cartesian" \in Kind /\ Kind \subseteq {"joint", "cartesian"} /\ "entry" \notin Kind
  BY DEF Kind
<1>b. Command \subseteq Nat
  BY DEF Command
<1>c. ModeTypeOK'
  BY TypeStep
<1> USE <1>a, <1>b, ModeAssumption DEF ModeAssumption, ModeTypeOK, WatchdogType, FollowInv, Newest, Good, Held
<1>1. ASSUME NEW k \in Kind, NEW t \in Timeouts, Open(k, t) PROVE FollowInv'
  BY <1>1 DEF Open, Arm, Cartesian, shared, reader, history, WriterInv, CycleInv, CopyInv, FollowsLatest
<1>2. ASSUME Setpoint PROVE FollowInv'
  <2>1. WriterInv'
    BY <1>2 DEF Setpoint, Fill, watchdog, reader, history, WriterInv
  <2>2. CycleInv'
    BY <1>2 DEF Setpoint, Fill, watchdog, reader, history, WriterInv, CycleInv, CopyInv
  <2>3. CopyInv'
    BY <1>2 DEF Setpoint, Fill, watchdog, reader, history, WriterInv, CycleInv, CopyInv
  <2>4. FollowsLatest'
    BY <1>2 DEF Setpoint, Fill, watchdog, reader, history, CycleInv, CopyInv, FollowsLatest
  <2> QED BY <2>1, <2>2, <2>3, <2>4
<1>3. ASSUME Track PROVE FollowInv'
  <2>1. WriterInv'
    BY <1>3 DEF Track, Fill, watchdog, reader, history, WriterInv
  <2>2. CycleInv'
    BY <1>3 DEF Track, Fill, watchdog, reader, history, WriterInv, CycleInv, CopyInv
  <2>3. CopyInv'
    BY <1>3 DEF Track, Fill, watchdog, reader, history, WriterInv, CycleInv, CopyInv
  <2>4. FollowsLatest'
    BY <1>3 DEF Track, Fill, watchdog, reader, history, CycleInv, CopyInv, FollowsLatest
  <2> QED BY <2>1, <2>2, <2>3, <2>4
<1>4. ASSUME Close PROVE FollowInv'
  <2>1. WriterInv'
    <3>1. CASE mode = "torque"
      BY <1>4, <3>1 DEF Close, watchdog, reader, WriterInv
    <3>2. CASE mode # "torque"
      <4>1. /\ UNCHANGED <<active, source, count, last_seen, mode, rpc, src, slot, copied, fresh, frozen, entered, floor>>
            /\ cmd' = "joint" /\ wpc' = "publish" /\ count < MaxCommands /\ wpc = "idle"
            /\ buf' = [buf EXCEPT !["joint"][1 - active["joint"]] = @ \cup {count + 1}]
        BY <1>4, <3>2 DEF Close, Fill, watchdog, reader
      <4> QED BY <3>2, <4>1 DEF WriterInv
    <3> QED BY <3>1, <3>2
  <2>2. CycleInv'
    <3>1. CASE mode = "torque"
      BY <1>4, <3>1 DEF Close, watchdog, reader, WriterInv, CycleInv, CopyInv
    <3>2. CASE mode # "torque"
      <4>1. /\ UNCHANGED <<active, source, count, last_seen, mode, rpc, src, slot, copied, fresh, frozen, entered, floor>>
            /\ cmd' = "joint" /\ wpc' = "publish" /\ count < MaxCommands /\ wpc = "idle"
            /\ buf' = [buf EXCEPT !["joint"][1 - active["joint"]] = @ \cup {count + 1}]
        BY <1>4, <3>2 DEF Close, Fill, watchdog, reader
      <4> QED BY <3>2, <4>1 DEF WriterInv, CycleInv
    <3> QED BY <3>1, <3>2
  <2>3. CopyInv'
    BY <1>4 DEF Close, Fill, watchdog, reader, Sourced, WriterInv, CycleInv, CopyInv
  <2>4. FollowsLatest'
    BY <1>4 DEF Close, Fill, watchdog, reader, Sourced, CycleInv, CopyInv, FollowsLatest
  <2> QED BY <2>1, <2>2, <2>3, <2>4
<1>5. ASSUME Publish PROVE FollowInv'
  <2>1. WriterInv'
    BY <1>5 DEF Publish, watchdog, reader, history, Sourced, WriterInv
  <2>2. CycleInv'
    BY <1>5 DEF Publish, watchdog, reader, history, Sourced, WriterInv, CycleInv, CopyInv
  <2>3. CopyInv'
    BY <1>5 DEF Publish, watchdog, reader, history, Sourced, WriterInv, CycleInv, CopyInv
  <2>4. FollowsLatest'
    BY <1>5 DEF Publish, watchdog, reader, history, Sourced, CycleInv, CopyInv, FollowsLatest
  <2> QED BY <2>1, <2>2, <2>3, <2>4
<1>6. ASSUME NameSource PROVE FollowInv'
  <2>1. WriterInv'
    BY <1>6 DEF NameSource, watchdog, reader, history, WriterInv
  <2>2. CycleInv'
    BY <1>6 DEF NameSource, watchdog, reader, history, WriterInv, CycleInv, CopyInv
  <2>3. CopyInv'
    BY <1>6 DEF NameSource, watchdog, reader, history, WriterInv, CycleInv, CopyInv
  <2>4. FollowsLatest'
    BY <1>6 DEF NameSource, watchdog, reader, history, CycleInv, CopyInv, FollowsLatest
  <2> QED BY <2>1, <2>2, <2>3, <2>4
<1>7. ASSUME BumpLast PROVE FollowInv'
  <2>1. WriterInv'
    BY <1>7 DEF BumpLast, Bump, shared, reader, history, WriterInv
  <2>2. CycleInv'
    BY <1>7 DEF BumpLast, Bump, shared, reader, history, WriterInv, CycleInv, CopyInv
  <2>3. CopyInv'
    BY <1>7 DEF BumpLast, Bump, shared, reader, history, WriterInv, CycleInv, CopyInv
  <2>4. FollowsLatest'
    BY <1>7 DEF BumpLast, Bump, shared, reader, history, CycleInv, CopyInv, FollowsLatest
  <2> QED BY <2>1, <2>2, <2>3, <2>4
<1>8. ASSUME Restore PROVE FollowInv'
  <2>1. WriterInv'
    BY <1>8 DEF Restore, Arm, shared, reader, history, WriterInv
  <2>2. CycleInv'
    BY <1>8 DEF Restore, Arm, shared, reader, history, WriterInv, CycleInv, CopyInv
  <2>3. CopyInv'
    BY <1>8 DEF Restore, Arm, shared, reader, history, WriterInv, CycleInv, CopyInv
  <2>4. FollowsLatest'
    BY <1>8 DEF Restore, Arm, shared, reader, history, CycleInv, CopyInv, FollowsLatest
  <2> QED BY <2>1, <2>2, <2>3, <2>4
<1>9. ASSUME ClearIkFault PROVE FollowInv'
  <2>1. WriterInv'
    BY <1>9 DEF ClearIkFault, watchdog, shared, reader, history, WriterInv
  <2>2. CycleInv'
    BY <1>9 DEF ClearIkFault, watchdog, shared, reader, history, WriterInv, CycleInv, CopyInv
  <2>3. CopyInv'
    BY <1>9 DEF ClearIkFault, watchdog, shared, reader, history, WriterInv, CycleInv, CopyInv
  <2>4. FollowsLatest'
    BY <1>9 DEF ClearIkFault, watchdog, shared, reader, history, CycleInv, CopyInv, FollowsLatest
  <2> QED BY <2>1, <2>2, <2>3, <2>4
<1>10. ASSUME Enter PROVE FollowInv'
  <2>1. WriterInv'
    BY <1>10 DEF Enter, watchdog, writer, Sourced, WriterInv
  <2>2. CycleInv'
    BY <1>10 DEF Enter, watchdog, writer, Sourced, WriterInv, CycleInv, CopyInv
  <2>3. CopyInv'
    BY <1>10 DEF Enter, watchdog, writer, Sourced, WriterInv, CycleInv, CopyInv
  <2>4. FollowsLatest'
    BY <1>10 DEF Enter, watchdog, writer, Sourced, CycleInv, CopyInv, FollowsLatest
  <2> QED BY <2>1, <2>2, <2>3, <2>4
<1>11. ASSUME EnterReset PROVE FollowInv'
  <2>1. WriterInv'
    BY <1>11 DEF EnterReset, Reset, shared, writer, reader, WriterInv
  <2>2. CycleInv'
    BY <1>11 DEF EnterReset, Reset, shared, writer, reader, WriterInv, CycleInv, CopyInv
  <2>3. CopyInv'
    BY <1>11 DEF EnterReset, Reset, shared, writer, reader, WriterInv, CycleInv, CopyInv
  <2>4. FollowsLatest'
    BY <1>11 DEF EnterReset, Reset, shared, writer, reader, CycleInv, CopyInv, FollowsLatest
  <2> QED BY <2>1, <2>2, <2>3, <2>4
<1>12. ASSUME Leave PROVE FollowInv'
  <2>1. WriterInv'
    BY <1>12 DEF Leave, watchdog, shared, writer, reader, history, WriterInv
  <2>2. CycleInv'
    BY <1>12 DEF Leave, watchdog, shared, writer, reader, history, WriterInv, CycleInv, CopyInv
  <2>3. CopyInv'
    BY <1>12 DEF Leave, watchdog, shared, writer, reader, history, WriterInv, CycleInv, CopyInv
  <2>4. FollowsLatest'
    BY <1>12 DEF Leave, watchdog, shared, writer, reader, history, CycleInv, CopyInv, FollowsLatest
  <2> QED BY <2>1, <2>2, <2>3, <2>4
<1>13. ASSUME Cycle PROVE FollowInv'
  <2>1. WriterInv'
    BY <1>13 DEF Cycle, Tick, shared, writer, reader, WriterInv
  <2>2. CycleInv'
    <3>1. fresh' => count # last_seen
      BY <1>13 DEF Cycle, Tick
    <3>2. /\ count' = count /\ last_seen' = count /\ floor' = count /\ entered' = entered
          /\ rpc = "cycle" /\ rpc' = "age"
      BY <1>13 DEF Cycle, Tick
    <3>3. fresh' => floor' > entered'
      BY <3>1, <3>2 DEF CycleInv
    <3> QED BY <3>2, <3>3 DEF CycleInv
  <2>3. CopyInv'
    BY <1>13 DEF Cycle, Tick, shared, writer, reader, WriterInv, CycleInv, CopyInv
  <2>4. FollowsLatest'
    BY <1>13 DEF Cycle, Tick, shared, writer, reader, CycleInv, CopyInv, FollowsLatest
  <2> QED BY <2>1, <2>2, <2>3, <2>4
<1>14. ASSUME StaleCycle PROVE FollowInv'
  <2>1. WriterInv'
    BY <1>14 DEF StaleCycle, Frozen, Stale, watchdog, shared, writer, WriterInv
  <2>2. CycleInv'
    BY <1>14 DEF StaleCycle, Frozen, Stale, watchdog, shared, writer, WriterInv, CycleInv, CopyInv
  <2>3. CopyInv'
    BY <1>14 DEF StaleCycle, Frozen, Stale, watchdog, shared, writer, WriterInv, CycleInv, CopyInv
  <2>4. FollowsLatest'
    BY <1>14 DEF StaleCycle, Frozen, Stale, watchdog, shared, writer, CycleInv, CopyInv, FollowsLatest
  <2> QED BY <2>1, <2>2, <2>3, <2>4
<1>15. ASSUME LiveCycle PROVE FollowInv'
  <2>1. WriterInv'
    BY <1>15 DEF LiveCycle, Frozen, Stale, Sourced, watchdog, shared, writer, history, WriterInv
  <2>2. CycleInv'
    <3>1. mode = "velocity" /\ fresh' => ~frozen'
      BY <1>15 DEF LiveCycle, Frozen, watchdog
    <3>2. /\ UNCHANGED <<buf, active, source, count, last_seen, wpc, entered, floor, copied, mode>>
          /\ fresh' = fresh /\ rpc = "age"
      BY <1>15 DEF LiveCycle, watchdog, shared, writer, history
    <3>3. CASE mode = "torque"
      <4>1. src' = "joint" /\ rpc' \in {"index", "cycle"} /\ (rpc' = "index" => fresh)
        BY <1>15, <3>3 DEF LiveCycle, Sourced
      <4>2. rpc' = "index" => Good(Newest("joint"))'
        BY <3>2, <3>3, <4>1 DEF WriterInv, CycleInv
      <4> QED BY <3>2, <3>3, <4>1, <4>2 DEF CycleInv
    <3>4. CASE mode # "torque"
      <4>1. rpc' = "source"
        BY <1>15, <3>4 DEF LiveCycle, Sourced
      <4>2. rpc' = "source" /\ mode' = "velocity" /\ fresh' => ~frozen'
        BY <3>1, <3>2
      <4> HIDE <3>1
      <4>3. (Held => floor = last_seen /\ entered <= last_seen)'
        BY <3>2, <4>1 DEF CycleInv
      <4> QED BY <3>2, <3>4, <4>1, <4>2, <4>3 DEF CycleInv
    <3> QED BY <3>3, <3>4
  <2>3. CopyInv'
    BY <1>15 DEF LiveCycle, Frozen, Stale, Sourced, watchdog, shared, writer, history, WriterInv, CycleInv, CopyInv
  <2>4. FollowsLatest'
    BY <1>15 DEF LiveCycle, Frozen, Stale, Sourced, watchdog, shared, writer, history, CycleInv, CopyInv, FollowsLatest
  <2> QED BY <2>1, <2>2, <2>3, <2>4
<1>16. ASSUME LoadSource PROVE FollowInv'
  <2>1. WriterInv'
    BY <1>16 DEF LoadSource, watchdog, shared, writer, WriterInv
  <2>2. CycleInv'
    BY <1>16 DEF LoadSource, watchdog, shared, writer, WriterInv, CycleInv, CopyInv
  <2>3. CopyInv'
    <3>1. /\ UNCHANGED <<buf, active, source, count, last_seen, wpc, entered, floor, copied, mode>>
          /\ rpc = "source" /\ rpc' \in {"cycle", "index"}
      BY <1>16 DEF LoadSource, watchdog, shared, writer
    <3>2. mode = "velocity" /\ rpc' = "cycle" => ~fresh \/ source = "entry"
      BY <1>16 DEF LoadSource, CycleInv
    <3>3. mode # "torque"
      BY <1>16 DEF LoadSource, CycleInv
    <3> QED BY <3>1, <3>2, <3>3 DEF CopyInv
  <2>4. FollowsLatest'
    <3>1. /\ UNCHANGED <<source, count, last_seen, wpc, entered, floor, copied, mode>>
          /\ rpc = "source" /\ floor = last_seen
      BY <1>16 DEF LoadSource, watchdog, shared, writer, CycleInv
    <3>2. rpc' = "cycle" => \/ follow' = {}
                            \/ /\ mode = "velocity" /\ ~fresh /\ source # "entry"
                               /\ follow' = copied[source]
      BY <1>16 DEF LoadSource
    <3>a. early' \/ (~(count > last_seen) /\ wpc # "bump")
      BY <1>16, Zenon DEF LoadSource
    <3>3. early' \/ (count = last_seen /\ wpc # "bump")
      BY <3>a
    <3>4. ASSUME rpc' = "cycle", NEW n \in follow' PROVE n > entered /\ (n >= floor \/ (mode = "velocity" /\ early'))
      <4>0. mode = "velocity" /\ ~fresh /\ source # "entry" /\ n \in copied[source]
        BY <3>2, <3>4, Zenon
      <4>1. mode = "velocity" /\ ~fresh /\ source \in Kind /\ n \in copied[source]
        BY <4>0
      <4>2. n > entered
        BY <3>1, <4>1 DEF CopyInv
      <4>3. count = last_seen /\ wpc # "bump" => n >= floor
        BY <3>1, <4>1 DEF CopyInv
      <4> QED BY <3>3, <4>1, <4>2, <4>3, Zenon
    <3> QED BY <3>1, <3>4 DEF FollowsLatest
  <2> QED BY <2>1, <2>2, <2>3, <2>4
<1>17. ASSUME LoadIndex PROVE FollowInv'
  <2>1. WriterInv'
    BY <1>17 DEF LoadIndex, watchdog, shared, writer, history, WriterInv
  <2>2. CycleInv'
    BY <1>17 DEF LoadIndex, watchdog, shared, writer, history, WriterInv, CycleInv, CopyInv
  <2>3. CopyInv'
    BY <1>17 DEF LoadIndex, watchdog, shared, writer, history, WriterInv, CycleInv, CopyInv
  <2>4. FollowsLatest'
    BY <1>17 DEF LoadIndex, watchdog, shared, writer, history, CycleInv, CopyInv, FollowsLatest
  <2> QED BY <2>1, <2>2, <2>3, <2>4
<1>18. ASSUME Copy PROVE FollowInv'
  <2>1. WriterInv'
    BY <1>18 DEF Copy, Adopts, watchdog, shared, writer, history, WriterInv
  <2>2. CycleInv'
    BY <1>18 DEF Copy, Adopts, watchdog, shared, writer, history, WriterInv, CycleInv, CopyInv
  <2>3. CopyInv'
    <3>1. /\ UNCHANGED <<buf, active, source, src, count, last_seen, wpc, entered, floor, mode>>
          /\ rpc = "copy" /\ rpc' \in {"cycle", "solve"} /\ src \in Kind
          /\ Good(buf[src][slot]) /\ floor = last_seen
      BY <1>18 DEF Copy, watchdog, shared, writer, history, CycleInv
    <3>2. copied' = copied \/ copied' = [copied EXCEPT ![src] = buf[src][slot]]
      BY <1>18 DEF Copy
    <3>3. Adopts => copied' = [copied EXCEPT ![src] = buf[src][slot]]
      BY <1>18 DEF Copy
    <3>4. \A k \in Kind : \A n \in copied'[k] : n > entered
      BY <3>1, <3>2 DEF CopyInv
    <3>5. mode = "torque" => src = "joint"
      BY <3>1 DEF CycleInv
    <3>6. mode = "torque" => \A n \in copied'["joint"] : n >= last_seen
      BY <3>1, <3>3, <3>5 DEF Adopts
    <3>7. mode = "velocity" /\ count = last_seen /\ wpc # "bump" => source \in {src, "entry"}
      BY <3>1 DEF CycleInv
    <3>8. mode = "velocity" => \A n \in copied'[src] : n >= last_seen
      BY <3>1, <3>3 DEF Adopts
    <3> QED BY <3>1, <3>4, <3>6, <3>7, <3>8 DEF CopyInv
  <2>4. FollowsLatest'
    BY <1>18 DEF Copy, Adopts, watchdog, shared, writer, history, CycleInv, CopyInv, FollowsLatest
  <2> QED BY <2>1, <2>2, <2>3, <2>4
<1>19. ASSUME NEW c \in BOOLEAN, Solve(c) PROVE FollowInv'
  <2>1. /\ UNCHANGED <<buf, active, source, src, count, last_seen, wpc, cmd, session, entered, floor, mode, copied>>
        /\ rpc = "solve" /\ rpc' = "cycle" /\ follow' \in {{}, copied["cartesian"]}
    BY <1>19 DEF Solve, watchdog, shared, writer, history
  <2>2. WriterInv'
    BY <2>1 DEF WriterInv
  <2>3. CycleInv'
    BY <2>1 DEF CycleInv
  <2>4. mode = "position"
    BY <1>19 DEF Solve, CycleInv
  <2>5. CopyInv'
    BY <2>1, <2>4 DEF CopyInv
  <2>6. FollowsLatest'
    BY <2>1 DEF CycleInv, FollowsLatest
  <2> QED BY <2>2, <2>3, <2>5, <2>6
<1>20. ASSUME UNCHANGED modeVars PROVE FollowInv'
  BY <1>20 DEF modeVars, watchdog, shared, writer, reader, history, WriterInv, CycleInv, CopyInv, FollowsLatest
<1> QED
  BY <1>1, <1>2, <1>3, <1>4, <1>5, <1>6, <1>7, <1>8, <1>9, <1>10, <1>11, <1>12, <1>13, <1>14, <1>15, <1>16, <1>17, <1>18, <1>19, <1>20 DEF ModeNext, Write, Read
-----------------------------------------------------------------------------
\* Every variable keeps its type, and no buffer ever holds a part of a command
\* that was not begun (the setters and compute() of the four streamed modes).
THEOREM TypeCorrect == ModeSpec => []ModeTypeOK
<1>1. ModeInit => ModeTypeOK
  BY TypeInit
<1>2. ModeTypeOK /\ [ModeNext]_modeVars => ModeTypeOK'
  BY TypeStep
<1> QED
  BY <1>1, <1>2, PTL DEF ModeSpec

\* In every mode, what a cycle goes after was set since the mode was entered and
\* is at least as new as the last command complete when the cycle began, with
\* the one exception velocity makes: "latest setter wins" across the buffers,
\* the source, the watchdog's counter and on_enter, however they interleave.
THEOREM LatestFollowed == ModeSpec => []FollowsLatest
<1>1. ModeInit => FollowInv
  BY FollowInit
<1>2. ModeTypeOK /\ FollowInv /\ [ModeNext]_modeVars => FollowInv'
  BY FollowStep
<1>3. FollowInv => FollowsLatest
  BY DEF FollowInv
<1> QED
  BY <1>1, <1>2, <1>3, TypeCorrect, PTL DEF ModeSpec
-----------------------------------------------------------------------------
(* What a stale cycle gave up. *)

\* Of the modes that hold or latch none keeps a timeout between sessions: their
\* params have cmd_timeout_s = 0.
NoDefault == \A m \in Modes \ {"torque"} : Default[m] = 0

\* The close in progress, and its hold before and after it is complete.
ClosingInv ==
  /\ closing => session = "closed" /\ wpc # "idle"
  /\ wpc \in {"restore", "clear"} => closing
  /\ mode # "torque" /\ timeout > 0 => session # "closed" \/ closing
  /\ mode # "torque" /\ wpc = "clear" => timeout = 0
  /\ mode # "torque" /\ closing /\ wpc \in {"publish", "source", "bump"} => count + 1 \in holds
  /\ mode # "torque" /\ closing /\ wpc \in {"restore", "clear"} => count \in holds

\* The newest command was given up, is no hold and is of this entry.
Dead == stopped = last_seen /\ count = last_seen /\ stopped > entered /\ stopped \notin holds

Alive(S) == \A n \in S : n > stopped \/ n \in holds

\* While the newest command is one that was given up, its session is open, or
\* its close has not completed the hold yet, and the watchdog still stale: no
\* cycle that gets as far as the source runs, unless frozen.
DeadInv ==
  /\ stopped <= last_seen
  /\ rpc = "entering" => stopped <= entered
  /\ Held /\ Dead /\ mode # "torque" =>
       /\ timeout > 0 /\ stale_s >= timeout
       /\ session # "closed" \/ (closing /\ wpc \in {"publish", "source", "bump"})
  /\ rpc = "source" /\ ~frozen => ~Dead

AliveInv ==
  /\ mode # "torque" /\ rpc = "index" => Alive(Newest(src))
  /\ mode # "torque" /\ rpc = "copy" => Alive(buf[src][slot])
  /\ rpc = "solve" => Alive(copied["cartesian"])

StaleInv == ClosingInv /\ DeadInv /\ AliveInv /\ StaleStaysHeld

\* Every step keeps the close in progress and its hold as they should be.
LEMMA ClosingStep ==
  ASSUME NoDefault, ModeTypeOK, ClosingInv, [ModeNext]_modeVars
  PROVE  ClosingInv'
<1> USE ModeAssumption DEF ModeAssumption, ModeTypeOK, WatchdogType, Newest, Held, NoDefault
<1>a. "joint" \in Kind /\ "cartesian" \in Kind /\ Kind \subseteq {"joint", "cartesian"} /\ "entry" \notin Kind
  BY DEF Kind
<1>b. Command \subseteq Nat
  BY DEF Command
<1> USE <1>a, <1>b
<1>1. ASSUME NEW k \in Kind, NEW t \in Timeouts, Open(k, t) PROVE ClosingInv'
  BY <1>1 DEF Open, Arm, shared, reader, history, ClosingInv
<1>2. ASSUME Setpoint PROVE ClosingInv'
  BY <1>2 DEF Setpoint, Fill, watchdog, reader, history, ClosingInv
<1>3. ASSUME Track PROVE ClosingInv'
  BY <1>3 DEF Track, Fill, watchdog, reader, history, ClosingInv
<1>4. ASSUME Close PROVE ClosingInv'
  BY <1>4 DEF Close, Fill, watchdog, reader, ClosingInv
<1>5. ASSUME Publish PROVE ClosingInv'
  BY <1>5 DEF Publish, watchdog, reader, history, Sourced, ClosingInv
<1>6. ASSUME NameSource PROVE ClosingInv'
  BY <1>6 DEF NameSource, watchdog, reader, history, ClosingInv
<1>7. ASSUME BumpLast PROVE ClosingInv'
  BY <1>7 DEF BumpLast, Bump, shared, reader, history, ClosingInv
<1>8. ASSUME Restore PROVE ClosingInv'
  BY <1>8 DEF Restore, Arm, shared, reader, history, ClosingInv
<1>9. ASSUME ClearIkFault PROVE ClosingInv'
  BY <1>9 DEF ClearIkFault, watchdog, shared, reader, history, ClosingInv
<1>10. ASSUME Enter PROVE ClosingInv'
  BY <1>10 DEF Enter, watchdog, writer, ClosingInv
<1>11. ASSUME EnterReset PROVE ClosingInv'
  BY <1>11 DEF EnterReset, Reset, shared, writer, reader, ClosingInv
<1>12. ASSUME Leave PROVE ClosingInv'
  BY <1>12 DEF Leave, watchdog, shared, writer, reader, history, ClosingInv
<1>13. ASSUME Cycle PROVE ClosingInv'
  BY <1>13 DEF Cycle, Tick, shared, writer, reader, ClosingInv
<1>14. ASSUME StaleCycle PROVE ClosingInv'
  BY <1>14 DEF StaleCycle, Frozen, Stale, watchdog, shared, writer, ClosingInv
<1>15. ASSUME LiveCycle PROVE ClosingInv'
  BY <1>15 DEF LiveCycle, Frozen, Stale, Sourced, watchdog, shared, writer, history, ClosingInv
<1>16. ASSUME LoadSource PROVE ClosingInv'
  BY <1>16 DEF LoadSource, watchdog, shared, writer, ClosingInv
<1>17. ASSUME LoadIndex PROVE ClosingInv'
  BY <1>17 DEF LoadIndex, watchdog, shared, writer, history, ClosingInv
<1>18. ASSUME Copy PROVE ClosingInv'
  BY <1>18 DEF Copy, watchdog, shared, writer, history, ClosingInv
<1>19. ASSUME NEW c \in BOOLEAN, Solve(c) PROVE ClosingInv'
  BY <1>19 DEF Solve, watchdog, shared, writer, history, ClosingInv
<1>20. ASSUME UNCHANGED modeVars PROVE ClosingInv'
  BY <1>20 DEF modeVars, watchdog, shared, writer, reader, history, ClosingInv
<1> QED
  BY <1>1, <1>2, <1>3, <1>4, <1>5, <1>6, <1>7, <1>8, <1>9, <1>10, <1>11,
     <1>12, <1>13, <1>14, <1>15, <1>16, <1>17, <1>18, <1>19, <1>20 DEF ModeNext, Write, Read

\* Every step keeps a command that was given up behind a stale watchdog or a close.
LEMMA DeadStep ==
  ASSUME NoDefault, ModeTypeOK, CycleInv, ClosingInv, DeadInv, [ModeNext]_modeVars
  PROVE  DeadInv'
<1> USE ModeAssumption DEF ModeAssumption, ModeTypeOK, WatchdogType, Newest, Held, NoDefault
<1>a. "joint" \in Kind /\ "cartesian" \in Kind /\ Kind \subseteq {"joint", "cartesian"} /\ "entry" \notin Kind
  BY DEF Kind
<1>b. Command \subseteq Nat
  BY DEF Command
<1> USE <1>a, <1>b
<1>1. ASSUME NEW k \in Kind, NEW t \in Timeouts, Open(k, t) PROVE DeadInv'
  BY <1>1 DEF Open, Arm, shared, reader, history, DeadInv, ClosingInv, CycleInv, Dead
<1>2. ASSUME Setpoint PROVE DeadInv'
  BY <1>2 DEF Setpoint, Fill, watchdog, reader, history, DeadInv, ClosingInv, CycleInv, Dead
<1>3. ASSUME Track PROVE DeadInv'
  BY <1>3 DEF Track, Fill, watchdog, reader, history, DeadInv, ClosingInv, CycleInv, Dead
<1>4. ASSUME Close PROVE DeadInv'
  BY <1>4 DEF Close, Fill, watchdog, reader, DeadInv, ClosingInv, CycleInv, Dead
<1>5. ASSUME Publish PROVE DeadInv'
  BY <1>5 DEF Publish, watchdog, reader, history, Sourced, DeadInv, ClosingInv, CycleInv, Dead
<1>6. ASSUME NameSource PROVE DeadInv'
  BY <1>6 DEF NameSource, watchdog, reader, history, DeadInv, ClosingInv, CycleInv, Dead
<1>7. ASSUME BumpLast PROVE DeadInv'
  BY <1>7 DEF BumpLast, Bump, shared, reader, history, DeadInv, ClosingInv, CycleInv, Dead
<1>8. ASSUME Restore PROVE DeadInv'
  BY <1>8 DEF Restore, Arm, shared, reader, history, DeadInv, ClosingInv, CycleInv, Dead
<1>9. ASSUME ClearIkFault PROVE DeadInv'
  BY <1>9 DEF ClearIkFault, watchdog, shared, reader, history, DeadInv, ClosingInv, CycleInv, Dead
<1>10. ASSUME Enter PROVE DeadInv'
  BY <1>10 DEF Enter, watchdog, writer, DeadInv, ClosingInv, CycleInv, Dead
<1>11. ASSUME EnterReset PROVE DeadInv'
  BY <1>11 DEF EnterReset, Reset, shared, writer, reader, DeadInv, ClosingInv, CycleInv, Dead
<1>12. ASSUME Leave PROVE DeadInv'
  BY <1>12 DEF Leave, watchdog, shared, writer, reader, history, DeadInv, ClosingInv, CycleInv, Dead
<1>13. ASSUME Cycle PROVE DeadInv'
  BY <1>13 DEF Cycle, Tick, shared, writer, reader, DeadInv, ClosingInv, CycleInv, Dead
<1>14. ASSUME StaleCycle PROVE DeadInv'
  <2>1. /\ UNCHANGED <<count, last_seen, timeout, stale_s, mode, session, closing, wpc, entered, holds>>
        /\ rpc = "age" /\ rpc' \in {"cycle", "source"} /\ stopped' = last_seen
        /\ timeout > 0 /\ stale_s >= timeout
    BY <1>14 DEF StaleCycle, Stale, watchdog, writer
  <2>2. rpc' = "source" => frozen'
    BY <1>14 DEF StaleCycle, Frozen, Stale
  <2>3. mode # "torque" => \/ session # "closed"
                           \/ closing /\ wpc \in {"publish", "source", "bump"}
                           \/ count \in holds
    BY <2>1 DEF ClosingInv
  <2>4. (rpc = "source" /\ ~frozen => ~Dead)'
    BY <2>2
  <2>5. (Held /\ Dead /\ mode # "torque" =>
          /\ timeout > 0 /\ stale_s >= timeout
          /\ session # "closed" \/ (closing /\ wpc \in {"publish", "source", "bump"}))'
    BY <2>1, <2>3 DEF Dead
  <2>6. (stopped <= last_seen /\ (rpc = "entering" => stopped <= entered))'
    BY <2>1
  <2> QED BY <2>4, <2>5, <2>6 DEF DeadInv
<1>15. ASSUME LiveCycle PROVE DeadInv'
  BY <1>15 DEF LiveCycle, Frozen, Stale, Sourced, watchdog, shared, writer, history, DeadInv, ClosingInv, CycleInv, Dead
<1>16. ASSUME LoadSource PROVE DeadInv'
  BY <1>16 DEF LoadSource, watchdog, shared, writer, DeadInv, ClosingInv, CycleInv, Dead
<1>17. ASSUME LoadIndex PROVE DeadInv'
  BY <1>17 DEF LoadIndex, watchdog, shared, writer, history, DeadInv, ClosingInv, CycleInv, Dead
<1>18. ASSUME Copy PROVE DeadInv'
  BY <1>18 DEF Copy, watchdog, shared, writer, history, DeadInv, ClosingInv, CycleInv, Dead
<1>19. ASSUME NEW c \in BOOLEAN, Solve(c) PROVE DeadInv'
  BY <1>19 DEF Solve, watchdog, shared, writer, history, DeadInv, ClosingInv, CycleInv, Dead
<1>20. ASSUME UNCHANGED modeVars PROVE DeadInv'
  BY <1>20 DEF modeVars, watchdog, shared, writer, reader, history, DeadInv, ClosingInv, CycleInv, Dead
<1> QED
  BY <1>1, <1>2, <1>3, <1>4, <1>5, <1>6, <1>7, <1>8, <1>9, <1>10, <1>11,
     <1>12, <1>13, <1>14, <1>15, <1>16, <1>17, <1>18, <1>19, <1>20 DEF ModeNext, Write, Read

\* Every step keeps what a cycle is about to use alive.
LEMMA AliveStep ==
  ASSUME NoDefault, ModeTypeOK, FollowInv, DeadInv, AliveInv, [ModeNext]_modeVars
  PROVE  AliveInv'
<1> USE ModeAssumption DEF ModeAssumption, ModeTypeOK, WatchdogType, Newest, Held, NoDefault
<1>a. "joint" \in Kind /\ "cartesian" \in Kind /\ Kind \subseteq {"joint", "cartesian"} /\ "entry" \notin Kind
  BY DEF Kind
<1>b. Command \subseteq Nat
  BY DEF Command
<1> USE <1>a, <1>b
<1>1. ASSUME NEW k \in Kind, NEW t \in Timeouts, Open(k, t) PROVE AliveInv'
  BY <1>1 DEF Open, Arm, shared, reader, history, AliveInv, Alive, DeadInv, Dead, WriterInv, CycleInv, FollowInv
<1>2. ASSUME Setpoint PROVE AliveInv'
  BY <1>2 DEF Setpoint, Fill, watchdog, reader, history, AliveInv, Alive, DeadInv, Dead, WriterInv, CycleInv, FollowInv
<1>3. ASSUME Track PROVE AliveInv'
  BY <1>3 DEF Track, Fill, watchdog, reader, history, AliveInv, Alive, DeadInv, Dead, WriterInv, CycleInv, FollowInv
<1>4. ASSUME Close PROVE AliveInv'
  <2>1. /\ UNCHANGED <<mode, active, rpc, src, slot, copied, stopped, count>>
        /\ holds \subseteq holds'
    BY <1>4 DEF Close, reader, watchdog
  <2>2. CASE mode = "torque"
    BY <2>1, <2>2 DEF AliveInv, CycleInv, FollowInv
  <2>3. CASE mode # "torque"
    <3>1. buf' = [buf EXCEPT !["joint"][1 - active["joint"]] = @ \cup {count + 1}]
      BY <1>4, <2>3 DEF Close, Fill
    <3> QED BY <2>1, <2>3, <3>1 DEF AliveInv, Alive, DeadInv
  <2> QED BY <2>2, <2>3
<1>5. ASSUME Publish PROVE AliveInv'
  BY <1>5 DEF Publish, watchdog, reader, history, Sourced, AliveInv, Alive, DeadInv, Dead, WriterInv, CycleInv, FollowInv
<1>6. ASSUME NameSource PROVE AliveInv'
  BY <1>6 DEF NameSource, watchdog, reader, history, AliveInv, Alive, DeadInv, Dead, WriterInv, CycleInv, FollowInv
<1>7. ASSUME BumpLast PROVE AliveInv'
  BY <1>7 DEF BumpLast, Bump, shared, reader, history, AliveInv, Alive, DeadInv, Dead, WriterInv, CycleInv, FollowInv
<1>8. ASSUME Restore PROVE AliveInv'
  BY <1>8 DEF Restore, Arm, shared, reader, history, AliveInv, Alive, DeadInv, Dead, WriterInv, CycleInv, FollowInv
<1>9. ASSUME ClearIkFault PROVE AliveInv'
  BY <1>9 DEF ClearIkFault, watchdog, shared, reader, history, AliveInv, Alive, DeadInv, Dead, WriterInv, CycleInv, FollowInv
<1>10. ASSUME Enter PROVE AliveInv'
  BY <1>10 DEF Enter, watchdog, writer, AliveInv, Alive, DeadInv, Dead, WriterInv, CycleInv, FollowInv
<1>11. ASSUME EnterReset PROVE AliveInv'
  BY <1>11 DEF EnterReset, Reset, shared, writer, reader, AliveInv, Alive, DeadInv, Dead, WriterInv, CycleInv, FollowInv
<1>12. ASSUME Leave PROVE AliveInv'
  BY <1>12 DEF Leave, watchdog, shared, writer, reader, history, AliveInv, Alive, DeadInv, Dead, WriterInv, CycleInv, FollowInv
<1>13. ASSUME Cycle PROVE AliveInv'
  BY <1>13 DEF Cycle, Tick, shared, writer, reader, AliveInv, Alive, DeadInv, Dead, WriterInv, CycleInv, FollowInv
<1>14. ASSUME StaleCycle PROVE AliveInv'
  BY <1>14 DEF StaleCycle, Frozen, Stale, watchdog, shared, writer, AliveInv, Alive, DeadInv, Dead, WriterInv, CycleInv, FollowInv
<1>15. ASSUME LiveCycle PROVE AliveInv'
  BY <1>15 DEF LiveCycle, Frozen, Stale, Sourced, watchdog, shared, writer, history, AliveInv, Alive, DeadInv, Dead, WriterInv, CycleInv, FollowInv
<1>16. ASSUME LoadSource PROVE AliveInv'
  BY <1>16 DEF LoadSource, watchdog, shared, writer, AliveInv, Alive, DeadInv, Dead, WriterInv, CycleInv, FollowInv
<1>17. ASSUME LoadIndex PROVE AliveInv'
  BY <1>17 DEF LoadIndex, watchdog, shared, writer, history, AliveInv, Alive, DeadInv, Dead, WriterInv, CycleInv, FollowInv
<1>18. ASSUME Copy PROVE AliveInv'
  BY <1>18 DEF Copy, watchdog, shared, writer, history, AliveInv, Alive, DeadInv, Dead, WriterInv, CycleInv, FollowInv
<1>19. ASSUME NEW c \in BOOLEAN, Solve(c) PROVE AliveInv'
  BY <1>19 DEF Solve, watchdog, shared, writer, history, AliveInv, Alive, DeadInv, Dead, WriterInv, CycleInv, FollowInv
<1>20. ASSUME UNCHANGED modeVars PROVE AliveInv'
  BY <1>20 DEF modeVars, watchdog, shared, writer, reader, history, AliveInv, Alive, DeadInv, Dead, WriterInv, CycleInv, FollowInv
<1> QED
  BY <1>1, <1>2, <1>3, <1>4, <1>5, <1>6, <1>7, <1>8, <1>9, <1>10, <1>11,
     <1>12, <1>13, <1>14, <1>15, <1>16, <1>17, <1>18, <1>19, <1>20 DEF ModeNext, Write, Read

\* No cycle follows a command from before its stop, whatever the step.
LEMMA StaleHeldStep ==
  ASSUME NoDefault, ModeTypeOK, FollowInv, DeadInv, AliveInv, StaleStaysHeld, [ModeNext]_modeVars
  PROVE  StaleStaysHeld'
<1> USE ModeAssumption DEF ModeAssumption, ModeTypeOK, WatchdogType, Newest, Held, StaleStaysHeld, StoppedForGood
<1>a. "joint" \in Kind /\ "cartesian" \in Kind /\ Kind \subseteq {"joint", "cartesian"} /\ "entry" \notin Kind
  BY DEF Kind
<1>b. Command \subseteq Nat
  BY DEF Command
<1> USE <1>a, <1>b
<1>1. ASSUME NEW k \in Kind, NEW t \in Timeouts, Open(k, t) PROVE StaleStaysHeld'
  BY <1>1 DEF Open, reader, history
<1>2. ASSUME Setpoint PROVE StaleStaysHeld'
  BY <1>2 DEF Setpoint, Fill, reader, history
<1>3. ASSUME Track PROVE StaleStaysHeld'
  BY <1>3 DEF Track, Fill, reader, history
<1>4. ASSUME Close PROVE StaleStaysHeld'
  BY <1>4 DEF Close, Fill, reader
<1>5. ASSUME Publish PROVE StaleStaysHeld'
  BY <1>5 DEF Publish, reader, history
<1>6. ASSUME NameSource PROVE StaleStaysHeld'
  BY <1>6 DEF NameSource, reader, history
<1>7. ASSUME BumpLast PROVE StaleStaysHeld'
  BY <1>7 DEF BumpLast, reader, history
<1>8. ASSUME Restore PROVE StaleStaysHeld'
  BY <1>8 DEF Restore, reader, history
<1>9. ASSUME ClearIkFault PROVE StaleStaysHeld'
  BY <1>9 DEF ClearIkFault, reader, history
<1>10. ASSUME Enter PROVE StaleStaysHeld'
  BY <1>10 DEF Enter, writer
<1>11. ASSUME EnterReset PROVE StaleStaysHeld'
  BY <1>11 DEF EnterReset, writer, reader
<1>12. ASSUME Leave PROVE StaleStaysHeld'
  BY <1>12 DEF Leave, writer, reader, history
<1>13. ASSUME Cycle PROVE StaleStaysHeld'
  BY <1>13 DEF Cycle, writer, reader
<1>14. ASSUME StaleCycle PROVE StaleStaysHeld'
  BY <1>14 DEF StaleCycle, writer
<1>15. ASSUME LiveCycle PROVE StaleStaysHeld'
  BY <1>15 DEF LiveCycle, Frozen, Sourced, writer, history
<1>16. ASSUME LoadSource PROVE StaleStaysHeld'
  <2>1. /\ UNCHANGED <<mode, count, last_seen, stopped, holds>>
        /\ rpc = "source" /\ stopped <= last_seen
    BY <1>16 DEF LoadSource, watchdog, DeadInv
  <2>2. rpc' = "cycle" => \/ follow' = {}
                          \/ /\ mode = "velocity" /\ ~fresh /\ ~frozen /\ source # "entry"
                             /\ follow' = copied[source]
    BY <1>16 DEF LoadSource
  <2>3. early' \/ (~(count > last_seen) /\ wpc # "bump")
    BY <1>16, Zenon DEF LoadSource
  <2>4. ASSUME rpc' = "cycle", mode # "torque", ~(mode = "velocity" /\ early'), NEW n \in follow'
        PROVE  n > stopped \/ n \in holds
    <3>1. /\ mode = "velocity" /\ ~fresh /\ ~frozen /\ source # "entry" /\ n \in copied[source]
          /\ ~(count > last_seen) /\ wpc # "bump"
      BY <2>2, <2>3, <2>4, Zenon
    <3>2. source \in Kind /\ count = last_seen /\ n \in Nat
      BY <3>1
    <3>3. n > entered /\ n >= last_seen
      BY <2>1, <3>1, <3>2 DEF CopyInv, FollowInv
    <3>4. ~Dead
      BY <2>1, <3>1, Zenon DEF DeadInv
    <3> QED BY <2>1, <3>2, <3>3, <3>4 DEF Dead
  <2> QED BY <2>1, <2>4
<1>17. ASSUME LoadIndex PROVE StaleStaysHeld'
  BY <1>17 DEF LoadIndex, writer, history
<1>18. ASSUME Copy PROVE StaleStaysHeld'
  BY <1>18 DEF Copy, writer, history, AliveInv, Alive
<1>19. ASSUME NEW c \in BOOLEAN, Solve(c) PROVE StaleStaysHeld'
  BY <1>19 DEF Solve, writer, history, AliveInv, Alive
<1>20. ASSUME UNCHANGED modeVars PROVE StaleStaysHeld'
  BY <1>20 DEF modeVars, writer, reader, history
<1> QED
  BY <1>1, <1>2, <1>3, <1>4, <1>5, <1>6, <1>7, <1>8, <1>9, <1>10, <1>11,
     <1>12, <1>13, <1>14, <1>15, <1>16, <1>17, <1>18, <1>19, <1>20 DEF ModeNext, Write, Read

\* Nothing is stale at first.
LEMMA StaleInit == ASSUME NoDefault, ModeInit PROVE StaleInv
<1>1. mode \in Modes /\ timeout = Default[mode] /\ count = 0 /\ last_seen = 0 /\ stopped = 0
  BY DEF ModeInit, WatchdogInit
<1>2. rpc = "out" /\ closing = FALSE /\ wpc = "idle" /\ entered = 0
  BY DEF ModeInit
<1>3. mode # "torque" => timeout = 0
  BY <1>1 DEF NoDefault
<1> QED
  BY <1>1, <1>2, <1>3 DEF StaleInv, ClosingInv, DeadInv, AliveInv, StaleStaysHeld, StoppedForGood, Held

\* In the modes that hold or latch, a setpoint that a stale cycle gave up is not
\* followed again: the close writes its hold before it restores the timeout, and
\* no cycle between them, however its loads are spread over the close, gets to
\* the old setpoint.
THEOREM StaleHeld == ASSUME NoDefault PROVE ModeSpec => []StaleStaysHeld
<1>1. ModeInit => ModeTypeOK /\ FollowInv /\ StaleInv
  BY TypeInit, FollowInit, StaleInit
<1>2. ModeTypeOK /\ FollowInv /\ StaleInv /\ [ModeNext]_modeVars => (ModeTypeOK /\ FollowInv /\ StaleInv)'
  BY TypeStep, FollowStep, ClosingStep, DeadStep, AliveStep, StaleHeldStep DEF StaleInv, FollowInv
<1>3. StaleInv => StaleStaysHeld
  BY DEF StaleInv
<1> QED
  BY <1>1, <1>2, <1>3, PTL DEF ModeSpec
=============================================================================
