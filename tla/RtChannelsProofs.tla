-------------------------- MODULE RtChannelsProofs ---------------------------
(* What the RT thread shares, for every way to cut a value or a command into   *)
(* parts, every number of readers and tries, and every bound of RtChannels:    *)
(* the seqlock of feedback_tap.h is an atomic register, alone and under the    *)
(* pump; the pump publishes nothing stale; the gripper's wire moves forward;   *)
(* the sample ring loses nothing it does not count, and what the sink reports  *)
(* of it is true, to the percentiles.                                          *)
EXTENDS RtChannels, FiniteSetTheorems, WellFoundedInduction, TLAPS

(* Parity of the sequence number, for the steps that move it. *)
LEMMA Parity ==
    ASSUME NEW n \in Nat
    PROVE  /\ n % 2 \in {0, 1} /\ n \div 2 \in Nat
           /\ n % 2 # 1 => (n + 1) % 2 = 1 /\ (n + 1) \div 2 = n \div 2
           /\ n % 2 = 1 => (n + 1) % 2 # 1 /\ (n + 1) \div 2 = (n \div 2) + 1
  BY SMT

(* Between two stores every part holds the last one; within a store the parts *)
(* copied so far hold the new one; and a copy whose sequence number has not   *)
(* moved holds the last one in every part it copied.                          *)
Quiet(r) == load[r].at = "copy" =>
    /\ load[r].s <= seq /\ load[r].s % 2 # 1
    /\ load[r].s = seq => \A p \in Parts \ load[r].left : load[r].out[p] = Stored
Inv ==
    /\ SeqlockTypeOK
    /\ ~Odd => left = {} /\ \A p \in Parts : data[p] = Stored
    /\ Odd => \A p \in Parts \ left : data[p] = (seq + 1) \div 2
    /\ \A r \in Readers : Quiet(r)

\* It holds before the first store.
LEMMA InitInv == SeqlockInit => Inv
  BY TriesAssumption DEF SeqlockInit, Inv, SeqlockTypeOK, Quiet, LoadStates, Idle, Locals, Whole, Odd, Stored

(* A step of the writer keeps it. *)
LEMMA StoreInv == ASSUME Inv, Store PROVE Inv'
<1>0. seq \in Nat /\ data \in [Parts -> Nat] /\ left \in SUBSET Parts
    /\ load \in [Readers -> LoadStates] /\ got \in [Readers -> [Parts -> Nat]]
  BY DEF Inv, SeqlockTypeOK
<1>p. /\ seq % 2 \in {0, 1} /\ seq \div 2 \in Nat
      /\ seq % 2 # 1 => (seq + 1) % 2 = 1 /\ (seq + 1) \div 2 = seq \div 2
      /\ seq % 2 = 1 => (seq + 1) % 2 # 1 /\ (seq + 1) \div 2 = (seq \div 2) + 1
  BY <1>0, Parity
<1>1. CASE StoreBegin
  <2>1. SeqlockTypeOK' BY <1>0, <1>1 DEF StoreBegin, SeqlockTypeOK, LoadStates
  <2>2. Odd' BY <1>1, <1>p DEF StoreBegin, Odd
  <2>3. left' = Parts BY <1>1 DEF StoreBegin
  <2>4. ASSUME NEW r \in Readers PROVE Quiet(r)'
    BY <1>0, <1>1, <1>p DEF StoreBegin, Quiet, Inv, LoadStates
  <2> QED BY <2>1, <2>2, <2>3, <2>4 DEF Inv
<1>2. ASSUME NEW p \in Parts, StorePart(p) PROVE Inv'
  <2>0. seq' = seq /\ load' = load /\ got' = got /\ left' = left \ {p}
      /\ data' = [data EXCEPT ![p] = (seq + 1) \div 2] /\ seq % 2 = 1
    BY <1>2 DEF StorePart, Odd
  <2>1. SeqlockTypeOK'
    <3>1. (seq + 1) \div 2 \in Nat BY <1>0, <1>p, <2>0
    <3> QED BY <1>0, <2>0, <3>1 DEF SeqlockTypeOK
  <2>2. Odd' /\ ~(~Odd)' BY <2>0 DEF Odd
  <2>3. \A q \in Parts \ left' : data'[q] = (seq' + 1) \div 2
    BY <1>0, <2>0 DEF Inv, Odd
  <2>4. ASSUME NEW r \in Readers PROVE Quiet(r)'
    BY <1>0, <2>0 DEF Quiet, Inv, Stored
  <2> QED BY <2>1, <2>2, <2>3, <2>4 DEF Inv
<1>3. CASE StoreEnd
  <2>0. seq' = seq + 1 /\ data' = data /\ left' = left /\ load' = load /\ got' = got
      /\ left = {} /\ seq % 2 = 1
    BY <1>3 DEF StoreEnd, Odd
  <2>1. SeqlockTypeOK' BY <1>0, <2>0 DEF SeqlockTypeOK
  <2>2. ~Odd' BY <1>p, <2>0 DEF Odd
  <2>3. \A q \in Parts : data'[q] = Stored' BY <2>0 DEF Inv, Odd, Stored
  <2>4. ASSUME NEW r \in Readers PROVE Quiet(r)'
    <3>1. load[r].at = "copy" => load[r].s \in Nat /\ load[r].s <= seq /\ load[r].s % 2 # 1
      BY <1>0 DEF Quiet, Inv, LoadStates
    <3>2. load[r].at = "copy" => load[r].s <= seq + 1 /\ load[r].s # seq + 1 BY <1>0, <3>1
    <3> QED BY <2>0, <3>1, <3>2 DEF Quiet
  <2> QED BY <2>0, <2>1, <2>2, <2>3, <2>4 DEF Inv
<1> QED BY <1>1, <1>2, <1>3 DEF Store

(* A step of a reader keeps it: it moves nothing shared, and a copy takes the *)
(* parts as they are.                                                         *)
LEMMA LoadInv == ASSUME Inv, NEW r \in Readers, LoadBegin(r) \/ LoadStep(r) PROVE Inv'
<1>0. seq \in Nat /\ data \in [Parts -> Nat] /\ left \in SUBSET Parts
    /\ load \in [Readers -> LoadStates] /\ got \in [Readers -> [Parts -> Nat]]
  BY DEF Inv, SeqlockTypeOK
<1>1. seq' = seq /\ data' = data /\ left' = left
  BY DEF LoadBegin, LoadStep, LoadSeq, LoadPart, LoadTrue, LoadAgain, sharedVars
<1>i. /\ Whole(0) \in [Parts -> Nat] /\ Idle.at = "idle"
      /\ \A at \in {"idle", "seq"}, t \in 0..MaxTries - 1 : Locals(at, t) \in LoadStates
      /\ \A t : Locals("seq", t).at = "seq"
  BY DEF Idle, Locals, LoadStates, Whole
<1>t. Idle \in LoadStates /\ Locals("seq", 0) \in LoadStates
  BY <1>i, TriesAssumption DEF Idle
<1>2. ASSUME Retry(r) PROVE load' \in [Readers -> LoadStates] /\ load'[r].at # "copy"
                         /\ \A q \in Readers : q # r => load'[q] = load[q]
  <2>1. load[r].tries \in 0..MaxTries - 1 BY <1>0 DEF LoadStates
  <2>2. load[r].tries + 1 # MaxTries => Locals("seq", load[r].tries + 1) \in LoadStates
    <3>1. load[r].tries + 1 # MaxTries => load[r].tries + 1 \in 0..MaxTries - 1
      BY <2>1, TriesAssumption
    <3> QED BY <3>1, <1>i
  <2> QED BY <1>0, <1>2, <1>i, <1>t, <2>2 DEF Retry
<1>3. /\ load' \in [Readers -> LoadStates] /\ got' \in [Readers -> [Parts -> Nat]]
      /\ \A q \in Readers : q # r => load'[q] = load[q]
      /\ Quiet(r)'
  <2>1. CASE LoadBegin(r)
    <3>1. load' = [load EXCEPT ![r] = Locals("seq", 0)] /\ got' = got
      BY <2>1 DEF LoadBegin
    <3> QED BY <1>0, <1>i, <1>t, <3>1 DEF Quiet
  <2>2. CASE LoadSeq(r) /\ Retry(r)
    BY <1>0, <1>2, <2>2 DEF LoadSeq, Quiet
  <2>3. CASE LoadSeq(r) /\ ~Retry(r)
    <3>1. load' = [load EXCEPT ![r].at = "copy", ![r].s = seq, ![r].left = Parts]
        /\ got' = got /\ seq % 2 # 1
      BY <2>3 DEF LoadSeq, Odd
    <3>2. load[r] \in LoadStates BY <1>0
    <3>3. load'[r].at = "copy" /\ load'[r].s = seq /\ load'[r].left = Parts
        /\ load'[r] \in LoadStates
      BY <1>0, <3>1, <3>2 DEF LoadStates
    <3>4. Quiet(r)' BY <1>0, <1>1, <3>1, <3>3 DEF Quiet
    <3> QED BY <1>0, <3>1, <3>3, <3>4
  <2>4. ASSUME NEW p \in Parts, LoadPart(r, p)
        PROVE  /\ load' \in [Readers -> LoadStates] /\ got' \in [Readers -> [Parts -> Nat]]
               /\ \A q \in Readers : q # r => load'[q] = load[q]
               /\ Quiet(r)'
    <3>1. load' = [load EXCEPT ![r].out[p] = data[p], ![r].left = @ \ {p}]
        /\ got' = got /\ load[r].at = "copy"
      BY <2>4 DEF LoadPart
    <3>2. load[r] \in LoadStates /\ data[p] \in Nat BY <1>0
    <3>3. /\ load'[r].at = "copy" /\ load'[r].s = load[r].s
          /\ load'[r].left = load[r].left \ {p}
          /\ load'[r].out = [load[r].out EXCEPT ![p] = data[p]]
          /\ load'[r] \in LoadStates
      BY <1>0, <3>1, <3>2 DEF LoadStates
    <3>4. /\ load[r].s <= seq /\ load[r].s % 2 # 1
          /\ load[r].s = seq => \A q \in Parts \ load[r].left : load[r].out[q] = Stored
      BY <3>1 DEF Inv, Quiet
    <3>5. load[r].s = seq => data[p] = Stored BY <3>4 DEF Inv, Odd
    <3>6. load[r].out \in [Parts -> Nat] BY <3>2 DEF LoadStates
    <3>7. Quiet(r)'
      BY <1>1, <3>3, <3>4, <3>5, <3>6 DEF Quiet, Stored
    <3> QED BY <1>0, <3>1, <3>3, <3>7
  <2>5. CASE LoadTrue(r)
    <3>1. load' = [load EXCEPT ![r] = Idle] /\ got' = [got EXCEPT ![r] = load[r].out]
      BY <2>5 DEF LoadTrue
    <3>2. load[r].out \in [Parts -> Nat] BY <1>0 DEF LoadStates
    <3> QED BY <1>0, <1>i, <1>t, <3>1, <3>2 DEF Quiet
  <2>6. CASE LoadAgain(r)
    BY <1>0, <1>2, <2>6 DEF LoadAgain, Quiet
  <2> QED BY <2>1, <2>2, <2>3, <2>4, <2>5, <2>6 DEF LoadStep
<1>4. SeqlockTypeOK' BY <1>0, <1>1, <1>3 DEF SeqlockTypeOK
<1>5. ASSUME NEW q \in Readers PROVE Quiet(q)'
  BY <1>1, <1>3 DEF Quiet, Inv, Stored
<1> QED BY <1>1, <1>4, <1>5 DEF Inv, Odd, Stored

\* It holds in every reachable state, for any number of parts and readers.
THEOREM SeqlockInvariant == SeqlockSpec => []Inv
<1>1. Inv /\ [SeqlockNext]_seqlockVars => Inv'
  <2> SUFFICES ASSUME Inv, [SeqlockNext]_seqlockVars PROVE Inv' OBVIOUS
  <2>1. CASE Store BY <2>1, StoreInv
  <2>2. ASSUME NEW r \in Readers, LoadBegin(r) \/ LoadStep(r) PROVE Inv' BY <2>2, LoadInv
  <2>3. CASE UNCHANGED seqlockVars
    BY <2>3 DEF seqlockVars, Inv, SeqlockTypeOK, Quiet, Odd, Stored
  <2> QED BY <2>1, <2>2, <2>3 DEF SeqlockNext
<1> QED BY <1>1, InitInv, PTL DEF SeqlockSpec

(* Every load() that returns true returns the whole value that was stored     *)
(* last when it returned (feedback_tap.h:35-45).                              *)
THEOREM SeqlockIsRegister == SeqlockSpec => SnapshotIsAtomic
<1>1. SeqlockInit => Latest!Init
  BY DEF SeqlockInit, Latest!Init, Whole, Stored
<1>2. Inv /\ Inv' /\ [SeqlockNext]_seqlockVars => [Latest!Next]_<<Whole(Stored), got>>
  <2> SUFFICES ASSUME Inv, Inv', [SeqlockNext]_seqlockVars
               PROVE  [Latest!Next]_<<Whole(Stored), got>>
    OBVIOUS
  <2>0. seq \in Nat /\ seq' \in Nat /\ load \in [Readers -> LoadStates]
    BY DEF Inv, SeqlockTypeOK
  <2>1. CASE StoreBegin
    <3>1. Stored' = Stored /\ got' = got BY <2>0, <2>1, Parity DEF StoreBegin, Stored, Odd
    <3> QED BY <3>1 DEF Whole
  <2>2. ASSUME NEW p \in Parts, StorePart(p) PROVE UNCHANGED <<Whole(Stored), got>>
    BY <2>2 DEF StorePart, Whole, Stored
  <2>3. CASE StoreEnd
    <3>1. Stored' \in Nat BY <2>0, Parity DEF Stored
    <3>2. Whole(Stored)' \in [Parts -> Nat] /\ got' = got BY <2>3, <3>1 DEF StoreEnd, Whole
    <3> QED BY <3>2 DEF Latest!Next, Latest!Write
  <2>4. ASSUME NEW r \in Readers, LoadBegin(r) \/ LoadStep(r)
        PROVE  [Latest!Next]_<<Whole(Stored), got>>
    <3>1. CASE LoadTrue(r)
      <4>1. load[r].out = Whole(Stored)
        <5>1. load[r].out \in [Parts -> Nat] BY <2>0 DEF LoadStates
        <5>2. \A p \in Parts : load[r].out[p] = Stored
          BY <3>1 DEF Inv, Quiet, LoadTrue, CopyDone, Unmoved
        <5> QED BY <5>1, <5>2 DEF Whole
      <4>2. got' = [got EXCEPT ![r] = Whole(Stored)] /\ seq' = seq
        BY <3>1, <4>1 DEF LoadTrue, sharedVars
      <4>3. Whole(Stored)' = Whole(Stored) BY <4>2 DEF Whole, Stored
      <4>4. Latest!Read(r) BY <4>2, <4>3 DEF Latest!Read
      <4> QED BY <4>4 DEF Latest!Next
    <3>2. CASE ~LoadTrue(r)
      <4>1. seq' = seq /\ got' = got
        BY <2>4, <3>2 DEF LoadBegin, LoadStep, LoadSeq, LoadPart, LoadAgain, sharedVars
      <4> QED BY <4>1 DEF Whole, Stored
    <3> QED BY <3>1, <3>2
  <2>5. CASE UNCHANGED seqlockVars BY <2>5 DEF seqlockVars, Whole, Stored
  <2> QED BY <2>1, <2>2, <2>3, <2>4, <2>5 DEF SeqlockNext, Store
<1> QED BY <1>1, <1>2, SeqlockInvariant, PTL DEF SeqlockSpec, SnapshotIsAtomic, Latest!Spec
-----------------------------------------------------------------------------
(* The seqlock under the RT thread and the pump.                             *)

\* The pump is a reader.
LEMMA PumpReads == P \in Readers
  BY SnapshotAssumption DEF P

\* To the seqlock a step of the threads is a step of its own or none.
LEMMA SeqlockMoves == ASSUME [ThreadsNext]_threadVars PROVE [SeqlockNext]_seqlockVars
<1>1. CASE RtThread
  <2>1. CASE StoreSnapshot
    BY <2>1 DEF StoreSnapshot, SeqlockNext, Store
  <2>2. CASE ~StoreSnapshot
    BY <1>1, <2>2 DEF RtThread, StartCycle, StampRest, Exchange, Poll, StoreStatus, PushSample, PushRest, Reenter
  <2> QED BY <2>1, <2>2
<1>2. CASE PumpThread
  <2>1. CASE PumpLook \/ PumpPublish
    BY <2>1 DEF PumpLook, PumpPublish
  <2>2. CASE PumpVersion
    BY <2>2, PumpReads DEF PumpVersion, SeqlockNext
  <2>3. CASE PumpLoad
    BY <2>3, PumpReads DEF PumpLoad, SeqlockNext
  <2> QED BY <1>2, <2>1, <2>2, <2>3 DEF PumpThread
<1>3. CASE DrainThread \/ SetterThread \/ UNCHANGED threadVars
  BY <1>3 DEF DrainThread, SetterThread, threadVars
<1> QED BY <1>1, <1>2, <1>3 DEF ThreadsNext

\* The composition runs the seqlock as it is specified.
LEMMA RunsSeqlock == ThreadsSpec => SeqlockSpec
<1>1. ThreadsInit => SeqlockInit
  BY DEF ThreadsInit
<1>2. [ThreadsNext]_threadVars => [SeqlockNext]_seqlockVars
  BY SeqlockMoves
<1> QED BY <1>1, <1>2, PTL DEF ThreadsSpec, SeqlockSpec

(* The snapshot the pump takes is whole and the last one stored, whatever the *)
(* cycle, the poll and the pump do to one another (SnapshotIsAtomic).         *)
THEOREM SnapshotsAreAtomic == ThreadsSpec => SnapshotIsAtomic
  BY RunsSeqlock, SeqlockIsRegister, PTL
-----------------------------------------------------------------------------
(* The gripper's line.                                                       *)

GripTypes ==
    /\ calls \in Nat /\ gripActive \in {0, 1} /\ stamping \in BOOLEAN
    /\ gripBuf \in [{0, 1} -> [Fields -> [cmd : Nat, clamped : BOOLEAN]]]
    /\ setter \in [at : {"idle", "clamp", "index", "flag"}, left : SUBSET Fields]
    /\ stamp \in [at : {"idle", "index", "copy"}, on : BOOLEAN, b : {0, 1}, left : SUBSET Fields,
                  out : [Fields -> [cmd : Nat, clamped : BOOLEAN]]]
    /\ lapped \in BOOLEAN /\ torn \in BOOLEAN

\* The command the active buffer holds.
Current == IF setter.at \in {"clamp", "index"} THEN calls - 1 ELSE calls

\* The active buffer is whole; the other is being filled by the setter alone.
BuffersInv ==
    /\ setter.at # "idle" => calls >= 1
    /\ gripBuf[gripActive] = GripCommand(Current)
    /\ setter.at = "clamp" =>
         \A f \in Fields \ setter.left : gripBuf[Next1][f] = [cmd |-> calls, clamped |-> TRUE]
    /\ setter.at = "clamp" => \A f \in Fields : gripBuf[Next1][f].cmd = calls
    /\ setter.at = "index" => gripBuf[Next1] = GripCommand(calls)
    /\ stamping => Current >= 1

\* The stamp under way copies command k, or has copied it, and k is not older than the wire.
Copies(k) ==
    /\ stamp.left # {} => gripBuf[stamp.b] = GripCommand(k)
    /\ \A f \in Fields \ stamp.left : stamp.out[f] = GripCommand(k)[f]
    /\ k <= Current
    /\ stamp.on => k >= 1
    /\ torn \/ NotAfter(wire, k)

\* A stamp under way copies one command, from a buffer nobody is filling, unless it is
\* lapped; lapped or not, when it is on it meets no field that no call asked for.
StampInv ==
    /\ stamp.at = "index" /\ stamp.on => Current >= 1
    /\ stamp.at = "copy" /\ stamp.on =>
         /\ \A f \in Fields : gripBuf[stamp.b][f].cmd \in 1..calls
         /\ \A f \in Fields \ stamp.left : stamp.out[f].cmd \in 1..calls
    /\ stamp.at = "copy" /\ ~lapped =>
         /\ stamp.b # gripActive /\ stamp.left # {} => setter.at \in {"idle", "flag"}
         /\ \E k \in Nat : Copies(k)

\* The wire holds nothing or a command no newer than the active one, unless it is torn.
WireInv ==
    ~torn => /\ wire = Silent \/ \E k \in 1..calls : wire = GripCommand(k)
             /\ NotAfter(wire, Current)

GripInv == GripTypes /\ BuffersInv /\ StampInv /\ WireInv

\* What a step of the threads is to the gripper's line.
GripMove ==
    \/ UNCHANGED gripVars
    \/ SetterStep
    \/ UNCHANGED setterVars /\ (StampFlag \/ StampIndex \/ \E f \in Fields : StampField(f))
    \/ UNCHANGED setterVars /\ (WriteCommand \/ ClearInterconnect)

\* There is no other.
LEMMA GripMoves == ASSUME [ThreadsNext]_threadVars PROVE GripMove
<1>1. CASE RtThread
  BY <1>1 DEF RtThread, StartCycle, StampRest, Exchange, Poll, StoreSnapshot, StoreStatus, PushSample,
              PushRest, Reenter, GripMove
<1>2. CASE PumpThread \/ DrainThread \/ UNCHANGED threadVars
  BY <1>2 DEF PumpThread, PumpLook, PumpVersion, PumpLoad, PumpPublish, DrainThread, threadVars, GripMove
<1>3. CASE SetterThread
  BY <1>3 DEF SetterThread, GripMove
<1> QED BY <1>1, <1>2, <1>3 DEF ThreadsNext

\* A command is a function of the fields.
LEMMA CommandType ==
    ASSUME NEW k \in Nat
    PROVE  /\ GripCommand(k) \in [Fields -> [cmd : Nat, clamped : BOOLEAN]]
           /\ Raw(k) \in [Fields -> [cmd : Nat, clamped : BOOLEAN]]
           /\ \A f \in Fields : GripCommand(k)[f] = [cmd |-> k, clamped |-> TRUE]
           /\ \A f \in Fields : Raw(k)[f] = [cmd |-> k, clamped |-> FALSE]
  BY DEF GripCommand, Raw

\* A function that agrees with a command on every field is that command.
LEMMA SameCommand ==
    ASSUME NEW k \in Nat, NEW c \in [Fields -> [cmd : Nat, clamped : BOOLEAN]],
           \A f \in Fields : c[f] = GripCommand(k)[f]
    PROVE  c = GripCommand(k)
  BY DEF GripCommand

\* The line before the first call.
LEMMA GripInit == ThreadsInit => GripInv
<1> SUFFICES ASSUME ThreadsInit PROVE GripInv OBVIOUS
<1>1. /\ gripBuf = [b \in {0, 1} |-> GripCommand(0)] /\ gripActive = 0 /\ stamping = FALSE /\ calls = 0
      /\ setter = [at |-> "idle", left |-> {}] /\ stamp = NoStamp /\ wire = Silent
      /\ lapped = FALSE /\ torn = FALSE
  BY DEF ThreadsInit, GripperInit, GripDefault
<1>2. GripCommand(0) \in [Fields -> [cmd : Nat, clamped : BOOLEAN]]
  BY CommandType
<1>3. GripTypes
  BY <1>1, <1>2 DEF GripTypes, NoStamp, GripDefault
<1>4. BuffersInv
  BY <1>1 DEF BuffersInv, Current
<1>5. StampInv
  BY <1>1 DEF StampInv, NoStamp
<1>6. WireInv
  BY <1>1 DEF WireInv, NotAfter, Silent
<1> QED BY <1>3, <1>4, <1>5, <1>6 DEF GripInv

\* What was not after a command is not after a later one.
LEMMA NotAfterLater ==
    ASSUME NEW n \in Nat, NEW k \in Int, NEW m \in Int, k <= m, NotAfter(wire, k),
           wire = Silent \/ \E j \in 1..n : wire = GripCommand(j)
    PROVE  NotAfter(wire, m)
<1>1. CASE wire = Silent
  BY <1>1 DEF NotAfter, Silent
<1>2. ASSUME NEW j \in 1..n, wire = GripCommand(j) PROVE NotAfter(wire, m)
  BY <1>2 DEF NotAfter, GripCommand
<1> QED BY <1>1, <1>2

\* A step of the setter leaves a stamp what it copies, unless it laps it, and the wire alone.
LEMMA SetterLeavesStamp ==
    ASSUME GripInv, UNCHANGED <<stamp, wire, torn>>, GripTypes', calls <= calls', Current <= Current',
           stamp.at = "copy" /\ stamp.on => \A f \in Fields : gripBuf'[stamp.b][f].cmd \in 1..calls',
           stamp.at = "copy" /\ ~lapped' =>
             /\ ~lapped
             /\ stamp.left # {} => /\ gripBuf'[stamp.b] = gripBuf[stamp.b]
                                   /\ stamp.b # gripActive' => setter'.at \in {"idle", "flag"}
    PROVE  StampInv' /\ WireInv'
<1>1. GripTypes /\ BuffersInv /\ StampInv /\ WireInv
  BY DEF GripInv
<1>2. calls \in Nat /\ calls' \in Nat /\ Current \in Int /\ Current' \in Int
      /\ stamp' = stamp /\ wire' = wire /\ torn' = torn
  BY <1>1 DEF GripTypes, Current
<1>3. stamp'.at = "index" /\ stamp'.on => Current' >= 1
  BY <1>1, <1>2 DEF StampInv
<1>4. stamp'.at = "copy" /\ stamp'.on =>
         /\ \A f \in Fields : gripBuf'[stamp'.b][f].cmd \in 1..calls'
         /\ \A f \in Fields \ stamp'.left : stamp'.out[f].cmd \in 1..calls'
  BY <1>1, <1>2 DEF StampInv
<1>5. ASSUME stamp.at = "copy", ~lapped' PROVE \E k \in Nat : Copies(k)'
  <2>1. PICK k \in Nat : Copies(k)
    BY <1>1, <1>5 DEF StampInv
  <2>2. Copies(k)'
    BY <1>2, <1>5, <2>1 DEF Copies, NotAfter
  <2> QED BY <2>2
<1>6. StampInv'
  BY <1>2, <1>3, <1>4, <1>5 DEF StampInv
<1>7. WireInv'
  <2>1. SUFFICES ASSUME ~torn PROVE /\ wire = Silent \/ \E k \in 1..calls' : wire = GripCommand(k)
                                    /\ NotAfter(wire, Current')
    BY <1>2, <2>1 DEF WireInv, NotAfter
  <2>2. wire = Silent \/ \E k \in 1..calls : wire = GripCommand(k)
    BY <1>1, <2>1 DEF WireInv
  <2>3. NotAfter(wire, Current')
    BY <1>1, <1>2, <2>1, <2>2, NotAfterLater DEF WireInv
  <2> QED BY <1>2, <2>2, <2>3
<1> QED BY <1>6, <1>7

\* A call begins: the other buffer gets the new command, the active one stays.
LEMMA GripSetBegin == ASSUME GripInv, SetBegin, UNCHANGED <<stamp, wire, torn>> PROVE GripInv'
<1>1. GripTypes /\ BuffersInv /\ StampInv /\ WireInv
  BY DEF GripInv
<1>2. /\ setter.at = "idle" /\ lapped' = (lapped \/ Laps)
      /\ calls' = calls + 1 /\ gripBuf' = [gripBuf EXCEPT ![Next1] = Raw(calls + 1)]
      /\ setter' = [at |-> "clamp", left |-> Fields]
      /\ gripActive' = gripActive /\ stamping' = stamping /\ stamp' = stamp /\ wire' = wire
  BY DEF SetBegin
<1>3. calls \in Nat /\ calls' \in Nat /\ Next1 \in {0, 1} /\ Next1 # gripActive /\ Next1' = Next1
      /\ stamp.b \in {0, 1} /\ gripActive \in {0, 1}
  BY <1>1, <1>2 DEF GripTypes, Next1
<1>4. Raw(calls + 1) \in [Fields -> [cmd : Nat, clamped : BOOLEAN]]
      /\ \A f \in Fields : Raw(calls + 1)[f] = [cmd |-> calls + 1, clamped |-> FALSE]
  BY <1>2, <1>3, CommandType
<1>5. /\ gripBuf'[gripActive] = gripBuf[gripActive] /\ gripBuf'[Next1] = Raw(calls + 1)
      /\ gripBuf' \in [{0, 1} -> [Fields -> [cmd : Nat, clamped : BOOLEAN]]]
  BY <1>1, <1>2, <1>3, <1>4 DEF GripTypes
<1>6. Current = calls /\ Current' = calls
  BY <1>2, <1>3 DEF Current
<1>7. lapped' \in BOOLEAN
  BY <1>1, <1>2 DEF GripTypes, Laps
<1>8. GripTypes'
  BY <1>1, <1>2, <1>3, <1>5, <1>7 DEF GripTypes
<1>9. BuffersInv'
  BY <1>1, <1>2, <1>3, <1>4, <1>5, <1>6 DEF BuffersInv
<1>10. stamp.b = gripActive \/ stamp.b = Next1
  BY <1>3 DEF Next1
<1>11. stamp.at = "copy" /\ stamp.on => \A f \in Fields : gripBuf'[stamp.b][f].cmd \in 1..calls'
  BY <1>1, <1>2, <1>3, <1>4, <1>5, <1>10 DEF StampInv
<1>12. stamp.at = "copy" /\ ~lapped' => ~lapped /\ (stamp.left # {} => stamp.b = gripActive)
  BY <1>2, <1>10 DEF Laps
<1>13. StampInv' /\ WireInv'
  BY <1>2, <1>3, <1>5, <1>6, <1>8, <1>11, <1>12, SetterLeavesStamp
<1> QED BY <1>8, <1>9, <1>13 DEF GripInv

\* A field that is clamped keeps its command.
LEMMA ClampedField ==
    ASSUME NEW k \in Nat, NEW v \in [cmd : Nat, clamped : BOOLEAN], v.cmd = k
    PROVE  [v EXCEPT !.clamped = TRUE] = [cmd |-> k, clamped |-> TRUE]
<1> DEFINE w == [v EXCEPT !.clamped = TRUE]
<1>1. w \in [cmd : Nat, clamped : BOOLEAN] /\ w.cmd = k /\ w.clamped = TRUE
  OBVIOUS
<1>2. \A x \in [cmd : Nat, clamped : BOOLEAN] :
        x.cmd = k /\ x.clamped = TRUE => x = [cmd |-> k, clamped |-> TRUE]
  OBVIOUS
<1> HIDE DEF w
<1>3. w = [cmd |-> k, clamped |-> TRUE]
  BY <1>1, <1>2
<1> QED BY <1>3 DEF w

\* A field of the command being filled is clamped.
LEMMA GripSetClamp ==
    ASSUME GripInv, NEW f \in Fields, SetClamp(f), UNCHANGED <<stamp, wire, torn>>
    PROVE  GripInv'
<1>1. GripTypes /\ BuffersInv /\ StampInv /\ WireInv
  BY DEF GripInv
<1>2. /\ setter.at = "clamp" /\ f \in setter.left
      /\ setter' = [at |-> IF setter.left = {f} THEN "index" ELSE "clamp", left |-> setter.left \ {f}]
      /\ gripActive' = gripActive /\ stamping' = stamping /\ calls' = calls /\ stamp' = stamp /\ wire' = wire
      /\ lapped' = lapped
  BY DEF SetClamp
<1>3. calls \in Nat /\ calls >= 1 /\ Next1 \in {0, 1} /\ Next1 # gripActive /\ Next1' = Next1
  BY <1>1, <1>2 DEF GripTypes, Next1, BuffersInv
<1>4. gripBuf' = [gripBuf EXCEPT ![Next1][f].clamped = TRUE]
  BY DEF SetClamp
<1>5. gripBuf[Next1] \in [Fields -> [cmd : Nat, clamped : BOOLEAN]]
  BY <1>1, <1>3 DEF GripTypes
<1>6. gripBuf[Next1][f].cmd = calls /\ gripBuf[Next1][f] \in [cmd : Nat, clamped : BOOLEAN]
  BY <1>1, <1>2, <1>5 DEF BuffersInv
<1>7. [gripBuf[Next1][f] EXCEPT !.clamped = TRUE] = [cmd |-> calls, clamped |-> TRUE]
  BY <1>3, <1>6, ClampedField
<1>8. /\ DOMAIN gripBuf' = {0, 1} /\ gripBuf'[gripActive] = gripBuf[gripActive]
      /\ gripBuf'[Next1] = [gripBuf[Next1] EXCEPT ![f].clamped = TRUE]
  BY <1>1, <1>3, <1>4 DEF GripTypes
<1>9. /\ gripBuf'[Next1] \in [Fields -> [cmd : Nat, clamped : BOOLEAN]]
      /\ gripBuf'[Next1][f] = [cmd |-> calls, clamped |-> TRUE]
      /\ \A g \in Fields : g # f => gripBuf'[Next1][g] = gripBuf[Next1][g]
  <2>1. gripBuf'[Next1][f] = [gripBuf[Next1][f] EXCEPT !.clamped = TRUE]
    BY <1>5, <1>8
  <2>2. gripBuf'[Next1][f] = [cmd |-> calls, clamped |-> TRUE]
    BY <1>6, <1>7, <2>1
  <2>3. gripBuf'[Next1] = [gripBuf[Next1] EXCEPT ![f] = [cmd |-> calls, clamped |-> TRUE]]
    BY <1>5, <1>6, <1>7, <1>8
  <2> QED BY <1>3, <1>5, <2>2, <2>3
<1>10. gripBuf' \in [{0, 1} -> [Fields -> [cmd : Nat, clamped : BOOLEAN]]]
  BY <1>1, <1>3, <1>4, <1>8, <1>9 DEF GripTypes
<1>11. setter'.at \in {"index", "clamp"} /\ setter'.left = setter.left \ {f} /\ setter'.left \subseteq Fields
  BY <1>1, <1>2 DEF GripTypes
<1>12. GripTypes'
  BY <1>1, <1>2, <1>10 DEF GripTypes
<1>13. Current = calls - 1 /\ Current' = Current
  BY <1>2, <1>11 DEF Current
<1>14. BuffersInv'
  <2>1. \A g \in Fields \ setter'.left : gripBuf'[Next1][g] = [cmd |-> calls, clamped |-> TRUE]
    BY <1>1, <1>2, <1>9, <1>11 DEF BuffersInv
  <2>2. \A g \in Fields : gripBuf'[Next1][g].cmd = calls
    BY <1>1, <1>2, <1>9 DEF BuffersInv
  <2>3. setter'.at = "index" => gripBuf'[Next1] = GripCommand(calls)
    <3>1. setter'.at = "index" => setter'.left = {}
      BY <1>2
    <3>2. setter'.at = "index" => \A g \in Fields : gripBuf'[Next1][g] = GripCommand(calls)[g]
      BY <1>3, <2>1, <3>1, CommandType
    <3> QED BY <1>3, <1>9, <3>2, SameCommand
  <2> QED BY <1>1, <1>2, <1>3, <1>8, <1>13, <2>1, <2>2, <2>3 DEF BuffersInv
<1>15. stamp.b \in {0, 1} /\ (stamp.b # Next1 => stamp.b = gripActive /\ gripBuf'[stamp.b] = gripBuf[stamp.b])
  BY <1>1, <1>8 DEF GripTypes, Next1
<1>16. stamp.at = "copy" /\ stamp.on => \A g \in Fields : gripBuf'[stamp.b][g].cmd \in 1..calls'
  <2>1. \A g \in Fields : gripBuf'[Next1][g].cmd = calls
    BY <1>1, <1>2, <1>9 DEF BuffersInv
  <2> QED BY <1>1, <1>2, <1>3, <1>15, <2>1 DEF StampInv
<1>17. stamp.at = "copy" /\ ~lapped => (stamp.left # {} => stamp.b # Next1)
  BY <1>1, <1>2, <1>3 DEF StampInv
<1>18. StampInv' /\ WireInv'
  BY <1>2, <1>3, <1>12, <1>13, <1>15, <1>16, <1>17, SetterLeavesStamp
<1> QED BY <1>12, <1>14, <1>18 DEF GripInv

\* The index moves: what was the active command is now the one before.
LEMMA GripSetIndex == ASSUME GripInv, SetIndex, UNCHANGED <<stamp, wire, torn>> PROVE GripInv'
<1>1. GripTypes /\ BuffersInv /\ StampInv /\ WireInv
  BY DEF GripInv
<1>2. /\ setter.at = "index" /\ gripActive' = Next1 /\ setter' = [setter EXCEPT !.at = "flag"]
      /\ gripBuf' = gripBuf /\ stamping' = stamping /\ calls' = calls /\ stamp' = stamp /\ wire' = wire
      /\ lapped' = lapped
  BY DEF SetIndex
<1>3. calls \in Nat /\ calls >= 1 /\ Next1 \in {0, 1} /\ Next1 # gripActive
  BY <1>1, <1>2 DEF GripTypes, Next1, BuffersInv
<1>4. setter'.at = "flag" /\ setter' \in [at : {"idle", "clamp", "index", "flag"}, left : SUBSET Fields]
  BY <1>1, <1>2 DEF GripTypes
<1>5. GripTypes'
  BY <1>1, <1>2, <1>3, <1>4 DEF GripTypes
<1>6. Current = calls - 1 /\ Current' = calls
  BY <1>2, <1>4 DEF Current
<1>7. BuffersInv'
  <2>1. Current' >= 1 /\ gripBuf'[gripActive'] = GripCommand(Current')
    BY <1>1, <1>2, <1>3, <1>6 DEF BuffersInv
  <2> QED BY <1>2, <1>3, <1>4, <2>1 DEF BuffersInv
<1>8. StampInv' /\ WireInv'
  <2>1. stamp.at = "copy" /\ stamp.on => \A f \in Fields : gripBuf'[stamp.b][f].cmd \in 1..calls'
    BY <1>1, <1>2 DEF StampInv
  <2> QED BY <1>1, <1>2, <1>3, <1>4, <1>5, <1>6, <2>1, SetterLeavesStamp
<1> QED BY <1>5, <1>7, <1>8 DEF GripInv

\* The flag goes up after the index, and down between two calls.
LEMMA GripFlag == ASSUME GripInv, SetFlag \/ Release, UNCHANGED <<stamp, wire, torn>> PROVE GripInv'
<1>1. GripTypes /\ BuffersInv /\ StampInv /\ WireInv
  BY DEF GripInv
<1>2. /\ gripBuf' = gripBuf /\ gripActive' = gripActive /\ calls' = calls /\ stamp' = stamp /\ wire' = wire
      /\ lapped' = lapped
      /\ stamping' \in BOOLEAN /\ setter.at \in {"flag", "idle"}
      /\ setter' = [setter EXCEPT !.at = "idle"]
      /\ stamping' => setter.at = "flag"
  <2>1. CASE SetFlag
    BY <2>1 DEF SetFlag
  <2>2. CASE Release
    BY <1>1, <2>2 DEF Release, GripTypes
  <2> QED BY <2>1, <2>2
<1>3. setter'.at = "idle" /\ setter' \in [at : {"idle", "clamp", "index", "flag"}, left : SUBSET Fields]
  BY <1>1, <1>2 DEF GripTypes
<1>4. Current' = Current /\ Current = calls /\ calls \in Nat
  BY <1>1, <1>2, <1>3 DEF Current, GripTypes
<1>5. GripTypes'
  BY <1>1, <1>2, <1>3 DEF GripTypes
<1>6. BuffersInv'
  BY <1>1, <1>2, <1>3, <1>4 DEF BuffersInv
<1>7. stamp.at = "copy" /\ stamp.on => \A f \in Fields : gripBuf'[stamp.b][f].cmd \in 1..calls'
  BY <1>1, <1>2 DEF StampInv
<1>8. StampInv' /\ WireInv'
  BY <1>2, <1>3, <1>4, <1>5, <1>7, SetterLeavesStamp
<1> QED BY <1>5, <1>6, <1>8 DEF GripInv

\* A stamp reads the flag, then the index, then field by field.
LEMMA GripStamp ==
    ASSUME GripInv, UNCHANGED setterVars, StampFlag \/ StampIndex \/ \E f \in Fields : StampField(f)
    PROVE  GripInv'
<1>1. GripTypes /\ BuffersInv /\ StampInv /\ WireInv
  BY DEF GripInv
<1>2. gripBuf' = gripBuf /\ gripActive' = gripActive /\ stamping' = stamping /\ setter' = setter /\ calls' = calls
      /\ wire' = wire /\ torn' = torn
  BY DEF setterVars, StampFlag, StampIndex, StampField
<1>3. Current' = Current /\ Next1' = Next1
  BY <1>2 DEF Current, Next1
<1>4. calls \in Nat /\ Current \in Int /\ Current <= calls /\ Current >= 0
  BY <1>1 DEF GripTypes, BuffersInv, Current
<1>5. BuffersInv' /\ WireInv'
  BY <1>1, <1>2, <1>3 DEF BuffersInv, WireInv, NotAfter
<1>6. ASSUME stamp' \in [at : {"idle", "index", "copy"}, on : BOOLEAN, b : {0, 1}, left : SUBSET Fields,
                         out : [Fields -> [cmd : Nat, clamped : BOOLEAN]]],
             lapped' \in BOOLEAN
      PROVE  GripTypes'
  BY <1>1, <1>2, <1>6 DEF GripTypes
<1>7. CASE StampFlag
  <2>1. GripDefault \in [Fields -> [cmd : Nat, clamped : BOOLEAN]]
    BY CommandType DEF GripDefault
  <2>2. stamp' = [at |-> "index", on |-> stamping, b |-> 0, left |-> {}, out |-> GripDefault]
        /\ lapped' = lapped
    BY <1>7 DEF StampFlag, NoStamp
  <2>3. GripTypes'
    BY <1>1, <1>6, <2>1, <2>2 DEF GripTypes
  <2>4. StampInv'
    BY <1>1, <1>3, <2>2 DEF StampInv, BuffersInv
  <2> QED BY <1>5, <2>3, <2>4 DEF GripInv
<1>8. CASE StampIndex
  <2>1. /\ stamp.at = "index" /\ stamp' = [stamp EXCEPT !.at = "copy", !.b = gripActive, !.left = Fields]
        /\ lapped' = FALSE
    BY <1>8 DEF StampIndex
  <2>2. stamp' \in [at : {"idle", "index", "copy"}, on : BOOLEAN, b : {0, 1}, left : SUBSET Fields,
                    out : [Fields -> [cmd : Nat, clamped : BOOLEAN]]]
        /\ stamp'.at = "copy" /\ stamp'.b = gripActive /\ stamp'.left = Fields /\ stamp'.on = stamp.on
    BY <1>1, <2>1 DEF GripTypes
  <2>3. gripBuf[gripActive] = GripCommand(Current) /\ (stamp.on => Current >= 1) /\ Current \in Nat
    BY <1>1, <1>4, <2>1 DEF BuffersInv, StampInv
  <2>4. Copies(Current)'
    <3>1. torn \/ NotAfter(wire, Current)
      BY <1>1 DEF WireInv
    <3> QED BY <1>2, <1>3, <1>4, <2>2, <2>3, <3>1 DEF Copies, NotAfter
  <2>5. \E k \in Nat : Copies(k)'
    BY <1>3, <2>3, <2>4
  <2>6. stamp'.on => \A f \in Fields : gripBuf'[stamp'.b][f].cmd \in 1..calls'
    <3>1. gripBuf'[stamp'.b] = GripCommand(Current)
      BY <1>2, <2>2, <2>3
    <3>2. \A f \in Fields : GripCommand(Current)[f].cmd = Current
      BY DEF GripCommand
    <3> QED BY <1>2, <1>4, <2>2, <2>3, <3>1, <3>2
  <2>7. StampInv'
    BY <1>2, <2>2, <2>5, <2>6 DEF StampInv
  <2>8. GripTypes'
    BY <1>6, <2>1, <2>2
  <2> QED BY <1>5, <2>7, <2>8 DEF GripInv
<1>9. ASSUME NEW f \in Fields, StampField(f) PROVE GripInv'
  <2>1. /\ stamp.at = "copy" /\ f \in stamp.left /\ lapped' = lapped
        /\ stamp' = [stamp EXCEPT !.out = [@ EXCEPT ![f] = gripBuf[stamp.b][f]], !.left = @ \ {f}]
    BY <1>9 DEF StampField
  <2>2. gripBuf[stamp.b] \in [Fields -> [cmd : Nat, clamped : BOOLEAN]]
        /\ stamp.out \in [Fields -> [cmd : Nat, clamped : BOOLEAN]]
    BY <1>1 DEF GripTypes
  <2>3. /\ stamp' \in [at : {"idle", "index", "copy"}, on : BOOLEAN, b : {0, 1}, left : SUBSET Fields,
                       out : [Fields -> [cmd : Nat, clamped : BOOLEAN]]]
        /\ stamp'.at = "copy" /\ stamp'.b = stamp.b /\ stamp'.on = stamp.on
        /\ stamp'.left = stamp.left \ {f}
        /\ stamp'.out = [stamp.out EXCEPT ![f] = gripBuf[stamp.b][f]]
    BY <1>1, <2>1, <2>2 DEF GripTypes
  <2>4. stamp'.out[f] = gripBuf[stamp.b][f] /\ \A g \in Fields \ {f} : stamp'.out[g] = stamp.out[g]
    BY <2>2, <2>3
  <2>5. stamp.on => /\ \A g \in Fields : gripBuf'[stamp'.b][g].cmd \in 1..calls'
                    /\ \A g \in Fields \ stamp'.left : stamp'.out[g].cmd \in 1..calls'
    BY <1>1, <1>2, <2>1, <2>3, <2>4 DEF StampInv
  <2>6. ASSUME ~lapped PROVE \E k \in Nat : Copies(k)'
    <3>1. PICK k \in Nat : Copies(k)
      BY <1>1, <2>1, <2>6 DEF StampInv
    <3>2. \A g \in Fields \ stamp'.left : stamp'.out[g] = GripCommand(k)[g]
      BY <2>1, <2>3, <2>4, <3>1 DEF Copies
    <3>3. Copies(k)'
      BY <1>2, <1>3, <2>1, <2>3, <3>1, <3>2 DEF Copies, NotAfter
    <3> QED BY <3>3
  <2>7. StampInv'
    BY <1>1, <1>2, <2>1, <2>3, <2>5, <2>6 DEF StampInv
  <2>8. GripTypes'
    BY <1>1, <1>6, <2>1, <2>3 DEF GripTypes
  <2> QED BY <1>5, <2>7, <2>8 DEF GripInv
<1> QED BY <1>7, <1>8, <1>9

\* What a finished stamp puts on the wire, if anything, is the command it copied, or,
\* when it was lapped, fields of commands that were asked for.
LEMMA StampedIsWhole ==
    ASSUME GripInv, WriteCommand
    PROVE  \/ wire' = wire /\ torn' = torn
           \/ torn' = TRUE /\ wire' = stamp.out /\ \A f \in Fields : stamp.out[f].cmd \in 1..calls
           \/ /\ torn' = FALSE
              /\ \E k \in 1..calls : wire' = GripCommand(k) /\ k <= Current /\ (torn \/ NotAfter(wire, k))
<1>1. GripTypes /\ BuffersInv /\ StampInv /\ WireInv
  BY DEF GripInv
<1>2. /\ stamp.at = "copy" /\ stamp.left = {} /\ wire' = IF stamp.on THEN stamp.out ELSE wire
      /\ torn' = IF stamp.on THEN lapped ELSE torn
  BY DEF WriteCommand, Stamped
<1>3. CASE stamp.on /\ lapped
  BY <1>1, <1>2, <1>3 DEF StampInv, GripTypes
<1>4. CASE stamp.on /\ ~lapped
  <2>1. PICK k \in Nat : Copies(k)
    BY <1>1, <1>2, <1>4 DEF StampInv
  <2>2. k >= 1 /\ k <= Current /\ (torn \/ NotAfter(wire, k))
    BY <1>4, <2>1 DEF Copies
  <2>3. k \in 1..calls
    BY <1>1, <2>2 DEF GripTypes, Current
  <2>4. stamp.out = GripCommand(k)
    <3>1. \A f \in Fields : stamp.out[f] = GripCommand(k)[f]
      BY <1>2, <2>1 DEF Copies
    <3> QED BY <1>1, <3>1, SameCommand DEF GripTypes
  <2> QED BY <1>1, <1>2, <1>4, <2>2, <2>3, <2>4 DEF GripTypes
<1>5. CASE ~stamp.on
  BY <1>2, <1>5
<1> QED BY <1>1, <1>3, <1>4, <1>5 DEF GripTypes

\* The stamp goes to the wire, or the wire is cleared.
LEMMA GripWire ==
    ASSUME GripInv, UNCHANGED setterVars, WriteCommand \/ ClearInterconnect
    PROVE  GripInv'
<1>1. GripTypes /\ BuffersInv /\ StampInv /\ WireInv
  BY DEF GripInv
<1>2. gripBuf' = gripBuf /\ gripActive' = gripActive /\ stamping' = stamping /\ setter' = setter /\ calls' = calls
      /\ lapped' = lapped
  BY DEF setterVars, WriteCommand, ClearInterconnect
<1>3. Current' = Current /\ Next1' = Next1 /\ calls \in Nat
  BY <1>1, <1>2 DEF Current, Next1, GripTypes
<1>4. BuffersInv'
  BY <1>1, <1>2, <1>3 DEF BuffersInv
<1>5. CASE WriteCommand
  <2>1. stamp' = NoStamp /\ torn' \in BOOLEAN
    BY <1>1, <1>5 DEF WriteCommand, GripTypes
  <2>2. GripDefault \in [Fields -> [cmd : Nat, clamped : BOOLEAN]]
    BY CommandType DEF GripDefault
  <2>3. GripTypes'
    BY <1>1, <1>2, <2>1, <2>2 DEF GripTypes, NoStamp
  <2>4. StampInv'
    BY <2>1 DEF StampInv, NoStamp
  <2>5. WireInv'
    <3>1. CASE wire' = wire /\ torn' = torn
      BY <1>1, <1>2, <1>3, <3>1 DEF WireInv, NotAfter
    <3>2. CASE torn' = TRUE
      BY <3>2 DEF WireInv
    <3>3. ASSUME NEW k \in 1..calls, wire' = GripCommand(k), k <= Current PROVE WireInv'
      <4>1. NotAfter(wire', Current)
        BY <3>3 DEF NotAfter, GripCommand
      <4> QED BY <1>2, <1>3, <3>3, <4>1 DEF WireInv, NotAfter
    <3> QED BY <1>5, <3>1, <3>2, <3>3, StampedIsWhole
  <2> QED BY <1>4, <2>3, <2>4, <2>5 DEF GripInv
<1>6. CASE ClearInterconnect
  <2>1. stamp' = stamp /\ wire' = Silent /\ torn' = FALSE
    BY <1>6 DEF ClearInterconnect
  <2>2. GripTypes'
    BY <1>1, <1>2, <2>1 DEF GripTypes
  <2>3. \A k \in Nat : Copies(k) => Copies(k)'
    BY <1>2, <1>3, <2>1 DEF Copies, NotAfter, Silent
  <2>4. StampInv'
    BY <1>1, <1>2, <1>3, <2>1, <2>3 DEF StampInv
  <2>5. WireInv'
    BY <2>1 DEF WireInv, NotAfter, Silent
  <2> QED BY <1>4, <2>2, <2>4, <2>5 DEF GripInv
<1> QED BY <1>5, <1>6

\* The line keeps its invariant, whatever the step.
LEMMA GripInvNext == ASSUME GripInv, [ThreadsNext]_threadVars PROVE GripInv'
<1>1. CASE UNCHANGED gripVars
  <2>1. UNCHANGED <<gripBuf, gripActive, stamping, setter, calls, stamp, wire, lapped, torn>>
    BY <1>1 DEF gripVars, setterVars
  <2>2. Current' = Current /\ Next1' = Next1 /\ \A k \in Nat : Copies(k)' <=> Copies(k)
    BY <2>1 DEF Current, Copies, Next1, NotAfter
  <2>3. GripTypes' /\ BuffersInv'
    BY <2>1, <2>2 DEF GripInv, GripTypes, BuffersInv
  <2>4. StampInv' /\ WireInv'
    BY <2>1, <2>2 DEF GripInv, StampInv, WireInv, NotAfter
  <2> QED BY <2>3, <2>4 DEF GripInv
<1>2. CASE SetterStep
  BY <1>2, GripSetBegin, GripSetClamp, GripSetIndex, GripFlag DEF SetterStep
<1>3. CASE UNCHANGED setterVars /\ (StampFlag \/ StampIndex \/ \E f \in Fields : StampField(f))
  BY <1>3, GripStamp
<1>4. CASE UNCHANGED setterVars /\ (WriteCommand \/ ClearInterconnect)
  BY <1>4, GripWire
<1> QED BY <1>1, <1>2, <1>3, <1>4, GripMoves DEF GripMove

(* What goes out to the gripper is nothing or a whole command, never an older *)
(* one than went out before, for any fields and any number of calls at any    *)
(* time, except what a stamp sends that a later call lapped; and that has no  *)
(* field of a command nobody asked for (WireMovesForward).                    *)
THEOREM WireGoesForward == ThreadsSpec => WireMovesForward
<1> DEFINE Forward == \/ wire' = Silent
                      \/ torn' /\ Asked(wire')
                      \/ \E k \in 1..calls : wire' = GripCommand(k) /\ (torn \/ NotAfter(wire, k))
<1>1. ThreadsInit => GripInv
  BY GripInit
<1>2. GripInv /\ [ThreadsNext]_threadVars => GripInv'
  BY GripInvNext
<1>3. ASSUME GripInv, [ThreadsNext]_threadVars, wire' # wire
      PROVE  Forward
  <2>1. WriteCommand \/ ClearInterconnect
    BY <1>3, GripMoves DEF GripMove, gripVars, SetterStep, StampFlag, StampIndex, StampField
  <2>2. CASE ClearInterconnect
    BY <2>2 DEF ClearInterconnect
  <2>3. CASE WriteCommand
    <3>1. stamp.out \in [Fields -> [cmd : Nat, clamped : BOOLEAN]]
      BY <1>3 DEF GripInv, GripTypes
    <3>2. (\A f \in Fields : stamp.out[f].cmd \in 1..calls) => Asked(stamp.out)
      BY <3>1 DEF Asked
    <3>3. wire' = stamp.out => (Asked(stamp.out) => Asked(wire'))
      BY <1>3 DEF Asked
    <3> QED BY <1>3, <2>3, <3>2, <3>3, StampedIsWhole
  <2> QED BY <2>1, <2>2, <2>3
<1>4. GripInv /\ [ThreadsNext]_threadVars => [Forward]_wire
  BY <1>3
<1> QED BY <1>1, <1>2, <1>4, PTL DEF ThreadsSpec, WireMovesForward
-----------------------------------------------------------------------------
(* The pump's publications.                                                  *)

Publications == [snapshot : [Parts -> Nat], wrench : {"none", "statics", "observer"},
                 status : Nat, before : Nat]
PumpTypes ==
    /\ pump \in [at : {"asleep", "version", "load", "publish"}, seen : Nat, version : Nat,
                 contact : Nat, live : BOOLEAN]
    /\ status \in Nat /\ lookedAt \in Nat \X Nat /\ published \in Seq(Publications)

\* A status counts as live when it moved between the last two looks.
LookInv ==
    /\ lookedAt[1] <= lookedAt[2] /\ lookedAt[2] <= status /\ pump.contact = lookedAt[2]
    /\ pump.live => lookedAt[1] < lookedAt[2]
    /\ \A k \in DOMAIN published :
         published[k].wrench = "observer" => published[k].status > published[k].before

\* The version read is later than the one published and than every snapshot
\* published; and the snapshot loaded is no earlier than it.
VersionInv ==
    /\ pump.seen <= seq
    /\ pump.at \in {"load", "publish"} => pump.seen < pump.version /\ pump.version <= seq
    /\ pump.at = "load" /\ load[P].at = "copy" => pump.version <= load[P].s
    /\ pump.at = "publish" =>
         \E m \in Nat : got[P] = Whole(m) /\ pump.version <= 2 * m /\ 2 * m <= seq

\* A snapshot published twice was the current one when its version was read.
TwiceInv ==
    /\ \A k \in DOMAIN published : \E n \in Nat :
         /\ published[k].snapshot = Whole(n) /\ 2 * n <= seq
         /\ pump.at \in {"load", "publish"} => 2 * n <= pump.version
    /\ \A n \in Nat : /\ Times(Whole(n)) <= 2
                      /\ Times(Whole(n)) >= 2 => 2 * n <= pump.seen

FreshInv == PumpTypes /\ LookInv /\ VersionInv /\ TwiceInv

\* Two stores write different values.
LEMMA WholeIsOne ==
    ASSUME NEW m \in Nat, NEW n \in Nat, Whole(m) = Whole(n)
    PROVE  m = n
<1>1. PICK p \in Parts : TRUE
  BY SnapshotAssumption
<1>2. Whole(m)[p] = m /\ Whole(n)[p] = n
  BY DEF Whole
<1> QED BY <1>2

\* What is published is counted once.
LEMMA TimesType == ASSUME published \in Seq(Publications), NEW s PROVE Times(s) \in Nat
<1>1. IsFiniteSet(1..Len(published))
  BY FS_Interval
<1>2. IsFiniteSet({k \in DOMAIN published : published[k].snapshot = s})
  BY <1>1, FS_Subset
<1> QED BY <1>2, FS_CardinalityType DEF Times

LEMMA TimesAppend ==
    ASSUME published \in Seq(Publications), NEW e \in Publications,
           published' = Append(published, e), NEW s
    PROVE  Times(s)' = IF e.snapshot = s THEN Times(s) + 1 ELSE Times(s)
<1> DEFINE n == Len(published)
           S == {k \in DOMAIN published : published[k].snapshot = s}
<1>1. IsFiniteSet(S) /\ n + 1 \notin S /\ n \in Nat
  <2>1. IsFiniteSet(1..n)
    BY FS_Interval
  <2> QED BY <2>1, FS_Subset
<1>2. /\ DOMAIN published' = DOMAIN published \cup {n + 1}
      /\ published'[n + 1] = e
      /\ \A k \in DOMAIN published : published'[k] = published[k]
  OBVIOUS
<1>3. {k \in DOMAIN published' : published'[k].snapshot = s}
        = IF e.snapshot = s THEN S \cup {n + 1} ELSE S
  BY <1>1, <1>2
<1>4. Cardinality(S \cup {n + 1}) = Cardinality(S) + 1
  BY <1>1, FS_AddElement
<1> QED BY <1>3, <1>4 DEF Times

\* A load that returns true returns the store that ended last.
LEMMA LoadReturns ==
    ASSUME Inv, NEW r \in Readers, LoadTrue(r)
    PROVE  /\ load[r].out = Whole(Stored) /\ Stored \in Nat /\ seq = 2 * Stored
           /\ got' = [got EXCEPT ![r] = Whole(Stored)] /\ seq' = seq
<1>1. seq \in Nat /\ load[r].out \in [Parts -> Nat]
  BY DEF Inv, SeqlockTypeOK, LoadStates
<1>2. load[r].at = "copy" /\ load[r].left = {} /\ seq = load[r].s
  BY DEF LoadTrue, CopyDone, Unmoved
<1>3. seq % 2 # 1 /\ \A p \in Parts : load[r].out[p] = Stored
  BY <1>2 DEF Inv, Quiet
<1>4. load[r].out = Whole(Stored)
  BY <1>1, <1>3 DEF Whole
<1>5. Stored \in Nat /\ seq = 2 * Stored
  BY <1>1, <1>3, Parity DEF Stored
<1> QED BY <1>4, <1>5 DEF LoadTrue, sharedVars

\* A step of the pump's load: it begins or goes on copying, gives up a try, or
\* returns.
LEMMA LoadMoves ==
    ASSUME Inv, LoadStep(P)
    PROVE  /\ seq' = seq
           /\ \/ /\ load'[P].at = "copy" /\ got' = got
                 /\ load'[P].s = seq \/ (load[P].at = "copy" /\ load'[P].s = load[P].s)
              \/ load'[P].at # "copy" /\ got' = got /\ ~(CopyDone(P) /\ Unmoved(P))
              \/ /\ LoadTrue(P) /\ load'[P].at = "idle" /\ load[P].at = "copy"
                 /\ load[P].s = seq /\ got'[P] = Whole(Stored)
<1>0. P \in Readers /\ load \in [Readers -> LoadStates] /\ got \in [Readers -> [Parts -> Nat]]
  BY PumpReads DEF Inv, SeqlockTypeOK
<1>1. load[P] \in LoadStates
  BY <1>0
<1>2. ASSUME Retry(P) PROVE load'[P].at # "copy"
  BY <1>0, <1>2 DEF Retry, Idle, Locals
<1>3. CASE LoadSeq(P) /\ Retry(P)
  BY <1>2, <1>3 DEF LoadSeq, sharedVars, CopyDone
<1>4. CASE LoadSeq(P) /\ ~Retry(P)
  <2>1. load' = [load EXCEPT ![P].at = "copy", ![P].s = seq, ![P].left = Parts]
        /\ got' = got /\ seq' = seq
    BY <1>4 DEF LoadSeq, sharedVars
  <2>2. load'[P].at = "copy" /\ load'[P].s = seq
    BY <1>0, <1>1, <2>1 DEF LoadStates
  <2> QED BY <2>1, <2>2
<1>5. ASSUME NEW p \in Parts, LoadPart(P, p)
      PROVE  seq' = seq /\ got' = got /\ load'[P].at = "copy"
             /\ load[P].at = "copy" /\ load'[P].s = load[P].s
  <2>1. load' = [load EXCEPT ![P].out[p] = data[p], ![P].left = @ \ {p}]
        /\ got' = got /\ seq' = seq /\ load[P].at = "copy"
    BY <1>5 DEF LoadPart, sharedVars
  <2> QED BY <1>0, <1>1, <2>1 DEF LoadStates
<1>6. CASE LoadTrue(P)
  <2>1. load'[P].at = "idle"
    BY <1>0, <1>6 DEF LoadTrue, Idle, Locals
  <2> QED BY <1>0, <1>6, <2>1, LoadReturns DEF LoadTrue, CopyDone, Unmoved
<1>7. CASE LoadAgain(P)
  BY <1>2, <1>7 DEF LoadAgain, sharedVars
<1> QED BY <1>3, <1>4, <1>5, <1>6, <1>7 DEF LoadStep

\* Nothing is published before the first look.
LEMMA FreshInit == ThreadsInit => FreshInv
<1> SUFFICES ASSUME ThreadsInit PROVE FreshInv OBVIOUS
<1>1. /\ pump = [at |-> "asleep", seen |-> 0, version |-> 0, contact |-> 0, live |-> FALSE]
      /\ status = 0 /\ lookedAt = <<0, 0>> /\ published = <<>> /\ seq = 0
  BY DEF ThreadsInit, SeqlockInit
<1>2. PumpTypes
  BY <1>1 DEF PumpTypes
<1>3. LookInv /\ VersionInv
  BY <1>1 DEF LookInv, VersionInv
<1>4. \A n \in Nat : Times(Whole(n)) = 0
  BY <1>1, FS_EmptySet DEF Times
<1>5. TwiceInv
  BY <1>1, <1>4 DEF TwiceInv
<1> QED BY <1>2, <1>3, <1>5 DEF FreshInv

\* The RT thread moves the sequence number and the status forward, only.
LEMMA FreshRt ==
    ASSUME Inv, FreshInv, UNCHANGED <<load, got, pump, published, lookedAt>>,
           seq' \in Nat, seq' >= seq, status' \in Nat, status' >= status
    PROVE  FreshInv'
<1>1. PumpTypes /\ LookInv /\ VersionInv /\ TwiceInv /\ seq \in Nat
  BY DEF FreshInv, Inv, SeqlockTypeOK
<1>2. PumpTypes'
  BY <1>1 DEF PumpTypes
<1>3. LookInv'
  BY <1>1 DEF LookInv, PumpTypes
<1>4. VersionInv'
  BY <1>1 DEF VersionInv, PumpTypes
<1>5. \A s : Times(s)' = Times(s)
  BY DEF Times
<1>6. TwiceInv'
  BY <1>1, <1>5 DEF TwiceInv
<1> QED BY <1>2, <1>3, <1>4, <1>6 DEF FreshInv

\* A look notes the status and moves on to the version.
LEMMA FreshLook == ASSUME Inv, FreshInv, PumpLook PROVE FreshInv'
<1>1. PumpTypes /\ LookInv /\ VersionInv /\ TwiceInv /\ seq \in Nat
  BY DEF FreshInv, Inv, SeqlockTypeOK
<1>2. /\ pump' = [pump EXCEPT !.at = "version", !.live = status # pump.contact, !.contact = status]
      /\ lookedAt' = <<lookedAt[2], status>> /\ published' = published /\ status' = status
      /\ seq' = seq /\ load' = load /\ got' = got
  BY DEF PumpLook, seqlockVars, rtVars
<1>3. /\ pump'.at = "version" /\ pump'.live = (status # pump.contact) /\ pump'.contact = status
      /\ pump'.seen = pump.seen
  BY <1>1, <1>2 DEF PumpTypes
<1>4. PumpTypes'
  BY <1>1, <1>2 DEF PumpTypes
<1>5. LookInv'
  <2>1. /\ lookedAt'[1] = lookedAt[2] /\ lookedAt'[2] = status
        /\ lookedAt[2] \in Nat /\ status \in Nat /\ lookedAt[2] <= status /\ pump.contact = lookedAt[2]
    BY <1>1, <1>2 DEF LookInv, PumpTypes
  <2>2. pump'.live => lookedAt[2] < status
    <3>1. pump'.live => status # pump.contact
      BY <1>3
    <3>2. status # pump.contact => lookedAt[2] < status
      BY <2>1
    <3> QED BY <3>1, <3>2
  <2> QED BY <1>1, <1>2, <1>3, <2>1, <2>2 DEF LookInv
<1>6. VersionInv'
  BY <1>1, <1>2, <1>3 DEF VersionInv
<1>7. \A s : Times(s)' = Times(s)
  BY <1>2 DEF Times
<1>8. TwiceInv'
  BY <1>1, <1>2, <1>3, <1>7 DEF TwiceInv
<1> QED BY <1>4, <1>5, <1>6, <1>8 DEF FreshInv

\* A version that was published sends the pump to sleep; another begins a load.
LEMMA FreshVersion == ASSUME Inv, FreshInv, PumpVersion PROVE FreshInv'
<1>1. PumpTypes /\ LookInv /\ VersionInv /\ TwiceInv /\ seq \in Nat
  BY DEF FreshInv, Inv, SeqlockTypeOK
<1>2. /\ pump' = [pump EXCEPT !.at = IF seq = pump.seen THEN "asleep" ELSE "load", !.version = seq]
      /\ lookedAt' = lookedAt /\ published' = published /\ status' = status /\ seq' = seq
  BY DEF PumpVersion, seqlockVars, rtVars, LoadBegin, sharedVars
<1>3. /\ pump'.at = (IF seq = pump.seen THEN "asleep" ELSE "load") /\ pump'.version = seq
      /\ pump'.seen = pump.seen /\ pump'.contact = pump.contact /\ pump'.live = pump.live
  BY <1>1, <1>2 DEF PumpTypes
<1>4. PumpTypes'
  BY <1>1, <1>2 DEF PumpTypes
<1>5. LookInv'
  BY <1>1, <1>2, <1>3 DEF LookInv
<1>6. VersionInv'
  <2>1. pump'.at = "load" => load'[P].at # "copy"
    <3>1. P \in Readers /\ load \in [Readers -> LoadStates]
      BY PumpReads DEF Inv, SeqlockTypeOK
    <3>2. seq # pump.seen => load' = [load EXCEPT ![P] = Locals("seq", 0)]
      BY DEF PumpVersion, LoadBegin
    <3> QED BY <1>3, <3>1, <3>2 DEF Locals
  <2> QED BY <1>1, <1>2, <1>3, <2>1 DEF VersionInv, PumpTypes
<1>7. \A s : Times(s)' = Times(s)
  BY <1>2 DEF Times
<1>8. TwiceInv'
  BY <1>1, <1>2, <1>3, <1>7 DEF TwiceInv
<1> QED BY <1>4, <1>5, <1>6, <1>8 DEF FreshInv

\* A load goes on, fails, or returns a snapshot no earlier than the version.
LEMMA FreshLoad == ASSUME Inv, FreshInv, PumpLoad PROVE FreshInv'
<1>1. PumpTypes /\ LookInv /\ VersionInv /\ TwiceInv /\ seq \in Nat
  BY DEF FreshInv, Inv, SeqlockTypeOK
<1>2. /\ pump.at = "load" /\ LoadStep(P)
      /\ pump' = [pump EXCEPT !.at = IF load'[P].at # "idle" THEN "load"
                                     ELSE IF CopyDone(P) /\ Unmoved(P) THEN "publish"
                                     ELSE "asleep"]
      /\ lookedAt' = lookedAt /\ published' = published /\ status' = status
  BY DEF PumpLoad, rtVars
<1>3. /\ pump'.at = (IF load'[P].at # "idle" THEN "load"
                     ELSE IF CopyDone(P) /\ Unmoved(P) THEN "publish" ELSE "asleep")
      /\ pump'.version = pump.version
      /\ pump'.seen = pump.seen /\ pump'.contact = pump.contact /\ pump'.live = pump.live
  BY <1>1, <1>2 DEF PumpTypes
<1>4. PumpTypes'
  BY <1>1, <1>2 DEF PumpTypes
<1>5. LookInv'
  BY <1>1, <1>2, <1>3 DEF LookInv
<1>6. seq' = seq
  BY <1>2, LoadMoves
<1>7. VersionInv'
  <2>1. CASE load'[P].at = "copy" /\ (load'[P].s = seq \/ (load[P].at = "copy" /\ load'[P].s = load[P].s))
    BY <1>1, <1>2, <1>3, <1>6, <2>1 DEF VersionInv
  <2>2. CASE load'[P].at # "copy" /\ ~(CopyDone(P) /\ Unmoved(P))
    BY <1>1, <1>2, <1>3, <1>6, <2>2 DEF VersionInv
  <2>3. CASE LoadTrue(P) /\ load'[P].at = "idle" /\ load[P].at = "copy" /\ load[P].s = seq /\ got'[P] = Whole(Stored)
    <3>1. Stored \in Nat /\ seq = 2 * Stored
      BY <2>3, LoadReturns, PumpReads
    <3>2. pump.version <= 2 * Stored
      BY <1>1, <1>2, <2>3, <3>1 DEF VersionInv
    <3>3. \E m \in Nat : got'[P] = Whole(m) /\ pump.version <= 2 * m /\ 2 * m <= seq
      BY <1>1, <2>3, <3>1, <3>2
    <3> HIDE DEF Whole
    <3> QED BY <1>1, <1>2, <1>3, <1>6, <2>3, <3>3 DEF VersionInv
  <2> QED BY <1>2, <2>1, <2>2, <2>3, LoadMoves
<1>8. \A s : Times(s)' = Times(s)
  BY <1>2 DEF Times
<1>9. TwiceInv'
  BY <1>1, <1>2, <1>3, <1>6, <1>8 DEF TwiceInv
<1> QED BY <1>4, <1>5, <1>7, <1>9 DEF FreshInv

\* A publication is of a snapshot that was published once at most, and then only
\* if it was the current one when its version was read.
LEMMA FreshPublish == ASSUME Inv, FreshInv, PumpPublish PROVE FreshInv'
<1>1. PumpTypes /\ LookInv /\ VersionInv /\ TwiceInv /\ seq \in Nat
  BY DEF FreshInv, Inv, SeqlockTypeOK
<1>2. PICK w \in WrenchSources :
        published' = Append(published, [snapshot |-> got[P], wrench |-> w,
                                        status |-> status, before |-> lookedAt[1]])
  BY DEF PumpPublish
<1>3. /\ pump.at = "publish" /\ pump' = [pump EXCEPT !.at = "asleep", !.seen = pump.version]
      /\ lookedAt' = lookedAt /\ status' = status /\ seq' = seq
  BY DEF PumpPublish, seqlockVars, rtVars
<1>4. /\ pump'.at = "asleep" /\ pump'.seen = pump.version
      /\ pump'.contact = pump.contact /\ pump'.live = pump.live
  BY <1>1, <1>3 DEF PumpTypes
<1>5. PICK m \in Nat : got[P] = Whole(m) /\ pump.version <= 2 * m /\ 2 * m <= seq
  BY <1>1, <1>3 DEF VersionInv
<1>6. pump.seen < pump.version /\ pump.version <= seq /\ pump.version \in Nat /\ pump.seen \in Nat
  BY <1>1, <1>3 DEF VersionInv, PumpTypes
<1> DEFINE e == [snapshot |-> Whole(m), wrench |-> w, status |-> status, before |-> lookedAt[1]]
<1>7. /\ e \in Publications /\ published' = Append(published, e)
      /\ e.wrench = "observer" => pump.live
      /\ e.snapshot = Whole(m) /\ e.wrench = w /\ e.status = status /\ e.before = lookedAt[1]
  <2>1. Whole(m) \in [Parts -> Nat]
    BY DEF Whole
  <2>2. w \in {"none", "statics", "observer"} /\ (w = "observer" => pump.live)
    BY DEF WrenchSources
  <2>3. status \in Nat /\ lookedAt[1] \in Nat
    BY <1>1 DEF PumpTypes
  <2> QED BY <1>2, <1>5, <2>1, <2>2, <2>3 DEF Publications
<1> HIDE DEF e
<1>8. published \in Seq(Publications)
  BY <1>1 DEF PumpTypes
<1>9. /\ DOMAIN published' = DOMAIN published \cup {Len(published) + 1}
      /\ published'[Len(published) + 1] = e
      /\ \A k \in DOMAIN published : published'[k] = published[k]
      /\ published' \in Seq(Publications)
  BY <1>7, <1>8
<1>10. PumpTypes'
  BY <1>1, <1>3, <1>6, <1>9 DEF PumpTypes
<1>11. LookInv'
  <2>1. e.wrench = "observer" => e.status > e.before
    BY <1>1, <1>7 DEF LookInv, PumpTypes
  <2>2. \A k \in DOMAIN published' :
          published'[k].wrench = "observer" => published'[k].status > published'[k].before
    BY <1>1, <1>9, <2>1 DEF LookInv
  <2> QED BY <1>1, <1>3, <1>4, <2>2 DEF LookInv
<1>12. VersionInv'
  BY <1>3, <1>4, <1>6 DEF VersionInv
<1>13. \A k \in DOMAIN published' : \E n \in Nat :
         published'[k].snapshot = Whole(n) /\ 2 * n <= seq
  BY <1>1, <1>5, <1>7, <1>9 DEF TwiceInv
<1>14. ASSUME NEW n \in Nat
       PROVE  Times(Whole(n))' <= 2 /\ (Times(Whole(n))' >= 2 => 2 * n <= pump.version)
  <2>1. Times(Whole(n)) \in Nat /\ Times(Whole(n)) <= 2 /\ (Times(Whole(n)) >= 2 => 2 * n <= pump.seen)
    BY <1>1, <1>8, TimesType DEF TwiceInv
  <2>2. CASE n = m
    <3>1. Times(Whole(n))' = Times(Whole(n)) + 1
      BY <1>7, <1>8, <2>2, TimesAppend
    <3>2. Times(Whole(n)) >= 1 => 2 * n <= pump.version
      <4>1. SUFFICES ASSUME Times(Whole(n)) # 0 PROVE 2 * n <= pump.version
        BY <2>1
      <4>2. \E k \in DOMAIN published : published[k].snapshot = Whole(n)
        <5>1. Times(Whole(n)) = Cardinality({k \in DOMAIN published : published[k].snapshot = Whole(n)})
          BY DEF Times
        <5>2. {k \in DOMAIN published : published[k].snapshot = Whole(n)} # {}
          BY <4>1, <5>1, FS_EmptySet
        <5> QED BY <5>2
      <4>3. PICK k \in DOMAIN published, q \in Nat :
              published[k].snapshot = Whole(n) /\ Whole(q) = Whole(n) /\ 2 * q <= pump.version
        BY <1>1, <1>3, <4>2 DEF TwiceInv
      <4>4. q = n
        BY <4>3, WholeIsOne
      <4> QED BY <4>3, <4>4
    <3>3. Times(Whole(n)) < 2
      BY <1>5, <1>6, <2>1, <2>2
    <3> QED BY <2>1, <3>1, <3>2, <3>3
  <2>3. CASE n # m
    <3>1. Times(Whole(n))' = Times(Whole(n))
      BY <1>7, <1>8, <2>3, TimesAppend, WholeIsOne
    <3> QED BY <1>6, <2>1, <3>1
  <2> QED BY <2>2, <2>3
<1>15. TwiceInv'
  BY <1>3, <1>4, <1>13, <1>14 DEF TwiceInv, Whole
<1> QED BY <1>10, <1>11, <1>12, <1>15 DEF FreshInv

\* A step of another thread is a store, a status, or nothing to the pump.
LEMMA OthersMove ==
    ASSUME Inv, FreshInv, [ThreadsNext]_threadVars, ~PumpThread
    PROVE  /\ UNCHANGED <<load, got, pump, published, lookedAt>>
           /\ seq' \in Nat /\ seq' >= seq /\ status' \in Nat /\ status' >= status
<1>1. seq \in Nat /\ status \in Nat
  BY DEF Inv, SeqlockTypeOK, FreshInv, PumpTypes
<1>2. CASE RtThread
  <2>1. CASE StoreSnapshot
    <3>1. seq' \in {seq, seq + 1} /\ load' = load /\ got' = got /\ status' = status
      BY <2>1 DEF StoreSnapshot, StoreBegin, StorePart, StoreEnd
    <3> QED BY <1>1, <2>1, <3>1 DEF StoreSnapshot, pumpVars
  <2>2. CASE StoreStatus
    BY <1>1, <2>2 DEF StoreStatus, seqlockVars, pumpVars
  <2>3. CASE ~(StoreSnapshot \/ StoreStatus)
    BY <1>1, <1>2, <2>3 DEF RtThread, StartCycle, StampRest, Exchange, Poll, PushSample, PushRest, Reenter,
                            seqlockVars, rtVars, pumpVars
  <2> QED BY <2>1, <2>2, <2>3
<1>3. CASE DrainThread \/ SetterThread \/ UNCHANGED threadVars
  BY <1>1, <1>3 DEF DrainThread, SetterThread, threadVars, seqlockVars, rtVars, pumpVars
<1> QED BY <1>2, <1>3 DEF ThreadsNext

(* What the pump publishes is not stale (PublishesFresh), for any number of    *)
(* parts, tries, cycles and looks.                                             *)
THEOREM PublicationsAreFresh == ThreadsSpec => []PublishesFresh
<1>1. ThreadsInit => FreshInv
  BY FreshInit
<1>2. Inv /\ FreshInv /\ [ThreadsNext]_threadVars => FreshInv'
  <2> SUFFICES ASSUME Inv, FreshInv, [ThreadsNext]_threadVars PROVE FreshInv'
    OBVIOUS
  <2>1. CASE PumpThread
    BY <2>1, FreshLook, FreshVersion, FreshLoad, FreshPublish DEF PumpThread
  <2>2. CASE ~PumpThread
    BY <2>2, OthersMove, FreshRt
  <2> QED BY <2>1, <2>2
<1>3. FreshInv => PublishesFresh
  <2> SUFFICES ASSUME FreshInv, NEW k \in DOMAIN published
               PROVE  /\ Times(published[k].snapshot) <= 2
                      /\ published[k].wrench = "observer" => published[k].status > published[k].before
    BY DEF PublishesFresh
  <2>1. PICK n \in Nat : published[k].snapshot = Whole(n)
    BY DEF FreshInv, TwiceInv
  <2> QED BY <2>1 DEF FreshInv, TwiceInv, LookInv
<1> QED BY <1>1, <1>2, <1>3, RunsSeqlock, SeqlockInvariant, PTL DEF ThreadsSpec
-----------------------------------------------------------------------------
(* Arithmetic of the ring and the histogram.                                 *)

\* The powers of two a bucket starts at.
LEMMA Doubles == \A k \in 0..30 : 2^k \in Nat \ {0} /\ 2^(k + 1) = 2 * 2^k
<1> SUFFICES ASSUME NEW k \in 0..30 PROVE 2^k \in Nat \ {0} /\ 2^(k + 1) = 2 * 2^k OBVIOUS
<1> DEFINE Q(n) == 2^n \in Nat \ {0} /\ 2^(n + 1) = 2 * 2^n
<1>1. /\ Q(0) /\ Q(1) /\ Q(2) /\ Q(3) /\ Q(4) /\ Q(5) /\ Q(6) /\ Q(7)
      /\ Q(8) /\ Q(9) /\ Q(10) /\ Q(11) /\ Q(12) /\ Q(13) /\ Q(14) /\ Q(15)
      /\ Q(16) /\ Q(17) /\ Q(18) /\ Q(19) /\ Q(20) /\ Q(21) /\ Q(22) /\ Q(23)
      /\ Q(24) /\ Q(25) /\ Q(26) /\ Q(27) /\ Q(28) /\ Q(29) /\ Q(30)
  BY SMT
<1>2. \/ k = 0 \/ k = 1 \/ k = 2 \/ k = 3 \/ k = 4 \/ k = 5 \/ k = 6 \/ k = 7
      \/ k = 8 \/ k = 9 \/ k = 10 \/ k = 11 \/ k = 12 \/ k = 13 \/ k = 14 \/ k = 15
      \/ k = 16 \/ k = 17 \/ k = 18 \/ k = 19 \/ k = 20 \/ k = 21 \/ k = 22 \/ k = 23
      \/ k = 24 \/ k = 25 \/ k = 26 \/ k = 27 \/ k = 28 \/ k = 29 \/ k = 30
  BY SMT
<1>3. Q(k)
  <2> HIDE DEF Q
  <2> QED BY <1>1, <1>2
<1> QED BY <1>3

(* Every set of naturals that is not empty has a least element, which is what *)
(* an induction over data rests on below.                                     *)
LEMMA LeastElement ==
    ASSUME NEW T, T \subseteq Nat, T # {}
    PROVE  \E x \in T : \A y \in T : x <= y
<1>1. \E x \in T : \A y \in T : <<y, x>> \notin OpToRel(<, Nat)
  BY NatLessThanWellFounded, WFMin, Zenon
<1>2. \A x, y \in Nat : <<y, x>> \notin OpToRel(<, Nat) => x <= y
  BY DEF OpToRel
<1> QED BY <1>1, <1>2

\* The capacity is a power of two.
LEMMA CapType == Cap \in Nat \ {0}
<1> DEFINE T == {k \in 1..30 : RingRequest <= 2 ^ k}
<1>1. 30 \in T /\ RingRequest \in Nat
  <2>1. 2 ^ 30 = 1073741824 BY SMT
  <2> QED BY <2>1, RingAssumption
<1>2. PICK k \in T : \A j \in T : k <= j
  <2>1. T \subseteq Nat OBVIOUS
  <2> HIDE DEF T
  <2>2. T # {} BY <1>1
  <2> QED BY <2>1, <2>2, LeastElement
<1>3. RingRequest <= 2 ^ k /\ (k = 1 \/ 2 ^ (k - 1) < RingRequest)
  <2>1. CASE k = 1 BY <2>1, <1>2
  <2>2. CASE k # 1
    <3>1. k - 1 \in 1..30 /\ k - 1 \in 0..30 /\ k - 1 \notin T BY <1>2, <2>2
    <3>2. ~(RingRequest <= 2 ^ (k - 1)) BY <3>1
    <3>3. 2 ^ (k - 1) \in Nat BY <3>1, Doubles
    <3> QED BY <1>1, <1>2, <3>2, <3>3
  <2> QED BY <2>1, <2>2
<1>4. \E j \in 1..30 : RingRequest <= 2 ^ j /\ (j = 1 \/ 2 ^ (j - 1) < RingRequest)
  BY <1>2, <1>3
<1>5. PICK j \in 1..30 : Cap = 2 ^ j
  BY <1>4 DEF Cap, RoundUpPow2
<1>6. j \in 0..30 BY <1>5
<1> QED BY <1>5, <1>6, Doubles

\* Division with a remainder.
LEMMA Division ==
    ASSUME NEW C \in Int, C > 0, NEW n \in Int
    PROVE  n % C \in 0..C - 1 /\ n \div C \in Int /\ n % C = n - C * (n \div C)
<1>1. n % C >= 0 /\ n % C < C /\ n % C \in Int /\ n \div C \in Int
  BY SMT
<1>2. n % C = n - C * (n \div C)
  BY SMT
<1> QED BY <1>1, <1>2

\* Two positions less than a capacity apart have different slots.
LEMMA SlotsDiffer ==
    ASSUME NEW a \in Nat, NEW b \in Nat, a < b, b < a + Cap
    PROVE  a % Cap # b % Cap
<1> DEFINE C == Cap
           p == a \div C
           q == b \div C
<1>1. C \in Int /\ C > 0 /\ a < b /\ b < a + C
  BY CapType
<1> HIDE DEF C
<1>2. /\ a % C \in Int /\ p \in Int /\ a % C = a - C * p
      /\ b % C \in Int /\ q \in Int /\ b % C = b - C * q
  BY <1>1, Division
<1> HIDE DEF p, q
<1>3. ASSUME a % C = b % C PROVE FALSE
  <2>1. C * (q - p) = b - a /\ q - p \in Int BY <1>1, <1>2, <1>3
  <2>2. q - p >= 1 => C * (q - p) >= C BY <1>1, <1>2, SMT
  <2>3. q - p <= 0 => C * (q - p) <= 0 BY <1>1, <1>2, SMT
  <2> QED BY <1>1, <1>2, <2>1, <2>2, <2>3
<1> QED BY <1>3 DEF C

LEMMA SlotType == \A a \in Nat : a % Cap \in 0..Cap - 1
  BY CapType, Division
-----------------------------------------------------------------------------
(* The ring of samples and the sink.                                         *)

Durations == 0 .. 2 ^ 30
Slots == [i : Int, missed : BOOLEAN, ns : Durations]
RingTypes ==
    /\ head \in Nat /\ tail \in Nat /\ tail <= head /\ head <= tail + Cap
    /\ ring \in [0..Cap - 1 -> Slots] /\ offered \in Seq(Slots) /\ taken \in Seq(Slots)
    /\ push.at \in {"idle", "write", "publish"}
    /\ pop.at \in {"idle", "copy", "release"} /\ pop.out \in Slots
    /\ sink.n \in Nat /\ sink.timeouts \in Nat /\ sink.hist \in [Buckets -> Nat]

\* The samples are numbered, and the drop counter counts those in lost.
CountInv ==
    /\ \A m \in 1..Len(offered) : offered[m].i = m - 1
    /\ IsFiniteSet(lost) /\ dropped = Cardinality(lost) /\ dropped \in Nat
    /\ \A x \in lost : x \in Nat /\ x < Len(offered)
    /\ dropped + head + InFlight = Len(offered)
    /\ Len(taken) = tail

\* The sample being pushed goes to a slot nobody reads, and the one being popped
\* is not the one being pushed.
LocalsInv ==
    /\ push.at # "idle" => head < tail + Cap
    /\ push.at = "write" => push.s = offered[Len(offered)]
    /\ push.at = "publish" => ring[head % Cap] = offered[Len(offered)]
    /\ pop.at # "idle" => tail < head

\* f lists what was kept: the sample being pushed is its last, what was taken its
\* first, and the ring holds those between.
KeptIn(f) ==
    /\ Lists(f, head + InFlight)
    /\ \A k \in 1..tail : taken[k] = offered[f[k]]
    /\ \A i \in tail..head - 1 : ring[i % Cap] = offered[f[i + 1]]
    /\ push.at # "idle" => f[head + 1] = Len(offered)
    /\ pop.at = "release" => pop.out = offered[f[tail + 1]]
KeptInv == \E f \in [1..head + InFlight -> 1..Len(offered)] : KeptIn(f)

RingInv == RingTypes /\ CountInv /\ LocalsInv /\ KeptInv /\ SinkIsExact

\* What a step of the threads is to the ring.
RingMove ==
    \/ UNCHANGED channelVars
    \/ UNCHANGED drainVars /\ \E s \in Slots : s.i = Len(offered) /\ PushBegin(s)
    \/ UNCHANGED drainVars /\ (PushWrite \/ PushPublish)
    \/ Drain

\* The samples pushed are never more than the cycles begun.
FramesInv ==
    /\ rt \in [at : RtAt, missed : BOOLEAN] /\ frames \in 0..MaxFrames
    /\ offered \in Seq(Slots)
    /\ Len(offered) + (IF rt.at \in {"stamp", "store", "status", "push"} THEN 1 ELSE 0) <= frames

\* Its slots begin empty.
LEMMA NoSampleType == NoSample \in Slots /\ 0 \in Durations /\ Durations \subseteq Nat
<1>1. 0 \in Durations /\ Durations \subseteq Nat
  <2>1. 2 ^ 30 \in Nat BY SMT
  <2>2. ASSUME NEW d \in 0 .. 2 ^ 30 PROVE d \in Nat OBVIOUS
  <2>3. 0 \in 0 .. 2 ^ 30 BY <2>1
  <2> QED BY <2>2, <2>3 DEF Durations
<1> QED BY <1>1 DEF NoSample, Slots

\* The sample of a cycle is one of the slots' values.
LEMMA SampleType ==
    ASSUME FramesInv, PushSample
    PROVE  \E s \in Slots : s.i = Len(offered) /\ PushBegin(s)
<1> DEFINE s == [i |-> Len(offered), missed |-> rt.missed, ns |-> CommNs(Len(offered), rt.missed)]
<1>1. rt.missed \in BOOLEAN /\ rt.at = "push"
  BY DEF FramesInv, PushSample
<1>2. Len(offered) \in 0..MaxFrames
  BY <1>1, BoundsAssumption DEF FramesInv
<1>3. CommNs(Len(offered), rt.missed) \in Durations
  BY <1>1, <1>2, DurationsAssumption DEF Durations
<1>4. s \in Slots /\ s.i = Len(offered)
  BY <1>1, <1>2, <1>3 DEF Slots
<1>5. PushBegin(s)
  BY DEF PushSample
<1> QED BY <1>4, <1>5

LEMMA FramesInit == ThreadsInit => FramesInv
  BY BoundsAssumption DEF ThreadsInit, RingInit, FramesInv, RtAt

LEMMA FramesNext == ASSUME FramesInv, [ThreadsNext]_threadVars PROVE FramesInv'
<1> USE DEF FramesInv, RtAt
<1>1. CASE StartCycle BY <1>1, BoundsAssumption DEF StartCycle, channelVars, ringVars
<1>2. CASE StampRest BY <1>2 DEF StampRest, channelVars, ringVars, rtVars
<1>3. CASE Exchange BY <1>3 DEF Exchange, channelVars, ringVars
<1>4. CASE Poll BY <1>4, BoundsAssumption DEF Poll, channelVars, ringVars
<1>5. CASE StoreSnapshot BY <1>5 DEF StoreSnapshot, channelVars, ringVars
<1>6. CASE StoreStatus BY <1>6 DEF StoreStatus, channelVars, ringVars
<1>7. CASE PushSample
  <2>1. PICK s \in Slots : offered' = Append(offered, s) BY <1>7, SampleType DEF PushBegin
  <2>2. rt.at = "push" /\ rt' = [rt EXCEPT !.at = IF push'.at = "idle" THEN "top" ELSE "pushing"]
        /\ frames' = frames
    BY <1>7 DEF PushSample
  <2> QED BY <2>1, <2>2
<1>8. CASE PushRest BY <1>8 DEF PushRest, PushWrite, PushPublish
<1>9. CASE Reenter BY <1>9 DEF Reenter, channelVars, ringVars, rtVars
<1>10. CASE PumpThread
  BY <1>10 DEF PumpThread, PumpLook, PumpVersion, PumpLoad, PumpPublish, channelVars, ringVars, rtVars
<1>11. CASE DrainThread
  BY <1>11 DEF DrainThread, Drain, PopBegin, PopCopy, PopRelease, ringVars, rtVars
<1>12. CASE SetterThread \/ UNCHANGED threadVars
  BY <1>12 DEF SetterThread, threadVars, channelVars, ringVars, rtVars
<1> QED BY <1>1, <1>2, <1>3, <1>4, <1>5, <1>6, <1>7, <1>8, <1>9, <1>10, <1>11, <1>12 DEF ThreadsNext, RtThread

LEMMA RingMoves == ASSUME FramesInv, [ThreadsNext]_threadVars PROVE RingMove
<1>1. CASE PushSample
  BY <1>1, SampleType DEF PushSample, RingMove
<1>2. CASE PushRest
  BY <1>2 DEF PushRest, RingMove
<1>3. CASE RtThread /\ ~PushSample /\ ~PushRest
  BY <1>3 DEF RtThread, StartCycle, StampRest, Exchange, Poll, StoreSnapshot, StoreStatus, Reenter, RingMove
<1>4. CASE PumpThread \/ SetterThread \/ UNCHANGED threadVars
  BY <1>4 DEF PumpThread, PumpLook, PumpVersion, PumpLoad, PumpPublish, SetterThread, threadVars, RingMove
<1>5. CASE DrainThread
  BY <1>5 DEF DrainThread, RingMove
<1> QED BY <1>1, <1>2, <1>3, <1>4, <1>5 DEF ThreadsNext

\* The bucket of a duration.
LEMMA Log2Bucket ==
    ASSUME NEW ns \in Durations
    PROVE  /\ Log2(ns) \in Buckets
           /\ ns > 0 => 2 ^ Log2(ns) <= ns /\ ns < 2 ^ (Log2(ns) + 1)
           /\ ns = 0 => Log2(ns) = 0
<1>1. CASE ns = 0 BY <1>1 DEF Log2, Buckets
<1>2. CASE ns # 0
  <2> DEFINE T == {k \in Buckets : ns < 2 ^ (k + 1)}
  <2>0. ns \in Nat /\ ns <= 2 ^ 30 /\ Buckets = 0..30
    <3>1. 2 ^ 30 = 1073741824 BY SMT
    <3> QED BY <3>1 DEF Durations, Buckets
  <2>1. 30 \in T
    <3>1. 2 ^ 30 = 1073741824 /\ 2 ^ (30 + 1) = 2147483648 BY SMT
    <3> QED BY <2>0, <3>1
  <2>2. PICK k \in T : \A j \in T : k <= j
    <3>1. T \subseteq Nat BY <2>0
    <3> HIDE DEF T
    <3>2. T # {} BY <2>1
    <3> QED BY <3>1, <3>2, LeastElement
  <2>3. k \in 0..30 /\ ns < 2 ^ (k + 1) BY <2>0, <2>2
  <2>4. 2 ^ k <= ns
    <3>1. CASE k = 0
      <4>1. 2 ^ 0 = 1 BY SMT
      <4> QED BY <1>2, <2>0, <3>1, <4>1
    <3>2. CASE k # 0
      <4>1. k - 1 \in 0..30 /\ k - 1 \notin T BY <2>2, <2>3, <3>2
      <4>2. ~(ns < 2 ^ ((k - 1) + 1)) BY <2>0, <4>1
      <4>3. (k - 1) + 1 = k BY <2>3
      <4>4. 2 ^ k \in Nat BY <2>3, Doubles
      <4> QED BY <2>0, <4>2, <4>3, <4>4
    <3> QED BY <3>1, <3>2
  <2>5. \E j \in Buckets : 2 ^ j <= ns /\ ns < 2 ^ (j + 1) BY <2>0, <2>3, <2>4
  <2>6. Log2(ns) = CHOOSE j \in Buckets : 2 ^ j <= ns /\ ns < 2 ^ (j + 1) BY <1>2 DEF Log2
  <2> QED BY <1>2, <2>5, <2>6
<1> QED BY <1>1, <1>2

\* How many of the first n + 1 are in a set, from how many of the first n are.
LEMMA CountOneMore ==
    ASSUME NEW n \in Nat, NEW A, A \subseteq 1..n, NEW B, B \subseteq 1..(n + 1),
           \A k \in 1..n : k \in A <=> k \in B
    PROVE  /\ IsFiniteSet(A) /\ Cardinality(A) \in Nat
           /\ Cardinality(B) = Cardinality(A) + IF n + 1 \in B THEN 1 ELSE 0
<1>0. \A k \in B : k \in 1..n \/ k = n + 1
  OBVIOUS
<1>1. IsFiniteSet(A) /\ Cardinality(A) \in Nat
  <2>1. IsFiniteSet(1..n) BY FS_Interval
  <2> QED BY <2>1, FS_Subset, FS_CardinalityType
<1>2. CASE n + 1 \in B
  <2>1. n + 1 \notin A OBVIOUS
  <2>2. \A k : k \in B <=> k \in A \cup {n + 1} BY <1>0, <1>2
  <2>3. B = A \cup {n + 1} BY <2>2
  <2>4. Cardinality(B) = Cardinality(A) + 1 BY <1>1, <2>1, <2>3, FS_AddElement
  <2> QED BY <1>1, <1>2, <2>4
<1>3. CASE n + 1 \notin B
  <2>1. \A k : k \in B <=> k \in A BY <1>0, <1>3
  <2>2. B = A BY <2>1
  <2> QED BY <1>1, <1>3, <2>2
<1> QED BY <1>1, <1>2, <1>3

LEMMA RingInvInit == ThreadsInit => RingInv
<1> SUFFICES ASSUME ThreadsInit PROVE RingInv OBVIOUS
<1>0. RingInit BY DEF ThreadsInit
<1>1. RingTypes
  BY <1>0, CapType, NoSampleType DEF RingInit, RingTypes
<1>2. CountInv
  BY <1>0, FS_EmptySet DEF RingInit, CountInv, InFlight
<1>3. LocalsInv
  BY <1>0 DEF RingInit, LocalsInv
<1>4. KeptInv
  <2>1. [k \in 1..0 |-> 1] \in [1..head + InFlight -> 1..Len(offered)]
    BY <1>0 DEF RingInit, InFlight
  <2>2. KeptIn([k \in 1..0 |-> 1])
    BY <1>0 DEF RingInit, InFlight, KeptIn, Lists
  <2> QED BY <2>1, <2>2 DEF KeptInv
<1>5. SinkIsExact
  BY <1>0, FS_EmptySet DEF RingInit, SinkIsExact
<1> QED BY <1>1, <1>2, <1>3, <1>4, <1>5 DEF RingInv

\* Nothing of the sink depends on the RT thread.
LEMMA SinkStays == ASSUME SinkIsExact, UNCHANGED drainVars PROVE SinkIsExact'
  BY DEF SinkIsExact, drainVars, Buckets, Log2

LEMMA RingPushFull ==
    ASSUME RingInv, NEW s \in Slots, s.i = Len(offered), PushBegin(s), PushFull, UNCHANGED drainVars
    PROVE  RingInv'
<1> DEFINE n == Len(offered)
<1>0. RingTypes /\ CountInv /\ LocalsInv /\ KeptInv /\ SinkIsExact
  BY DEF RingInv
<1>1. /\ offered' = Append(offered, s) /\ lost' = lost \cup {n} /\ dropped' = dropped + 1
      /\ push.at = "idle" /\ push' = push /\ ring' = ring /\ head' = head /\ tail' = tail
      /\ pop' = pop /\ sink' = sink /\ taken' = taken
  BY DEF PushBegin, drainVars
<1>2. /\ n \in Nat /\ offered \in Seq(Slots) /\ Len(offered') = n + 1 /\ offered'[n + 1] = s
      /\ \A m \in 1..n : offered'[m] = offered[m]
  BY <1>0, <1>1 DEF RingTypes
<1>3. RingTypes'
  BY <1>0, <1>1 DEF RingTypes
<1>4. CountInv'
  <2>1. \A m \in 1..n + 1 : offered'[m].i = m - 1
    BY <1>0, <1>2 DEF CountInv
  <2>2. n \notin lost
    BY <1>0, <1>2 DEF CountInv
  <2>3. IsFiniteSet(lost') /\ Cardinality(lost') = dropped + 1
    BY <1>0, <1>1, <2>2, FS_AddElement DEF CountInv
  <2>4. \A x \in lost' : x \in Nat /\ x < n + 1
    BY <1>0, <1>1, <1>2 DEF CountInv
  <2>5. head \in Nat BY <1>0 DEF RingTypes
  <2>6. InFlight = 0 /\ InFlight' = 0 /\ dropped + head + 0 = n /\ Len(taken) = tail /\ dropped \in Nat
    BY <1>0, <1>1 DEF CountInv, InFlight
  <2> HIDE DEF n
  <2>7. dropped' + head' + InFlight' = n + 1
    BY <1>1, <2>5, <2>6
  <2> QED BY <1>1, <1>2, <2>1, <2>3, <2>4, <2>6, <2>7 DEF CountInv
<1>5. LocalsInv'
  BY <1>0, <1>1 DEF LocalsInv
<1>6. KeptInv'
  <2>1. PICK f \in [1..head -> 1..n] : KeptIn(f)
    <3>1. InFlight = 0 /\ head + 0 = head BY <1>0, <1>1 DEF InFlight, RingTypes
    <3> QED BY <1>0, <3>1 DEF KeptInv
  <2>2. f \in [1..head' + InFlight' -> 1..n + 1] /\ head \in Nat /\ tail \in Nat /\ tail <= head
    BY <1>0, <1>1, <1>2 DEF InFlight, RingTypes
  <2>3. Lists(f, head)'
    <3>1. Lists(f, head) BY <1>0, <1>1, <2>1 DEF KeptIn, InFlight, RingTypes
    <3>2. \A k \in 1..head : offered'[f[k]].i \notin lost'
      BY <1>0, <1>1, <1>2, <2>1, <3>1 DEF Lists, CountInv
    <3>3. \A m \in DOMAIN offered' : offered'[m].i \notin lost' => m \in DOMAIN offered /\ offered[m].i \notin lost
      BY <1>1, <1>2
    <3> QED BY <1>1, <3>1, <3>2, <3>3 DEF Lists
  <2>4. KeptIn(f)'
    <3>1. Lists(f, head + InFlight)' BY <1>1, <2>2, <2>3 DEF InFlight
    <3>2. \A k \in 1..tail : taken'[k] = offered'[f[k]]
      BY <1>1, <1>2, <2>1, <2>2 DEF KeptIn
    <3>3. \A i \in tail..head - 1 : (ring[i % Cap])' = offered'[f[i + 1]]
      BY <1>1, <1>2, <2>1, <2>2 DEF KeptIn, Cap
    <3>4. pop.at = "release" => pop.out = offered'[f[tail + 1]]
      BY <1>0, <1>1, <1>2, <2>1, <2>2 DEF KeptIn, LocalsInv
    <3> QED BY <1>1, <3>1, <3>2, <3>3, <3>4 DEF KeptIn
  <2> QED BY <1>2, <2>2, <2>4 DEF KeptInv
<1> QED BY <1>0, <1>3, <1>4, <1>5, <1>6, SinkStays DEF RingInv

LEMMA RingPush ==
    ASSUME RingInv, NEW s \in Slots, s.i = Len(offered), PushBegin(s), ~PushFull, UNCHANGED drainVars
    PROVE  RingInv'
<1> DEFINE n == Len(offered)
<1>0. RingTypes /\ CountInv /\ LocalsInv /\ KeptInv /\ SinkIsExact
  BY DEF RingInv
<1>1. /\ offered' = Append(offered, s) /\ lost' = lost /\ dropped' = dropped
      /\ push.at = "idle" /\ push' = [at |-> "write", s |-> s]
      /\ ring' = ring /\ head' = head /\ tail' = tail
      /\ pop' = pop /\ sink' = sink /\ taken' = taken
  BY DEF PushBegin, drainVars
<1>2. /\ n \in Nat /\ offered \in Seq(Slots) /\ Len(offered') = n + 1 /\ offered'[n + 1] = s
      /\ \A m \in 1..n : offered'[m] = offered[m]
      /\ push'.at = "write" /\ push'.s = s /\ head \in Nat /\ tail \in Nat /\ tail <= head
      /\ InFlight = 0 /\ InFlight' = 1 /\ DOMAIN offered = 1..n /\ DOMAIN offered' = 1..n + 1
  BY <1>0, <1>1 DEF RingTypes, InFlight
<1> HIDE DEF n
<1>3. RingTypes'
  BY <1>0, <1>1, <1>2 DEF RingTypes
<1>4. CountInv'
  <2>1. \A m \in 1..n + 1 : offered'[m].i = m - 1
    <3>1. \A m \in 1..n : offered[m].i = m - 1 BY <1>0 DEF CountInv, n
    <3>2. s.i = n BY DEF n
    <3> QED BY <1>2, <3>1, <3>2
  <2>2. /\ dropped + head = n /\ IsFiniteSet(lost) /\ dropped = Cardinality(lost) /\ dropped \in Nat
        /\ \A x \in lost : x \in Nat /\ x < n
    BY <1>0, <1>1, <1>2 DEF CountInv, n
  <2>3. dropped' + head' + InFlight' = n + 1
    BY <1>1, <1>2, <2>2
  <2>4. \A x \in lost' : x \in Nat /\ x < n + 1 BY <1>1, <1>2, <2>2
  <2> QED BY <1>0, <1>1, <1>2, <2>1, <2>2, <2>3, <2>4 DEF CountInv
<1>5. LocalsInv'
  <2>1. head < tail + Cap
    BY <1>2, CapType DEF PushFull
  <2> QED BY <1>0, <1>1, <1>2, <2>1 DEF LocalsInv, Cap
<1>6. KeptInv'
  <2>1. PICK f \in [1..head -> 1..n] : KeptIn(f)
    <3>1. head + InFlight = head BY <1>2
    <3> QED BY <1>0, <3>1 DEF KeptInv, n
  <2>2. PICK g \in [1..head + 1 -> 1..n + 1] :
          g[head + 1] = n + 1 /\ \A k \in 1..head : g[k] = f[k] /\ f[k] \in 1..n
    <3> DEFINE e == [k \in 1..head + 1 |-> IF k = head + 1 THEN n + 1 ELSE f[k]]
    <3>1. /\ e \in [1..head + 1 -> 1..n + 1] /\ e[head + 1] = n + 1
          /\ \A k \in 1..head : e[k] = f[k] /\ f[k] \in 1..n
      BY <1>2
    <3> HIDE DEF e
    <3> QED BY <3>1
  <2>3. Lists(f, head) /\ \A x \in lost : x \in Nat /\ x < n
    <3>1. head + InFlight = head BY <1>2
    <3> QED BY <1>0, <2>1, <3>1 DEF KeptIn, CountInv, n
  <2>4. \A k \in 1..head + 1 : offered'[g[k]].i \notin lost
    <3>1. offered'[n + 1].i \notin lost BY <1>2, <2>3 DEF n
    <3>2. ASSUME NEW k \in 1..head PROVE offered'[g[k]].i \notin lost
      BY <1>2, <2>2, <2>3 DEF Lists
    <3> QED BY <1>2, <2>2, <3>1, <3>2
  <2>5. \A k, l \in 1..head + 1 : k < l => g[k] < g[l]
    <3> SUFFICES ASSUME NEW k \in 1..head + 1, NEW l \in 1..head + 1, k < l PROVE g[k] < g[l]
      OBVIOUS
    <3>1. k \in 1..head BY <1>2
    <3>2. CASE l = head + 1 BY <1>2, <2>2, <3>1, <3>2
    <3>3. CASE l # head + 1
      <4>1. l \in 1..head BY <1>2, <3>3
      <4> QED BY <2>2, <2>3, <3>1, <4>1 DEF Lists
    <3> QED BY <3>2, <3>3
  <2>6. \A m \in 1..n + 1 : offered'[m].i \notin lost => \E k \in 1..head + 1 : g[k] = m
    <3> SUFFICES ASSUME NEW m \in 1..n + 1, offered'[m].i \notin lost
                 PROVE  \E k \in 1..head + 1 : g[k] = m
      OBVIOUS
    <3>1. CASE m = n + 1 BY <1>2, <2>2, <3>1
    <3>2. CASE m # n + 1
      <4>1. m \in 1..n BY <1>2, <3>2
      <4>2. PICK k \in 1..head : f[k] = m BY <1>2, <2>3, <4>1 DEF Lists
      <4> QED BY <1>2, <2>2, <4>2
    <3> QED BY <3>1, <3>2
  <2>7. Lists(g, head + 1)'
    BY <1>1, <1>2, <2>4, <2>5, <2>6 DEF Lists
  <2>8. KeptIn(g)'
    <3>1. \A k \in 1..tail : taken'[k] = offered'[g[k]]
      BY <1>1, <1>2, <2>1, <2>2 DEF KeptIn
    <3>2. \A i \in tail..head - 1 : (ring[i % Cap])' = offered'[g[i + 1]]
      BY <1>1, <1>2, <2>1, <2>2 DEF KeptIn, Cap
    <3>3. pop.at = "release" => pop.out = offered'[g[tail + 1]]
      BY <1>0, <1>1, <1>2, <2>1, <2>2 DEF KeptIn, LocalsInv
    <3> QED BY <1>1, <1>2, <2>2, <2>7, <3>1, <3>2, <3>3 DEF KeptIn
  <2> QED BY <1>1, <1>2, <2>2, <2>8 DEF KeptInv
<1> QED BY <1>0, <1>3, <1>4, <1>5, <1>6, SinkStays DEF RingInv

\* Storing in the slot at head, and then moving head, leave the list alone.
LEMMA RingWrite ==
    ASSUME RingInv, PushWrite \/ PushPublish, UNCHANGED drainVars
    PROVE  RingInv'
<1>0. RingTypes /\ CountInv /\ LocalsInv /\ KeptInv /\ SinkIsExact
  BY DEF RingInv
<1>1. /\ tail' = tail /\ offered' = offered /\ lost' = lost /\ dropped' = dropped
      /\ pop' = pop /\ sink' = sink /\ taken' = taken
  BY DEF PushWrite, PushPublish, drainVars
<1>2. /\ head \in Nat /\ tail \in Nat /\ tail <= head /\ head < tail + Cap /\ Cap \in Nat \ {0} /\ Cap' = Cap
  BY <1>0, CapType DEF RingTypes, LocalsInv, PushWrite, PushPublish, Cap
<1>3. PICK f \in [1..head + InFlight -> 1..Len(offered)] : KeptIn(f)
  BY <1>0 DEF KeptInv
<1>4. InFlight = 1 /\ f[head + 1] = Len(offered) /\ Len(offered) \in Nat /\ Len(offered) > 0
  <2>1. InFlight = 1 BY DEF InFlight, PushWrite, PushPublish
  <2>2. Len(offered) \in Nat /\ dropped \in Nat /\ dropped + head + InFlight = Len(offered)
    BY <1>0 DEF CountInv, RingTypes
  <2>3. Len(offered) > 0 BY <1>2, <2>1, <2>2
  <2>4. f[head + 1] = Len(offered) BY <1>3 DEF KeptIn, PushWrite, PushPublish
  <2> QED BY <2>1, <2>2, <2>3, <2>4
<1>5. CASE PushWrite
  <2>1. /\ ring' = [ring EXCEPT ![head % Cap] = push.s] /\ head' = head /\ push' = [at |-> "publish"]
        /\ push.s = offered[Len(offered)] /\ push.s \in Slots /\ InFlight' = 1
    BY <1>0, <1>4, <1>5 DEF PushWrite, LocalsInv, RingTypes, InFlight
  <2>2. head % Cap \in 0..Cap - 1 /\ \A i \in tail..head - 1 : i % Cap # head % Cap /\ i % Cap \in 0..Cap - 1
    <3>1. ASSUME NEW i \in tail..head - 1 PROVE i % Cap # head % Cap /\ i % Cap \in 0..Cap - 1
      <4>1. i \in Nat /\ i < head /\ head < i + Cap BY <1>2
      <4> QED BY <1>2, <4>1, SlotsDiffer, SlotType
    <3> QED BY <1>2, <3>1, SlotType
  <2>3. ring' \in [0..Cap - 1 -> Slots] /\ ring'[head % Cap] = push.s
        /\ \A i \in tail..head - 1 : ring'[i % Cap] = ring[i % Cap]
    BY <1>0, <2>1, <2>2 DEF RingTypes
  <2>4. RingTypes' BY <1>0, <1>1, <1>2, <2>1, <2>3 DEF RingTypes
  <2>5. CountInv' BY <1>0, <1>1, <1>4, <2>1 DEF CountInv
  <2>6. LocalsInv' BY <1>0, <1>1, <1>2, <2>1, <2>3, <1>5 DEF LocalsInv, PushWrite
  <2>7. KeptIn(f)'
    <3>1. Lists(f, head + InFlight)'
      BY <1>1, <1>3, <1>4, <2>1 DEF KeptIn, Lists
    <3>2. \A i \in tail..head - 1 : (ring[i % Cap])' = offered[f[i + 1]]
      BY <1>2, <1>3, <2>3 DEF KeptIn
    <3> QED BY <1>1, <1>3, <1>4, <2>1, <3>1, <3>2 DEF KeptIn
  <2> QED BY <1>0, <1>1, <1>3, <1>4, <2>1, <2>4, <2>5, <2>6, <2>7, SinkStays DEF RingInv, KeptInv
<1>6. CASE PushPublish
  <2>1. /\ ring' = ring /\ head' = head + 1 /\ push' = [at |-> "idle"] /\ InFlight' = 0
        /\ ring[head % Cap] = offered[Len(offered)] /\ head' + InFlight' = head + InFlight
    BY <1>0, <1>2, <1>4, <1>6 DEF PushPublish, LocalsInv, InFlight
  <2>4. RingTypes' BY <1>0, <1>1, <1>2, <2>1 DEF RingTypes
  <2>5. CountInv'
    <3>1. dropped + head' + InFlight' = dropped + head + InFlight BY <1>0, <1>2, <1>4, <2>1 DEF CountInv
    <3> QED BY <1>0, <1>1, <2>1, <3>1 DEF CountInv
  <2>6. LocalsInv' BY <1>0, <1>1, <1>2, <2>1 DEF LocalsInv
  <2>7. KeptIn(f)'
    <3>1. Lists(f, head + InFlight)'
      BY <1>1, <1>3, <2>1 DEF KeptIn, Lists
    <3>2. \A i \in tail'..head' - 1 : (ring[i % Cap])' = offered[f[i + 1]]
      <4>0. tail'..head' - 1 = tail..head /\ ring' = ring /\ Cap' = Cap
        <5>1. head' - 1 = head BY <1>2, <2>1
        <5> QED BY <1>1, <1>2, <2>1, <5>1
      <4> SUFFICES ASSUME NEW i \in tail..head PROVE ring[i % Cap] = offered[f[i + 1]]
        BY <4>0
      <4>1. CASE i = head BY <1>4, <2>1, <4>1
      <4>2. CASE i # head
        <5>1. i \in tail..head - 1 BY <1>2, <4>2
        <5> QED BY <1>3, <5>1 DEF KeptIn
      <4> QED BY <4>1, <4>2
    <3> QED BY <1>1, <1>3, <2>1, <3>1, <3>2 DEF KeptIn
  <2> QED BY <1>0, <1>1, <1>3, <2>1, <2>4, <2>5, <2>6, <2>7, SinkStays DEF RingInv, KeptInv
<1> QED BY <1>5, <1>6

\* What is copied out of the slot at tail is the next one of the list.
LEMMA RingCopy ==
    ASSUME RingInv, PopBegin \/ PopCopy
    PROVE  RingInv'
<1>0. RingTypes /\ CountInv /\ LocalsInv /\ KeptInv /\ SinkIsExact
  BY DEF RingInv
<1>1. /\ ring' = ring /\ head' = head /\ tail' = tail /\ push' = push /\ InFlight' = InFlight
      /\ offered' = offered /\ lost' = lost /\ dropped' = dropped /\ sink' = sink /\ taken' = taken
  BY DEF PopBegin, PopCopy, ringVars, InFlight
<1>2. head \in Nat /\ tail \in Nat /\ tail < head
  BY <1>0 DEF RingTypes, LocalsInv, PopBegin, PopCopy
<1>3. PICK f \in [1..head + InFlight -> 1..Len(offered)] : KeptIn(f)
  BY <1>0 DEF KeptInv
<1>4. CountInv' /\ SinkIsExact' /\ Lists(f, head + InFlight)'
  <2>1. CountInv' BY <1>0, <1>1 DEF CountInv
  <2>2. SinkIsExact' BY <1>0, <1>1 DEF SinkIsExact, Buckets, Log2
  <2>3. Lists(f, head + InFlight)' BY <1>1, <1>3 DEF KeptIn, Lists
  <2> QED BY <2>1, <2>2, <2>3
<1>5. CASE PopBegin
  <2>1. pop'.at = "copy" /\ pop'.out \in Slots BY <1>0, <1>5 DEF PopBegin, RingTypes
  <2>2. RingTypes' /\ LocalsInv' BY <1>0, <1>1, <1>2, <2>1 DEF RingTypes, LocalsInv, Cap
  <2>3. KeptIn(f)' BY <1>1, <1>3, <1>4, <2>1 DEF KeptIn, Cap
  <2> QED BY <1>1, <1>3, <1>4, <2>2, <2>3 DEF RingInv, KeptInv
<1>6. CASE PopCopy
  <2>0. pop'.at = "release" /\ pop'.out = ring[tail % Cap] BY <1>6 DEF PopCopy
  <2>1. pop'.out \in Slots /\ pop'.out = offered[f[tail + 1]]
    <3>1. tail \in tail..head - 1 BY <1>2
    <3> QED BY <1>0, <1>2, <1>3, <2>0, <3>1, SlotType DEF RingTypes, KeptIn
  <2>2. RingTypes' /\ LocalsInv' BY <1>0, <1>1, <1>2, <2>0, <2>1 DEF RingTypes, LocalsInv, Cap
  <2>3. KeptIn(f)' BY <1>1, <1>3, <1>4, <2>0, <2>1 DEF KeptIn, Cap
  <2> QED BY <1>1, <1>3, <1>4, <2>2, <2>3 DEF RingInv, KeptInv
<1> QED BY <1>5, <1>6

\* One more sample is one more in each of the counters it belongs to.
LEMMA SinkCounts ==
    ASSUME RingTypes, SinkIsExact, Consume(pop.out)
    PROVE  SinkIsExact' /\ sink'.n \in Nat /\ sink'.timeouts \in Nat /\ sink'.hist \in [Buckets -> Nat]
<1> DEFINE s == pop.out
           n == Len(taken)
           b0 == Log2(s.ns)
<1>1. /\ s \in Slots /\ n \in Nat /\ taken' = Append(taken, s) /\ Len(taken') = n + 1 /\ taken'[n + 1] = s
      /\ \A k \in 1..n : taken'[k] = taken[k]
      /\ DOMAIN taken = 1..n /\ DOMAIN taken' = 1..n + 1
  BY DEF RingTypes, Consume
<1>2. b0 \in Buckets BY <1>1, Log2Bucket DEF Slots
<1>3. /\ sink'.n = sink.n + 1 /\ sink'.timeouts = sink.timeouts + IF s.missed THEN 1 ELSE 0
      /\ sink'.hist = [sink.hist EXCEPT ![b0] = @ + 1]
      /\ sink.n \in Nat /\ sink.timeouts \in Nat /\ sink.hist \in [Buckets -> Nat] /\ s.missed \in BOOLEAN
  BY <1>1 DEF Consume, RingTypes, Slots
<1> HIDE DEF s, n, b0
<1>4. sink'.timeouts = Cardinality({k \in 1..n + 1 : taken'[k].missed})
  <2> DEFINE A == {k \in 1..n : taken[k].missed}
             B == {k \in 1..n + 1 : taken'[k].missed}
  <2>1. A \subseteq 1..n /\ B \subseteq 1..(n + 1) /\ \A k \in 1..n : k \in A <=> k \in B
    BY <1>1
  <2>2. sink.timeouts = Cardinality(A) BY <1>1 DEF SinkIsExact
  <2>3. n + 1 \in B <=> s.missed BY <1>1
  <2> HIDE DEF A, B
  <2>4. Cardinality(A) \in Nat /\ Cardinality(B) = Cardinality(A) + IF n + 1 \in B THEN 1 ELSE 0
    BY <1>1, <2>1, CountOneMore
  <2>5. CASE s.missed BY <1>3, <2>2, <2>3, <2>4, <2>5 DEF B
  <2>6. CASE ~s.missed BY <1>3, <2>2, <2>3, <2>4, <2>6 DEF B
  <2> QED BY <2>5, <2>6
<1>5. ASSUME NEW b \in Buckets
      PROVE  sink'.hist[b] = Cardinality({k \in 1..n + 1 : Log2(taken'[k].ns) = b})
  <2> DEFINE A == {k \in 1..n : Log2(taken[k].ns) = b}
             B == {k \in 1..n + 1 : Log2(taken'[k].ns) = b}
  <2>1. A \subseteq 1..n /\ B \subseteq 1..(n + 1) /\ \A k \in 1..n : k \in A <=> k \in B
    BY <1>1
  <2>2. sink.hist[b] = Cardinality(A) BY <1>1, <1>5 DEF SinkIsExact
  <2>3. n + 1 \in B <=> b = b0 BY <1>1 DEF b0
  <2>4. Cardinality(A) \in Nat /\ Cardinality(B) = Cardinality(A) + IF n + 1 \in B THEN 1 ELSE 0
    <3> HIDE DEF A, B
    <3> QED BY <1>1, <2>1, CountOneMore
  <2>5. sink'.hist[b] = IF b = b0 THEN sink.hist[b] + 1 ELSE sink.hist[b]
    BY <1>2, <1>3, <1>5
  <2> HIDE DEF A
  <2>6. sink'.hist[b] = Cardinality(B)
    <3> HIDE DEF B
    <3> QED BY <1>3, <1>5, <2>2, <2>3, <2>4, <2>5
  <2> QED BY <2>6
<1>6. sink'.n = Len(taken') BY <1>1, <1>3 DEF SinkIsExact, n
<1>7. SinkIsExact'
  BY <1>1, <1>4, <1>5, <1>6 DEF SinkIsExact, Log2, Buckets
<1> QED BY <1>2, <1>3, <1>7

LEMMA RingRelease ==
    ASSUME RingInv, PopRelease
    PROVE  RingInv'
<1>0. RingTypes /\ CountInv /\ LocalsInv /\ KeptInv /\ SinkIsExact
  BY DEF RingInv
<1>1. /\ ring' = ring /\ head' = head /\ tail' = tail + 1 /\ push' = push /\ InFlight' = InFlight
      /\ offered' = offered /\ lost' = lost /\ dropped' = dropped
      /\ pop'.at = "idle" /\ pop'.out \in Slots /\ pop.at = "release" /\ pop.out \in Slots
      /\ taken' = Append(taken, pop.out) /\ Consume(pop.out)
  BY <1>0 DEF PopRelease, InFlight, Consume, RingTypes
<1>2. /\ head \in Nat /\ tail \in Nat /\ tail < head /\ taken \in Seq(Slots) /\ Len(taken) = tail
      /\ Cap \in Nat \ {0} /\ Cap' = Cap
  BY <1>0, <1>1, CapType DEF RingTypes, LocalsInv, CountInv, Cap
<1>3. PICK f \in [1..head + InFlight -> 1..Len(offered)] : KeptIn(f)
  BY <1>0 DEF KeptInv
<1>4. /\ taken' \in Seq(Slots) /\ Len(taken') = tail + 1 /\ taken'[tail + 1] = offered[f[tail + 1]]
      /\ \A k \in 1..tail : taken'[k] = taken[k]
  BY <1>1, <1>2, <1>3 DEF KeptIn
<1>5. SinkIsExact' /\ sink'.n \in Nat /\ sink'.timeouts \in Nat /\ sink'.hist \in [Buckets -> Nat]
  BY <1>0, <1>1, SinkCounts
<1>6. RingTypes' BY <1>0, <1>1, <1>2, <1>4, <1>5 DEF RingTypes
<1>7. CountInv' BY <1>0, <1>1, <1>4 DEF CountInv
<1>8. LocalsInv' BY <1>0, <1>1, <1>2 DEF LocalsInv
<1>9. KeptIn(f)'
  <2>1. Lists(f, head + InFlight)' BY <1>1, <1>3 DEF KeptIn, Lists
  <2>2. \A k \in 1..tail' : taken'[k] = offered[f[k]]
    <3> SUFFICES ASSUME NEW k \in 1..tail + 1 PROVE taken'[k] = offered[f[k]] BY <1>1
    <3>1. CASE k = tail + 1 BY <1>4, <3>1
    <3>2. CASE k # tail + 1
      <4>1. k \in 1..tail BY <1>2, <3>2
      <4> QED BY <1>3, <1>4, <4>1 DEF KeptIn
    <3> QED BY <3>1, <3>2
  <2>3. \A i \in tail'..head' - 1 : (ring[i % Cap])' = offered[f[i + 1]]
    <3> SUFFICES ASSUME NEW i \in tail + 1..head - 1 PROVE ring[i % Cap] = offered[f[i + 1]]
      BY <1>1, <1>2
    <3>1. i \in tail..head - 1 BY <1>2
    <3> QED BY <1>3, <3>1 DEF KeptIn
  <2> QED BY <1>1, <1>3, <2>1, <2>2, <2>3 DEF KeptIn
<1> QED BY <1>1, <1>3, <1>5, <1>6, <1>7, <1>8, <1>9 DEF RingInv, KeptInv

LEMMA RingInvNext == ASSUME FramesInv, RingInv, [ThreadsNext]_threadVars PROVE RingInv'
<1>1. CASE UNCHANGED channelVars
  <2>1. UNCHANGED <<ring, head, tail, dropped, push, pop, offered, lost, sink, taken>>
    BY <1>1 DEF channelVars, ringVars, drainVars
  <2>2. RingTypes' /\ CountInv' /\ LocalsInv' /\ SinkIsExact' /\ InFlight' = InFlight
    <3>1. RingTypes' BY <2>1 DEF RingInv, RingTypes, Cap, Buckets
    <3>2. InFlight' = InFlight BY <2>1 DEF InFlight
    <3>3. CountInv' BY <2>1, <3>2 DEF RingInv, CountInv
    <3>4. LocalsInv' BY <2>1 DEF RingInv, LocalsInv, Cap
    <3>5. SinkIsExact' BY <2>1 DEF RingInv, SinkIsExact, Buckets, Log2
    <3> QED BY <3>1, <3>2, <3>3, <3>4, <3>5
  <2>3. PICK f \in [1..head + InFlight -> 1..Len(offered)] : KeptIn(f)
    BY DEF RingInv, KeptInv
  <2>4. KeptIn(f)' BY <2>1, <2>2, <2>3 DEF KeptIn, Lists, Cap
  <2> QED BY <2>1, <2>2, <2>3, <2>4 DEF RingInv, KeptInv
<1>2. ASSUME NEW s \in Slots, s.i = Len(offered), PushBegin(s), UNCHANGED drainVars PROVE RingInv'
  BY <1>2, RingPush, RingPushFull
<1>3. CASE UNCHANGED drainVars /\ (PushWrite \/ PushPublish)
  BY <1>3, RingWrite
<1>4. CASE Drain
  BY <1>4, RingCopy, RingRelease DEF Drain
<1> QED BY <1>1, <1>2, <1>3, <1>4, RingMoves DEF RingMove

LEMMA RingIsListed == RingInv => RingIsExact /\ SinkIsExact
<1> SUFFICES ASSUME RingInv PROVE RingIsExact /\ SinkIsExact OBVIOUS
<1>1. PICK f \in [1..head + InFlight -> 1..Len(offered)] : KeptIn(f)
  BY DEF RingInv, KeptInv
<1>2. DOMAIN offered = 1..Len(offered) BY DEF RingInv, RingTypes
<1>3. RingIsExact BY <1>1, <1>2 DEF RingInv, CountInv, KeptIn, RingIsExact
<1> QED BY <1>3 DEF RingInv
-----------------------------------------------------------------------------
(* The percentiles.                                                          *)

LEMMA GreatestElement ==
    ASSUME NEW M \in Nat, NEW T, T \subseteq 0..M, T # {}
    PROVE  \E x \in T : \A y \in T : y <= x
<1> DEFINE D == {d \in 0..M : M - d \in T}
<1>1. PICK t \in T : TRUE OBVIOUS
<1>2. t \in 0..M /\ M - t \in D
  <2>1. t \in 0..M /\ M - (M - t) = t BY <1>1
  <2> QED BY <1>1, <2>1
<1>3. D \subseteq Nat OBVIOUS
<1>4. PICK d \in D : \A y \in D : d <= y
  <2> HIDE DEF D
  <2>1. D # {} BY <1>2
  <2> QED BY <1>3, <2>1, LeastElement
<1>5. d \in 0..M /\ M - d \in T BY <1>4
<1>6. ASSUME NEW y \in T PROVE y <= M - d
  <2>1. y \in 0..M /\ M - (M - y) = y BY <1>6
  <2>2. M - y \in D BY <2>1, <1>6
  <2>3. d <= M - y BY <1>4, <2>2
  <2> HIDE DEF D
  <2> QED BY <1>5, <2>1, <2>3
<1> QED BY <1>5, <1>6

LEMMA PowersGrow ==
    ASSUME NEW i \in 0..31, NEW j \in 0..31, i <= j
    PROVE  2 ^ i <= 2 ^ j
<1> DEFINE T == {l \in i..31 : ~(2 ^ i <= 2 ^ l)}
<1>0. \A l \in 0..31 : 2 ^ l \in Nat
  <2>1. 2 ^ 31 \in Nat BY SMT
  <2>2. \A l \in 0..31 : l = 31 \/ l \in 0..30 OBVIOUS
  <2> QED BY <2>1, <2>2, Doubles
<1>1. ASSUME T # {} PROVE FALSE
  <2>0. T \subseteq Nat OBVIOUS
  <2>1. PICK l \in T : \A y \in T : l <= y
    <3> HIDE DEF T
    <3> QED BY <1>1, <2>0, LeastElement
  <2>2. l \in i..31 /\ ~(2 ^ i <= 2 ^ l) BY <2>1
  <2>3. l # i BY <1>0, <2>2
  <2>4. l - 1 \in i..31 /\ l - 1 \in 0..30 /\ l - 1 \notin T BY <2>1, <2>2, <2>3
  <2>5. 2 ^ i <= 2 ^ (l - 1) BY <2>4
  <2>6. (l - 1) + 1 = l BY <2>2
  <2>7. 2 ^ (l - 1) \in Nat /\ 2 ^ ((l - 1) + 1) = 2 * 2 ^ (l - 1) BY <2>4, Doubles
  <2>8. 2 ^ i \in Nat BY <1>0
  <2> QED BY <2>2, <2>5, <2>6, <2>7, <2>8
<1>2. j \in i..31 /\ j \notin T
  <2>1. j \in i..31 OBVIOUS
  <2> HIDE DEF T
  <2> QED BY <1>1, <2>1
<1> QED BY <1>2

LEMMA Log2Grows ==
    ASSUME NEW a \in Durations, NEW b \in Durations, a <= b
    PROVE  Log2(a) <= Log2(b)
<1>1. Log2(a) \in 0..30 /\ Log2(b) \in 0..30 /\ a \in Nat /\ b \in Nat
  <2>1. a \in Nat /\ b \in Nat BY NoSampleType
  <2> QED BY <2>1, Log2Bucket DEF Buckets
<1>2. CASE a = 0
  <2>1. Log2(a) = 0 BY <1>2, Log2Bucket
  <2> QED BY <1>1, <2>1
<1>3. CASE a # 0
  <2>1. a > 0 /\ b > 0 BY <1>1, <1>3
  <2> DEFINE i == Log2(a)
             j == Log2(b)
  <2>2. 2 ^ i <= a /\ b < 2 ^ (j + 1) BY <2>1, Log2Bucket
  <2>3. i \in 0..30 /\ j \in 0..30 BY <1>1
  <2> HIDE DEF i, j
  <2>4. ASSUME ~(i <= j) PROVE FALSE
    <3>1. j + 1 \in 0..31 /\ i \in 0..31 /\ j + 1 <= i BY <2>3, <2>4
    <3>2. 2 ^ (j + 1) <= 2 ^ i BY <3>1, PowersGrow
    <3>3. 2 ^ i \in Nat /\ 2 ^ (j + 1) = 2 * 2 ^ j /\ 2 ^ j \in Nat BY <2>3, Doubles
    <3> QED BY <1>1, <2>2, <3>2, <3>3
  <2> QED BY <2>4 DEF i, j
<1> QED BY <1>2, <1>3

LEMMA Log2Range == \A ns \in Durations : Log2(ns) \in Int /\ Log2(ns) >= 0 /\ Log2(ns) <= 30
<1> SUFFICES ASSUME NEW ns \in Durations PROVE Log2(ns) \in Int /\ Log2(ns) >= 0 /\ Log2(ns) <= 30
  OBVIOUS
<1>1. Log2(ns) \in 0..30 BY Log2Bucket DEF Buckets
<1> QED BY <1>1

\* The running sum of a histogram is the only function that satisfies its equation.
LEMMA UpToIs ==
    ASSUME NEW h, NEW g \in [Buckets -> Nat], \A j \in Buckets : h[j] \in Nat,
           \A j \in Buckets : g[j] = h[j] + IF j = 0 THEN 0 ELSE g[j - 1]
    PROVE  \A k \in Buckets : UpTo(h, k) = g[k]
<1> DEFINE F(f) == [j \in Buckets |-> h[j] + IF j = 0 THEN 0 ELSE f[j - 1]]
           s == CHOOSE f : f = F(f)
<1>1. g = F(g)
  OBVIOUS
<1>2. s = F(s)
  <2> HIDE DEF F
  <2> QED BY <1>1
<1>3. \A k : UpTo(h, k) = s[k]
  BY DEF UpTo
<1> HIDE DEF s
<1>4. \A k \in Buckets : s[k] = h[k] + IF k = 0 THEN 0 ELSE s[k - 1]
  BY <1>2
<1> DEFINE T == {k \in Buckets : s[k] # g[k]}
<1>5. ASSUME T # {} PROVE FALSE
  <2>0. T \subseteq Nat BY DEF Buckets
  <2>1. PICK k \in T : \A y \in T : k <= y
    <3> HIDE DEF T
    <3> QED BY <1>5, <2>0, LeastElement
  <2>2. k \in 0..30 /\ s[k] # g[k] BY <2>1 DEF Buckets
  <2>3. CASE k = 0 BY <1>4, <2>2, <2>3 DEF Buckets
  <2>4. CASE k # 0
    <3>1. k - 1 \in Buckets /\ k - 1 \notin T BY <2>1, <2>2, <2>4 DEF Buckets
    <3>2. s[k - 1] = g[k - 1] BY <3>1
    <3> QED BY <1>4, <2>2, <2>4, <3>2 DEF Buckets
  <2> QED BY <2>3, <2>4
<1>6. \A k \in Buckets : s[k] = g[k]
  BY <1>5
<1> QED BY <1>3, <1>6

LEMMA TakenType ==
    ASSUME RingTypes
    PROVE  /\ Len(taken) \in Nat /\ DOMAIN taken = 1..Len(taken)
           /\ \A m \in 1..Len(taken) : taken[m].ns \in Durations
<1>1. taken \in Seq(Slots) BY DEF RingTypes
<1>2. Len(taken) \in Nat /\ DOMAIN taken = 1..Len(taken) /\ \A m \in 1..Len(taken) : taken[m] \in Slots
  BY <1>1
<1> QED BY <1>2 DEF Slots

\* The histogram up to a bucket counts the samples of at most that bucket.
LEMMA UpToCounts ==
    ASSUME RingTypes, SinkIsExact
    PROVE  \A k \in Buckets :
             UpTo(sink.hist, k) = Cardinality({m \in DOMAIN taken : Log2(taken[m].ns) <= k})
<1>1. PICK n \in Nat : /\ n = Len(taken) /\ DOMAIN taken = 1..n
                        /\ \A m \in 1..n : Log2(taken[m].ns) \in 0..30
  BY TakenType, Log2Bucket DEF Buckets
<1>a. PICK L : \A m \in 1..n : L[m] = Log2(taken[m].ns) /\ L[m] \in Int /\ L[m] >= 0
  <2> DEFINE l == [m \in 1..n |-> Log2(taken[m].ns)]
  <2>a. \A m \in 1..n : l[m] = Log2(taken[m].ns) OBVIOUS
  <2>b. \A m \in 1..n : Log2(taken[m].ns) \in 0..30 BY <1>1
  <2>c. \A m \in 1..n : Log2(taken[m].ns) \in Int /\ Log2(taken[m].ns) >= 0 BY <2>b
  <2>1. \A m \in 1..n : l[m] = Log2(taken[m].ns) /\ l[m] \in Int /\ l[m] >= 0 BY <2>a, <2>c
  <2> HIDE DEF l
  <2> QED BY <2>1
<1> DEFINE At(k) == {m \in 1..n : L[m] = k}
           Below0(k) == {m \in 1..n : L[m] <= k}
           g == [k \in Buckets |-> Cardinality(Below0(k))]
<1>b. \A k : /\ {m \in DOMAIN taken : Log2(taken[m].ns) = k} = At(k)
             /\ {m \in DOMAIN taken : Log2(taken[m].ns) <= k} = Below0(k)
  BY <1>1, <1>a
<1>2. \A k \in Buckets : sink.hist[k] = Cardinality(At(k)) /\ sink.hist[k] \in Nat
  <2> HIDE DEF At
  <2> QED BY <1>b DEF SinkIsExact, RingTypes
<1>3. \A k : IsFiniteSet(At(k)) /\ IsFiniteSet(Below0(k)) /\ Cardinality(Below0(k)) \in Nat
  <2> TAKE k
  <2>1. IsFiniteSet(1..n) BY <1>1, FS_Interval
  <2> QED BY <2>1, FS_Subset, FS_CardinalityType
<1>4. ASSUME NEW k \in Buckets
      PROVE  g[k] = sink.hist[k] + IF k = 0 THEN 0 ELSE g[k - 1]
  <2>1. CASE k = 0
    <3>1. \A m \in 1..n : L[m] <= k <=> L[m] = k BY <1>a, <2>1
    <3>2. At(k) = Below0(k) BY <3>1
    <3>3. sink.hist[k] = Cardinality(Below0(k)) /\ sink.hist[k] \in Nat BY <1>2, <1>4, <3>2
    <3>4. g[k] = Cardinality(Below0(k)) BY <1>4
    <3> HIDE DEF g, Below0
    <3> QED BY <2>1, <3>3, <3>4
  <2>2. CASE k # 0
    <3>1. k - 1 \in Buckets BY <1>4, <2>2 DEF Buckets
    <3>2. Below0(k) = At(k) \cup Below0(k - 1) /\ At(k) \cap Below0(k - 1) = {}
      <4>0. k \in Int BY <1>4 DEF Buckets
      <4>1. \A m \in 1..n : L[m] \in Int BY <1>a
      <4>2. \A m \in 1..n : /\ L[m] <= k <=> L[m] = k \/ L[m] <= k - 1
                            /\ ~(L[m] = k /\ L[m] <= k - 1)
        BY <4>0, <4>1
      <4>3. \A m : /\ m \in Below0(k) <=> m \in At(k) \/ m \in Below0(k - 1)
                   /\ ~(m \in At(k) /\ m \in Below0(k - 1))
        BY <4>2
      <4> HIDE DEF At, Below0
      <4> QED BY <4>3
    <3> DEFINE A == At(k)
               B == Below0(k - 1)
    <3>3. IsFiniteSet(A) /\ IsFiniteSet(B) /\ Cardinality(B) \in Nat BY <1>3
    <3>4. Below0(k) = A \cup B /\ A \cap B = {} BY <3>2
    <3>5. g[k] = Cardinality(Below0(k)) /\ g[k - 1] = Cardinality(B) /\ sink.hist[k] = Cardinality(A)
      BY <1>2, <3>1
    <3> HIDE DEF A, B
    <3>6. Cardinality(A \cup B) = Cardinality(A) + Cardinality(B)
      <4>1. Cardinality(A \cap B) = 0 BY <3>4, FS_EmptySet
      <4>2. Cardinality(A \cup B) = Cardinality(A) + Cardinality(B) - Cardinality(A \cap B)
        BY <3>3, FS_Union
      <4>3. Cardinality(A) \in Nat BY <3>3, FS_CardinalityType
      <4> QED BY <3>3, <4>1, <4>2, <4>3
    <3> QED BY <2>2, <3>4, <3>5, <3>6
  <2> QED BY <2>1, <2>2
<1>5. g \in [Buckets -> Nat]
  BY <1>3
<1>6. \A k \in Buckets : g[k] = Cardinality(Below0(k))
  OBVIOUS
<1> HIDE DEF g
<1>7. \A k \in Buckets : UpTo(sink.hist, k) = g[k]
  BY <1>2, <1>4, <1>5, UpToIs
<1> HIDE DEF Below0
<1> QED BY <1>b, <1>6, <1>7

LEMMA RankInRange ==
    ASSUME NEW n \in Nat, n > 0, NEW num \in 0..4
    PROVE  Rank(n, num, 4) \in 1..n
<1> DEFINE t == (num * n + 4 - 1) \div 4
<1>1. t \in 0..n
  <2>1. CASE num = 0 BY <2>1
  <2>2. CASE num = 1 BY <2>2
  <2>3. CASE num = 2 BY <2>3
  <2>4. CASE num = 3 BY <2>4
  <2>5. CASE num = 4 BY <2>5
  <2> QED BY <2>1, <2>2, <2>3, <2>4, <2>5
<1> HIDE DEF t
<1>2. (IF t = 0 THEN 1 ELSE t) \in 1..n BY <1>1
<1> QED BY <1>2 DEF Rank, t

\* A larger set of positions is not smaller.
LEMMA CountsGrow ==
    ASSUME NEW n \in Nat, NEW A, NEW B, A \subseteq B, B \subseteq 1..n
    PROVE  Cardinality(A) \in Nat /\ Cardinality(B) \in 0..n /\ Cardinality(A) <= Cardinality(B)
<1>1. IsFiniteSet(1..n) /\ Cardinality(1..n) = n BY FS_Interval
<1>2. IsFiniteSet(B) /\ Cardinality(B) <= n BY <1>1, FS_Subset
<1>3. IsFiniteSet(A) /\ Cardinality(A) <= Cardinality(B) BY <1>2, FS_Subset
<1> QED BY <1>2, <1>3, FS_CardinalityType

(* The bucket of rank r is that of the exact percentile.                      *)
LEMMA BucketOfRank ==
    ASSUME RingTypes, SinkIsExact, NEW num \in 0..4, taken # <<>>
    PROVE  Exact(num, 4) \in Durations /\ Percentile(num, 4) = 2 ^ Log2(Exact(num, 4))
<1>1. PICK n \in Nat : n = Len(taken) /\ DOMAIN taken = 1..n
  BY TakenType
<1>a. n > 0
  <2>1. taken \in Seq(Slots) BY DEF RingTypes
  <2> QED BY <1>1, <2>1
<1>b. PICK D \in [1..n -> Durations] : \A m \in 1..n : D[m] = taken[m].ns
  <2>1. [m \in 1..n |-> taken[m].ns] \in [1..n -> Durations] BY <1>1, TakenType
  <2> QED BY <2>1
<1> DEFINE r == Rank(n, num, 4)
           Vals == {D[m] : m \in 1..n}
           Under(e) == {m \in 1..n : D[m] <= e}
           InBuckets(k) == {m \in 1..n : Log2(D[m]) <= k}
           U(k) == Cardinality(InBuckets(k))
           B(e) == Cardinality(Under(e))
<1>2. /\ \A e : Below(e) = B(e)
      /\ \A k \in Buckets : UpTo(sink.hist, k) = U(k)
  <2>1. \A e : {k \in DOMAIN taken : taken[k].ns <= e} = Under(e) BY <1>1, <1>b
  <2>2. \A k : {m \in DOMAIN taken : Log2(taken[m].ns) <= k} = InBuckets(k) BY <1>1, <1>b
  <2> QED BY <2>1, <2>2, UpToCounts DEF Below
<1>3. {taken[k].ns : k \in DOMAIN taken} = Vals
  BY <1>1, <1>b
<1>4. /\ \A m \in 1..n : D[m] \in Durations /\ D[m] \in Nat
      /\ \A m \in 1..n : Log2(D[m]) \in Int /\ Log2(D[m]) >= 0 /\ Log2(D[m]) <= 30
      /\ \A l, m \in 1..n : D[l] <= D[m] => Log2(D[l]) <= Log2(D[m])
  BY <1>b, NoSampleType, Log2Range, Log2Grows
<1>5. r \in 1..n
  BY <1>a, RankInRange
\* Every value of a bucket is under a value of that bucket.
<1>6. \A e : B(e) \in Nat
  <2> TAKE e
  <2>1. Under(e) \subseteq 1..n OBVIOUS
  <2> HIDE DEF Under
  <2> QED BY <2>1, CountsGrow
<1>7. \A k : U(k) \in Nat
  <2> TAKE k
  <2>1. InBuckets(k) \subseteq 1..n OBVIOUS
  <2> HIDE DEF InBuckets
  <2> QED BY <2>1, CountsGrow
\* The exact percentile exists.
<1> DEFINE IsExact(e) == e \in Vals /\ B(e) >= r /\ \A m \in 1..n : D[m] < e => B(D[m]) < r
<1>8. \E e : IsExact(e)
  <2> DEFINE T == {e \in Vals : B(e) >= r}
  <2>1. Vals \subseteq Nat BY <1>4
  <2>2. T # {}
    <3>1. PICK top \in Vals : \A e \in Vals : e <= top
      <4>1. 2 ^ 30 \in Nat BY SMT
      <4>2. Vals \subseteq 0 .. 2 ^ 30 BY <1>4 DEF Durations
      <4>3. D[1] \in Vals BY <1>a
      <4> HIDE DEF Vals
      <4>4. Vals # {} BY <4>3
      <4> QED BY <4>1, <4>2, <4>4, GreatestElement
    <3>2. Under(top) = 1..n BY <3>1
    <3>3. B(top) = n
      <4>1. Cardinality(1..n) = n BY FS_Interval
      <4> QED BY <3>2, <4>1
    <3>4. top \in T
      <4> HIDE DEF B, r, Vals
      <4> QED BY <1>5, <3>1, <3>3
    <3> HIDE DEF T
    <3> QED BY <3>4
  <2>3. PICK e \in T : \A y \in T : e <= y
    <3>1. T \subseteq Nat BY <2>1
    <3> HIDE DEF T
    <3> QED BY <2>2, <3>1, LeastElement
  <2>4. ASSUME NEW m \in 1..n, D[m] < e PROVE B(D[m]) < r
    <3>1. D[m] \in Vals /\ e \in Nat /\ D[m] \in Nat BY <1>4, <2>1, <2>3
    <3>2. D[m] \notin T
      <4> HIDE DEF T
      <4> QED BY <2>3, <2>4, <3>1
    <3>3. ~(B(D[m]) >= r) BY <3>1, <3>2
    <3> HIDE DEF B, r
    <3> QED BY <1>5, <1>6, <3>3
  <2>5. e \in Vals /\ B(e) >= r BY <2>3
  <2> QED BY <2>4, <2>5
<1> DEFINE x == Exact(num, 4)
<1>9. IsExact(x)
  <2>1. x = CHOOSE ns \in Vals : B(ns) >= r /\ \A m \in 1..n : D[m] < ns => B(D[m]) < r
    <3>1. DOMAIN taken = 1..n /\ \A k \in 1..n : taken[k].ns = D[k] BY <1>1, <1>b
    <3>2. x = CHOOSE ns \in Vals :
                 Below(ns) >= r /\ \A k \in DOMAIN taken : taken[k].ns < ns => Below(taken[k].ns) < r
      <4> HIDE DEF Vals
      <4> QED BY <1>1, <1>3 DEF Exact
    <3>3. \A ns : /\ Below(ns) = B(ns)
                  /\ (\A k \in DOMAIN taken : taken[k].ns < ns => Below(taken[k].ns) < r)
                     <=> (\A m \in 1..n : D[m] < ns => B(D[m]) < r)
      <4> HIDE DEF B, r
      <4> QED BY <1>2, <3>1
    <3> HIDE DEF B, r, Vals, x
    <3> QED BY <3>2, <3>3, Zenon
  <2> HIDE DEF Vals, B, r, x
  <2> QED BY <1>8, <2>1
<1> HIDE DEF x
<1>10. /\ x \in Durations /\ x \in Nat /\ Log2(x) \in Int /\ Log2(x) >= 0 /\ Log2(x) <= 30
       /\ \A m \in 1..n : D[m] <= x => Log2(D[m]) <= Log2(x)
  <2>1. PICK l \in 1..n : x = D[l]
    <3> HIDE DEF B, r
    <3> QED BY <1>9
  <2> QED BY <1>4, <2>1
<1> DEFINE InBucket(k) == U(k) >= r /\ (k = 0 \/ U(k - 1) < r)
\* Ranks at or above that of a bucket are those of durations in or above it.
<1>11. U(Log2(x)) >= r
  <2>1. Under(x) \subseteq InBuckets(Log2(x)) /\ InBuckets(Log2(x)) \subseteq 1..n BY <1>10
  <2>2. B(x) <= U(Log2(x))
    <3> HIDE DEF Under, InBuckets
    <3> QED BY <2>1, CountsGrow
  <2>3. B(x) >= r /\ r \in Nat BY <1>5, <1>9
  <2> HIDE DEF B, U, r
  <2> QED BY <1>6, <1>7, <2>2, <2>3
<1>12. \E k \in Buckets : InBucket(k)
  <2> DEFINE T == {k \in Buckets : U(k) >= r}
  <2>1. Log2(x) \in T
    <3> HIDE DEF U, r
    <3>1. Log2(x) \in Buckets BY <1>10, Log2Bucket
    <3> QED BY <1>11, <3>1
  <2>2. PICK k \in T : \A y \in T : k <= y
    <3>1. T \subseteq Nat
      <4>1. T \subseteq Buckets
        <5> HIDE DEF U, r
        <5> QED OBVIOUS
      <4> HIDE DEF T
      <4> QED BY <4>1 DEF Buckets
    <3> HIDE DEF T
    <3> QED BY <2>1, <3>1, LeastElement
  <2>3. k \in 0..30 /\ U(k) >= r BY <2>2 DEF Buckets
  <2>4. ASSUME k # 0 PROVE U(k - 1) < r
    <3>1. k - 1 \in Buckets BY <2>3, <2>4 DEF Buckets
    <3>2. k - 1 \notin T
      <4>1. ~(k <= k - 1) BY <2>3
      <4> HIDE DEF T
      <4> QED BY <2>2, <4>1
    <3>3. ~(U(k - 1) >= r) BY <3>1, <3>2
    <3> HIDE DEF U, r
    <3> QED BY <1>5, <1>7, <3>3
  <2>5. k \in Buckets BY <2>3 DEF Buckets
  <2> QED BY <2>3, <2>4, <2>5
<1>13. PICK k \in Buckets : Percentile(num, 4) = 2 ^ k /\ InBucket(k)
  <2> DEFINE c == CHOOSE k \in Buckets : InBucket(k)
  <2>1. c \in Buckets /\ InBucket(c)
    <3> HIDE DEF InBucket
    <3> QED BY <1>12
  <2>2. \A k \in Buckets : /\ UpTo(sink.hist, k) >= r <=> U(k) >= r
                           /\ k # 0 => (UpTo(sink.hist, k - 1) < r <=> U(k - 1) < r)
    <3> TAKE k \in Buckets
    <3>1. k # 0 => k - 1 \in Buckets BY DEF Buckets
    <3> HIDE DEF U, r
    <3> QED BY <1>2, <3>1
  <2>3. c = CHOOSE k \in Buckets : UpTo(sink.hist, k) >= r /\ (k = 0 \/ UpTo(sink.hist, k - 1) < r)
    <3> HIDE DEF U, r
    <3> QED BY <2>2, Zenon
  <2>4. Percentile(num, 4) = 2 ^ c
    <3>1. sink.n = n /\ sink.n # 0 BY <1>1, <1>a DEF SinkIsExact
    <3> HIDE DEF c
    <3> QED BY <2>3, <3>1 DEF Percentile
  <2> HIDE DEF c, InBucket
  <2> QED BY <2>1, <2>4
<1>14. k = Log2(x)
  <2>0. k \in Int /\ k >= 0 /\ k <= 30 BY DEF Buckets
  <2>a. r \in Nat /\ r >= 1
    <3> HIDE DEF r
    <3> QED BY <1>5
  <2>1. ASSUME k > Log2(x) PROVE FALSE
    <3>0. k # 0 /\ k - 1 >= Log2(x) /\ k - 1 \in Int BY <1>10, <2>0, <2>1
    <3>1. U(k - 1) < r BY <1>13, <3>0
    <3>2. InBuckets(Log2(x)) \subseteq InBuckets(k - 1) /\ InBuckets(k - 1) \subseteq 1..n
      <4>1. ASSUME NEW m \in 1..n, Log2(D[m]) <= Log2(x) PROVE Log2(D[m]) <= k - 1
        <5>1. Log2(D[m]) \in Int BY <1>4
        <5> QED BY <1>10, <3>0, <4>1, <5>1
      <4> QED BY <4>1
    <3>3. U(Log2(x)) <= U(k - 1)
      <4> HIDE DEF InBuckets
      <4> QED BY <3>2, CountsGrow
    <3> HIDE DEF U, r
    <3> QED BY <1>7, <1>11, <2>a, <3>1, <3>3
  <2>2. ASSUME k < Log2(x) PROVE FALSE
    <3> DEFINE V == {D[m] : m \in InBuckets(k)}
    <3>1. U(k) >= r BY <1>13
    <3>2. InBuckets(k) # {}
      <4>1. ASSUME InBuckets(k) = {} PROVE FALSE
        <5>1. U(k) = 0 BY <4>1, FS_EmptySet
        <5> HIDE DEF U, r
        <5> QED BY <2>a, <3>1, <5>1
      <4> QED BY <4>1
    <3>3. PICK top \in V : \A e \in V : e <= top
      <4>1. 2 ^ 30 \in Nat BY SMT
      <4>2. V \subseteq 0 .. 2 ^ 30 BY <1>4 DEF Durations
      <4>3. V # {} BY <3>2
      <4> HIDE DEF V
      <4> QED BY <4>1, <4>2, <4>3, GreatestElement
    <3>4. PICK l \in InBuckets(k) : top = D[l] BY <3>3
    <3>5. l \in 1..n /\ Log2(D[l]) <= k /\ D[l] \in Nat BY <1>4, <3>4
    <3>6. InBuckets(k) \subseteq Under(D[l]) /\ Under(D[l]) \subseteq 1..n
      <4>1. \A m \in InBuckets(k) : m \in 1..n /\ D[m] <= D[l] BY <3>3, <3>4
      <4> HIDE DEF InBuckets
      <4> QED BY <4>1
    <3>7. U(k) <= B(D[l])
      <4> HIDE DEF InBuckets, Under
      <4> QED BY <3>6, CountsGrow
    <3>8. ~(x <= D[l])
      <4>1. Log2(D[l]) \in Int BY <1>4, <3>5
      <4>2. ~(Log2(x) <= Log2(D[l])) BY <1>10, <2>0, <2>2, <3>5, <4>1
      <4>3. D[l] \in Durations BY <1>4, <3>5
      <4> QED BY <1>10, <4>2, <4>3, Log2Grows
    <3>9. D[l] < x
      <4> QED BY <1>10, <3>5, <3>8
    <3>10. B(D[l]) < r
      <4> HIDE DEF B, r, Vals
      <4> QED BY <1>9, <3>5, <3>9
    <3> HIDE DEF B, U, r
    <3> QED BY <1>6, <1>7, <2>a, <3>1, <3>7, <3>10
  <2> QED BY <1>10, <2>0, <2>1, <2>2
<1> QED BY <1>10, <1>13, <1>14 DEF x

LEMMA Percentiles == ASSUME RingTypes, SinkIsExact PROVE PercentilesAreClose
<1> SUFFICES ASSUME taken # <<>>, NEW num \in 0..4
             PROVE  LET ns == IF Exact(num, 4) = 0 THEN 1 ELSE Exact(num, 4)
                    IN  Percentile(num, 4) <= ns /\ ns < 2 * Percentile(num, 4)
  BY DEF PercentilesAreClose
<1> DEFINE x == Exact(num, 4)
           k == Log2(x)
<1>1. x \in Durations /\ Percentile(num, 4) = 2 ^ k
  BY BucketOfRank
<1>2. x \in Nat /\ k \in 0..30
  <2> HIDE DEF x
  <2> QED BY <1>1, NoSampleType, Log2Bucket DEF Buckets
<1>3. x = 0 => 2 ^ k = 1
  <2>1. 2 ^ 0 = 1 BY SMT
  <2> HIDE DEF x
  <2> QED BY <1>1, <2>1, Log2Bucket
<1>4. x > 0 => 2 ^ k <= x /\ x < 2 * 2 ^ k
  <2>1. 2 ^ (k + 1) = 2 * 2 ^ k
    <3> HIDE DEF k
    <3> QED BY <1>2, Doubles
  <2> HIDE DEF x
  <2> QED BY <1>1, <2>1, Log2Bucket
<1> HIDE DEF x, k
<1>5. CASE x = 0 BY <1>1, <1>3, <1>5 DEF x
<1>6. CASE x # 0
  <2>1. 2 ^ k <= x /\ x < 2 * 2 ^ k BY <1>2, <1>4, <1>6
  <2> QED BY <1>1, <1>6, <2>1 DEF x
<1> QED BY <1>5, <1>6

(* A report of the sink tells the truth about the cycles it was given: which  *)
(* those are, how many of them missed, and every percentile of their duration *)
(* to less than a factor of two (ReportsWhatWasKept).                         *)
THEOREM TelemetryIsExact == ThreadsSpec => []ReportsWhatWasKept
<1>1. RingInv => PercentilesAreClose
  BY Percentiles DEF RingInv
<1>2. RingInv => RingIsExact /\ SinkIsExact
  BY RingIsListed
<1> QED BY <1>1, <1>2, FramesInit, FramesNext, RingInvInit, RingInvNext, PTL DEF ThreadsSpec, ReportsWhatWasKept
=============================================================================
