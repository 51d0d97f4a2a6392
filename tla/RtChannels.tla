------------------------------ MODULE RtChannels ------------------------------
(* Everything the RT thread shares, composed: a cycle stamps the gripper       *)
(* target into its command (GripperLine), exchanges it, stores the feedback    *)
(* (FeedbackTap, Seqlock) and the contact status, and pushes its sample        *)
(* (SampleRing); the pump of the Supervisor publishes what was stored.         *)
EXTENDS Seqlock, SampleRing, GripperLine

CONSTANTS CommNs(_, _),   \* comm_ns of a cycle: its index, and whether it missed
          MaxFrames,      \* bound: cycles and polls
          MaxLooks        \* bound: iterations of the pump
ASSUME BoundsAssumption == MaxFrames \in Nat /\ MaxTargets \in Nat /\ MaxLooks \in Nat
ASSUME DurationsAssumption ==
    \A i \in 0..MaxFrames, missed \in BOOLEAN : CommNs(i, missed) \in 0 .. 2 ^ 30
ASSUME SnapshotAssumption == Readers # {} /\ Parts # {}

VARIABLES rt,             \* the RT thread: where it is, and whether the exchange missed
          frames,         \* cycles and polls so far
          status,         \* version of the contact status, one store a cycle
          pump,           \* the locals of pump_loop()
          looks,          \* iterations of the pump so far
          published,      \* ghost: what was published of each snapshot
          lookedAt        \* ghost: the status version at each of the last two looks

rtVars == <<rt, frames, status>>
pumpVars == <<pump, looks, published, lookedAt>>
threadVars == <<seqlockVars, channelVars, gripVars, rtVars, pumpVars>>

P == CHOOSE r \in Readers : TRUE      \* the pump, a reader of the snapshot

ThreadsInit ==
    /\ SeqlockInit /\ RingInit /\ GripperInit
    /\ rt = [at |-> "top", missed |-> FALSE] /\ frames = 0 /\ status = 0
    /\ pump = [at |-> "asleep", seen |-> 0, version |-> 0, contact |-> 0, live |-> FALSE]
    /\ looks = 0 /\ published = <<>> /\ lookedAt = <<0, 0>>
-----------------------------------------------------------------------------
(* The RT thread: cycles of RtExecutor::run(), or, while ArmLink polls a       *)
(* faulted arm, receive() alone, which stores a snapshot but no status.        *)
StartCycle ==
    /\ rt.at = "top" /\ frames < MaxFrames
    /\ rt' = [rt EXCEPT !.at = "stamp"] /\ frames' = frames + 1
    /\ StampFlag
    /\ UNCHANGED <<seqlockVars, channelVars, setterVars, status, pumpVars>>
StampRest ==
    /\ rt.at = "stamp"
    /\ StampIndex \/ \E f \in Fields : StampField(f)
    /\ UNCHANGED <<seqlockVars, channelVars, setterVars, rtVars, pumpVars>>
\* inner_.exchange(): an answer, or a TransportTimeout that skips the store.
Exchange ==
    /\ rt.at = "stamp" /\ WriteCommand
    /\ \E missed \in BOOLEAN :
         rt' = [at |-> IF missed THEN "status" ELSE "store", missed |-> missed]
    /\ UNCHANGED <<seqlockVars, channelVars, setterVars, frames, status, pumpVars>>
Poll ==
    /\ rt.at = "top" /\ frames < MaxFrames
    /\ rt' = [rt EXCEPT !.at = "poll"] /\ frames' = frames + 1
    /\ UNCHANGED <<seqlockVars, channelVars, gripVars, status, pumpVars>>
StoreSnapshot ==
    /\ rt.at \in {"store", "poll"}
    /\ \/ (StoreBegin \/ \E p \in Parts : StorePart(p)) /\ UNCHANGED rt
       \/ /\ StoreEnd
          /\ rt' = [rt EXCEPT !.at = IF rt.at = "poll" THEN "top" ELSE "status"]
    /\ UNCHANGED <<channelVars, gripVars, frames, status, pumpVars>>
StoreStatus ==
    /\ rt.at = "status"
    /\ status' = status + 1
    /\ rt' = [rt EXCEPT !.at = "push"]
    /\ UNCHANGED <<seqlockVars, channelVars, gripVars, frames, pumpVars>>
PushSample ==
    /\ rt.at = "push"
    /\ LET i == Len(offered) IN
         PushBegin([i |-> i, missed |-> rt.missed, ns |-> CommNs(i, rt.missed)])
    /\ rt' = [rt EXCEPT !.at = IF push'.at = "idle" THEN "top" ELSE "pushing"]
    /\ UNCHANGED <<seqlockVars, drainVars, gripVars, frames, status, pumpVars>>
PushRest ==
    /\ rt.at = "pushing"
    /\ PushWrite \/ PushPublish
    /\ rt' = [rt EXCEPT !.at = IF push'.at = "idle" THEN "top" ELSE "pushing"]
    /\ UNCHANGED <<seqlockVars, drainVars, gripVars, frames, status, pumpVars>>
Reenter ==
    /\ rt.at = "top" /\ wire # Silent /\ ClearInterconnect
    /\ UNCHANGED <<seqlockVars, channelVars, setterVars, rtVars, pumpVars>>
RtThread == \/ StartCycle \/ StampRest \/ Exchange \/ Poll \/ StoreSnapshot \/ StoreStatus
            \/ PushSample \/ PushRest \/ Reenter
-----------------------------------------------------------------------------
(* pump_loop(): the status version, then the snapshot version, then, when that *)
(* is not the one published last, a load and the publication.                  *)
PumpLook ==
    /\ pump.at = "asleep" /\ looks < MaxLooks
    /\ looks' = looks + 1
    /\ pump' = [pump EXCEPT !.at = "version", !.live = status # pump.contact, !.contact = status]
    /\ lookedAt' = <<lookedAt[2], status>>
    /\ UNCHANGED <<seqlockVars, channelVars, gripVars, rtVars, published>>
PumpVersion ==
    /\ pump.at = "version"
    /\ pump' = [pump EXCEPT !.at = IF seq = pump.seen THEN "asleep" ELSE "load", !.version = seq]
    /\ IF seq = pump.seen THEN UNCHANGED seqlockVars ELSE LoadBegin(P)
    /\ UNCHANGED <<channelVars, gripVars, rtVars, looks, published, lookedAt>>
PumpLoad ==
    /\ pump.at = "load" /\ LoadStep(P)
    /\ pump' = [pump EXCEPT !.at = IF load'[P].at # "idle" THEN "load"
                                   ELSE IF CopyDone(P) /\ Unmoved(P) THEN "publish"
                                   ELSE "asleep"]
    /\ UNCHANGED <<channelVars, gripVars, rtVars, looks, published, lookedAt>>
\* The wrench: NaN under a fault; the observer's when its status is live and
\* settled; else the quasi-static one. The status is loaded here.
WrenchSources == {"none", "statics"} \cup (IF pump.live THEN {"observer"} ELSE {})
MutPumpPublish ==                 \* mutant: what was published is not remembered
    /\ pump.at = "publish"
    /\ \E w \in WrenchSources :
         published' = Append(published, [snapshot |-> got[P], wrench |-> w,
                                         status |-> status, before |-> lookedAt[1]])
    /\ pump' = [pump EXCEPT !.at = "asleep"]
    /\ UNCHANGED <<seqlockVars, channelVars, gripVars, rtVars, looks, lookedAt>>

PumpPublish ==
    /\ pump.at = "publish"
    /\ \E w \in WrenchSources :
         published' = Append(published, [snapshot |-> got[P], wrench |-> w,
                                         status |-> status, before |-> lookedAt[1]])
    /\ pump' = [pump EXCEPT !.at = "asleep", !.seen = pump.version]
    /\ UNCHANGED <<seqlockVars, channelVars, gripVars, rtVars, looks, lookedAt>>
PumpThread == PumpLook \/ PumpVersion \/ PumpLoad \/ PumpPublish

DrainThread == Drain /\ UNCHANGED <<seqlockVars, gripVars, rtVars, pumpVars>>
SetterThread == SetterStep /\ UNCHANGED <<seqlockVars, channelVars, rtVars, pumpVars>>

ThreadsNext == RtThread \/ PumpThread \/ DrainThread \/ SetterThread
ThreadsSpec == ThreadsInit /\ [][ThreadsNext]_threadVars
-----------------------------------------------------------------------------
RtAt == {"top", "stamp", "store", "poll", "status", "push", "pushing"}
ThreadsTypeOK ==
    /\ SeqlockTypeOK /\ RingTypeOK
    /\ rt \in [at : RtAt, missed : BOOLEAN] /\ frames \in 0..MaxFrames /\ status \in 0..MaxFrames
    /\ pump.at \in {"asleep", "version", "load", "publish"} /\ looks \in 0..MaxLooks

(* What the pump publishes is not stale. A frozen feedback is not presented as *)
(* live: no snapshot is published more than twice. (Twice it can be: the       *)
(* version is read before the load, which may return a later snapshot, or in   *)
(* the middle of a store.) Nor is a frozen push: the observer's residual is    *)
(* published only from a status stored after the pump's previous look.         *)
Times(s) == Cardinality({k \in DOMAIN published : published[k].snapshot = s})
PublishesFresh ==
    \A k \in DOMAIN published :
        /\ Times(published[k].snapshot) <= 2
        /\ published[k].wrench = "observer" => published[k].status > published[k].before
=============================================================================
