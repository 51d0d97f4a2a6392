----------------------------- MODULE GripperLine ------------------------------
(* The gripper target, from the thread that sets it to the wire: the double    *)
(* buffer of GripperController, the stamp the RT thread puts into a command,   *)
(* and the submessage KortexTransport re-sends. Field by field and atomic by   *)
(* atomic, for the C++ orders of acquire and release loads and stores.         *)
EXTENDS Naturals, FiniteSets

CONSTANTS Fields,      \* position, speed, force
          MaxTargets   \* bound: calls of set_target

VARIABLES gripBuf, gripActive, stamping,   \* buf_, active_, stamping_
          setter,                  \* the thread that calls set_target and release
          calls,                   \* calls so far: the k-th asks for command k
          stamp,                   \* the locals of stamp()
          wire,                    \* the gripper submessage of the cyclic command
          lapped,                  \* ghost: a call refills the buffer the stamp under way copies
          torn                     \* ghost: the wire was written from a lapped stamp

setterVars == <<gripBuf, gripActive, stamping, setter, calls>>
gripVars == <<setterVars, stamp, wire, lapped, torn>>

\* A field of a command: which one it is of, and whether it was clamped to 0..1 yet.
Raw(k)     == [f \in Fields |-> [cmd |-> k, clamped |-> FALSE]]
GripCommand(k) == [f \in Fields |-> [cmd |-> k, clamped |-> TRUE]]
GripDefault == GripCommand(0)          \* GripperCommand{}: fully open at full speed
Silent  == [f \in {} |-> 0]    \* no submessage: the gripper is limp
NoStamp == [at |-> "idle", on |-> FALSE, b |-> 0, left |-> {}, out |-> GripDefault]

GripperInit ==
    /\ gripBuf = [b \in {0, 1} |-> GripDefault] /\ gripActive = 0 /\ stamping = FALSE
    /\ setter = [at |-> "idle", left |-> {}] /\ calls = 0
    /\ stamp = NoStamp /\ wire = Silent /\ lapped = FALSE /\ torn = FALSE
-----------------------------------------------------------------------------
(* set_target() and release(), one non-RT thread.                            *)
Next1 == 1 - gripActive
\* Nothing makes the setter wait for a stamp: a second call may fill what it copies.
Laps == stamp.at = "copy" /\ stamp.b = Next1 /\ stamp.left # {}
MutSetBegin ==                    \* mutant: stamping_ is published before the buffer
    /\ setter.at = "idle" /\ calls < MaxTargets
    /\ calls' = calls + 1 /\ lapped' = (lapped \/ Laps)
    /\ gripBuf' = [gripBuf EXCEPT ![Next1] = Raw(calls + 1)]
    /\ setter' = [at |-> "clamp", left |-> Fields]
    /\ stamping' = TRUE /\ UNCHANGED gripActive

SetBegin ==
    /\ setter.at = "idle" /\ calls < MaxTargets
    /\ calls' = calls + 1 /\ lapped' = (lapped \/ Laps)
    /\ gripBuf' = [gripBuf EXCEPT ![Next1] = Raw(calls + 1)]
    /\ setter' = [at |-> "clamp", left |-> Fields]
    /\ UNCHANGED <<gripActive, stamping>>
SetClamp(f) ==
    /\ setter.at = "clamp" /\ f \in setter.left
    /\ gripBuf' = [gripBuf EXCEPT ![Next1][f].clamped = TRUE]
    /\ setter' = [at |-> IF setter.left = {f} THEN "index" ELSE "clamp", left |-> setter.left \ {f}]
    /\ UNCHANGED <<gripActive, stamping, calls, lapped>>
SetIndex ==
    /\ setter.at = "index"
    /\ gripActive' = Next1
    /\ setter' = [setter EXCEPT !.at = "flag"]
    /\ UNCHANGED <<gripBuf, stamping, calls, lapped>>
SetFlag ==
    /\ setter.at = "flag"
    /\ stamping' = TRUE
    /\ setter' = [setter EXCEPT !.at = "idle"]
    /\ UNCHANGED <<gripBuf, gripActive, calls, lapped>>
Release ==
    /\ setter.at = "idle" /\ stamping
    /\ stamping' = FALSE
    /\ UNCHANGED <<gripBuf, gripActive, setter, calls, lapped>>
SetterStep ==
    /\ SetBegin \/ (\E f \in Fields : SetClamp(f)) \/ SetIndex \/ SetFlag \/ Release
    /\ UNCHANGED <<stamp, wire, torn>>
-----------------------------------------------------------------------------
(* stamp() and write_command(), the RT thread.                               *)
StampFlag ==
    /\ stamp.at = "idle"
    /\ stamp' = [NoStamp EXCEPT !.at = "index", !.on = stamping]
    /\ UNCHANGED <<wire, lapped, torn>>
StampIndex ==
    /\ stamp.at = "index"
    /\ stamp' = [stamp EXCEPT !.at = "copy", !.b = gripActive, !.left = Fields]
    /\ lapped' = FALSE /\ UNCHANGED <<wire, torn>>
StampField(f) ==
    /\ stamp.at = "copy" /\ f \in stamp.left
    /\ stamp' = [stamp EXCEPT !.out[f] = gripBuf[stamp.b][f], !.left = @ \ {f}]
    /\ UNCHANGED <<wire, lapped, torn>>
Stamped == stamp.at = "copy" /\ stamp.left = {}
\* The submessage stays in the cyclic command: an inactive stamp leaves the last one.
WriteCommand ==
    /\ Stamped
    /\ wire' = IF stamp.on THEN stamp.out ELSE wire
    /\ torn' = IF stamp.on THEN lapped ELSE torn
    /\ stamp' = NoStamp /\ UNCHANGED lapped
\* set_servoing_low_level() clears the interconnect of the cyclic command.
ClearInterconnect == wire' = Silent /\ torn' = FALSE /\ UNCHANGED <<stamp, lapped>>
-----------------------------------------------------------------------------
(* Refuted. The RT reader never observes a torn command: what a stamp that is  *)
(* on has copied is one whole clamped command that a call asked for.           *)
StampIsWhole ==
    Stamped /\ stamp.on => \E k \in 1..calls : stamp.out = GripCommand(k)

(* What goes out to the gripper is nothing, or one whole clamped command that  *)
(* some call asked for: never the default (which opens), never a mix of two.   *)
(* And it only moves forward: neither a release nor a stamp that finds         *)
(* stamping off brings an older command back. The one way to anything else is  *)
(* a call that refills the buffer a stamp is still copying, and even what that *)
(* sends has no field that no call asked for.                                  *)
NotAfter(w, k) == \A f \in DOMAIN w : w[f].cmd <= k
Asked(w) == \A f \in DOMAIN w : w[f].cmd \in 1..calls
WireMovesForward ==
    [][\/ wire' = Silent
       \/ torn' /\ Asked(wire')
       \/ \E k \in 1..calls : wire' = GripCommand(k) /\ (torn \/ NotAfter(wire, k))]_wire
=============================================================================
