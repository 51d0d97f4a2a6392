------------------------------ MODULE TeleopLink ------------------------------
(* The two socket threads of teleop_socket_server and the client they serve:   *)
(* datagrams may be lost and reordered; the client sends one control at a time  *)
(* and again until last_control_seq of a feedback names it, so that copies of   *)
(* an old control may still be under way when the next one is sent.            *)
EXTENDS Naturals, FiniteSets

CONSTANT MaxControls        \* bound: controls the client sends

VARIABLES g_stop,           \* g_stop of every program
          client,           \* the control the client waits for: number, command, acknowledged
          inbound,          \* datagrams to the server
          outbound,         \* last_control_seq of the feedback on its way back
          rx, feedback,     \* the rx thread and the feedback thread
          lastControlSeq,   \* last_control_seq
          done              \* ghost: the controls carried out

linkVars == <<client, inbound, outbound, rx, feedback, lastControlSeq, done>>

ControlCmd == {"recover", "freeze", "shutdown"}     \* recover: clear_faults, rehome
NoPacket == [seq |-> 0, cmd |-> "none"]
\* What only moves a target, sets gains, or is malformed; it is not acknowledged.
Other == [seq |-> 0, cmd |-> "other"]

LinkInit ==
    /\ client = [seq |-> 0, cmd |-> "none", acked |-> TRUE]
    /\ inbound = {} /\ outbound = {}
    /\ rx = [at |-> "off", packet |-> NoPacket] /\ feedback = [at |-> "off", seq |-> 0]
    /\ lastControlSeq = 0 /\ done = {}
-----------------------------------------------------------------------------
(* The client and the network.                                               *)
Control == [seq |-> client.seq, cmd |-> client.cmd]
ClientSends(cmd) ==
    /\ client.acked /\ client.seq < MaxControls
    /\ client' = [seq |-> client.seq + 1, cmd |-> cmd, acked |-> FALSE]
    /\ inbound' \in {inbound, inbound \cup {[seq |-> client.seq + 1, cmd |-> cmd]}}
    /\ UNCHANGED <<outbound, rx, feedback, lastControlSeq, done, g_stop>>
\* A copy that gets lost changes nothing; this is one that arrives.
ClientResends ==
    /\ ~client.acked
    /\ inbound' = inbound \cup {Control}
    /\ UNCHANGED <<client, outbound, rx, feedback, lastControlSeq, done, g_stop>>
ClientHears(seq) ==
    /\ seq \in outbound
    /\ client' = [client EXCEPT !.acked = client.acked \/ seq = client.seq]
    /\ outbound' = outbound \ {seq}
    /\ UNCHANGED <<inbound, rx, feedback, lastControlSeq, done, g_stop>>
-----------------------------------------------------------------------------
(* The rx thread: one datagram a turn, g_stop read between two.               *)
MutRxTakes(p) ==     \* acknowledges on receipt
    /\ rx.at = "recv" /\ ~g_stop
    /\ p \in inbound /\ inbound' = inbound \ {p}
    /\ rx' = [at |-> "obey", packet |-> p] /\ lastControlSeq' = p.seq
    /\ UNCHANGED <<client, outbound, feedback, done, g_stop>>
RxTakes(p) ==
    /\ rx.at = "recv" /\ ~g_stop
    /\ p \in inbound /\ inbound' = inbound \ {p}
    /\ rx' = [at |-> "obey", packet |-> p]
    /\ UNCHANGED <<client, outbound, feedback, lastControlSeq, done, g_stop>>
RxOther ==
    /\ rx.at = "recv" /\ ~g_stop
    /\ rx' = [at |-> "obey", packet |-> Other]
    /\ UNCHANGED <<client, inbound, outbound, feedback, lastControlSeq, done, g_stop>>
MutRxObeys ==        \* a freeze that failed is not acknowledged
    /\ rx.at = "obey"
    /\ g_stop' = (g_stop \/ rx.packet.cmd = "shutdown")
    /\ IF rx.packet = Other \/ rx.packet.cmd = "freeze"
       THEN rx' = [at |-> "recv", packet |-> NoPacket] /\ UNCHANGED done
       ELSE rx' = [rx EXCEPT !.at = "ack"] /\ done' = done \cup {rx.packet.seq}
    /\ UNCHANGED <<client, inbound, outbound, feedback, lastControlSeq>>
\* A freeze whose snapshot cannot be loaded is acknowledged like one that was carried out.
RxObeys ==
    /\ rx.at = "obey"
    /\ g_stop' = (g_stop \/ rx.packet.cmd = "shutdown")
    /\ IF rx.packet = Other
       THEN rx' = [at |-> "recv", packet |-> NoPacket] /\ UNCHANGED done
       ELSE /\ rx' = [rx EXCEPT !.at = "ack"]
            /\ done' \in {done \cup {rx.packet.seq}}
                         \cup (IF rx.packet.cmd = "freeze" THEN {done} ELSE {})
    /\ UNCHANGED <<client, inbound, outbound, feedback, lastControlSeq>>
RxAcks ==
    /\ rx.at = "ack"
    /\ lastControlSeq' = rx.packet.seq
    /\ rx' = [at |-> "recv", packet |-> NoPacket]
    /\ UNCHANGED <<client, inbound, outbound, feedback, done, g_stop>>
RxEnds ==
    /\ rx.at = "recv" /\ g_stop
    /\ rx' = [rx EXCEPT !.at = "ended"]
    /\ UNCHANGED <<client, inbound, outbound, feedback, lastControlSeq, done, g_stop>>
Rx == (\E p \in inbound : RxTakes(p)) \/ RxOther \/ RxObeys \/ RxAcks \/ RxEnds
-----------------------------------------------------------------------------
(* The feedback thread: the acknowledgement is read when the packet is built. *)
FeedbackBegins ==
    /\ feedback.at = "top" /\ ~g_stop
    /\ feedback' = [at |-> "built", seq |-> lastControlSeq]
    /\ UNCHANGED <<client, inbound, outbound, rx, lastControlSeq, done, g_stop>>
FeedbackSends(lost) ==
    /\ feedback.at = "built"
    /\ outbound' = IF lost THEN outbound ELSE outbound \cup {feedback.seq}
    /\ feedback' = [at |-> "top", seq |-> 0]
    /\ UNCHANGED <<client, inbound, rx, lastControlSeq, done, g_stop>>
FeedbackEnds ==
    /\ feedback.at = "top" /\ g_stop
    /\ feedback' = [feedback EXCEPT !.at = "ended"]
    /\ UNCHANGED <<client, inbound, outbound, rx, lastControlSeq, done, g_stop>>
Feedback == FeedbackBegins \/ (\E lost \in BOOLEAN : FeedbackSends(lost)) \/ FeedbackEnds

Network == (\E c \in ControlCmd : ClientSends(c)) \/ ClientResends
           \/ (\E s \in outbound : ClientHears(s))
-----------------------------------------------------------------------------
(* A control the client took for acknowledged was carried out, whatever old   *)
(* copies of controls and feedback were still under way: except a freeze.     *)
AckedIsDone == client.acked /\ client.seq > 0 /\ client.cmd # "freeze" => client.seq \in done
=============================================================================
