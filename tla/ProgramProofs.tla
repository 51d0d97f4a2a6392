---------------------------- MODULE ProgramProofs ----------------------------
(***************************************************************************)
(* For every program and command line, however it is stopped: the arm is    *)
(* taken once and given back after its owners, every thread is joined, the  *)
(* report is complete. For every number of controls, over a link that       *)
(* loses, duplicates and reorders: an acknowledgement can be trusted.       *)
(***************************************************************************)
EXTENDS Programs, TLAPS

\* A number the server may still tell the client c: of an older control, or
\* of one that is among those carried out, d (or is a freeze).
Truthful(n, c, d) ==
  /\ n \in Nat /\ n <= c.seq
  /\ n = c.seq /\ n > 0 /\ c.cmd # "freeze" => n \in d

\* A packet the client c did send.
Sent(p, c) == p.seq \in 1 .. c.seq /\ (p.seq = c.seq => p.cmd = c.cmd)

LinkTypes ==
  /\ client = [seq |-> client.seq, cmd |-> client.cmd, acked |-> client.acked]
  /\ client.seq \in Nat /\ client.acked \in BOOLEAN /\ (~client.acked => client.seq > 0)
  /\ rx = [at |-> rx.at, packet |-> rx.packet]
  /\ feedback = [at |-> feedback.at, seq |-> feedback.seq]

LinkInv ==
  /\ LinkTypes
  /\ AckedIsDone
  /\ Truthful(lastControlSeq, client, done)
  /\ Truthful(feedback.seq, client, done)
  /\ \A n \in outbound : Truthful(n, client, done)
  /\ \A p \in inbound : Sent(p, client)
  /\ rx.at = "obey" => rx.packet = Other \/ Sent(rx.packet, client)
  /\ rx.at = "ack" => Truthful(rx.packet.seq, client, done)

\* Nothing has been sent and nothing acknowledged.
LEMMA InitLink == Init => LinkInv
<1> SUFFICES ASSUME Init PROVE LinkInv
  OBVIOUS
<1>1. /\ client = [seq |-> 0, cmd |-> "none", acked |-> TRUE]
      /\ inbound = {} /\ outbound = {} /\ lastControlSeq = 0
      /\ rx = [at |-> "off", packet |-> NoPacket] /\ feedback = [at |-> "off", seq |-> 0]
  BY DEF Init, LinkInit
<1>2. LinkTypes /\ AckedIsDone
  BY <1>1 DEF LinkTypes, AckedIsDone
<1>3. Truthful(0, client, done)
  BY <1>1 DEF Truthful
<1>4. feedback.seq = 0 /\ rx.at = "off"
  BY <1>1
<1>5. QED
  BY <1>1, <1>2, <1>3, <1>4 DEF LinkInv

\* A control is sent only when the one before it was acknowledged: what is
\* under way is then about older ones.
LEMMA ClientSendsLink ==
  ASSUME LinkInv, NEW cmd \in ControlCmd, ClientSends(cmd)
  PROVE  LinkInv'
<1> DEFINE new == [seq |-> client.seq + 1, cmd |-> cmd, acked |-> FALSE]
<1>1. /\ client' = new /\ client.seq \in Nat
      /\ inbound' \in {inbound, inbound \cup {[seq |-> client.seq + 1, cmd |-> cmd]}}
      /\ outbound' = outbound /\ rx' = rx /\ feedback' = feedback
      /\ lastControlSeq' = lastControlSeq /\ done' = done
  BY DEF ClientSends, LinkInv, LinkTypes
<1>2. new.seq = client.seq + 1 /\ new.cmd = cmd /\ new.acked = FALSE
  OBVIOUS
<1> HIDE DEF new
<1>3. \A n : Truthful(n, client, done) => Truthful(n, new, done)
  BY <1>1, <1>2 DEF Truthful
<1>4. \A p : Sent(p, client) => Sent(p, new)
  BY <1>1, <1>2 DEF Sent
<1>5. Sent([seq |-> client.seq + 1, cmd |-> cmd], new)
  BY <1>1, <1>2 DEF Sent
<1>6. LinkTypes' /\ AckedIsDone'
  <2>1. client' = [seq |-> client.seq + 1, cmd |-> cmd, acked |-> FALSE]
    BY <1>1 DEF new
  <2>2. QED
    BY <1>1, <2>1 DEF LinkInv, LinkTypes, AckedIsDone
<1>7. \A p \in inbound' : Sent(p, new)
  BY <1>1, <1>4, <1>5 DEF LinkInv
<1>8. /\ Truthful(lastControlSeq, new, done) /\ Truthful(feedback.seq, new, done)
      /\ \A n \in outbound : Truthful(n, new, done)
      /\ rx.at = "obey" => rx.packet = Other \/ Sent(rx.packet, new)
      /\ rx.at = "ack" => Truthful(rx.packet.seq, new, done)
  BY <1>3, <1>4 DEF LinkInv
<1>9. QED
  BY <1>1, <1>6, <1>7, <1>8 DEF LinkInv

\* The copy that is sent again is the control the client waits for.
LEMMA ClientResendsLink == ASSUME LinkInv, ClientResends PROVE LinkInv'
<1>1. /\ ~client.acked /\ inbound' = inbound \cup {Control}
      /\ client' = client /\ outbound' = outbound /\ rx' = rx /\ feedback' = feedback
      /\ lastControlSeq' = lastControlSeq /\ done' = done
  BY DEF ClientResends
<1>2. client.seq \in Nat /\ client.seq > 0
  BY <1>1 DEF LinkInv, LinkTypes
<1>3. Sent(Control, client)
  BY <1>2 DEF Control, Sent
<1>4. \A p \in inbound' : Sent(p, client)
  BY <1>1, <1>3 DEF LinkInv
<1>5. LinkTypes' /\ AckedIsDone'
  BY <1>1 DEF LinkInv, LinkTypes, AckedIsDone
<1>6. QED
  BY <1>1, <1>4, <1>5 DEF LinkInv

\* The client believes a feedback that names its control, which is truthful.
LEMMA ClientHearsLink ==
  ASSUME LinkInv, NEW seq \in outbound, ClientHears(seq)
  PROVE  LinkInv'
<1> DEFINE new == [client EXCEPT !.acked = client.acked \/ seq = client.seq]
<1>1. /\ client' = new /\ outbound' = outbound \ {seq}
      /\ inbound' = inbound /\ rx' = rx /\ feedback' = feedback
      /\ lastControlSeq' = lastControlSeq /\ done' = done
  BY DEF ClientHears
<1>2. /\ client = [seq |-> client.seq, cmd |-> client.cmd, acked |-> client.acked]
      /\ client.seq \in Nat /\ client.acked \in BOOLEAN /\ (~client.acked => client.seq > 0)
  BY DEF LinkInv, LinkTypes
<1>3. new = [seq |-> client.seq, cmd |-> client.cmd, acked |-> client.acked \/ seq = client.seq]
  BY <1>2
<1>4. new.seq = client.seq /\ new.cmd = client.cmd
  BY <1>3
<1>5. new.acked = (client.acked \/ seq = client.seq)
  BY <1>3
<1> HIDE DEF new
<1>6. \A n : Truthful(n, new, done) <=> Truthful(n, client, done)
  BY <1>4 DEF Truthful
<1>7. \A p : Sent(p, new) <=> Sent(p, client)
  BY <1>4 DEF Sent
<1>8. LinkTypes'
  <2>1. client' = [seq |-> client'.seq, cmd |-> client'.cmd, acked |-> client'.acked]
    BY <1>1, <1>3, <1>4
  <2>2. new.acked \in BOOLEAN /\ (~new.acked => client.seq > 0)
    BY <1>2, <1>5, Zenon
  <2>3. QED
    BY <1>1, <1>2, <1>4, <2>1, <2>2 DEF LinkInv, LinkTypes
<1>9. AckedIsDone'
  <2> SUFFICES ASSUME new.acked, new.seq > 0, new.cmd # "freeze" PROVE new.seq \in done
    BY <1>1 DEF AckedIsDone
  <2>1. CASE client.acked
    BY <1>4, <2>1 DEF LinkInv, AckedIsDone
  <2>2. CASE seq = client.seq
    <3>1. Truthful(seq, client, done)
      BY DEF LinkInv
    <3>2. QED
      BY <1>4, <2>2, <3>1 DEF Truthful
  <2>3. QED
    BY <1>5, <2>1, <2>2
<1>10. /\ Truthful(lastControlSeq, new, done) /\ Truthful(feedback.seq, new, done)
       /\ \A n \in outbound' : Truthful(n, new, done)
       /\ \A p \in inbound : Sent(p, new)
       /\ rx.at = "obey" => rx.packet = Other \/ Sent(rx.packet, new)
       /\ rx.at = "ack" => Truthful(rx.packet.seq, new, done)
  BY <1>1, <1>6, <1>7 DEF LinkInv
<1>11. QED
  BY <1>1, <1>8, <1>9, <1>10 DEF LinkInv

\* The rx thread takes a packet the client sent, or one that is no control.
LEMMA RxTakesLink ==
  ASSUME LinkInv, NEW p, RxTakes(p) \/ RxOther
  PROVE  LinkInv'
<1>1. /\ inbound' \in {inbound, inbound \ {p}}
      /\ client' = client /\ outbound' = outbound /\ feedback' = feedback
      /\ lastControlSeq' = lastControlSeq /\ done' = done
  BY DEF RxTakes, RxOther
<1>2. rx' = [at |-> "obey", packet |-> p] \/ rx' = [at |-> "obey", packet |-> Other]
  BY DEF RxTakes, RxOther
<1>3. /\ rx' = [at |-> rx'.at, packet |-> rx'.packet] /\ rx'.at = "obey"
      /\ rx'.packet = Other \/ rx'.packet = p
  BY <1>2
<1>4. rx'.packet = Other \/ Sent(rx'.packet, client)
  BY <1>1, <1>2, <1>3 DEF LinkInv, RxTakes, RxOther, Sent
<1>5. LinkTypes' /\ AckedIsDone'
  BY <1>1, <1>3 DEF LinkInv, LinkTypes, AckedIsDone
<1>6. QED
  BY <1>1, <1>3, <1>4, <1>5 DEF LinkInv

\* A control is carried out before it is acknowledged.
LEMMA RxObeysLink == ASSUME LinkInv, RxObeys PROVE LinkInv'
<1>1. /\ client' = client /\ outbound' = outbound /\ feedback' = feedback
      /\ inbound' = inbound /\ lastControlSeq' = lastControlSeq /\ rx.at = "obey"
  BY DEF RxObeys
<1>2. CASE rx.packet = Other
  <2>1. rx' = [at |-> "recv", packet |-> NoPacket] /\ done' = done
    BY <1>2 DEF RxObeys
  <2>2. /\ rx'.at = "recv" /\ rx' = [at |-> rx'.at, packet |-> rx'.packet]
    BY <2>1
  <2>3. LinkTypes' /\ AckedIsDone'
    BY <1>1, <2>1, <2>2 DEF LinkInv, LinkTypes, AckedIsDone
  <2>4. QED
    BY <1>1, <2>1, <2>2, <2>3 DEF LinkInv
<1>3. CASE rx.packet # Other
  <2>1. /\ rx' = [rx EXCEPT !.at = "ack"]
        /\ done' \in {done \cup {rx.packet.seq}}
                     \cup (IF rx.packet.cmd = "freeze" THEN {done} ELSE {})
    BY <1>3 DEF RxObeys
  <2>2. done' = done \cup {rx.packet.seq} \/ (rx.packet.cmd = "freeze" /\ done' = done)
    BY <2>1
  <2>3. rx = [at |-> rx.at, packet |-> rx.packet]
    BY DEF LinkInv, LinkTypes
  <2>4. rx' = [at |-> "ack", packet |-> rx.packet]
    BY <2>1, <2>3
  <2>5. /\ rx'.at = "ack" /\ rx'.packet = rx.packet
        /\ rx' = [at |-> rx'.at, packet |-> rx'.packet]
    BY <2>4
  <2>6. Sent(rx.packet, client) /\ client.seq \in Nat
    BY <1>1, <1>3 DEF LinkInv, LinkTypes
  <2>7. Truthful(rx.packet.seq, client, done')
    <3>1. rx.packet.seq \in Nat /\ rx.packet.seq <= client.seq
      BY <2>6 DEF Sent
    <3>2. rx.packet.seq = client.seq /\ client.cmd # "freeze" => rx.packet.seq \in done'
      BY <2>2, <2>6 DEF Sent
    <3>3. QED
      BY <3>1, <3>2 DEF Truthful
  <2>8. done \subseteq done'
    BY <2>2
  <2>9. \A n : Truthful(n, client, done) => Truthful(n, client, done')
    BY <2>8 DEF Truthful
  <2>10. LinkTypes' /\ AckedIsDone'
    BY <1>1, <2>5, <2>8 DEF LinkInv, LinkTypes, AckedIsDone
  <2>11. /\ Truthful(lastControlSeq, client, done') /\ Truthful(feedback.seq, client, done')
         /\ \A n \in outbound : Truthful(n, client, done')
    BY <2>9 DEF LinkInv
  <2>12. QED
    BY <1>1, <2>5, <2>7, <2>10, <2>11 DEF LinkInv
<1>4. QED
  BY <1>2, <1>3

\* The acknowledgement is about the control the thread has just obeyed.
LEMMA RxAcksLink == ASSUME LinkInv, RxAcks PROVE LinkInv'
<1>1. /\ client' = client /\ outbound' = outbound /\ feedback' = feedback
      /\ inbound' = inbound /\ done' = done
      /\ rx.at = "ack" /\ lastControlSeq' = rx.packet.seq
      /\ rx' = [at |-> "recv", packet |-> NoPacket]
  BY DEF RxAcks
<1>2. rx'.at = "recv" /\ rx' = [at |-> rx'.at, packet |-> rx'.packet]
  BY <1>1
<1>3. Truthful(lastControlSeq', client, done)
  BY <1>1 DEF LinkInv
<1>4. LinkTypes' /\ AckedIsDone'
  BY <1>1, <1>2 DEF LinkInv, LinkTypes, AckedIsDone
<1>5. QED
  BY <1>1, <1>2, <1>3, <1>4 DEF LinkInv

\* What the feedback thread carries was truthful when it was read, and a
\* truth does not expire: the client only moves on to the next number.
LEMMA FeedbackLink == ASSUME LinkInv, Feedback PROVE LinkInv'
<1>0. feedback = [at |-> feedback.at, seq |-> feedback.seq] /\ client.seq \in Nat
  BY DEF LinkInv, LinkTypes
<1>1. /\ client' = client /\ rx' = rx /\ inbound' = inbound /\ done' = done
      /\ lastControlSeq' = lastControlSeq
  BY DEF Feedback, FeedbackBegins, FeedbackSends, FeedbackEnds
<1>2. outbound' = outbound \/ outbound' = outbound \cup {feedback.seq}
  BY DEF Feedback, FeedbackBegins, FeedbackSends, FeedbackEnds
<1>3. \/ feedback' = [at |-> "built", seq |-> lastControlSeq]
      \/ feedback' = [at |-> "top", seq |-> 0]
      \/ feedback' = [feedback EXCEPT !.at = "ended"]
  BY DEF Feedback, FeedbackBegins, FeedbackSends, FeedbackEnds
<1>4. /\ feedback' = [at |-> feedback'.at, seq |-> feedback'.seq]
      /\ feedback'.seq \in {lastControlSeq, 0, feedback.seq}
  BY <1>0, <1>3
<1>5. Truthful(0, client, done)
  BY <1>0 DEF Truthful
<1>6. /\ Truthful(feedback'.seq, client, done)
      /\ \A n \in outbound' : Truthful(n, client, done)
  BY <1>2, <1>4, <1>5 DEF LinkInv
<1>7. LinkTypes' /\ AckedIsDone'
  BY <1>1, <1>4 DEF LinkInv, LinkTypes, AckedIsDone
<1>8. QED
  BY <1>1, <1>6, <1>7 DEF LinkInv

\* The threads start and end with nothing in hand.
LEMMA IdleLink ==
  ASSUME LinkInv, UNCHANGED <<client, inbound, outbound, lastControlSeq, done>>,
         rx' = rx \/ (\E a \in {"recv", "ended"} : rx' = [rx EXCEPT !.at = a]),
         feedback' = feedback \/ feedback' = [feedback EXCEPT !.at = "top"]
  PROVE  LinkInv'
<1>1. /\ rx = [at |-> rx.at, packet |-> rx.packet]
      /\ feedback = [at |-> feedback.at, seq |-> feedback.seq]
  BY DEF LinkInv, LinkTypes
<1>2. /\ rx' = [at |-> rx'.at, packet |-> rx'.packet]
      /\ rx' = rx \/ rx'.at \in {"recv", "ended"}
  BY <1>1
<1>3. /\ feedback' = [at |-> feedback'.at, seq |-> feedback'.seq]
      /\ feedback'.seq = feedback.seq
  BY <1>1
<1>4. LinkTypes' /\ AckedIsDone'
  BY <1>2, <1>3 DEF LinkInv, LinkTypes, AckedIsDone
<1>5. QED
  BY <1>2, <1>3, <1>4 DEF LinkInv

\* main(), the other threads and the operator only start the two threads.
LEMMA OthersLink == ASSUME Next, ~Link PROVE
  /\ UNCHANGED <<client, inbound, outbound, lastControlSeq, done>>
  /\ rx' = rx \/ rx' = [rx EXCEPT !.at = "recv"]
  /\ feedback' = feedback \/ feedback' = [feedback EXCEPT !.at = "top"]
<1>1. CASE Main
  <2>1. CASE Starts
    BY <2>1 DEF Starts
  <2>2. CASE ~Starts
    BY <1>1, <2>2, Zenon DEF Main, Refuses, Passes, CountsDown, SessionRefused, Servos, Joins,
       RunReturns, Stops, ShutsDown, Exits, linkVars
  <2>3. QED
    BY <2>1, <2>2
<1>2. CASE Throws \/ Interrupt \/ Cycle \/ RtEnds \/ Drains \/ DrainEnds
  BY <1>2, Zenon DEF Throws, Interrupt, Cycle, RtEnds, Drains, DrainEnds, linkVars
<1>3. CASE WatchdogEnds \/ PublisherEnds \/ SupervisorEnds \/ Stopped
  BY <1>3, Zenon DEF WatchdogEnds, PublisherEnds, SupervisorEnds, Stopped, linkVars, vars
<1>4. QED
  BY <1>1, <1>2, <1>3 DEF Next

\* So every step keeps the link truthful.
LEMMA NextLink == ASSUME LinkInv, [Next]_vars PROVE LinkInv'
<1>1. CASE Link
  <2>1. Rx \/ Feedback \/ Network
    BY <1>1 DEF Link, Linked
  <2>2. CASE Rx
    <3>1. CASE \E p \in inbound : RxTakes(p)
      BY <3>1, RxTakesLink
    <3>2. CASE RxOther
      BY <3>2, RxTakesLink
    <3>3. CASE RxObeys
      BY <3>3, RxObeysLink
    <3>4. CASE RxAcks
      BY <3>4, RxAcksLink
    <3>5. CASE RxEnds
      BY <3>5, IdleLink DEF RxEnds
    <3>6. QED
      BY <2>2, <3>1, <3>2, <3>3, <3>4, <3>5 DEF Rx
  <2>3. CASE Feedback
    BY <2>3, FeedbackLink
  <2>4. CASE Network
    BY <2>4, ClientSendsLink, ClientResendsLink, ClientHearsLink DEF Network
  <2>5. QED
    BY <2>1, <2>2, <2>3, <2>4
<1>2. CASE Next /\ ~Link
  BY <1>2, OthersLink, IdleLink
<1>3. CASE UNCHANGED vars
  BY <1>3, IdleLink DEF vars, linkVars
<1>4. QED
  BY <1>1, <1>2, <1>3

\* A control the client takes for acknowledged was carried out, unless it was
\* a freeze (the rx and feedback threads of teleop_socket_server), whatever
\* copies of controls and feedback are still under way.
THEOREM AcknowledgementIsTrue == Spec => []AckedIsDone
<1>1. LinkInv => AckedIsDone
  BY DEF LinkInv
<1>2. QED
  BY <1>1, InitLink, NextLink, PTL DEF Spec

-----------------------------------------------------------------------------
(* What every script keeps to, whichever program and options.               *)

Owners == {"rt", "rx", "feedback", "supervisor"}   \* threads that drive or answer for the arm
GoHome == Countdown(<<Shutdown>>)                  \* a countdown that a stop does end
Refusable == Open(StreamRefused)
Steps ==
  {CommandLine, Connect, Receive, Servo, Run, Shutdown, StopDrain, Watch, Loop, StopRt, Sleep, Socket,
   Raise, Countdown(Ignored), GoHome, Refusable, <<"skip">>}
  \union {Start(t) : t \in ThreadNames} \union {Join(t) : t \in ThreadNames}
Early == {CommandLine, Socket, GoHome}             \* the steps main() may return at
Started(T) == {Start(t) : t \in T}
Joined(T) == {Join(t) : t \in T}

\* x is followed by y; nothing of Y comes after something of X.
Followed(s, x, y) == \A i \in 1 .. Len(s) : s[i] = x => \E j \in i + 1 .. Len(s) : s[j] = y
NoneAfter(s, X, Y) == \A i, j \in 1 .. Len(s) : i < j => ~(s[i] \in X /\ s[j] \in Y)
Has(s, x) == \E i \in 1 .. Len(s) : s[i] = x
Gone(s, Y) == \A i \in 1 .. Len(s) : s[i] \notin Y

\* A thread that is started is joined, an arm that is taken is given back; no
\* early way out behind either; the owners are joined before the arm is given
\* back; the loop is over before the drain is told to end.
Ordered(s) ==
  /\ s \in Seq(Steps)
  /\ \A t \in ThreadNames : Followed(s, Start(t), Join(t))
  /\ Followed(s, Servo, Shutdown)
  /\ NoneAfter(s, {Servo, Shutdown} \union Started(ThreadNames) \union Joined(ThreadNames), Early)
  /\ NoneAfter(s, {Servo, Shutdown}, {Servo})
  /\ NoneAfter(s, {Shutdown}, Started(Owners) \union Joined(Owners))
  /\ NoneAfter(s, {Shutdown} \union Started(ThreadNames \ {"rt", "supervisor"}) \union Joined(ThreadNames),
               {Refusable})
  /\ NoneAfter(s, {StopDrain}, {Run, Start("rt")})
  /\ NoneAfter(s, {Start("rt")}, {StopDrain})

\* The scripts of dry runs are in order.
LEMMA DriesOrdered ==
  /\ Ordered(GravCompDry) /\ Ordered(CartesianImpedanceDry) /\ Ordered(VelocityHoldDry)
  /\ Ordered(VelocityProbeDry) /\ Ordered(JointTorqueDry) /\ Ordered(TrajectoryDry) /\ Ordered(StreamDry)
  /\ \A sequence : Ordered(JointPositionDry(sequence))
<1> USE DEF CommandLine, Connect, Receive, Servo, Run, Shutdown, StopDrain, Watch, Loop, StopRt,
  Sleep, Socket, Raise, Start, Join, Countdown, Ignored, Open, StreamRefused, Refusable,
  Ordered, Followed, NoneAfter, Steps, ThreadNames, Owners, Early, GoHome, Started, Joined
<1>1. Ordered(GravCompDry)
  BY DEF GravCompDry
<1>2. Ordered(CartesianImpedanceDry)
  BY DEF CartesianImpedanceDry
<1>3. Ordered(VelocityHoldDry)
  BY DEF VelocityHoldDry
<1>4. Ordered(VelocityProbeDry)
  BY DEF VelocityProbeDry
<1>5. Ordered(JointTorqueDry)
  BY DEF JointTorqueDry
<1>6. Ordered(TrajectoryDry)
  BY DEF TrajectoryDry
<1>7. Ordered(StreamDry)
  BY DEF StreamDry
<1>8. ASSUME NEW sequence PROVE Ordered(JointPositionDry(sequence))
  <2>1. CASE sequence
    BY <2>1 DEF JointPositionDry
  <2>2. CASE ~sequence
    BY <2>2 DEF JointPositionDry
  <2>3. QED
    BY <2>1, <2>2
<1> HIDE DEF CommandLine, Connect, Receive, Servo, Run, Shutdown, StopDrain, Watch, Loop, StopRt,
  Sleep, Socket, Raise, Start, Join, Countdown, Ignored, Open, StreamRefused, Refusable,
  Ordered, Followed, NoneAfter, Steps, ThreadNames, Owners, Early, GoHome, Started, Joined
<1>9. QED
  BY <1>1, <1>2, <1>3, <1>4, <1>5, <1>6, <1>7, <1>8, Zenon

\* So are the live ones, with every choice of the optional threads.
LEMMA MainsOrdered ==
  /\ \A timed : /\ Ordered(GravCompMain(timed)) /\ Ordered(CartesianImpedanceMain(timed))
                /\ Ordered(JointVelocityMain(timed)) /\ Ordered(JointPositionMain(timed))
  /\ \A timed, track : Ordered(JointImpedanceMain(timed, track))
  /\ \A phase : Ordered(VelocityHoldMain(phase))
  /\ Ordered(VelocityProbeMain) /\ Ordered(JointTorqueMain) /\ Ordered(TrajectoryMain)
  /\ Ordered(StreamMain) /\ Ordered(TeleopMain)
<1> USE DEF When, CommandLine, Connect, Receive, Servo, Run, Shutdown, StopDrain, Watch, Loop, StopRt,
  Sleep, Socket, Raise, Start, Join, Countdown, Ignored, Open, StreamRefused, Refusable,
  Ordered, Followed, NoneAfter, Steps, ThreadNames, Owners, Early, GoHome, Started, Joined
<1>1. ASSUME NEW timed PROVE Ordered(GravCompMain(timed))
  <2>1. CASE timed
    BY <2>1 DEF GravCompMain
  <2>2. CASE ~timed
    BY <2>2 DEF GravCompMain
  <2>3. QED
    BY <2>1, <2>2
<1>2. ASSUME NEW timed PROVE Ordered(CartesianImpedanceMain(timed))
  <2>1. CASE timed
    BY <2>1 DEF CartesianImpedanceMain
  <2>2. CASE ~timed
    BY <2>2 DEF CartesianImpedanceMain
  <2>3. QED
    BY <2>1, <2>2
<1>3. ASSUME NEW timed PROVE Ordered(JointVelocityMain(timed))
  <2>1. CASE timed
    BY <2>1 DEF JointVelocityMain
  <2>2. CASE ~timed
    BY <2>2 DEF JointVelocityMain
  <2>3. QED
    BY <2>1, <2>2
<1>4. ASSUME NEW timed PROVE Ordered(JointPositionMain(timed))
  <2>1. CASE timed
    BY <2>1 DEF JointPositionMain
  <2>2. CASE ~timed
    BY <2>2 DEF JointPositionMain
  <2>3. QED
    BY <2>1, <2>2
<1>5. ASSUME NEW timed, NEW track PROVE Ordered(JointImpedanceMain(timed, track))
  <2>1. CASE timed /\ track
    BY <2>1 DEF JointImpedanceMain
  <2>2. CASE timed /\ ~track
    BY <2>2 DEF JointImpedanceMain
  <2>3. CASE ~timed /\ track
    BY <2>3 DEF JointImpedanceMain
  <2>4. CASE ~timed /\ ~track
    BY <2>4 DEF JointImpedanceMain
  <2>5. QED
    BY <2>1, <2>2, <2>3, <2>4
<1>6. ASSUME NEW phase PROVE Ordered(VelocityHoldMain(phase))
  <2>1. CASE phase = "hold"
    BY <2>1 DEF VelocityHoldMain
  <2>2. CASE phase = "track"
    BY <2>2 DEF VelocityHoldMain
  <2>3. CASE phase # "hold" /\ phase # "track"
    BY <2>3, SMTT(30) DEF VelocityHoldMain
  <2>4. QED
    BY <2>1, <2>2, <2>3
<1>7. Ordered(VelocityProbeMain)
  BY DEF VelocityProbeMain
<1>8. Ordered(JointTorqueMain)
  BY DEF JointTorqueMain
<1>9. Ordered(TrajectoryMain)
  BY DEF TrajectoryMain
<1>10. Ordered(StreamMain)
  BY DEF StreamMain
<1>11. Ordered(TeleopMain)
  BY DEF TeleopMain
<1> HIDE DEF When, CommandLine, Connect, Receive, Servo, Run, Shutdown, StopDrain, Watch, Loop, StopRt,
  Sleep, Socket, Raise, Start, Join, Countdown, Ignored, Open, StreamRefused, Refusable,
  Ordered, Followed, NoneAfter, Steps, ThreadNames, Owners, Early, GoHome, Started, Joined
<1>12. QED
  BY <1>1, <1>2, <1>3, <1>4, <1>5, <1>6, <1>7, <1>8, <1>9, <1>10, <1>11, Zenon

\* Hence every script of every program.
LEMMA ScriptsOrdered == ASSUME NEW p \in ProgramNames, NEW o PROVE Ordered(Script(p, o))
  BY DriesOrdered, MainsOrdered, ProgramsAssumption DEF Script

\* And the ways out of a countdown and of a refused session.
LEMMA RefusalsOrdered == Ordered(<<Shutdown>>) /\ Ordered(StreamRefused)
<1> USE DEF CommandLine, Connect, Receive, Servo, Run, Shutdown, StopDrain, Watch, Loop, StopRt,
  Sleep, Socket, Raise, Start, Join, Countdown, Ignored, Open, StreamRefused, Refusable,
  Ordered, Followed, NoneAfter, Steps, ThreadNames, Owners, Early, GoHome, Started, Joined
<1>1. Ordered(<<Shutdown>>)
  OBVIOUS
<1>2. Ordered(StreamRefused)
  OBVIOUS
<1>3. QED
  BY <1>1, <1>2, Zenon

\* A dry run never takes the arm.
LEMMA DryIsDry ==
  ASSUME NEW p \in ProgramNames, NEW o \in Args(p)
  PROVE  /\ o.dry \in BOOLEAN
         /\ o.dry => Gone(Script(p, o), {Servo})
<1> USE DEF Gone, CommandLine, Connect, Receive, Servo, Shutdown, Watch
<1>1. /\ Gone(GravCompDry, {Servo}) /\ Gone(CartesianImpedanceDry, {Servo})
      /\ Gone(VelocityHoldDry, {Servo}) /\ Gone(VelocityProbeDry, {Servo})
      /\ Gone(JointTorqueDry, {Servo}) /\ Gone(TrajectoryDry, {Servo}) /\ Gone(StreamDry, {Servo})
  BY DEF GravCompDry, CartesianImpedanceDry, VelocityHoldDry, VelocityProbeDry, JointTorqueDry,
     TrajectoryDry, StreamDry
<1>2. Gone(JointPositionDry(o.sequence), {Servo})
  BY DEF JointPositionDry
<1> HIDE DEF Gone, CommandLine, Connect, Receive, Servo, Shutdown, Watch
<1>3. /\ \A x \in GravCompArgs : x.dry \in BOOLEAN
      /\ \A x \in CartesianImpedanceArgs : x.dry \in BOOLEAN
      /\ \A x \in JointVelocityArgs : x.dry = FALSE
      /\ \A x \in JointImpedanceArgs : x.dry = FALSE
  BY DEF GravCompArgs, CartesianImpedanceArgs, JointVelocityArgs, JointImpedanceArgs
<1>4. /\ \A x \in JointPositionArgs : x.dry \in BOOLEAN
      /\ \A x \in VelocityHoldArgs : x.dry \in BOOLEAN
      /\ \A x \in TrajectoryArgs : x.dry \in BOOLEAN
  BY DEF JointPositionArgs, VelocityHoldArgs, TrajectoryArgs
<1>5. /\ \A x \in VelocityProbeArgs : x.dry \in BOOLEAN
      /\ \A x \in JointTorqueArgs : x.dry \in BOOLEAN
  BY DEF VelocityProbeArgs, JointTorqueArgs
<1>6. /\ \A x \in StreamArgs : x.dry \in BOOLEAN
      /\ \A x \in TeleopArgs : x.dry = FALSE
  BY DEF StreamArgs, TeleopArgs
<1>7. QED
  BY <1>1, <1>2, <1>3, <1>4, <1>5, <1>6, ProgramsAssumption DEF Args, Script

-----------------------------------------------------------------------------
(* One step of a script: what it says of the rest.                          *)

\* The rest of a sequence, index by index.
LEMMA TailIs ==
  ASSUME NEW s \in Seq(Steps), s # <<>>
  PROVE  /\ Tail(s) \in Seq(Steps) /\ Len(s) \in Nat /\ Len(s) > 0 /\ Len(Tail(s)) = Len(s) - 1
         /\ Head(s) = s[1] /\ Head(s) \in Steps
         /\ \A i \in 1 .. Len(s) - 1 : Tail(s)[i] = s[i + 1]
  OBVIOUS

\* What follows x still does, and is in front once x is done.
LEMMA FollowedTail ==
  ASSUME NEW s \in Seq(Steps), s # <<>>, NEW x, NEW y, Followed(s, x, y)
  PROVE  /\ Followed(Tail(s), x, y)
         /\ Head(s) = x => Has(Tail(s), y)
<1> DEFINE r == Tail(s)
           n == Len(s)
<1>1. /\ n \in Nat /\ n > 0 /\ Len(r) = n - 1 /\ Head(s) = s[1]
      /\ \A i \in 1 .. n - 1 : r[i] = s[i + 1]
  BY TailIs
<1>2. \A i \in 1 .. n : s[i] = x => \E j \in i + 1 .. n : s[j] = y
  BY DEF Followed
<1> HIDE DEF r, n
<1>3. \A i \in 1 .. n - 1 : r[i] = x => \E j \in i + 1 .. n - 1 : r[j] = y
  <2> SUFFICES ASSUME NEW i \in 1 .. n - 1, r[i] = x PROVE \E j \in i + 1 .. n - 1 : r[j] = y
    OBVIOUS
  <2>1. i + 1 \in 1 .. n /\ s[i + 1] = x
    BY <1>1
  <2>2. PICK j \in i + 2 .. n : s[j] = y
    BY <1>2, <2>1
  <2>3. j - 1 \in i + 1 .. n - 1 /\ j - 1 \in 1 .. n - 1 /\ (j - 1) + 1 = j
    BY <1>1, <2>2
  <2>4. r[j - 1] = y
    BY <1>1, <2>2, <2>3
  <2>5. QED
    BY <2>3, <2>4
<1>4. s[1] = x => \E j \in 1 .. n - 1 : r[j] = y
  <2> SUFFICES ASSUME s[1] = x PROVE \E j \in 1 .. n - 1 : r[j] = y
    OBVIOUS
  <2>1. PICK j \in 2 .. n : s[j] = y
    BY <1>1, <1>2
  <2>2. j - 1 \in 1 .. n - 1 /\ (j - 1) + 1 = j
    BY <1>1, <2>1
  <2>3. r[j - 1] = y
    BY <1>1, <2>1, <2>2
  <2>4. QED
    BY <2>2, <2>3
<1>5. QED
  BY <1>1, <1>3, <1>4 DEF Followed, Has, r

\* What comes before x does not come again once x is done.
LEMMA NoneAfterTail ==
  ASSUME NEW s \in Seq(Steps), s # <<>>, NEW X, NEW Y, NoneAfter(s, X, Y)
  PROVE  /\ NoneAfter(Tail(s), X, Y)
         /\ Head(s) \in X => Gone(Tail(s), Y)
<1> DEFINE r == Tail(s)
           n == Len(s)
<1>1. /\ n \in Nat /\ n > 0 /\ Len(r) = n - 1 /\ Head(s) = s[1]
      /\ \A i \in 1 .. n - 1 : r[i] = s[i + 1]
  BY TailIs
<1>2. \A i, j \in 1 .. n : i < j => ~(s[i] \in X /\ s[j] \in Y)
  BY DEF NoneAfter
<1> HIDE DEF r, n
<1>3. ASSUME NEW i \in 1 .. n - 1, NEW j \in 1 .. n - 1, i < j PROVE ~(r[i] \in X /\ r[j] \in Y)
  <2>1. i + 1 \in 1 .. n /\ j + 1 \in 1 .. n /\ i + 1 < j + 1
    BY <1>1, <1>3
  <2>2. r[i] = s[i + 1] /\ r[j] = s[j + 1]
    BY <1>1
  <2>3. QED
    BY <1>2, <2>1, <2>2
<1>4. ASSUME s[1] \in X, NEW j \in 1 .. n - 1 PROVE r[j] \notin Y
  <2>1. 1 \in 1 .. n /\ j + 1 \in 1 .. n /\ 1 < j + 1 /\ r[j] = s[j + 1]
    BY <1>1
  <2>2. QED
    BY <1>2, <1>4, <2>1
<1>5. QED
  BY <1>1, <1>3, <1>4 DEF NoneAfter, Gone, r

\* A step only takes itself out of what is left.
LEMMA KeptInTail ==
  ASSUME NEW s \in Seq(Steps), s # <<>>
  PROVE  /\ \A Y : Gone(s, Y) => Gone(Tail(s), Y) /\ Head(s) \notin Y
         /\ \A x : Has(s, x) => Has(Tail(s), x) \/ Head(s) = x
<1> DEFINE r == Tail(s)
           n == Len(s)
<1>1. /\ n \in Nat /\ n > 0 /\ Len(r) = n - 1 /\ Head(s) = s[1]
      /\ \A i \in 1 .. n - 1 : r[i] = s[i + 1]
  BY TailIs
<1> HIDE DEF r
<1>2. ASSUME NEW Y, Gone(s, Y) PROVE Gone(r, Y) /\ s[1] \notin Y
  BY <1>1, <1>2 DEF Gone
<1>3. ASSUME NEW x, Has(s, x) PROVE Has(r, x) \/ s[1] = x
  <2>1. PICK i \in 1 .. n : s[i] = x
    BY <1>3 DEF Has
  <2>2. CASE i = 1
    BY <2>1, <2>2
  <2>3. CASE i # 1
    <3>1. i - 1 \in 1 .. n - 1 /\ (i - 1) + 1 = i
      BY <1>1, <2>3
    <3>2. r[i - 1] = x
      BY <1>1, <2>1, <3>1
    <3>3. QED
      BY <1>1, <3>1, <3>2 DEF Has
  <2>4. QED
    BY <2>2, <2>3
<1>4. QED
  BY <1>1, <1>2, <1>3 DEF r

\* What is in order stays in order.
LEMMA OrderedTail == ASSUME NEW s, Ordered(s), s # <<>> PROVE Ordered(Tail(s))
<1>1. s \in Seq(Steps)
  BY DEF Ordered
<1>2. Tail(s) \in Seq(Steps)
  BY <1>1, TailIs
<1>3. QED
  BY <1>1, <1>2, FollowedTail, NoneAfterTail DEF Ordered

\* A step is known by its kind.
LEMMA Kinds ==
  ASSUME NEW x \in Steps
  PROVE  /\ x[1] = "servo" <=> x = Servo
         /\ x[1] = "run" <=> x = Run
         /\ x[1] = "shutdown" <=> x = Shutdown
         /\ x[1] = "stop_drain" <=> x = StopDrain
         /\ x[1] = "args" <=> x = CommandLine
         /\ x[1] = "socket" <=> x = Socket
         /\ x[1] = "open" => x = Refusable
         /\ x[1] = "countdown" => x = GoHome \/ x[2] = Ignored
         /\ x[1] = "start" => \E t \in ThreadNames : x = Start(t)
         /\ x[1] = "join" => \E t \in ThreadNames : x = Join(t)
<1> USE DEF CommandLine, Connect, Receive, Servo, Run, Shutdown, StopDrain, Watch, Loop, StopRt,
  Sleep, Socket, Raise, Start, Join, Countdown, Ignored, Open, Refusable, Steps, GoHome
<1>1. QED
  OBVIOUS

\* The parts of a step.
LEMMA Fields ==
  /\ GoHome[2] = <<Shutdown>> /\ Refusable[2] = StreamRefused
  /\ GoHome[1] = "countdown" /\ Refusable[1] = "open"
  /\ \A t : Start(t)[1] = "start" /\ Start(t)[2] = t
  /\ \A t : Join(t)[1] = "join" /\ Join(t)[2] = t
  BY DEF Countdown, Open, Refusable, GoHome, Start, Join

-----------------------------------------------------------------------------
(* main() and its threads.                                                  *)

Settled == {"none", "joined"}

MainTypes ==
  /\ TypeOK /\ pushed \in Nat /\ drained \in Nat /\ draining \in BOOLEAN /\ opts.dry \in BOOLEAN
  /\ Running => Ordered(todo)

\* What is behind main() is not in front of it any more, and what a thread or
\* the arm still needs is.
ArmInv ==
  /\ arm = "given" => \A t \in Owners : threads[t] \in Settled
  /\ end = "exited" => arm # "taken"
  /\ Running =>
       /\ arm = "given" => Gone(todo, {Servo}) /\ Gone(todo, {Refusable})
                           /\ Gone(todo, Started(Owners) \union Joined(Owners))
       /\ arm = "taken" => Has(todo, Shutdown) /\ Gone(todo, {Servo})
       /\ arm # "free" => Gone(todo, Early)
       /\ opts.dry => Gone(todo, {Servo})

ThreadInv ==
  /\ end = "exited" => \A t \in ThreadNames : threads[t] \in Settled
  /\ Running => \A t \in ThreadNames :
       /\ threads[t] \notin Settled => Has(todo, Join(t))
       /\ threads[t] # "none" => Gone(todo, Early)
       /\ threads[t] # "none" /\ t \notin {"rt", "supervisor"} => Gone(todo, {Refusable})

DrainInv ==
  /\ threads["drain"] \in {"ended", "joined"} => ~draining /\ drained = pushed
  /\ Running /\ ~draining => threads["rt"] = "none" /\ Gone(todo, {Run, Start("rt")})
  /\ Running /\ threads["rt"] # "none" => Gone(todo, {StopDrain})

MainInv == MainTypes /\ ArmInv /\ ThreadInv /\ DrainInv

\* A command line was accepted; nothing is behind main() yet.
LEMMA InitMain == Init => MainInv
<1> SUFFICES ASSUME Init PROVE MainInv
  OBVIOUS
<1>1. /\ prog \in ProgramNames /\ opts \in Args(prog) /\ todo = Script(prog, opts)
      /\ arm = "free" /\ end = "running" /\ stop = FALSE /\ draining = TRUE
      /\ pushed = 0 /\ drained = 0 /\ g_stop = FALSE
      /\ threads = [t \in ThreadNames |-> "none"]
  BY DEF Init
<1>2. opts.dry \in BOOLEAN /\ (opts.dry => Gone(todo, {Servo}))
  BY <1>1, DryIsDry
<1>3. Ordered(todo)
  BY <1>1, ScriptsOrdered
<1>4. \A t \in ThreadNames : threads[t] = "none"
  BY <1>1
<1>5. "drain" \in ThreadNames /\ "rt" \in ThreadNames /\ Owners \subseteq ThreadNames
  BY DEF ThreadNames, Owners
<1>6. MainTypes
  <2>1. threads \in [ThreadNames -> {"none", "live", "ended", "joined"}]
    BY <1>1
  <2>2. MaxSamples \in Nat
    BY ProgramsAssumption
  <2>3. drained <= pushed /\ pushed <= MaxSamples
    BY <1>1, <2>2
  <2>4. TypeOK
    BY <1>1, <2>1, <2>3 DEF TypeOK
  <2>5. QED
    BY <1>1, <1>2, <1>3, <2>4 DEF MainTypes
<1>7. ArmInv
  BY <1>1, <1>2, <1>4, <1>5 DEF ArmInv, Settled
<1>8. ThreadInv /\ DrainInv
  BY <1>1, <1>4, <1>5 DEF ThreadInv, DrainInv, Settled
<1>9. QED
  BY <1>6, <1>7, <1>8 DEF MainInv

\* The end of the process.
LEMMA OverMain ==
  ASSUME MainInv, Running, end' \in {"exited", "aborted"},
         UNCHANGED <<opts, todo, threads, stop, draining, pushed, drained, g_stop>>,
         end' = "exited" => arm' # "taken" /\ \A t \in ThreadNames : threads[t] \in Settled,
         arm' = arm \/ arm' = "taken"
  PROVE  MainInv'
<1>1. MainTypes'
  BY DEF MainInv, MainTypes, TypeOK, Running
<1>2. ArmInv' /\ ThreadInv' /\ DrainInv'
  BY DEF MainInv, ArmInv, ThreadInv, DrainInv, Running
<1>3. QED
  BY <1>1, <1>2 DEF MainInv

\* main() may return where nothing is behind it.
LEMMA EarlyIsFree ==
  ASSUME MainInv, Running, todo # <<>>, Head(todo) \in Early
  PROVE  arm = "free" /\ \A t \in ThreadNames : threads[t] = "none"
<1>1. ~Gone(todo, Early)
  BY KeptInTail DEF MainInv, MainTypes, Ordered
<1>2. QED
  BY <1>1 DEF MainInv, MainTypes, TypeOK, ArmInv, ThreadInv

\* A refused command line or socket leaves nothing behind.
LEMMA RefusesMain == ASSUME MainInv, Refuses PROVE MainInv'
<1>1. Running /\ todo # <<>> /\ Head(todo)[1] \in {"args", "socket"}
  BY DEF Refuses, At
<1>2. Head(todo) \in Steps
  BY <1>1, TailIs DEF MainInv, MainTypes, Ordered
<1>3. Head(todo) \in Early
  BY <1>1, <1>2, Kinds DEF Early
<1>4. arm = "free" /\ \A t \in ThreadNames : threads[t] = "none"
  BY <1>1, <1>3, EarlyIsFree
<1>5. QED
  BY <1>1, <1>4, OverMain DEF Refuses, Rest, Settled

\* An exception ends the process as it is.
LEMMA ThrowsMain == ASSUME MainInv, Throws PROVE MainInv'
<1>1. Running /\ end' = "aborted" /\ arm' \in {arm} \union {"taken"}
      /\ UNCHANGED <<Rest, todo, stop, threads, draining, pushed, drained, linkVars, g_stop>>
  BY DEF Throws, At
<1>2. QED
  BY <1>1, OverMain DEF Rest

\* At the end of main() nothing is owed any more.
LEMMA ExitsMain == ASSUME MainInv, Exits PROVE MainInv'
<1>1. Running /\ todo = <<>> /\ end' = "exited"
      /\ UNCHANGED <<Rest, todo, arm, stop, threads, draining, pushed, drained, linkVars, g_stop>>
  BY DEF Exits
<1>2. \A x : ~Has(todo, x)
  BY <1>1 DEF Has
<1>3. arm # "taken"
  BY <1>1, <1>2 DEF MainInv, ArmInv
<1>4. \A t \in ThreadNames : threads[t] \in Settled
  BY <1>1, <1>2 DEF MainInv, ThreadInv
<1>5. QED
  BY <1>1, <1>3, <1>4, OverMain DEF Rest

\* A step nothing else depends on.
LEMMA PassingMain ==
  ASSUME MainInv, Running, todo # <<>>, todo' = Tail(todo),
         Head(todo)[1] \notin {"shutdown", "join"},
         UNCHANGED <<opts, arm, end, threads, draining, pushed, drained>>,
         stop' \in BOOLEAN, g_stop' \in BOOLEAN
  PROVE  MainInv'
<1>0. todo \in Seq(Steps) /\ Ordered(todo)
  BY DEF MainInv, MainTypes, Ordered
<1>1. Head(todo) \in Steps
  BY <1>0, TailIs
<1>2. Head(todo) # Shutdown /\ \A t : Head(todo) # Join(t)
  BY <1>1, Kinds, Fields
<1>3. /\ \A Y : Gone(todo, Y) => Gone(todo', Y)
      /\ \A x : Has(todo, x) => Has(todo', x) \/ Head(todo) = x
  BY <1>0, KeptInTail
<1>4. Ordered(todo')
  BY <1>0, OrderedTail
<1>5. MainTypes'
  BY <1>4 DEF MainInv, MainTypes, TypeOK, Running
<1>6. ArmInv'
  BY <1>2, <1>3 DEF MainInv, ArmInv, Running
<1>7. ThreadInv' /\ DrainInv'
  BY <1>2, <1>3 DEF MainInv, ThreadInv, DrainInv, Running
<1>8. QED
  BY <1>5, <1>6, <1>7 DEF MainInv

\* Such as a wait, a loop and the return of run().
LEMMA PassesMain == ASSUME MainInv, Passes \/ RunReturns PROVE MainInv'
<1>1. /\ Running /\ todo # <<>> /\ todo' = Tail(todo)
      /\ Head(todo)[1] \notin {"shutdown", "join"}
      /\ UNCHANGED <<Rest, arm, end, stop, threads, draining, pushed, drained, linkVars, g_stop>>
  BY DEF Passes, RunReturns, Done, At
<1>2. stop \in BOOLEAN /\ g_stop \in BOOLEAN
  BY DEF MainInv, MainTypes, TypeOK
<1>3. QED
  BY <1>1, <1>2, PassingMain DEF Rest

\* The drain is told to end when the loop is over and no thread of its own runs it.
LEMMA StopsMain == ASSUME MainInv, Stops PROVE MainInv'
<1>0. stop \in BOOLEAN /\ g_stop \in BOOLEAN
  BY DEF MainInv, MainTypes, TypeOK
<1>1. /\ Running /\ todo # <<>> /\ todo' = Tail(todo)
      /\ Head(todo)[1] \notin {"shutdown", "join"}
      /\ UNCHANGED <<Rest, arm, end, threads, pushed, drained, linkVars>>
      /\ stop' \in BOOLEAN /\ g_stop' \in BOOLEAN
  BY <1>0 DEF Stops, Done, At
<1>2. CASE draining' = draining
  BY <1>1, <1>2, PassingMain DEF Rest
<1>3. CASE draining' # draining
  <2>1. Head(todo)[1] = "stop_drain" /\ draining' = FALSE
    BY <1>3 DEF Stops, Done, At
  <2>2. todo \in Seq(Steps) /\ Ordered(todo)
    BY <1>1 DEF MainInv, MainTypes, Ordered
  <2>3. Head(todo) = StopDrain
    BY <1>1, <2>1, <2>2, TailIs, Kinds
  <2>4. /\ \A Y : Gone(todo, Y) => Gone(todo', Y) /\ Head(todo) \notin Y
        /\ \A x : Has(todo, x) => Has(todo', x) \/ Head(todo) = x
    BY <1>1, <2>2, KeptInTail
  <2>5. Gone(todo', {Run, Start("rt")})
    BY <1>1, <2>2, <2>3, NoneAfterTail DEF Ordered
  <2>6. threads["rt"] = "none"
    BY <1>1, <2>3, <2>4 DEF MainInv, DrainInv
  <2>7. Head(todo) # Shutdown /\ \A t : Head(todo) # Join(t)
    BY <2>2, <1>1, TailIs, Kinds, Fields
  <2>8. MainTypes'
    BY <1>1, <2>1, <2>2, OrderedTail DEF MainInv, MainTypes, TypeOK, Running, Rest
  <2>9. ArmInv'
    BY <1>1, <2>4, <2>7 DEF MainInv, ArmInv, Running, Rest
  <2>10. ThreadInv'
    BY <1>1, <2>4, <2>7 DEF MainInv, ThreadInv, Running, Rest
  <2>11. DrainInv'
    BY <1>1, <2>1, <2>5, <2>6 DEF MainInv, DrainInv, Running
  <2>12. QED
    BY <2>8, <2>9, <2>10, <2>11 DEF MainInv
<1>4. QED
  BY <1>2, <1>3

\* The arm is taken: nothing is behind that main() may return at, and the
\* step that gives it back is in front.
LEMMA ServosMain == ASSUME MainInv, Servos PROVE MainInv'
<1>1. /\ Running /\ todo # <<>> /\ todo' = Tail(todo) /\ Head(todo)[1] = "servo" /\ arm' = "taken"
      /\ UNCHANGED <<Rest, end, stop, threads, draining, pushed, drained, linkVars, g_stop>>
  BY DEF Servos, Done, At
<1>2. todo \in Seq(Steps) /\ Ordered(todo)
  BY <1>1 DEF MainInv, MainTypes, Ordered
<1>3. Head(todo) = Servo /\ Head(todo) # Shutdown /\ \A t : Head(todo) # Join(t)
  BY <1>1, <1>2, TailIs, Kinds, Fields
<1>4. /\ \A Y : Gone(todo, Y) => Gone(todo', Y) /\ Head(todo) \notin Y
      /\ \A x : Has(todo, x) => Has(todo', x) \/ Head(todo) = x
  BY <1>1, <1>2, KeptInTail
<1>5. Has(todo', Shutdown)
  BY <1>1, <1>2, <1>3, FollowedTail DEF Ordered
<1>6. Gone(todo', Early) /\ Gone(todo', {Servo})
  BY <1>1, <1>2, <1>3, NoneAfterTail DEF Ordered
<1>7. MainTypes'
  BY <1>1, <1>2, OrderedTail DEF MainInv, MainTypes, TypeOK, Running, Rest
<1>8. ArmInv'
  BY <1>1, <1>4, <1>5, <1>6 DEF MainInv, ArmInv, Running, Rest
<1>9. ThreadInv' /\ DrainInv'
  BY <1>1, <1>3, <1>4 DEF MainInv, ThreadInv, DrainInv, Running, Rest
<1>10. QED
  BY <1>7, <1>8, <1>9 DEF MainInv

\* The arm is given back: its owners were joined, and none is started again.
LEMMA ShutsDownMain == ASSUME MainInv, ShutsDown PROVE MainInv'
<1>1. /\ Running /\ todo # <<>> /\ todo' = Tail(todo) /\ Head(todo)[1] = "shutdown" /\ arm' = "given"
      /\ UNCHANGED <<Rest, end, stop, threads, draining, pushed, drained, linkVars, g_stop>>
  BY DEF ShutsDown, Done, At
<1>2. todo \in Seq(Steps) /\ Ordered(todo)
  BY <1>1 DEF MainInv, MainTypes, Ordered
<1>3. Head(todo) = Shutdown /\ \A t : Head(todo) # Join(t)
  BY <1>1, <1>2, TailIs, Kinds, Fields
<1>4. /\ \A Y : Gone(todo, Y) => Gone(todo', Y) /\ Head(todo) \notin Y
      /\ \A x : Has(todo, x) => Has(todo', x) \/ Head(todo) = x
  BY <1>1, <1>2, KeptInTail
<1>5. /\ Gone(todo', Early) /\ Gone(todo', {Servo}) /\ Gone(todo', {Refusable})
      /\ Gone(todo', Started(Owners) \union Joined(Owners))
  BY <1>1, <1>2, <1>3, NoneAfterTail DEF Ordered
<1>6. \A t \in Owners : threads[t] \in Settled
  <2> SUFFICES ASSUME NEW t \in Owners, threads[t] \notin Settled PROVE FALSE
    OBVIOUS
  <2>1. t \in ThreadNames
    BY DEF Owners, ThreadNames
  <2>2. Has(todo, Join(t))
    BY <1>1, <2>1 DEF MainInv, ThreadInv
  <2>3. Has(todo', Join(t))
    BY <1>3, <1>4, <2>2
  <2>4. Join(t) \in Started(Owners) \union Joined(Owners)
    BY DEF Joined
  <2>5. QED
    BY <1>5, <2>3, <2>4 DEF Has, Gone
<1>7. MainTypes'
  BY <1>1, <1>2, OrderedTail DEF MainInv, MainTypes, TypeOK, Running, Rest
<1>8. ArmInv'
  BY <1>1, <1>5, <1>6 DEF MainInv, ArmInv, Running, Rest
<1>9. ThreadInv' /\ DrainInv'
  BY <1>1, <1>3, <1>4 DEF MainInv, ThreadInv, DrainInv, Running, Rest
<1>10. QED
  BY <1>7, <1>8, <1>9 DEF MainInv

\* A thread is started: its join is in front.
LEMMA StartsMain == ASSUME MainInv, Starts PROVE MainInv'
<1>1. /\ Running /\ todo # <<>> /\ todo' = Tail(todo) /\ Head(todo)[1] = "start"
      /\ threads' = [threads EXCEPT ![Head(todo)[2]] = "live"]
      /\ UNCHANGED <<Rest, arm, end, stop, draining, pushed, drained, g_stop>>
  BY DEF Starts, Done, At
<1>2. todo \in Seq(Steps) /\ Ordered(todo)
  BY <1>1 DEF MainInv, MainTypes, Ordered
<1>3. PICK t \in ThreadNames : Head(todo) = Start(t)
  BY <1>1, <1>2, TailIs, Kinds
<1>4. /\ Head(todo)[2] = t /\ Head(todo) # Shutdown /\ \A u : Head(todo) # Join(u)
      /\ \A u : Head(todo) = Start(u) => u = t
  BY <1>1, <1>2, <1>3, TailIs, Kinds, Fields
<1>5. /\ \A Y : Gone(todo, Y) => Gone(todo', Y) /\ Head(todo) \notin Y
      /\ \A x : Has(todo, x) => Has(todo', x) \/ Head(todo) = x
  BY <1>1, <1>2, KeptInTail
<1>6. Has(todo', Join(t))
  BY <1>1, <1>2, <1>3, FollowedTail DEF Ordered
<1>7. Gone(todo', Early)
  BY <1>1, <1>2, <1>3, NoneAfterTail DEF Ordered, Started
<1>8. t \notin {"rt", "supervisor"} => Gone(todo', {Refusable})
  BY <1>1, <1>2, <1>3, NoneAfterTail DEF Ordered, Started
<1>9. t = "rt" => Gone(todo', {StopDrain})
  BY <1>1, <1>2, <1>3, NoneAfterTail DEF Ordered
<1>10. arm = "given" => t \notin Owners
  <2> SUFFICES ASSUME arm = "given", t \in Owners PROVE FALSE
    OBVIOUS
  <2>1. Head(todo) \in Started(Owners) \union Joined(Owners)
    BY <1>3 DEF Started
  <2>2. QED
    BY <1>1, <1>5, <2>1 DEF MainInv, ArmInv
<1>11. t = "rt" => draining
  BY <1>1, <1>3, <1>5 DEF MainInv, DrainInv, MainTypes
<1>12. /\ threads' \in [ThreadNames -> {"none", "live", "ended", "joined"}]
       /\ threads'[t] = "live" /\ \A u \in ThreadNames \ {t} : threads'[u] = threads[u]
  BY <1>1, <1>4 DEF MainInv, MainTypes, TypeOK
<1>13. MainTypes'
  BY <1>1, <1>2, <1>12, OrderedTail DEF MainInv, MainTypes, TypeOK, Running, Rest
<1>14. "drain" \in ThreadNames /\ "rt" \in ThreadNames /\ Owners \subseteq ThreadNames
  BY DEF ThreadNames, Owners
<1>15. ArmInv'
  BY <1>1, <1>4, <1>5, <1>10, <1>12, <1>14 DEF MainInv, ArmInv, Running, Rest
<1>16. ThreadInv'
  BY <1>1, <1>4, <1>5, <1>6, <1>7, <1>8, <1>12 DEF MainInv, ThreadInv, Running
<1>17. DrainInv'
  BY <1>1, <1>5, <1>9, <1>11, <1>12, <1>14 DEF MainInv, DrainInv, Running
<1>18. QED
  BY <1>13, <1>15, <1>16, <1>17 DEF MainInv

\* A thread that has ended is joined: the drain's last look was a full one.
LEMMA JoinsMain == ASSUME MainInv, Joins PROVE MainInv'
<1>1. /\ Running /\ todo # <<>> /\ todo' = Tail(todo) /\ Head(todo)[1] = "join"
      /\ Ended(Head(todo)[2]) /\ threads' = [threads EXCEPT ![Head(todo)[2]] = "joined"]
      /\ UNCHANGED <<Rest, arm, end, stop, draining, pushed, drained, g_stop>>
  BY DEF Joins, Done, At
<1>2. todo \in Seq(Steps) /\ Ordered(todo)
  BY <1>1 DEF MainInv, MainTypes, Ordered
<1>3. PICK t \in ThreadNames : Head(todo) = Join(t)
  BY <1>1, <1>2, TailIs, Kinds
<1>4. /\ Head(todo)[2] = t /\ Head(todo) # Shutdown /\ \A u : Head(todo) = Join(u) => u = t
  BY <1>1, <1>2, <1>3, TailIs, Kinds, Fields
<1>5. /\ \A Y : Gone(todo, Y) => Gone(todo', Y) /\ Head(todo) \notin Y
      /\ \A x : Has(todo, x) => Has(todo', x) \/ Head(todo) = x
  BY <1>1, <1>2, KeptInTail
<1>6. t = "drain" => threads["drain"] = "ended"
  BY <1>1, <1>4 DEF Ended
<1>7. /\ threads' \in [ThreadNames -> {"none", "live", "ended", "joined"}]
      /\ threads'[t] = "joined" /\ \A u \in ThreadNames \ {t} : threads'[u] = threads[u]
  BY <1>1, <1>4 DEF MainInv, MainTypes, TypeOK
<1>8. "drain" \in ThreadNames /\ "rt" \in ThreadNames /\ Owners \subseteq ThreadNames
  BY DEF ThreadNames, Owners
<1>9. Gone(todo', Early) /\ Gone(todo', {Refusable})
  BY <1>1, <1>2, <1>3, NoneAfterTail DEF Ordered, Joined
<1>10. MainTypes'
  BY <1>1, <1>2, <1>7, OrderedTail DEF MainInv, MainTypes, TypeOK, Running, Rest
<1>11. ArmInv'
  BY <1>1, <1>4, <1>5, <1>7, <1>8 DEF MainInv, ArmInv, Running, Rest, Settled
<1>12. ThreadInv'
  BY <1>1, <1>4, <1>5, <1>7, <1>9 DEF MainInv, ThreadInv, Running, Settled
<1>13. t = "rt" => threads["rt"] # "none"
  BY <1>1, <1>4 DEF Ended
<1>14. DrainInv'
  <2>1. threads'["drain"] \in {"ended", "joined"} => threads["drain"] \in {"ended", "joined"}
    BY <1>6, <1>7, <1>8
  <2>2. threads'["rt"] # "none" <=> threads["rt"] # "none"
    BY <1>7, <1>8, <1>13
  <2>3. QED
    BY <1>1, <1>5, <2>1, <2>2 DEF MainInv, DrainInv, Running
<1>15. QED
  BY <1>10, <1>11, <1>12, <1>14 DEF MainInv

\* A way out that leads elsewhere than to the next step: a stop seen after a
\* countdown, when there is nothing to undo but the connection, and a session
\* refused, which undoes what was done.
LEMMA DivertedMain ==
  ASSUME MainInv, Running, todo # <<>>,
         \/ Head(todo) = GoHome /\ todo' = <<Shutdown>>
         \/ Head(todo) = Refusable /\ todo' = StreamRefused,
         UNCHANGED <<Rest, arm, end, stop, threads, draining, pushed, drained, g_stop>>
  PROVE  MainInv'
<1>1. todo \in Seq(Steps) /\ Ordered(todo)
  BY DEF MainInv, MainTypes, Ordered
<1>2. \A Y : Head(todo) \in Y => ~Gone(todo, Y)
  BY <1>1, KeptInTail
<1>3. Ordered(todo')
  BY RefusalsOrdered
<1>4. MainTypes'
  BY <1>3 DEF MainInv, MainTypes, TypeOK, Running, Rest
<1>5. CASE Head(todo) = GoHome /\ todo' = <<Shutdown>>
  <2>1. arm = "free" /\ \A t \in ThreadNames : threads[t] = "none"
    BY <1>5, EarlyIsFree DEF Early
  <2>2. "drain" \in ThreadNames /\ "rt" \in ThreadNames
    BY DEF ThreadNames
  <2>3. Gone(todo', {Servo}) /\ Gone(todo', {Run, Start("rt")})
    BY <1>5 DEF Gone, Shutdown, Servo, Run, Start
  <2>4. ArmInv'
    BY <2>1, <2>3 DEF MainInv, ArmInv, Running
  <2>5. ThreadInv' /\ DrainInv'
    BY <2>1, <2>2, <2>3 DEF ThreadInv, DrainInv, MainInv, Settled, Running
  <2>6. QED
    BY <1>4, <2>4, <2>5 DEF MainInv
<1>6. CASE Head(todo) = Refusable /\ todo' = StreamRefused
  <2>1. ~Gone(todo, {Refusable})
    BY <1>2, <1>6
  <2>2. arm # "given"
    BY <2>1 DEF MainInv, ArmInv
  <2>3. \A t \in ThreadNames \ {"rt", "supervisor"} : threads[t] = "none"
    BY <2>1 DEF MainInv, ThreadInv
  <2>4. /\ Gone(todo', {Servo}) /\ Gone(todo', Early) /\ Gone(todo', {Run, Start("rt")})
        /\ Gone(todo', {StopDrain}) /\ Gone(todo', {Refusable})
    BY <1>6 DEF Gone, StreamRefused, Shutdown, Servo, Run, Start, Join, StopRt, StopDrain, Early, CommandLine,
                Socket, GoHome, Countdown, Refusable, Open
  <2>5. Has(todo', Shutdown) /\ Has(todo', Join("rt")) /\ Has(todo', Join("supervisor"))
    BY <1>6 DEF Has, StreamRefused
  <2>6. ArmInv'
    BY <2>2, <2>4, <2>5 DEF MainInv, ArmInv, Running, Rest
  <2>7. ThreadInv'
    BY <2>3, <2>4, <2>5 DEF MainInv, ThreadInv, Settled, Running
  <2>8. DrainInv'
    BY <2>4 DEF MainInv, DrainInv, Running
  <2>9. QED
    BY <1>4, <2>6, <2>7, <2>8 DEF MainInv
<1>7. QED
  BY <1>5, <1>6

\* A countdown that ignores the stop goes on; the others are diverted.
LEMMA CountsDownMain == ASSUME MainInv, CountsDown \/ SessionRefused PROVE MainInv'
<1>1. /\ Running /\ todo # <<>>
      /\ UNCHANGED <<Rest, arm, end, stop, threads, draining, pushed, drained, linkVars, g_stop>>
  BY DEF CountsDown, SessionRefused, At
<1>2. Head(todo) \in Steps /\ stop \in BOOLEAN /\ g_stop \in BOOLEAN
  BY <1>1, TailIs DEF MainInv, MainTypes, Ordered, TypeOK
<1>3. CASE SessionRefused
  <2>1. Head(todo) = Refusable /\ todo' = StreamRefused
    BY <1>2, <1>3, Kinds, Fields DEF SessionRefused, At
  <2>2. QED
    BY <1>1, <2>1, DivertedMain DEF Rest
<1>4. CASE CountsDown
  <2>1. Head(todo)[1] = "countdown" /\ todo' \in {Head(todo)[2], Tail(todo)}
    BY <1>4 DEF CountsDown, At
  <2>2. CASE todo' = Tail(todo)
    BY <1>1, <1>2, <2>1, <2>2, PassingMain DEF Rest
  <2>3. CASE todo' # Tail(todo)
    <3>1. Head(todo)[2] # Ignored /\ todo' = Head(todo)[2]
      BY <1>4, <2>3 DEF CountsDown
    <3>2. Head(todo) = GoHome /\ todo' = <<Shutdown>>
      BY <1>2, <2>1, <3>1, Kinds, Fields
    <3>3. QED
      BY <1>1, <3>2, DivertedMain DEF Rest
  <2>4. QED
    BY <2>2, <2>3
<1>5. QED
  BY <1>3, <1>4

\* A thread ends; the drain only with the ring empty and nothing to come.
LEMMA EndsMain ==
  ASSUME MainInv, NEW t \in ThreadNames, Ends(t), t = "drain" => ~draining /\ drained = pushed,
         UNCHANGED <<Others, pushed, drained>>, g_stop' \in BOOLEAN
  PROVE  MainInv'
<1>1. /\ Running /\ threads[t] = "live" /\ threads' = [threads EXCEPT ![t] = "ended"]
  BY DEF Ends, Live
<1>2. /\ threads' \in [ThreadNames -> {"none", "live", "ended", "joined"}]
      /\ threads'[t] = "ended" /\ \A u \in ThreadNames \ {t} : threads'[u] = threads[u]
  BY <1>1 DEF MainInv, MainTypes, TypeOK
<1>3. "drain" \in ThreadNames /\ "rt" \in ThreadNames /\ Owners \subseteq ThreadNames
  BY DEF ThreadNames, Owners
<1>4. MainTypes'
  BY <1>2 DEF MainInv, MainTypes, TypeOK, Others, Rest, Running
<1>5. ArmInv'
  BY <1>1, <1>2, <1>3 DEF MainInv, ArmInv, Others, Rest, Running, Settled
<1>6. ThreadInv'
  BY <1>1, <1>2 DEF MainInv, ThreadInv, Others, Rest, Running, Settled
<1>7. DrainInv'
  BY <1>1, <1>2, <1>3 DEF MainInv, DrainInv, Others, Rest, Running
<1>8. QED
  BY <1>4, <1>5, <1>6, <1>7 DEF MainInv

\* No sample is pushed once the drain may end.
LEMMA CountsMain == ASSUME MainInv, Cycle \/ Drains PROVE MainInv'
<1>1. /\ Running /\ UNCHANGED <<Others, threads, g_stop>>
      /\ pushed \in Nat /\ drained \in Nat /\ drained <= pushed /\ pushed <= MaxSamples
  BY DEF MainInv, MainTypes, TypeOK, Cycle, Drains, At, Live
<1>2. MaxSamples \in Nat
  BY ProgramsAssumption
<1>3. /\ pushed' \in Nat /\ drained' \in Nat /\ drained' <= pushed' /\ pushed' <= MaxSamples
  BY <1>1, <1>2 DEF Cycle, Drains
<1>4. MainTypes' /\ ArmInv' /\ ThreadInv'
  <2>1. MainTypes'
    BY <1>1, <1>3 DEF MainInv, MainTypes, TypeOK, Others, Rest, Running
  <2>2. ArmInv' /\ ThreadInv'
    BY <1>1 DEF MainInv, ArmInv, ThreadInv, Others, Rest, Running
  <2>3. QED
    BY <2>1, <2>2
<1>5. threads["drain"] \in {"ended", "joined"} => UNCHANGED <<pushed, drained>>
  <2> SUFFICES ASSUME threads["drain"] \in {"ended", "joined"} PROVE UNCHANGED <<pushed, drained>>
    OBVIOUS
  <2>1. ~Drains
    BY DEF Drains, Live
  <2>2. threads["rt"] = "none" /\ Gone(todo, {Run, Start("rt")})
    BY <1>1 DEF MainInv, DrainInv
  <2>3. ~At("run")
    <3> SUFFICES ASSUME At("run") PROVE FALSE
      OBVIOUS
    <3>1. todo \in Seq(Steps) /\ todo # <<>> /\ Head(todo)[1] = "run"
      BY <1>1 DEF MainInv, MainTypes, Ordered, At
    <3>2. Head(todo) = Run
      BY <3>1, TailIs, Kinds
    <3>3. QED
      BY <2>2, <3>1, <3>2, KeptInTail
  <2>4. QED
    BY <2>1, <2>2, <2>3 DEF Cycle, Live
<1>6. DrainInv'
  BY <1>1, <1>5 DEF MainInv, DrainInv, Others, Rest, Running
<1>7. QED
  BY <1>4, <1>6 DEF MainInv

\* What main() and its threads do not touch.
LEMMA AsideMain == ASSUME MainInv, UNCHANGED mainVars, g_stop' \in BOOLEAN PROVE MainInv'
  BY DEF MainInv, MainTypes, TypeOK, ArmInv, ThreadInv, DrainInv, Running, mainVars

\* So every step keeps the invariant.
LEMMA NextMain == ASSUME MainInv, [Next]_vars PROVE MainInv'
<1>0. g_stop \in BOOLEAN
  BY DEF MainInv, MainTypes, TypeOK
<1>1. CASE Main
  BY <1>1, RefusesMain, PassesMain, CountsDownMain, ServosMain, StartsMain, JoinsMain, StopsMain,
     ShutsDownMain, ExitsMain DEF Main
<1>2. CASE Throws
  BY <1>2, ThrowsMain
<1>3. CASE Interrupt
  BY <1>3, AsideMain DEF Interrupt
<1>4. CASE Cycle \/ Drains
  BY <1>4, CountsMain
<1>5. "rt" \in ThreadNames /\ "drain" \in ThreadNames /\ "watchdog" \in ThreadNames
      /\ "publisher" \in ThreadNames /\ "supervisor" \in ThreadNames
  BY DEF ThreadNames
<1>6. CASE RtEnds
  BY <1>0, <1>5, <1>6, EndsMain DEF RtEnds
<1>7. CASE DrainEnds
  BY <1>0, <1>5, <1>7, EndsMain DEF DrainEnds
<1>8. CASE WatchdogEnds
  BY <1>5, <1>8, EndsMain DEF WatchdogEnds
<1>9. CASE PublisherEnds
  <2>1. g_stop' \in BOOLEAN
    BY <1>0, <1>9 DEF PublisherEnds
  <2>2. QED
    BY <1>5, <1>9, <2>1, EndsMain DEF PublisherEnds
<1>10. CASE SupervisorEnds
  BY <1>0, <1>5, <1>10, EndsMain DEF SupervisorEnds
<1>11. CASE Link
  <2>1. UNCHANGED mainVars
    BY <1>11 DEF Link, Linked
  <2>2. g_stop' \in BOOLEAN
    BY <1>0, <1>11, Zenon
       DEF Link, Linked, Rx, RxTakes, RxOther, RxObeys, RxAcks, RxEnds, Feedback, FeedbackBegins,
           FeedbackSends, FeedbackEnds, Network, ClientSends, ClientResends, ClientHears
  <2>3. QED
    BY <2>1, <2>2, AsideMain
<1>12. CASE Stopped \/ UNCHANGED vars
  BY <1>0, <1>12, AsideMain DEF Stopped, vars
<1>13. QED
  BY <1>1, <1>2, <1>3, <1>4, <1>6, <1>7, <1>8, <1>9, <1>10, <1>11, <1>12 DEF Next

-----------------------------------------------------------------------------
\* The variables of main() and of its threads keep their types.
THEOREM MainTypeCorrect == Spec => []TypeOK
<1>1. MainInv => TypeOK
  BY DEF MainInv, MainTypes
<1>2. QED
  BY <1>1, InitMain, NextMain, PTL DEF Spec

\* The arm is given back only when whoever drives it or answers for it was
\* joined or never started, and no program exits with a thread that was not
\* joined: every main() under apps/, every command line and every way out.
THEOREM TornDownInOrder == Spec => []TeardownInOrder
<1>1. MainInv => TeardownInOrder
  BY DEF MainInv, ArmInv, ThreadInv, TeardownInOrder, Owners, Settled
<1>2. QED
  BY <1>1, InitMain, NextMain, PTL DEF Spec

\* A drain thread that was joined has drained every sample the loop pushed
\* (the benchmarks' drain lambda and the order of run, flag and join).
THEOREM ReportsAreComplete == Spec => []ReportIsComplete
<1>1. MainInv => ReportIsComplete
  BY DEF MainInv, DrainInv, ReportIsComplete
<1>2. QED
  BY <1>1, InitMain, NextMain, PTL DEF Spec

\* Where main() takes the arm it has not taken it before, and it is no dry run.
LEMMA TakesOnce ==
  ASSUME MainInv, At("servo")
  PROVE  arm = "free" /\ ~opts.dry
<1>1. Running /\ todo # <<>> /\ todo \in Seq(Steps) /\ Head(todo)[1] = "servo"
  BY DEF MainInv, MainTypes, Ordered, At
<1>2. Head(todo) = Servo
  BY <1>1, TailIs, Kinds
<1>3. ~Gone(todo, {Servo})
  BY <1>1, <1>2, KeptInTail
<1>4. QED
  BY <1>1, <1>3 DEF MainInv, MainTypes, TypeOK, ArmInv

\* Each step is a step of the abstract session or none of its business.
LEMMA SessionStep ==
  ASSUME MainInv, Next
  PROVE  Session!Next \/ UNCHANGED <<opts.dry, arm, end = "exited">>
<1>1. MainInv'
  BY NextMain
<1>2. CASE Servos
  <2>1. /\ At("servo") /\ arm' = "taken" /\ opts' = opts /\ end' = end
    BY <1>2 DEF Servos, Done, Rest
  <2>2. Session!Take
    BY <2>1, TakesOnce DEF Session!Take, At, Running
  <2>3. QED
    BY <2>2 DEF Session!Next
<1>3. CASE ShutsDown
  <2>1. /\ Running /\ arm' = "given" /\ opts' = opts /\ end' = end
    BY <1>3 DEF ShutsDown, Done, At, Rest
  <2>2. Session!Give
    BY <2>1 DEF Session!Give, Running
  <2>3. QED
    BY <2>2 DEF Session!Next
<1>4. CASE Refuses \/ Exits
  <2>1. /\ Running /\ arm' = arm /\ opts' = opts /\ end' = "exited"
    BY <1>4 DEF Refuses, Exits, At, Rest
  <2>2. arm # "taken"
    BY <1>1, <2>1 DEF MainInv, ArmInv
  <2>3. Session!End
    BY <2>1, <2>2 DEF Session!End
  <2>4. QED
    BY <2>3 DEF Session!Next
<1>5. CASE Throws
  <2>1. /\ Running /\ opts' = opts /\ end' = "aborted"
        /\ arm' = arm \/ (At("servo") /\ arm' = "taken")
    BY <1>5 DEF Throws, At, Rest
  <2>2. CASE arm' = arm
    BY <2>1, <2>2 DEF Running
  <2>3. CASE At("servo") /\ arm' = "taken"
    <3>1. Session!Take
      BY <2>1, <2>3, TakesOnce DEF Session!Take, Running
    <3>2. QED
      BY <3>1 DEF Session!Next
  <2>4. QED
    BY <2>1, <2>2, <2>3
<1>6. CASE Main /\ ~Servos /\ ~ShutsDown /\ ~Refuses /\ ~Exits
  BY <1>6, Zenon DEF Main, Passes, CountsDown, SessionRefused, Starts, Joins, RunReturns, Stops, Rest
<1>7. CASE Interrupt \/ Cycle \/ RtEnds \/ Drains \/ DrainEnds
  BY <1>7, Zenon DEF Interrupt, Cycle, RtEnds, Drains, DrainEnds, Others, Rest, mainVars
<1>8. CASE WatchdogEnds \/ PublisherEnds \/ SupervisorEnds \/ Link \/ Stopped
  BY <1>8, Zenon
     DEF WatchdogEnds, PublisherEnds, SupervisorEnds, Link, Linked, Stopped, Others, Rest, mainVars, vars
<1>9. QED
  BY <1>2, <1>3, <1>4, <1>5, <1>6, <1>7, <1>8 DEF Next

\* Every program keeps its side of the session with the arm: it takes it at
\* most once, never in a dry run, and exits only after safe_shutdown() if it
\* took it, whichever way out it takes.
THEOREM SessionKept == Spec => KeepsSession
<1>1. Init => Session!Init
  BY DryIsDry DEF Init, Session!Init
<1>2. ASSUME MainInv, [Next]_vars PROVE [Session!Next]_<<opts.dry, arm, end = "exited">>
  <2>1. CASE Next
    BY <1>2, <2>1, SessionStep
  <2>2. CASE UNCHANGED vars
    BY <2>2, Zenon DEF vars, mainVars
  <2>3. QED
    BY <1>2, <2>1, <2>2
<1>3. QED
  BY <1>1, <1>2, InitMain, NextMain, PTL DEF Spec, KeepsSession, Session!Spec
=============================================================================
