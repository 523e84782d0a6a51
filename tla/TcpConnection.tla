--------------------------- MODULE TcpConnection ---------------------------
(***************************************************************************)
(* uip_process() for the one TCP connection the clock has (UIP_CONNS = 1)  *)
(* and the one port it listens on.  Sequence numbers count the SYN, whole  *)
(* lines or answers, and the FIN; every connection starts at 0 on both     *)
(* sides.  A segment carries the connection (the client's port) it belongs *)
(* to.  Times are left out: a timer may run off at any uip_periodic().     *)
(* uip_connect() is never called, so SYN_SENT does not occur, and nothing  *)
(* stops a connection, sends urgent data or has more than an MSS to say.   *)
(***************************************************************************)
EXTENDS ProtoSocket, FiniteSets

CONSTANTS
  Conns,       \* connections, by the client's port, in the order they are opened
  Capacity,    \* bound: segments under way in each direction
  MaxRtx,      \* UIP_MAXRTX
  MaxSynRtx    \* UIP_MAXSYNRTX

ASSUME TcpAssumption ==
  /\ Conns \subseteq Nat
  /\ Capacity \in Nat /\ MaxRtx \in Nat /\ MaxSynRtx \in Nat

VARIABLES
  dev,        \* uip_conns[0]
  ps,         \* its appstate
  toDev,      \* segments on their way to the clock
  toHost,     \* segments on their way to the client
  handled,    \* auxiliary: the lines handleCommand() got on this connection
  answered    \* auxiliary: the answers psock_send() was given on it

devVars == <<dev, ps, handled, answered>>

TcpStates == {"CLOSED", "SYN_RCVD", "ESTABLISHED", "FIN_WAIT_1", "FIN_WAIT_2",
              "CLOSING", "TIME_WAIT", "LAST_ACK"}

\* snd is snd_nxt, the first number not acknowledged; len the numbers sent after it.
Closed == [state |-> "CLOSED", conn |-> 0, rcv |-> 0, snd |-> 0, len |-> 0, nrtx |-> 0]

Segment(c, kind, seq, data, fin, ack) ==
  [conn |-> c, kind |-> kind, seq |-> seq, data |-> data, fin |-> fin, ack |-> ack]

\* A segment put on a full way is lost, as one may be lost on its way.
Put(way, s) == IF Len(way) < Capacity THEN Append(way, s) ELSE way

DevInit ==
  /\ dev = Closed
  /\ ps = Fresh
  /\ toDev = <<>> /\ toHost = <<>>
  /\ handled = <<>> /\ answered = <<>>

----------------------------------------------------------------------------
\* What the clock sends.  tcp_send: the numbers are those of the connection.
SynAck(d)  == Segment(d.conn, "synack", d.snd, <<>>, FALSE, d.rcv)
Ack(d)     == Segment(d.conn, "seg", d.snd, <<>>, FALSE, d.rcv)
FinAck(d)  == Segment(d.conn, "seg", d.snd, <<>>, TRUE, d.rcv)
Answer(d, p) == Segment(d.conn, "seg", d.snd, <<p.answer>>, FALSE, d.rcv)
Reset(s)   == Segment(s.conn, "rst", s.ack, <<>>, FALSE, s.seq)

Reply(s) == toHost' = Put(toHost, s)
Silent   == UNCHANGED toHost

\* UIP_APPCALL()
Called(o) ==
  /\ ps' = o.ps
  /\ handled' = handled \o o.lines
  /\ answered' = answered \o o.says

NotCalled == UNCHANGED <<ps, handled, answered>>

\* appsend: close, or send what the application gave, or acknowledge new data.
AppSend(d, ev, o) ==
  LET sending == [d EXCEPT !.len = IF o.sends THEN 1 ELSE @, !.nrtx = 0]
      closing == [d EXCEPT !.len = 1, !.nrtx = 0, !.state = "FIN_WAIT_1"]
  IN  IF o.closes THEN dev' = closing /\ Reply(FinAck(closing))
      ELSE /\ dev' = sending
           /\ IF o.sends THEN Reply(Answer(sending, o.ps))
              ELSE IF "newdata" \in ev THEN Reply(Ack(sending)) ELSE Silent

CallAndSend(d, ev, data) ==
  \E o \in AppCall(ps, ev, data) : Called(o) /\ AppSend(d, ev, o)

\* A call whose answer is not asked for; d is what it leaves.
CallOnly(d, ev, data) ==
  /\ \E o \in AppCall(ps, ev, data) : Called(o)
  /\ dev' = d

----------------------------------------------------------------------------
\* tcp_input: to the connection, to the port that listens, or refused.
Mine(s)    == dev.state # "CLOSED" /\ s.conn = dev.conn
Outstanding == dev.len > 0

\* found_listen: a new connection takes the place of none or of one in TIME_WAIT;
\* otherwise the SYN is dropped and the client has to repeat it.
Accept(s) ==
  /\ ~Mine(s) /\ s.kind = "syn"
  /\ UNCHANGED ps
  /\ IF dev.state \in {"CLOSED", "TIME_WAIT"}
     THEN /\ dev' = [state |-> "SYN_RCVD", conn |-> s.conn, rcv |-> s.seq + 1,
                     snd |-> 0, len |-> 1, nrtx |-> 0]
          /\ handled' = <<>> /\ answered' = <<>>
          /\ Reply(SynAck(dev'))
     ELSE UNCHANGED <<dev, handled, answered>> /\ Silent

\* reset: anything else that belongs to no connection, resets excepted.
Refuse(s) ==
  /\ ~Mine(s) /\ s.kind # "syn"
  /\ NotCalled /\ UNCHANGED dev
  /\ IF s.kind = "rst" THEN Silent ELSE Reply(Reset(s))

\* found: a reset is believed without a look at its number.
ResetIn(s) ==
  /\ Mine(s) /\ s.kind = "rst"
  /\ CallOnly(Closed, {}, <<>>) /\ Silent

BadOutOfSequence(s) == s.fin /\ s.seq # dev.rcv       \* believes all data to be new
OutOfSequence(s) == (s.data # <<>> \/ s.fin \/ s.kind = "syn") /\ s.seq # dev.rcv

Repeated(s) ==
  /\ Mine(s) /\ s.kind # "rst" /\ OutOfSequence(s)
  /\ NotCalled /\ UNCHANGED dev
  /\ Reply(Ack(dev))

\* The acknowledgement of all that is outstanding; others are not looked at.
BadAcks(s) == Outstanding                   \* any acknowledgement will do
Acks(s)  == Outstanding /\ s.ack = dev.snd + dev.len
Acked(s) == IF Acks(s) THEN [dev EXCEPT !.snd = s.ack, !.len = 0] ELSE dev
BadTook(d, n) == [d EXCEPT !.rcv = IF n = 0 THEN @ + 1 ELSE @ + n]   \* counts a mere acknowledgement
Took(d, n) == [d EXCEPT !.rcv = @ + n]

Events(s) == (IF Acks(s) THEN {"acked"} ELSE {}) \cup (IF s.data # <<>> THEN {"newdata"} ELSE {})

Expected(s, state) ==
  Mine(s) /\ s.kind = "seg" /\ ~OutOfSequence(s) /\ dev.state = state

InSynRcvd(s) ==
  /\ Expected(s, "SYN_RCVD")
  /\ IF Acks(s)
     THEN CallAndSend([Took(Acked(s), Len(s.data)) EXCEPT !.state = "ESTABLISHED"],
                      {"connected"} \cup (Events(s) \ {"acked"}), s.data)
     ELSE NotCalled /\ UNCHANGED dev /\ Silent

\* ESTABLISHED: a FIN waits until nothing is outstanding; the application is told
\* of new data and of acknowledgements.
InEstablished(s) ==
  /\ Expected(s, "ESTABLISHED") /\ ~s.fin
  /\ IF Events(s) # {}
     THEN CallAndSend(Took(Acked(s), Len(s.data)), Events(s), s.data)
     ELSE NotCalled /\ UNCHANGED dev /\ Silent

FinIn(s) ==
  /\ Expected(s, "ESTABLISHED") /\ s.fin
  /\ IF Acked(s).len > 0
     THEN NotCalled /\ dev' = Acked(s) /\ Silent
     ELSE /\ CallOnly([Took(Acked(s), 1 + Len(s.data)) EXCEPT
                          !.len = 1, !.state = "LAST_ACK", !.nrtx = 0], Events(s), s.data)
          /\ Reply(FinAck(dev'))

InLastAck(s) ==
  /\ Expected(s, "LAST_ACK") /\ Silent
  /\ IF Acks(s) THEN CallOnly(Closed, {}, <<>>) ELSE NotCalled /\ UNCHANGED dev

\* FIN_WAIT_1 and FIN_WAIT_2: data are acknowledged and thrown away.
InFinWait(s) ==
  LET d    == Took(Acked(s), Len(s.data))
      done == d.len = 0
  IN  /\ Expected(s, "FIN_WAIT_1") \/ Expected(s, "FIN_WAIT_2")
      /\ IF s.fin
         THEN /\ CallOnly([Took(d, 1) EXCEPT !.state = IF done THEN "TIME_WAIT" ELSE "CLOSING"],
                          {}, <<>>)
              /\ Reply(Ack(dev'))
         ELSE /\ NotCalled
              /\ dev' = [d EXCEPT !.state = IF done THEN "FIN_WAIT_2" ELSE "FIN_WAIT_1"]
              /\ IF s.data # <<>> /\ (dev.state = "FIN_WAIT_2" \/ ~Acks(s))
                 THEN Reply(Ack(d)) ELSE Silent

InClosing(s) ==
  /\ Expected(s, "CLOSING") /\ NotCalled /\ Silent
  /\ dev' = IF Acks(s) THEN [Acked(s) EXCEPT !.state = "TIME_WAIT"] ELSE dev

InTimeWait(s) ==
  /\ Expected(s, "TIME_WAIT") /\ NotCalled /\ UNCHANGED dev
  /\ Reply(Ack(dev))

\* stack_process() with a packet: uip_input().
DevReceive ==
  /\ toDev # <<>>
  /\ toDev' = Tail(toDev)
  /\ LET s == Head(toDev)
     IN  \/ Accept(s) \/ Refuse(s) \/ ResetIn(s) \/ Repeated(s)
         \/ InSynRcvd(s) \/ InEstablished(s) \/ FinIn(s) \/ InLastAck(s)
         \/ InFinWait(s) \/ InClosing(s) \/ InTimeWait(s)

----------------------------------------------------------------------------
\* uip_periodic() when the retransmission timer runs off.
GivesUp == \/ dev.nrtx = MaxRtx
           \/ dev.state = "SYN_RCVD" /\ dev.nrtx = MaxSynRtx

GiveUp ==
  /\ dev.state \notin {"CLOSED", "TIME_WAIT", "FIN_WAIT_2"} /\ Outstanding /\ GivesUp
  /\ CallOnly(Closed, {}, <<>>)
  /\ Reply(Segment(dev.conn, "rst", dev.snd, <<>>, FALSE, dev.rcv))
  /\ UNCHANGED toDev

BadCounted == [dev EXCEPT !.nrtx = IF dev.state = "FIN_WAIT_1" THEN @ ELSE @ + 1]
Counted == [dev EXCEPT !.nrtx = @ + 1]

\* In ESTABLISHED the application makes the data again.
Retransmit ==
  /\ dev.state \notin {"CLOSED", "TIME_WAIT", "FIN_WAIT_2"} /\ Outstanding /\ ~GivesUp
  /\ dev' = Counted
  /\ IF dev.state = "ESTABLISHED"
     THEN \E o \in AppCall(ps, {"rexmit"}, <<>>) :
            /\ Called(o)
            /\ IF o.sends THEN Reply(Answer(Counted, o.ps)) ELSE Silent
     ELSE /\ NotCalled
          /\ Reply(IF dev.state = "SYN_RCVD" THEN SynAck(dev) ELSE FinAck(dev))
  /\ UNCHANGED toDev

\* The poll of an idle connection; the application has nothing to say.
Poll ==
  /\ dev.state = "ESTABLISHED" /\ ~Outstanding
  /\ CallAndSend(dev, {}, <<>>)
  /\ UNCHANGED toDev

\* UIP_TIME_WAIT_TIMEOUT
WaitEnds ==
  /\ dev.state \in {"TIME_WAIT", "FIN_WAIT_2"}
  /\ dev' = Closed /\ NotCalled /\ Silent
  /\ UNCHANGED toDev

\* uip_init(), when the supervision of the radio starts the stack again.
StackInit ==
  /\ dev.state # "CLOSED"
  /\ dev' = Closed /\ NotCalled /\ Silent
  /\ UNCHANGED toDev
=============================================================================
