----------------------------- MODULE TelnetHost -----------------------------
(***************************************************************************)
(* The clock's connection with its client: setTime.pl's telnet session     *)
(* over the TCP of the host's kernel (external), and a network that loses  *)
(* segments.                                                               *)
(*                                                                         *)
(* telnetCmd() prints a line and waits for the next line that comes back.  *)
(* playMovie() prints a picture with an end of line of its own, to which   *)
(* print() adds another: the clock reads two lines, the second one empty.  *)
(* Any error closes the connection and opens a new one; the command is     *)
(* given up.                                                               *)
(***************************************************************************)
EXTENDS TcpConnection, SequencesExt, Integers

CONSTANTS
  MaxLines,    \* bound: lines of the first connection; later ones are shorter
  Pictures     \* whether the client plays videos

VARIABLES
  host,    \* the kernel's side of every connection
  app      \* the client: its connection, the line it waits for an answer to

vars == <<dev, ps, handled, answered, toDev, toHost, host, app>>

\* una: first number not acknowledged; unacked: what was sent or is to be sent
\* from there on; flying: how much of it is under way; rcv: the next number
\* expected; inbox: answers not yet read; got: auxiliary, all answers received;
\* due: something is to be acknowledged.
NoSocket == [state |-> "none", una |-> 0, unacked |-> <<>>, flying |-> 0, rcv |-> 0,
             inbox |-> <<>>, got |-> <<>>, eof |-> FALSE, due |-> FALSE]

HostStates == {"none", "syn", "est", "fin", "wait", "reset"}

\* asked: the number of the line whose answer is awaited, 0 if none; drew: a picture was sent; opened:
\* connections so far.
Idle == [conn |-> 0, asked |-> 0, drew |-> FALSE, quits |-> FALSE,
         opened |-> 0]

HostInit ==
  /\ host = [c \in Conns |-> NoSocket]
  /\ app = Idle

Init == DevInit /\ HostInit

Send(s)    == toDev' = Put(toDev, s)
Say(h, c, kind, data, fin) ==
  Segment(c, kind, h.una, data, fin, h.rcv)

Sock == IF app.conn = 0 THEN NoSocket ELSE host[app.conn]
SetHost(c, h) == host' = [host EXCEPT ![c] = h]
FinMark    == [n |-> 0, kind |-> "fin"]
HasFin(q)  == \E i \in DOMAIN q : q[i].kind = "fin"     \* nothing comes after it
Lines(q)   == IF HasFin(q) THEN Front(q) ELSE q

----------------------------------------------------------------------------
\* The kernel.  Small segments wait until nothing is under way; a FIN does not.
Transmit(c) ==
  LET h == host[c]
  IN  /\ h.state \in {"est", "fin"} /\ h.flying < Len(h.unacked)
      /\ h.flying = 0 \/ HasFin(h.unacked)
      /\ LET new == SubSeq(h.unacked, h.flying + 1, Len(h.unacked))
         IN  Send(Segment(c, "seg", h.una + h.flying, Lines(new), HasFin(new), h.rcv))
      /\ SetHost(c, [h EXCEPT !.flying = Len(h.unacked), !.due = FALSE])
      /\ UNCHANGED <<toHost, app, devVars>>

\* A timer of the kernel: the SYN or what is under way again.
Resend(c) ==
  LET h == host[c]
      q == SubSeq(h.unacked, 1, h.flying)
  IN  /\ h.state = "syn" \/ h.flying > 0
      /\ Send(IF h.state = "syn" THEN Say(h, c, "syn", <<>>, FALSE)
              ELSE Say(h, c, "seg", Lines(q), HasFin(q)))
      /\ SetHost(c, [h EXCEPT !.due = FALSE])
      /\ UNCHANGED <<toHost, app, devVars>>

HostAck(c) ==
  LET h == host[c]
  IN  /\ h.due
      /\ Send(Segment(c, "seg", h.una + h.flying, <<>>, FALSE, h.rcv))
      /\ SetHost(c, [h EXCEPT !.due = FALSE])
      /\ UNCHANGED <<toHost, app, devVars>>

\* What a segment acknowledges, and what it brings if it is the next one.
AfterAck(h, s) ==
  LET n == s.ack - h.una
  IN  IF n > 0 /\ n <= h.flying
      THEN [h EXCEPT !.una = s.ack, !.flying = @ - n,
                     !.unacked = SubSeq(@, n + 1, Len(@))]
      ELSE h

AfterData(h, s) ==
  IF s.data = <<>> /\ ~s.fin THEN h
  ELSE IF s.seq # h.rcv THEN [h EXCEPT !.due = TRUE]
  ELSE [h EXCEPT !.rcv = @ + Len(s.data) + (IF s.fin THEN 1 ELSE 0), !.due = TRUE,
                 !.inbox = @ \o s.data, !.got = @ \o s.data, !.eof = @ \/ s.fin]

\* Both have closed: the socket lingers to acknowledge a repeated FIN.
AfterClose(h) ==
  IF h.state = "fin" /\ h.unacked = <<>> /\ h.eof THEN [h EXCEPT !.state = "wait"] ELSE h

\* A segment for no connection, or data that nobody will read.
Unwanted(h, s) == h.state \in {"none", "reset"} \/ (h.state = "fin" /\ s.data # <<>>)

HostReceive ==
  /\ toHost # <<>>
  /\ toHost' = Tail(toHost)
  /\ UNCHANGED <<app, devVars>>
  /\ LET s == Head(toHost)
         c == s.conn
         h == host[c]
     IN  \/ /\ s.kind = "rst"
            /\ SetHost(c, IF h.state \in {"syn", "est"} THEN [NoSocket EXCEPT !.state = "reset"]
                          ELSE NoSocket)
            /\ UNCHANGED toDev
         \/ /\ s.kind # "rst" /\ Unwanted(h, s)
            /\ Send(Segment(c, "rst", s.ack, <<>>, FALSE, 0))
            /\ SetHost(c, [NoSocket EXCEPT !.state = IF h.state = "reset" THEN "reset" ELSE "none"])
         \/ /\ s.kind = "synack" /\ h.state = "syn"
            /\ SetHost(c, [h EXCEPT !.state = "est", !.una = 1, !.rcv = 1, !.due = TRUE])
            /\ UNCHANGED toDev
         \/ /\ s.kind = "synack" /\ h.state \in {"est", "fin", "wait"} /\ ~Unwanted(h, s)
            /\ SetHost(c, [h EXCEPT !.due = TRUE])
            /\ UNCHANGED toDev
         \/ s.kind = "seg" /\ h.state = "syn" /\ UNCHANGED <<host, toDev>>
         \/ /\ s.kind = "seg" /\ h.state \in {"est", "fin", "wait"} /\ ~Unwanted(h, s)
            /\ SetHost(c, AfterClose(AfterData(AfterAck(h, s), s)))
            /\ UNCHANGED toDev

\* The kernel forgets a connection nobody has open.
HostForgets(c) ==
  /\ host[c].state \in {"fin", "wait"}
  /\ SetHost(c, NoSocket)
  /\ UNCHANGED <<toDev, toHost, app, devVars>>

Lose ==
  /\ \/ toDev # <<>> /\ toDev' = Tail(toDev) /\ UNCHANGED toHost
     \/ toHost # <<>> /\ toHost' = Tail(toHost) /\ UNCHANGED toDev
  /\ UNCHANGED <<host, app, devVars>>

----------------------------------------------------------------------------
\* The client.  $t->close(): answers that were not read reset the connection.
Close ==
  LET c == app.conn
      h == host[c]
  IN  /\ app' = [Idle EXCEPT !.opened = app.opened]
      /\ IF h.state = "est" /\ h.inbox = <<>>
         THEN SetHost(c, [h EXCEPT !.state = "fin", !.unacked = Append(@, FinMark)])
         ELSE SetHost(c, NoSocket)
      /\ IF h.state = "est" /\ h.inbox # <<>>
         THEN Send(Segment(c, "rst", h.una + h.flying, <<>>, FALSE, h.rcv))
         ELSE UNCHANGED toDev
      /\ UNCHANGED <<toHost, devVars>>

\* openConnection(), and the open of reconnect()
Open ==
  /\ app.conn = 0 /\ app.opened + 1 \in Conns
  /\ LET c == app.opened + 1
     IN  /\ app' = [Idle EXCEPT !.conn = c, !.opened = c]
         /\ SetHost(c, [NoSocket EXCEPT !.state = "syn"])
         /\ Send(Say(NoSocket, c, "syn", <<>>, FALSE))
  /\ UNCHANGED <<toHost, devVars>>

\* print() gives the kernel the lines; the client then waits in waitfor().
NextLine == Sock.una + Len(Sock.unacked)
HasRoom(k) == app.conn # 0 /\ NextLine + k <= MaxLines \div app.conn

Tell(lines) ==
  /\ app.conn # 0 /\ Sock.state = "est" /\ app.asked = 0 /\ ~app.quits
  /\ SetHost(app.conn, [Sock EXCEPT !.unacked = @ \o lines])
  /\ app' = [app EXCEPT !.asked = NextLine,
                        !.drew  = @ \/ Head(lines).kind = "picture",
                        !.quits = Head(lines).kind = "quit"]
  /\ UNCHANGED <<toDev, toHost, devVars>>

TelnetCmd ==
  /\ HasRoom(1)
  /\ Tell(<<[n |-> NextLine, kind |-> "command"]>>)

PlayFrame ==
  /\ Pictures /\ HasRoom(2)
  /\ Tell(<<[n |-> NextLine, kind |-> "picture"], [n |-> NextLine + 1, kind |-> "empty"]>>)

\* closeConnection(): q, and close when it is answered.
Quit == Tell(<<[n |-> NextLine, kind |-> "quit"]>>)

WaitFor ==
  /\ app.conn # 0 /\ app.asked # 0 /\ Sock.inbox # <<>>
  /\ SetHost(app.conn, [Sock EXCEPT !.inbox = Tail(@)])
  /\ app' = [app EXCEPT !.asked = 0]
  /\ UNCHANGED <<toDev, toHost, devVars>>

CloseConnection == app.quits /\ app.asked = 0 /\ Close

\* reconnect(): no answer or no connection within ten seconds, or it was reset.
Reconnect ==
  /\ app.conn # 0
  /\ app.asked # 0 \/ Sock.state \in {"syn", "reset"}
  /\ Close

\* The client's machine stops and starts again; its kernel knows no connection.
HostCrash ==
  /\ app.opened # 0
  /\ host' = [c \in Conns |-> NoSocket]
  /\ app' = [Idle EXCEPT !.opened = app.opened]
  /\ UNCHANGED <<toDev, toHost, devVars>>

----------------------------------------------------------------------------
HostSteps == UNCHANGED <<host, app>>

Next ==
  \/ (DevReceive \/ Retransmit \/ GiveUp \/ Poll \/ WaitEnds \/ StackInit) /\ HostSteps
  \/ HostReceive \/ Lose \/ HostCrash
  \/ \E c \in Conns : Transmit(c) \/ Resend(c) \/ HostAck(c) \/ HostForgets(c)
  \/ Open \/ TelnetCmd \/ PlayFrame \/ Quit \/ WaitFor \/ CloseConnection \/ Reconnect

\* uip_periodic() comes twice a second and stack_process() reads every packet;
\* the network owes nothing.
Fairness ==
  /\ WF_vars(DevReceive /\ HostSteps)
  /\ WF_vars((Retransmit \/ GiveUp) /\ HostSteps)
  /\ WF_vars(WaitEnds /\ HostSteps)

Spec == Init /\ [][Next]_vars /\ Fairness

----------------------------------------------------------------------------
\* However segments are lost and repeated, no line is handled twice or before an
\* earlier one; lines made of stale bytes aside.
InOrder(lines) ==
  \A i, j \in DOMAIN lines :
    i < j /\ lines[i] # Junk /\ lines[j] # Junk => lines[i].n < lines[j].n

HandledOnce == InOrder(handled)

\* What the client receives is what the clock answered, without a gap or a
\* repetition, and the clock is at most one answer ahead: it handles a line only
\* when the answer before it is known to have arrived.
AnswersArriveInOrder ==
  LET h == host[dev.conn]
  IN  dev.state # "CLOSED" /\ h.state \in {"est", "fin", "wait"} =>
        /\ IsPrefix(h.got, answered)
        /\ Len(answered) <= Len(h.got) + 1

\* As long as no picture was sent, the answer the client reads is the one to the
\* line it has just sent.
AnswerIsToTheQuestion ==
  [][WaitFor /\ ~app.drew => Head(Sock.inbox) = app.asked]_vars

\* While both sides know the connection, they agree on what was sent and received.
NumbersAgree ==
  LET h == host[dev.conn]
  IN  dev.state \notin {"CLOSED", "SYN_RCVD"} /\ h.state \in {"est", "fin"} =>
        /\ h.una <= dev.rcv /\ dev.rcv <= h.una + h.flying
        /\ dev.snd <= h.rcv /\ h.rcv <= dev.snd + dev.len

\* A connection whose client is gone comes to its end, unless it is idle: an idle
\* one has nothing to repeat and waits for the supervision of the radio.
Abandoned == dev.state # "CLOSED" /\ host[dev.conn].state = "none"

GoneIsForgottenUnlessIdle ==
  Abandoned ~> \/ ~Abandoned
               \/ dev.state = "ESTABLISHED" /\ ~Outstanding

\* What psock.h:259 promises: a read goes on where the last one stopped, so that
\* the lines handled are the lines sent.
LinesAreReadInTurn ==
  \A i \in DOMAIN handled : handled[i].n = i

\* At any moment the two ends hold one conversation: the same numbers, the same answers.
EndsAgree == AnswersArriveInOrder /\ NumbersAgree
=============================================================================
