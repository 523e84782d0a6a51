------------------------------ MODULE WiServer ------------------------------
(***************************************************************************)
(* The web server and web client of the WiShield library, on uIP's one     *)
(* connection.  What is sent is never stored: each time some of it is      *)
(* needed, the application writes all of it again, and a cursor lets those *)
(* bytes through that belong into the next segment.                        *)
(*                                                                         *)
(* The handshakes of TCP are one step each, and what TcpConnection is      *)
(* about - numbers, duplicates - is reduced to one segment that may be     *)
(* lost.  The library is not part of the clock's program.                  *)
(***************************************************************************)
EXTENDS Integers, Sequences, SequencesExt, FiniteSets

CONSTANTS
  Mss,         \* uip_conn->mss
  MaxRtx,      \* UIP_MAXRTX
  Packets,     \* what clients send in one packet, as complete lines
  Header,      \* the bytes of httpOK and its empty line
  Missing,     \* those of httpNotFound
  Pages,       \* of each URL the sketch knows: its page, before and after it changes
  Requests,    \* the sketch's own requests
  Writes,      \* what sendRequest() writes for each: where, and which bytes
  Ends         \* where it leaves the cursor

Urls == DOMAIN Pages
None    == "none"        \* the null pointer
Rubbish == <<"rubbish", 0>>  \* a byte nobody wrote

\* The bytes of a piece lie behind its place.
Covers(piece, i) == i - piece.at \in DOMAIN piece.bytes
ByteAt(piece, i) == piece.bytes[i - piece.at]

IsSequence(s) == s \in Seq(Range(s))

\* A page has two editions.  sendRequest() writes something everywhere before the
\* place at which it leaves the cursor.
ASSUME ServerAssumption ==
  /\ Mss \in Nat /\ Mss > 0 /\ MaxRtx \in Nat
  /\ None \notin Urls \cup Requests /\ Urls \cap Requests = {}
  /\ IsSequence(Header) /\ IsSequence(Missing)
  /\ \A u \in Urls, e \in {1, 2} : IsSequence(Pages[u][e])
  /\ DOMAIN Writes = Requests /\ DOMAIN Ends = Requests
  /\ \A r \in Requests :
       /\ IsSequence(Writes[r]) /\ Ends[r] \in Nat
       /\ \A i \in 1 .. Ends[r] : \E p \in DOMAIN Writes[r] : Covers(Writes[r][p], i)

VARIABLES
  state,      \* tcpstateflags
  serving,    \* the connection is one to port 80
  len,        \* uip_conn->len: bytes that are not acknowledged
  nrtx,       \* uip_conn->nrtx
  base,       \* bytes acknowledged, as uIP knows it
  app,        \* appstate
  queue,      \* the sketch's requests that wait for a connection
  active,     \* those that were submitted and have not ended
  edition,    \* the page the sketch serves: the first or the second
  way,        \* the segment on its way, or none
  got,        \* auxiliary: what the other side has received
  changed,    \* auxiliary: the page changed during the connection
  expired     \* auxiliary: the connection ended without a call of the application

tcpVars == <<state, serving, len, nrtx, base, way>>
auxVars == <<got, changed, expired>>
vars    == <<tcpVars, app, queue, active, edition, auxVars>>

NoSegment == [from |-> 0, bytes |-> <<>>]

----------------------------------------------------------------------------
\* Server::write() for all bytes of a piece: those that fall into the next segment.
Let(buffer, acked, piece) ==
  [o \in 1 .. Mss |->
     IF Covers(piece, acked + o) THEN ByteAt(piece, acked + o) ELSE buffer[o]]

Piece(at, bytes) == [at |-> at, bytes |-> bytes]

\* sendPage(): the header, and the page or, over the header, that there is none.
PageWrites(url) ==
  << Piece(0, Header),
     IF url \in Urls THEN Piece(Len(Header), Pages[url][edition]) ELSE Piece(0, Missing) >>

\* What is written for a request, be it the client's URL or the sketch's own.
PiecesOf(r) == IF r \in Requests THEN Writes[r] ELSE PageWrites(r)
CursorOf(r) ==
  IF r \in Requests THEN Ends[r]
  ELSE IF r \in Urls THEN Len(Header) + Len(Pages[r][edition]) ELSE Len(Missing)

\* send(): the part of it that is beyond what was acknowledged.
BadSendLength(a, cursor) == IF cursor < Mss THEN cursor ELSE Mss
SendLength(a, cursor) ==
  LET n == IF cursor < a.acked THEN 0 ELSE cursor - a.acked IN IF n > Mss THEN Mss ELSE n

\* sendPage(), sendRequest(): app with what they leave, the buffer included.
Layers(acked, pieces) ==
  LET layer[n \in 0 .. Len(pieces)] ==
        IF n = 0 THEN [o \in 1 .. Mss |-> Rubbish] ELSE Let(layer[n - 1], acked, pieces[n])
  IN  layer

Written(a) == Layers(a.acked, PiecesOf(a.request))[Len(PiecesOf(a.request))]

Sent(a) ==
  [a EXCEPT !.cursor = CursorOf(a.request),
            !.sent   = SendLength(a, CursorOf(a.request)),
            !.buffer = Written(a),
            !.slen   = SendLength(a, CursorOf(a.request))]

NewCall(a) == [a EXCEPT !.slen = 0, !.closes = FALSE, !.buffer = [o \in 1 .. Mss |-> Rubbish]]

----------------------------------------------------------------------------
\* processPacket(), processLine(): the first GET names the page, the first empty
\* line ends the request and what follows it is not looked at.
Blanks(packet) == {i \in DOMAIN packet : packet[i] = "blank"}
Read(packet)   == {i \in DOMAIN packet : \A b \in Blanks(packet) : i <= b}
Gets(packet)   == {i \in Read(packet) : packet[i] \notin {"blank", "other"}}

Named(a, packet) ==
  IF a.request # None \/ Gets(packet) = {} THEN a
  ELSE [a EXCEPT !.request = packet[CHOOSE i \in Gets(packet) : \A j \in Gets(packet) : i <= j]]

Confirmed(a) == [a EXCEPT !.acked = @ + a.sent, !.sent = 0]

BadForgotten(a) == a
Forgotten(a)    == [a EXCEPT !.request = None]

\* server_task_impl(), in the order of its conditions.
ServerTask(events, packet) ==
  LET start == IF "connected" \in events
               THEN [NewCall(app) EXCEPT !.acked = 0, !.request = None] ELSE NewCall(app)
      read  == IF "newdata" \in events THEN Named(start, packet) ELSE start
      first == IF "newdata" \in events /\ Blanks(packet) # {} /\ read.request # None
               THEN Sent(read) ELSE read
      next  == IF "acked" \notin events THEN first
               ELSE IF Confirmed(first).acked = first.cursor
               THEN [Confirmed(first) EXCEPT !.closes = TRUE]
               ELSE Sent(Confirmed(first))
      again == IF "rexmit" \in events THEN Sent(next) ELSE next
  IN  IF "ended" \in events THEN Forgotten(again) ELSE again

\* client_task_impl()
ClientTask(events) ==
  LET start == IF "connected" \in events THEN Sent([NewCall(app) EXCEPT !.acked = 0])
                                         ELSE NewCall(app)
      next  == IF "acked" \notin events THEN start
               ELSE IF Confirmed(start).acked = start.cursor THEN Confirmed(start)
               ELSE Sent(Confirmed(start))
      again == IF "rexmit" \in events THEN Sent(next) ELSE next
  IN  IF "ended" \in events THEN [again EXCEPT !.request = None] ELSE again

\* server_app_task(): UIP_APPCALL(); a request of the sketch's that has ended may be
\* submitted again.
AppCall(port80, events, packet) ==
  /\ app' = IF port80 THEN ServerTask(events, packet) ELSE ClientTask(events)
  /\ active' = IF "ended" \in events /\ ~port80 THEN active \ {app.request} ELSE active

----------------------------------------------------------------------------
\* appsend: the application closes, or sends no more than the segment can hold or
\* than it sent before.
AppSend(outstanding) ==
  IF app'.closes
  THEN state' = "FIN_WAIT_1" /\ len' = 1 /\ way' = NoSegment
  ELSE /\ state' = "ESTABLISHED"
       /\ len' = IF app'.slen > 0 /\ outstanding = 0 THEN app'.slen ELSE outstanding
       /\ way' = IF app'.slen > 0
                 THEN [from |-> base', bytes |-> SubSeq(app'.buffer, 1, len')] ELSE way

Sketch == UNCHANGED <<queue, edition>>
Fresh  == got' = <<>> /\ changed' = FALSE /\ expired' = FALSE

\* A client connects; what is left of an old connection may be taken.
PeerConnects ==
  /\ state \in {"CLOSED", "TIME_WAIT"}
  /\ serving' = TRUE /\ base' = 0 /\ nrtx' = 0 /\ Fresh
  /\ AppCall(TRUE, {"connected"}, <<>>)
  /\ AppSend(0) /\ Sketch

\* uip_connect() for the one connection there is, with a port of its own.
UipConnect ==
  /\ state \in {"CLOSED", "TIME_WAIT"}
  /\ state' = "SYN_SENT" /\ serving' = FALSE /\ len' = 1 /\ nrtx' = 0 /\ base' = 0

\* Server::server_task(): a connection for the first request that waits.
Connect ==
  /\ queue # <<>> /\ UipConnect
  /\ app' = [app EXCEPT !.request = Head(queue)]
  /\ queue' = Tail(queue)
  /\ way' = NoSegment /\ Fresh
  /\ UNCHANGED <<active, edition>>

PeerAccepts ==
  /\ state = "SYN_SENT"
  /\ base' = 0 /\ nrtx' = 0
  /\ AppCall(FALSE, {"connected", "newdata"}, <<>>)
  /\ AppSend(0)
  /\ Sketch /\ UNCHANGED <<serving, auxVars>>

----------------------------------------------------------------------------
Open == state = "ESTABLISHED"
Acknowledgeable == len > 0 /\ Len(got) = base + len

\* A segment that only acknowledges, and one with data that may do so as well.
PeerAcks ==
  /\ Open /\ Acknowledgeable
  /\ base' = base + len /\ nrtx' = 0
  /\ AppCall(serving, {"acked"}, <<>>)
  /\ AppSend(0)
  /\ Sketch /\ UNCHANGED <<serving, auxVars>>

PeerSends(packet, acks) ==
  /\ Open /\ (acks => Acknowledgeable)
  /\ base' = IF acks THEN base + len ELSE base
  /\ nrtx' = 0
  /\ AppCall(serving, {"newdata"} \cup (IF acks THEN {"acked"} ELSE {}), packet)
  /\ AppSend(IF acks THEN 0 ELSE len)
  /\ Sketch /\ UNCHANGED <<serving, auxVars>>

\* What the other side takes of a segment, and a segment that is lost.
Deliver ==
  /\ way # NoSegment
  /\ got' = got \o SubSeq(way.bytes, Len(got) - way.from + 1, Len(way.bytes))
  /\ way' = NoSegment
  /\ Sketch /\ UNCHANGED <<state, serving, len, nrtx, base, app, active, changed, expired>>

Lose ==
  /\ way # NoSegment /\ way' = NoSegment
  /\ Sketch /\ UNCHANGED <<state, serving, len, nrtx, base, app, active, auxVars>>

----------------------------------------------------------------------------
BadCounted == IF Open THEN nrtx ELSE nrtx + 1
Counted    == nrtx + 1

\* The retransmission timer, in any state in which something is outstanding.
Retransmit ==
  /\ state \in {"SYN_SENT", "ESTABLISHED", "FIN_WAIT_1"} /\ len > 0 /\ nrtx < MaxRtx
  /\ nrtx' = Counted
  /\ IF Open
     THEN /\ AppCall(serving, {"rexmit"}, <<>>)
          /\ way' = IF app'.slen > 0
                    THEN [from |-> base, bytes |-> SubSeq(app'.buffer, 1, len)] ELSE way
     ELSE UNCHANGED <<app, active, way>>
  /\ Sketch /\ UNCHANGED <<state, serving, len, base, auxVars>>

\* A connection ends with a call of the application.
End(after) ==
  /\ AppCall(serving, {"ended"}, <<>>)
  /\ state' = after /\ len' = 0 /\ way' = NoSegment
  /\ Sketch /\ UNCHANGED <<serving, nrtx, base, auxVars>>

GiveUp ==
  /\ state \in {"SYN_SENT", "ESTABLISHED", "FIN_WAIT_1"} /\ len > 0 /\ nrtx = MaxRtx
  /\ End("CLOSED")

PeerResets == state \notin {"CLOSED", "TIME_WAIT"} /\ End("CLOSED")

\* A FIN is not looked at while anything is outstanding.
PeerCloses ==
  \/ Open /\ len = 0 /\ End("CLOSED")
  \/ state \in {"FIN_WAIT_1", "FIN_WAIT_2"} /\ End("TIME_WAIT")

PeerAcksFin ==
  /\ state = "FIN_WAIT_1" /\ state' = "FIN_WAIT_2" /\ len' = 0
  /\ Sketch /\ UNCHANGED <<serving, nrtx, base, way, app, active, auxVars>>

\* UIP_TIME_WAIT_TIMEOUT, of which the application is not told.
WaitEnds ==
  /\ state \in {"FIN_WAIT_2", "TIME_WAIT"} /\ state' = "CLOSED"
  /\ expired' = (state = "FIN_WAIT_2")
  /\ Sketch /\ UNCHANGED <<serving, len, nrtx, base, way, app, active, got, changed>>

----------------------------------------------------------------------------
\* GETrequest::submit(): a request that is active is not submitted again.
BadMaySubmit(r) == r # app.request
MaySubmit(r)    == r \notin active

\* Bound: no longer queue than one that holds every request once, and one more.
Submit(r) ==
  /\ MaySubmit(r) /\ Len(queue) <= Cardinality(Requests)
  /\ queue' = Append(queue, r) /\ active' = active \cup {r}
  /\ UNCHANGED <<tcpVars, app, edition, auxVars>>

\* The sketch's page changes, say with the time.  Bound: once during a connection.
PageChanges ==
  /\ ~changed
  /\ edition' = 3 - edition
  /\ changed' = TRUE
  /\ UNCHANGED <<tcpVars, app, queue, active, got, expired>>

Init ==
  /\ state = "CLOSED" /\ serving = TRUE /\ len = 0 /\ nrtx = 0 /\ base = 0
  /\ app = [acked |-> 0, sent |-> 0, cursor |-> 0, request |-> None, slen |-> 0,
            closes |-> FALSE, buffer |-> [o \in 1 .. Mss |-> Rubbish]]
  /\ queue = <<>> /\ active = {} /\ edition = 1
  /\ way = NoSegment /\ got = <<>> /\ changed = FALSE /\ expired = FALSE

PeerTalks == \E packet \in Packets, acks \in BOOLEAN : PeerSends(packet, acks)

Peer ==
  \/ PeerConnects \/ PeerAccepts \/ PeerAcks \/ PeerResets \/ PeerCloses \/ PeerAcksFin
  \/ PeerTalks

Timer == Retransmit \/ GiveUp \/ WaitEnds

Next ==
  \/ Peer \/ Timer \/ Connect \/ Deliver \/ Lose
  \/ PageChanges
  \/ \E r \in Requests : Submit(r)

\* The timer goes on; nothing is asked of the network or the other side.
Spec == Init /\ [][Next]_vars /\ WF_vars(Timer)

----------------------------------------------------------------------------
\* All that is to be sent, if it were written into one buffer.
Whole(r) ==
  [i \in 1 .. CursorOf(r) |->
     LET over == {p \in DOMAIN PiecesOf(r) : Covers(PiecesOf(r)[p], i)}
         last == CHOOSE p \in over : \A q \in over : q <= p
     IN  ByteAt(PiecesOf(r)[last], i)]

\* The other side gets what was written, byte for byte in spite of the segments, what
\* was lost, and fields filled in afterwards; and all of it before the server closes.
\* A page that changes meanwhile is not put together from one edition.
WholeArrives ==
  state \in {"ESTABLISHED", "FIN_WAIT_1", "FIN_WAIT_2"} /\ app.request # None /\ ~changed =>
    /\ IsPrefix(got, Whole(app.request))
    /\ state # "ESTABLISHED" => got = Whole(app.request)

\* The memory of a URL is given back with its connection, unless the client never
\* closes its half and the wait for it ends, of which the application is not told.
UrlIsFreed == state \in {"CLOSED", "TIME_WAIT"} /\ app.request # None => expired

\* A request of the sketch's is active as long as it waits or has the connection, and
\* it is in one place only: the list of those that wait has no loop.
ActiveIsQueued ==
  LET held == IF state \notin {"CLOSED", "TIME_WAIT"} /\ ~serving THEN {app.request} ELSE {}
  IN  /\ Cardinality(ToSet(queue)) = Len(queue)
      /\ ToSet(queue) \cap held = {}
      /\ active = ToSet(queue) \cup held

\* What a connection used is there for the next one, and nothing is used twice.
NothingIsHeldTwice == UrlIsFreed /\ ActiveIsQueued

\* A page that was begun comes to an end, well or not, unless it changes meanwhile or
\* the client sends one packet after the other, which sets the timer back each time.
ResponseEnds ==
  \/ []<><<PeerTalks>>_vars
  \/ [](serving /\ Open /\ app.request # None /\ len > 0 => <>(~Open \/ changed))
=============================================================================
