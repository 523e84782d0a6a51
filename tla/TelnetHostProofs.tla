-------------------------- MODULE TelnetHostProofs --------------------------
(***************************************************************************)
(* No line is handled twice, for any number of connections, lines and      *)
(* repetitions, and ways of any capacity.                                  *)
(*                                                                         *)
(* What a segment carries is numbered by the segment; the clock takes      *)
(* only the segment that comes next; and what it keeps of a segment for a  *)
(* later call comes after all it has handled.                              *)
(***************************************************************************)
EXTENDS TelnetHost, SequenceTheorems, TLAPS

ALine == [n : Nat, kind : {"command", "picture", "empty", "quit"}]
Units == ALine \cup {FinMark}

Kinds == {"syn", "synack", "seg", "rst"}

(* Segments for the clock: their lines bear the numbers of the stream. *)
Requests ==
  {s \in [conn : Conns, kind : Kinds, seq : Nat, data : Seq(ALine), fin : BOOLEAN, ack : Nat] :
     \A i \in 1 .. Len(s.data) : s.data[i].n = s.seq + i - 1}

Replies ==
  [conn : Conns, kind : Kinds \ {"syn"}, seq : Nat, data : Seq(Nat), fin : BOOLEAN, ack : Nat]

(* Sockets: the lines that may have to be repeated bear their numbers, and nothing
   comes after the end. *)
SocketTypes ==
  [state : HostStates, una : Nat, unacked : Seq(Units), flying : Nat, rcv : Nat,
   inbox : Seq(Nat), got : Seq(Nat), eof : BOOLEAN, due : BOOLEAN]

Numbered(h) ==
  \A i \in 1 .. Len(h.unacked) :
    IF h.unacked[i] = FinMark THEN i = Len(h.unacked) /\ h.state = "fin"
                              ELSE h.unacked[i].n = h.una + i - 1

Sockets ==
  {h \in SocketTypes : /\ Numbered(h)
                       /\ h.unacked # <<>> => h.state \in {"est", "fin"}
                       /\ h.flying <= Len(h.unacked)}

Devs ==
  {d \in [state : TcpStates, conn : Conns \cup {0}, rcv : Nat, snd : Nat, len : Nat, nrtx : Nat] :
     d.state # "CLOSED" => d.conn \in Conns}

Psocks  == [at : PsockAt, rest : Seq(ALine), dirty : BOOLEAN, answer : Nat]
Clients ==
  {a \in [conn : Conns \cup {0}, asked : Nat, drew : BOOLEAN, quits : BOOLEAN, opened : Nat] :
     a.quits => a.conn # 0}

NetTypes == toDev \in Seq(Requests) /\ toHost \in Seq(Replies)
HostSide == host \in [Conns -> Sockets] /\ app \in Clients
DevSide  == /\ dev \in Devs /\ ps \in Psocks
            /\ handled \in Seq(ALine \cup {Junk}) /\ answered \in Seq(Nat)

(* The lines l were handled, those of q are kept, and what is to come has a number of
   at least r. *)
Behind(l, q, r) ==
  /\ InOrder(l) /\ InOrder(q)
  /\ \A i \in 1 .. Len(l), j \in 1 .. Len(q) : l[i] # Junk => l[i].n < q[j].n
  /\ \A i \in 1 .. Len(l) : l[i] # Junk => l[i].n < r
  /\ \A j \in 1 .. Len(q) : q[j].n < r

(* What is kept when a connection ends stays there until the application is told of
   the next one. *)
Streams ==
  /\ InOrder(handled)
  /\ dev.state = "SYN_RCVD" => handled = <<>>
  /\ \E r \in Nat : Behind(<<>>, ps.rest, r)
  /\ dev.state \notin {"CLOSED", "SYN_RCVD"} => Behind(handled, ps.rest, dev.rcv)

IInv == NetTypes /\ HostSide /\ DevSide /\ Streams

-----------------------------------------------------------------------------
(* Ways and lines. *)
LEMMA PutKeepsSeq ==
  ASSUME NEW S, NEW way \in Seq(S), NEW s \in S
  PROVE  Put(way, s) \in Seq(S)
BY DEF Put

LEMMA TailKeepsSeq ==
  ASSUME NEW S, NEW way \in Seq(S), way # <<>>
  PROVE  Tail(way) \in Seq(S) /\ Head(way) \in S
OBVIOUS

LEMMA LinesDiffer == Junk \notin ALine /\ FinMark \notin ALine
BY DEF Junk, FinMark, ALine

(* What Transmit and Resend send of a socket's lines. *)
LEMMA LinesAreNumbered ==
  ASSUME NEW h \in Sockets, NEW a \in Nat, a >= 1, NEW b \in Nat, b <= Len(h.unacked)
  PROVE  LET q == SubSeq(h.unacked, a, b)
         IN  /\ Lines(q) \in Seq(ALine)
             /\ \A i \in 1 .. Len(Lines(q)) : Lines(q)[i].n = (h.una + a - 1) + i - 1
<1> DEFINE q == SubSeq(h.unacked, a, b)
           from == h.una + a - 1
<1>1. /\ h.unacked \in Seq(Units) /\ h.una \in Nat
      /\ \A i \in 1 .. Len(h.unacked) :
           IF h.unacked[i] = FinMark THEN i = Len(h.unacked) ELSE h.unacked[i].n = h.una + i - 1
  BY DEF Sockets, SocketTypes, Numbered
<1>2. /\ q \in Seq(Units) /\ Len(q) = IF a <= b THEN b - a + 1 ELSE 0
      /\ \A i \in 1 .. b - a + 1 : q[i] = h.unacked[a + i - 1]
  BY <1>1, SubSeqProperties, ElementOfSeq
<1>3. /\ Len(q) \in Nat
      /\ \A i \in 1 .. Len(q) : /\ a + i - 1 \in 1 .. Len(h.unacked) /\ q[i] = h.unacked[a + i - 1]
                               /\ h.una + (a + i - 1) - 1 = from + i - 1
  BY <1>1, <1>2
<1>4. \A i \in 1 .. Len(q) : q[i] # FinMark => q[i] \in ALine /\ q[i].n = from + i - 1
  <2> SUFFICES ASSUME NEW i \in 1 .. Len(q), q[i] # FinMark
               PROVE  q[i] \in ALine /\ q[i].n = from + i - 1
    OBVIOUS
  <2>1. q[i] \in Units BY <1>2, ElementOfSeq
  <2>2. h.unacked[a + i - 1].n = h.una + (a + i - 1) - 1 BY <1>1, <1>3
  <2> QED BY <1>3, <2>1, <2>2 DEF Units
<1>5. \A i \in 1 .. Len(q) : q[i] = FinMark => i = Len(q)
  <2> SUFFICES ASSUME NEW i \in 1 .. Len(q), q[i] = FinMark PROVE i = Len(q)
    OBVIOUS
  <2>1. a + i - 1 = Len(h.unacked) BY <1>1, <1>3
  <2>2. Len(q) = b - a + 1 /\ i \in Nat /\ i <= Len(q) BY <1>2
  <2>3. Len(h.unacked) \in Nat BY <1>1
  <2> QED BY <2>1, <2>2, <2>3
<1>6. \A i \in 1 .. Len(q) : q[i].kind = "fin" <=> q[i] = FinMark
  <2>1. \A u \in Units : u.kind = "fin" <=> u = FinMark BY DEF Units, ALine, FinMark
  <2> QED BY <1>2, <2>1, ElementOfSeq
<1>7. DOMAIN q = 1 .. Len(q) BY <1>2
<1> HIDE DEF q, from
<1>8. CASE HasFin(q)
  <2>1. Len(q) > 0 /\ Len(q) - 1 \in Int BY <1>3, <1>7, <1>8 DEF HasFin
  <2>2. \A i \in 1 .. Len(q) - 1 : q[i] \in ALine /\ q[i].n = from + i - 1
    <3> SUFFICES ASSUME NEW i \in 1 .. Len(q) - 1 PROVE q[i] \in ALine /\ q[i].n = from + i - 1
      OBVIOUS
    <3>1. i \in 1 .. Len(q) /\ i # Len(q) BY <1>3
    <3> QED BY <1>4, <1>5, <3>1
  <2>3. /\ SubSeq(q, 1, Len(q) - 1) \in Seq(ALine)
        /\ Len(SubSeq(q, 1, Len(q) - 1)) = IF 1 <= Len(q) - 1 THEN Len(q) - 1 - 1 + 1 ELSE 0
        /\ \A i \in 1 .. Len(q) - 1 - 1 + 1 : SubSeq(q, 1, Len(q) - 1)[i] = q[1 + i - 1]
    BY <2>1, <2>2, SubSeqProperties
  <2>4. Lines(q) = SubSeq(q, 1, Len(q) - 1) BY <1>8 DEF Lines, Front
  <2>5. /\ Len(Lines(q)) = Len(q) - 1
        /\ \A i \in 1 .. Len(q) - 1 : Lines(q)[i] = q[i]
    <3>1. PICK m \in Nat : m = Len(q) /\ m >= 1 BY <1>3, <2>1
    <3>2. \A i \in 1 .. m - 1 : i \in 1 .. m - 1 - 1 + 1 /\ 1 + i - 1 = i BY <3>1
    <3>3. m - 1 = IF 1 <= m - 1 THEN m - 1 - 1 + 1 ELSE 0 BY <3>1
    <3> QED BY <2>3, <2>4, <3>1, <3>2, <3>3
  <2> QED BY <2>2, <2>3, <2>4, <2>5 DEF q, from
<1>9. CASE ~HasFin(q)
  <2>1. Lines(q) = q BY <1>9 DEF Lines
  <2>2. \A i \in 1 .. Len(q) : q[i] \in ALine /\ q[i].n = from + i - 1
    BY <1>4, <1>6, <1>7, <1>9 DEF HasFin
  <2>3. SubSeq(q, 1, Len(q)) \in Seq(ALine) BY <1>3, <2>2, SubSeqProperties
  <2>4. SubSeq(q, 1, Len(q)) = q BY <1>2, SubSeqFull
  <2> QED BY <2>1, <2>2, <2>3, <2>4 DEF q, from
<1> QED BY <1>8, <1>9

LEMMA MereSegment ==
  ASSUME NEW c \in Conns, NEW kind \in Kinds, NEW seq \in Nat, NEW ack \in Nat
  PROVE  Segment(c, kind, seq, <<>>, FALSE, ack) \in Requests
BY DEF Requests, Segment

LEMMA LinesSegment ==
  ASSUME NEW c \in Conns, NEW h \in Sockets, NEW a \in Nat, a >= 1,
         NEW b \in Nat, b <= Len(h.unacked), NEW fin \in BOOLEAN
  PROVE  Segment(c, "seg", h.una + a - 1, Lines(SubSeq(h.unacked, a, b)), fin, h.rcv) \in Requests
<1> DEFINE q == SubSeq(h.unacked, a, b)
           s == Segment(c, "seg", h.una + a - 1, Lines(q), fin, h.rcv)
<1>1. /\ Lines(q) \in Seq(ALine)
      /\ \A i \in 1 .. Len(Lines(q)) : Lines(q)[i].n = (h.una + a - 1) + i - 1
  BY LinesAreNumbered
<1>2. h.una \in Nat /\ h.rcv \in Nat BY DEF Sockets, SocketTypes
<1>3. h.una + a - 1 \in Nat BY <1>2
<1> HIDE DEF q
<1>4. s.data = Lines(q) /\ s.seq = h.una + a - 1 BY DEF Segment
<1>5. s \in [conn : Conns, kind : Kinds, seq : Nat, data : Seq(ALine), fin : BOOLEAN, ack : Nat]
  BY <1>1, <1>2, <1>3 DEF Segment, Kinds
<1> HIDE DEF s
<1>6. s \in Requests BY <1>1, <1>4, <1>5 DEF Requests
<1> QED BY <1>6 DEF q, s

-----------------------------------------------------------------------------
(* The kernel's sockets. *)
LEMMA NothingToSend ==
  ASSUME NEW g \in SocketTypes, g.unacked = <<>>, g.flying = 0
  PROVE  g \in Sockets
<1>1. Len(g.unacked) = 0 OBVIOUS
<1>2. 1 .. 0 = {} OBVIOUS
<1>3. Numbered(g) BY <1>1, <1>2 DEF Numbered
<1> QED BY <1>1, <1>3 DEF Sockets

LEMMA NoSocketType ==
  ASSUME NEW state \in HostStates
  PROVE  [NoSocket EXCEPT !.state = state] \in Sockets
<1> DEFINE g == [NoSocket EXCEPT !.state = state]
<1>1. \A S : <<>> \in Seq(S) BY EmptySeq
<1>2. g.unacked = <<>> /\ g.flying = 0 BY DEF NoSocket
<1>3. g \in SocketTypes BY <1>1 DEF NoSocket, SocketTypes
<1> HIDE DEF g
<1>4. g \in Sockets BY <1>2, <1>3, NothingToSend
<1> QED BY <1>4 DEF g

LEMMA NoSocketIsSocket == NoSocket \in Sockets
<1>1. [NoSocket EXCEPT !.state = "none"] = NoSocket BY DEF NoSocket
<1> QED BY <1>1, NoSocketType DEF HostStates

LEMMA SameLines ==
  ASSUME NEW h \in Sockets, NEW g \in SocketTypes,
         g.unacked = h.unacked, g.una = h.una, g.state = h.state, g.flying <= Len(h.unacked)
  PROVE  g \in Sockets
BY DEF Sockets, Numbered

LEMMA SocketFields ==
  ASSUME NEW h \in Sockets
  PROVE  /\ h.state \in HostStates /\ h.una \in Nat /\ h.unacked \in Seq(Units) /\ h.flying \in Nat
         /\ h.rcv \in Nat /\ h.inbox \in Seq(Nat) /\ h.got \in Seq(Nat)
         /\ Len(h.unacked) \in Nat /\ h.flying <= Len(h.unacked)
BY DEF Sockets, SocketTypes

LEMMA AfterAckType ==
  ASSUME NEW h \in Sockets, NEW s \in Replies
  PROVE  AfterAck(h, s) \in Sockets
<1> DEFINE n == s.ack - h.una
<1>1. CASE ~(n > 0 /\ n <= h.flying) BY <1>1 DEF AfterAck
<1>2. CASE n > 0 /\ n <= h.flying
  <2> DEFINE q == SubSeq(h.unacked, n + 1, Len(h.unacked))
             g == [h EXCEPT !.una = s.ack, !.flying = @ - n, !.unacked = q]
  <2>1. AfterAck(h, s) = g BY <1>2 DEF AfterAck
  <2>2. s.ack \in Nat /\ n \in Nat /\ s.ack = h.una + n BY <1>2, SocketFields DEF Replies
  <2>3. n <= Len(h.unacked) /\ h.flying - n \in Nat BY <1>2, <2>2, SocketFields
  <2>4. /\ q \in Seq(Units)
        /\ Len(q) = IF n + 1 <= Len(h.unacked) THEN Len(h.unacked) - (n + 1) + 1 ELSE 0
        /\ \A i \in 1 .. Len(h.unacked) - (n + 1) + 1 : q[i] = h.unacked[n + 1 + i - 1]
    BY <2>2, SocketFields, SubSeqProperties, ElementOfSeq
  <2> HIDE DEF q, n
  <2>5. /\ Len(q) = Len(h.unacked) - n
        /\ \A i \in 1 .. Len(q) : q[i] = h.unacked[n + i] /\ n + i \in 1 .. Len(h.unacked)
    BY <2>2, <2>3, <2>4, SocketFields
  <2>6. g \in SocketTypes /\ g.una = s.ack /\ g.unacked = q /\ g.flying = h.flying - n /\ g.state = h.state
    BY <2>2, <2>3, <2>4 DEF Sockets, SocketTypes
  <2> HIDE DEF g
  <2>7. Numbered(g)
    <3> SUFFICES ASSUME NEW i \in 1 .. Len(q)
                 PROVE  IF q[i] = FinMark THEN i = Len(q) /\ h.state = "fin" ELSE q[i].n = s.ack + i - 1
      BY <2>6 DEF Numbered
    <3>1. IF h.unacked[n + i] = FinMark THEN n + i = Len(h.unacked) /\ h.state = "fin"
                                        ELSE h.unacked[n + i].n = h.una + (n + i) - 1
      BY <2>5 DEF Sockets, Numbered
    <3>2. n + i = Len(h.unacked) => i = Len(q) BY <2>2, <2>5, SocketFields
    <3>3. h.una + (n + i) - 1 = s.ack + i - 1 BY <2>2, SocketFields
    <3> QED BY <2>5, <3>1, <3>2, <3>3
  <2>8. q # <<>> => h.state \in {"est", "fin"}
    <3>1. h.unacked # <<>> BY <2>2, <2>3, SocketFields, <1>2 DEF n
    <3> QED BY <3>1 DEF Sockets
  <2>9. g.flying <= Len(g.unacked) BY <2>2, <2>3, <2>5, <2>6, SocketFields
  <2> QED BY <2>1, <2>6, <2>7, <2>8, <2>9 DEF Sockets
<1> QED BY <1>1, <1>2

LEMMA AfterDataType ==
  ASSUME NEW h \in Sockets, NEW s \in Replies
  PROVE  AfterData(h, s) \in Sockets
<1>1. s.data \in Seq(Nat) /\ s.fin \in BOOLEAN BY DEF Replies
<1>2. Len(s.data) \in Nat BY <1>1
<1>3. AfterData(h, s) \in SocketTypes
  <2>1. h.rcv + Len(s.data) + (IF s.fin THEN 1 ELSE 0) \in Nat BY <1>2, SocketFields
  <2>2. h.inbox \o s.data \in Seq(Nat) /\ h.got \o s.data \in Seq(Nat) /\ (h.eof \/ s.fin) \in BOOLEAN
    BY <1>1, SocketFields
  <2>3. h \in SocketTypes BY DEF Sockets
  <2> QED BY <2>1, <2>2, <2>3 DEF AfterData, SocketTypes
<1>4. LET g == AfterData(h, s)
      IN  g.unacked = h.unacked /\ g.una = h.una /\ g.state = h.state /\ g.flying = h.flying
  BY DEF AfterData, Sockets, SocketTypes
<1> QED BY <1>3, <1>4, SameLines, SocketFields

LEMMA AfterCloseType == ASSUME NEW h \in Sockets PROVE AfterClose(h) \in Sockets
<1>1. CASE h.state = "fin" /\ h.unacked = <<>> /\ h.eof
  <2> DEFINE g == [h EXCEPT !.state = "wait"]
  <2>1. AfterClose(h) = g BY <1>1 DEF AfterClose
  <2>2. g \in SocketTypes /\ g.unacked = <<>> /\ g.flying = h.flying
    BY <1>1 DEF Sockets, SocketTypes, HostStates
  <2>3. h.flying = 0
    <3>1. Len(h.unacked) = 0 BY <1>1
    <3> QED BY <3>1, SocketFields
  <2> HIDE DEF g
  <2> QED BY <2>1, <2>2, <2>3, NothingToSend
<1>2. CASE ~(h.state = "fin" /\ h.unacked = <<>> /\ h.eof)
  BY <1>2 DEF AfterClose
<1> QED BY <1>1, <1>2

(* print() and close() add to what is to be sent. *)
LEMMA AppendType ==
  ASSUME NEW h \in Sockets, h.state = "est", NEW lines \in Seq(ALine),
         \A i \in 1 .. Len(lines) : lines[i].n = h.una + Len(h.unacked) + i - 1
  PROVE  [h EXCEPT !.unacked = @ \o lines] \in Sockets
<1> DEFINE q == h.unacked \o lines
           g == [h EXCEPT !.unacked = q]
<1>1. lines \in Seq(Units) BY DEF Units
<1>2. /\ q \in Seq(Units) /\ Len(q) = Len(h.unacked) + Len(lines)
      /\ \A i \in 1 .. Len(h.unacked) + Len(lines) :
           q[i] = IF i <= Len(h.unacked) THEN h.unacked[i] ELSE lines[i - Len(h.unacked)]
  BY <1>1, ConcatProperties, SocketFields
<1> HIDE DEF q
<1>3. /\ g \in SocketTypes /\ g.una = h.una /\ g.unacked = q /\ g.flying = h.flying /\ g.state = "est"
  BY <1>2 DEF Sockets, SocketTypes
<1> HIDE DEF g
<1>4. Numbered(g)
  <2> SUFFICES ASSUME NEW i \in 1 .. Len(q) PROVE q[i] # FinMark /\ q[i].n = h.una + i - 1
    BY <1>3 DEF Numbered
  <2>1. CASE i <= Len(h.unacked)
    <3>1. i \in 1 .. Len(h.unacked) BY <2>1, SocketFields
    <3>2. h.unacked[i] # FinMark /\ h.unacked[i].n = h.una + i - 1
      BY <3>1 DEF Sockets, Numbered
    <3>3. i \in 1 .. Len(h.unacked) + Len(lines) BY <1>2
    <3> QED BY <1>2, <2>1, <3>2, <3>3
  <2>2. CASE ~(i <= Len(h.unacked))
    <3>1. PICK k \in 1 .. Len(lines) : k = i - Len(h.unacked) BY <1>2, <2>2, SocketFields
    <3>2. lines[k].n = h.una + Len(h.unacked) + k - 1 /\ lines[k] \in ALine BY ElementOfSeq
    <3>3. i \in 1 .. Len(h.unacked) + Len(lines) BY <1>2
    <3>4. q[i] = lines[k] BY <1>2, <2>2, <3>1, <3>3
    <3>5. h.una + Len(h.unacked) + k - 1 = h.una + i - 1 BY <3>1, SocketFields
    <3> QED BY <3>2, <3>4, <3>5, LinesDiffer
  <2> QED BY <2>1, <2>2
<1>5. g.flying <= Len(g.unacked) BY <1>2, <1>3, SocketFields
<1> QED BY <1>3, <1>4, <1>5 DEF Sockets, g, q

LEMMA FinType ==
  ASSUME NEW h \in Sockets, h.state = "est"
  PROVE  [h EXCEPT !.state = "fin", !.unacked = Append(@, FinMark)] \in Sockets
<1> DEFINE q == Append(h.unacked, FinMark)
           g == [h EXCEPT !.state = "fin", !.unacked = q]
<1>1. FinMark \in Units BY DEF Units
<1>2. /\ q \in Seq(Units) /\ Len(q) = Len(h.unacked) + 1
      /\ \A i \in 1 .. Len(h.unacked) : q[i] = h.unacked[i]
      /\ q[Len(h.unacked) + 1] = FinMark
  BY <1>1, AppendProperties, SocketFields
<1> HIDE DEF q
<1>3. /\ g \in SocketTypes /\ g.una = h.una /\ g.unacked = q /\ g.flying = h.flying /\ g.state = "fin"
  BY <1>2 DEF Sockets, SocketTypes, HostStates
<1> HIDE DEF g
<1>4. Numbered(g)
  <2> SUFFICES ASSUME NEW i \in 1 .. Len(q)
               PROVE  IF q[i] = FinMark THEN i = Len(q) ELSE q[i].n = h.una + i - 1
    BY <1>3 DEF Numbered
  <2>1. i \in 1 .. Len(h.unacked) \/ i = Len(q) BY <1>2, SocketFields
  <2>2. CASE i \in 1 .. Len(h.unacked) BY <1>2, <2>2 DEF Sockets, Numbered
  <2>3. CASE i = Len(q) BY <1>2, <2>3
  <2> QED BY <2>1, <2>2, <2>3
<1>5. g.flying <= Len(g.unacked) BY <1>2, <1>3, SocketFields
<1> QED BY <1>3, <1>4, <1>5 DEF Sockets, g, q

-----------------------------------------------------------------------------
(* Every step of the client's side keeps the types of what is on its way. *)
LEMMA SetHostKeeps ==
  ASSUME HostSide, NEW c \in Conns, NEW h \in Sockets, SetHost(c, h)
  PROVE  host' \in [Conns -> Sockets]
BY DEF HostSide, SetHost

LEMMA SendKeeps ==
  ASSUME NetTypes, NEW s \in Requests, Send(s)
  PROVE  toDev' \in Seq(Requests)
BY PutKeepsSeq DEF NetTypes, Send

LEMMA KernelKeeps ==
  ASSUME NetTypes, HostSide, NEW c \in Conns,
         Transmit(c) \/ Resend(c) \/ HostAck(c) \/ HostForgets(c)
  PROVE  NetTypes' /\ HostSide'
<1> DEFINE h == host[c]
<1>1. h \in Sockets BY DEF HostSide
<1> HIDE DEF h
<1>2. [h EXCEPT !.due = FALSE] \in Sockets
  <2>1. [h EXCEPT !.due = FALSE] \in SocketTypes BY <1>1 DEF Sockets, SocketTypes
  <2> QED BY <1>1, <2>1, SameLines, SocketFields DEF Sockets, SocketTypes
<1>3. [h EXCEPT !.flying = Len(h.unacked), !.due = FALSE] \in Sockets
  <2> DEFINE g == [h EXCEPT !.flying = Len(h.unacked), !.due = FALSE]
  <2>1. g \in SocketTypes BY <1>1, SocketFields DEF Sockets, SocketTypes
  <2>2. g.unacked = h.unacked /\ g.una = h.una /\ g.state = h.state /\ g.flying = Len(h.unacked)
    BY <1>1 DEF Sockets, SocketTypes
  <2>3. g.flying <= Len(h.unacked) BY <1>1, <2>2, SocketFields
  <2> HIDE DEF g
  <2>4. g \in Sockets BY <1>1, <2>1, <2>2, <2>3, SameLines
  <2> QED BY <2>4 DEF g
<1>4. \A q : HasFin(q) \in BOOLEAN BY DEF HasFin
<1>5. CASE Transmit(c)
  <2>1. h.una + (h.flying + 1) - 1 = h.una + h.flying /\ h.flying + 1 \in Nat /\ h.flying + 1 >= 1
    BY <1>1, SocketFields
  <2> DEFINE new == SubSeq(h.unacked, h.flying + 1, Len(h.unacked))
  <2>2. Segment(c, "seg", h.una + (h.flying + 1) - 1, Lines(new), HasFin(new), h.rcv) \in Requests
    <3>1. Len(h.unacked) \in Nat /\ Len(h.unacked) <= Len(h.unacked) BY <1>1, SocketFields
    <3>2. HasFin(new) \in BOOLEAN BY <1>4
    <3> QED BY <1>1, <2>1, <3>1, <3>2, LinesSegment
  <2>3. /\ Send(Segment(c, "seg", h.una + h.flying, Lines(new), HasFin(new), h.rcv))
        /\ SetHost(c, [h EXCEPT !.flying = Len(h.unacked), !.due = FALSE])
        /\ UNCHANGED <<toHost, app>>
    BY <1>5 DEF Transmit, h
  <2> HIDE DEF new
  <2> QED BY <1>3, <2>1, <2>2, <2>3, SetHostKeeps, SendKeeps DEF NetTypes, HostSide
<1>6. CASE Resend(c)
  <2> DEFINE q == SubSeq(h.unacked, 1, h.flying)
             s == IF h.state = "syn" THEN Say(h, c, "syn", <<>>, FALSE)
                                     ELSE Say(h, c, "seg", Lines(q), HasFin(q))
  <2>1. s \in Requests
    <3>1. Say(h, c, "syn", <<>>, FALSE) \in Requests
      BY <1>1, MereSegment, SocketFields DEF Say, Kinds
    <3>2. Segment(c, "seg", h.una + 1 - 1, Lines(q), HasFin(q), h.rcv) \in Requests
      BY <1>1, <1>4, LinesSegment, SocketFields
    <3>3. h.una + 1 - 1 = h.una BY <1>1, SocketFields
    <3> QED BY <3>1, <3>2, <3>3 DEF Say
  <2>2. Send(s) /\ SetHost(c, [h EXCEPT !.due = FALSE]) /\ UNCHANGED <<toHost, app>>
    BY <1>6 DEF Resend, h
  <2> HIDE DEF s
  <2> QED BY <1>2, <2>1, <2>2, SetHostKeeps, SendKeeps DEF NetTypes, HostSide
<1>7. CASE HostAck(c)
  <2>1. Segment(c, "seg", h.una + h.flying, <<>>, FALSE, h.rcv) \in Requests
    <3>1. h.una + h.flying \in Nat /\ h.rcv \in Nat BY <1>1, SocketFields
    <3> QED BY <3>1, MereSegment DEF Kinds
  <2>2. /\ Send(Segment(c, "seg", h.una + h.flying, <<>>, FALSE, h.rcv))
        /\ SetHost(c, [h EXCEPT !.due = FALSE]) /\ UNCHANGED <<toHost, app>>
    BY <1>7 DEF HostAck, h
  <2> QED BY <1>2, <2>1, <2>2, SetHostKeeps, SendKeeps DEF NetTypes, HostSide
<1>8. CASE HostForgets(c)
  BY <1>8, NoSocketIsSocket, SetHostKeeps DEF HostForgets, NetTypes, HostSide
<1> QED BY <1>5, <1>6, <1>7, <1>8

LEMMA ReceiveKeeps ==
  ASSUME NetTypes, HostSide, HostReceive
  PROVE  NetTypes' /\ HostSide'
<1> DEFINE s == Head(toHost)
           c == s.conn
           h == host[c]
<1>1. s \in Replies /\ toHost' \in Seq(Replies) /\ app' = app
  BY TailKeepsSeq DEF HostReceive, NetTypes
<1>2. c \in Conns /\ s.kind \in {"synack", "seg", "rst"} /\ s.ack \in Nat
  BY <1>1 DEF Replies, Kinds
<1>3. h \in Sockets BY <1>2 DEF HostSide
<1> HIDE DEF s, c, h
<1>4. \/ UNCHANGED <<host, toDev>>
      \/ /\ \E g \in Sockets : SetHost(c, g)
         /\ toDev' = toDev \/ (\E r \in Requests : Send(r))
  <2>1. CASE s.kind = "rst"
    <3>1. /\ SetHost(c, IF h.state \in {"syn", "est"} THEN [NoSocket EXCEPT !.state = "reset"]
                        ELSE NoSocket)
          /\ UNCHANGED toDev
      BY <2>1 DEF HostReceive, s, c, h
    <3> QED BY <3>1, NoSocketType, NoSocketIsSocket DEF HostStates
  <2>2. CASE s.kind # "rst" /\ Unwanted(h, s)
    <3>1. /\ Send(Segment(c, "rst", s.ack, <<>>, FALSE, 0))
          /\ SetHost(c, [NoSocket EXCEPT !.state = IF h.state = "reset" THEN "reset" ELSE "none"])
      BY <2>2 DEF HostReceive, Unwanted, s, c, h
    <3>2. Segment(c, "rst", s.ack, <<>>, FALSE, 0) \in Requests BY <1>2, MereSegment DEF Kinds
    <3> QED BY <3>1, <3>2, NoSocketType DEF HostStates
  <2>3. CASE s.kind = "synack" /\ ~Unwanted(h, s)
    <3> DEFINE g == [h EXCEPT !.state = "est", !.una = 1, !.rcv = 1, !.due = TRUE]
    <3>1. \/ h.state = "syn" /\ SetHost(c, g) /\ UNCHANGED toDev
          \/ SetHost(c, [h EXCEPT !.due = TRUE]) /\ UNCHANGED toDev
      BY <2>3 DEF HostReceive, s, c, h
    <3>2. h.state = "syn" => g \in Sockets
      <4>1. h.state = "syn" => h.unacked = <<>> /\ h.flying = 0
        <5>1. h.state = "syn" => h.unacked = <<>> BY <1>3 DEF Sockets
        <5>2. Len(<<>>) = 0 OBVIOUS
        <5> QED BY <1>3, <5>1, <5>2, SocketFields
      <4>2. g \in SocketTypes /\ g.unacked = h.unacked /\ g.flying = h.flying
        BY <1>3 DEF Sockets, SocketTypes, HostStates
      <4> HIDE DEF g
      <4> QED BY <4>1, <4>2, NothingToSend
    <3>3. [h EXCEPT !.due = TRUE] \in Sockets
      <4>1. [h EXCEPT !.due = TRUE] \in SocketTypes BY <1>3 DEF Sockets, SocketTypes
      <4> QED BY <1>3, <4>1, SameLines, SocketFields DEF Sockets, SocketTypes
    <3> HIDE DEF g
    <3> QED BY <3>1, <3>2, <3>3
  <2>4. CASE s.kind = "seg" /\ ~Unwanted(h, s)
    <3>1. \/ UNCHANGED <<host, toDev>>
          \/ SetHost(c, AfterClose(AfterData(AfterAck(h, s), s))) /\ UNCHANGED toDev
      BY <2>4 DEF HostReceive, s, c, h
    <3>2. AfterClose(AfterData(AfterAck(h, s), s)) \in Sockets
      BY <1>1, <1>3, AfterAckType, AfterDataType, AfterCloseType
    <3> QED BY <3>1, <3>2
  <2> QED BY <1>2, <2>1, <2>2, <2>3, <2>4
<1> QED BY <1>1, <1>2, <1>4, SetHostKeeps, SendKeeps DEF NetTypes, HostSide

LEMMA CloseKeeps ==
  ASSUME NetTypes, HostSide, app.conn # 0, Close
  PROVE  NetTypes' /\ HostSide'
<1> DEFINE c == app.conn
           h == host[c]
<1>1. c \in Conns BY DEF HostSide, Clients
<1>2. h \in Sockets BY <1>1 DEF HostSide
<1>3. app' \in Clients BY DEF Close, HostSide, Clients, Idle
<1> HIDE DEF c, h
<1>4. /\ IF h.state = "est" /\ h.inbox = <<>>
         THEN SetHost(c, [h EXCEPT !.state = "fin", !.unacked = Append(@, FinMark)])
         ELSE SetHost(c, NoSocket)
      /\ \/ Send(Segment(c, "rst", h.una + h.flying, <<>>, FALSE, h.rcv))
         \/ UNCHANGED toDev
      /\ UNCHANGED toHost
  BY DEF Close, c, h
<1>5. host' \in [Conns -> Sockets]
  BY <1>1, <1>2, <1>4, SetHostKeeps, FinType, NoSocketIsSocket
<1>6. Segment(c, "rst", h.una + h.flying, <<>>, FALSE, h.rcv) \in Requests
  <2>1. h.una + h.flying \in Nat /\ h.rcv \in Nat BY <1>2, SocketFields
  <2> QED BY <1>1, <2>1, MereSegment DEF Kinds
<1> QED BY <1>3, <1>4, <1>5, <1>6, SendKeeps DEF NetTypes, HostSide

LEMMA TellKeeps ==
  ASSUME NetTypes, HostSide, NEW lines \in Seq(ALine), lines # <<>>,
         \A i \in 1 .. Len(lines) : lines[i].n = NextLine + i - 1,
         Tell(lines)
  PROVE  NetTypes' /\ HostSide'
<1>1. /\ app.conn \in Conns /\ Sock = host[app.conn] /\ Sock \in Sockets /\ Sock.state = "est"
  BY DEF Tell, HostSide, Clients, Sock
<1>2. NextLine \in Nat BY <1>1, SocketFields DEF NextLine
<1>3. [Sock EXCEPT !.unacked = @ \o lines] \in Sockets
  BY <1>1, AppendType DEF NextLine
<1>4. host' \in [Conns -> Sockets] BY <1>1, <1>3, SetHostKeeps DEF Tell
<1>5. app' \in Clients BY <1>2 DEF Tell, HostSide, Clients
<1> QED BY <1>4, <1>5 DEF Tell, NetTypes, HostSide

LEMMA ClientKeeps ==
  ASSUME NetTypes, HostSide,
         \/ Lose \/ HostCrash \/ Open \/ TelnetCmd \/ PlayFrame \/ Quit \/ WaitFor
         \/ CloseConnection \/ Reconnect
  PROVE  NetTypes' /\ HostSide'
<1>1. CASE Lose
  BY <1>1, TailKeepsSeq DEF Lose, NetTypes, HostSide
<1>2. CASE HostCrash
  BY <1>2, NoSocketIsSocket DEF HostCrash, NetTypes, HostSide, Clients, Idle
<1>3. CASE Open
  <2> DEFINE c == app.opened + 1
  <2>1. c \in Conns /\ c \in Nat BY <1>3, TcpAssumption DEF Open
  <2>2. Say(NoSocket, c, "syn", <<>>, FALSE) \in Requests
    BY <2>1, MereSegment, SocketFields, NoSocketIsSocket DEF Say, Kinds
  <2>3. [NoSocket EXCEPT !.state = "syn"] \in Sockets BY NoSocketType DEF HostStates
  <2>4. /\ app' = [Idle EXCEPT !.conn = c, !.opened = c]
        /\ SetHost(c, [NoSocket EXCEPT !.state = "syn"])
        /\ Send(Say(NoSocket, c, "syn", <<>>, FALSE))
        /\ UNCHANGED toHost
    BY <1>3 DEF Open
  <2>5. app' \in Clients BY <2>1, <2>4 DEF Clients, Idle
  <2> QED BY <2>1, <2>2, <2>3, <2>4, <2>5, SetHostKeeps, SendKeeps DEF NetTypes, HostSide
<1>4. CASE TelnetCmd \/ PlayFrame \/ Quit
  <2>1. PICK lines : /\ Tell(lines)
                     /\ \/ lines = <<[n |-> NextLine, kind |-> "command"]>>
                        \/ lines = <<[n |-> NextLine, kind |-> "picture"],
                                     [n |-> NextLine + 1, kind |-> "empty"]>>
                        \/ lines = <<[n |-> NextLine, kind |-> "quit"]>>
    BY <1>4 DEF TelnetCmd, PlayFrame, Quit
  <2>2. NextLine \in Nat
    <3>1. Sock \in Sockets BY <2>1 DEF Tell, HostSide, Clients, Sock
    <3> QED BY <3>1, SocketFields DEF NextLine
  <2>3. lines \in Seq(ALine) /\ lines # <<>>
    <3>1. \A k \in {"command", "picture", "empty", "quit"} :
            [n |-> NextLine, kind |-> k] \in ALine /\ [n |-> NextLine + 1, kind |-> k] \in ALine
      BY <2>2 DEF ALine
    <3>2. \A u \in ALine, v \in ALine :
            <<u>> \in Seq(ALine) /\ <<u, v>> \in Seq(ALine) /\ <<u>> # <<>> /\ <<u, v>> # <<>>
      OBVIOUS
    <3>3. CASE lines = <<[n |-> NextLine, kind |-> "command"]>>
      <4>1. [n |-> NextLine, kind |-> "command"] \in ALine BY <3>1
      <4> QED BY <3>2, <3>3, <4>1
    <3>4. CASE lines = <<[n |-> NextLine, kind |-> "picture"], [n |-> NextLine + 1, kind |-> "empty"]>>
      <4>1. [n |-> NextLine, kind |-> "picture"] \in ALine /\ [n |-> NextLine + 1, kind |-> "empty"] \in ALine
        BY <3>1
      <4> QED BY <3>2, <3>4, <4>1
    <3>5. CASE lines = <<[n |-> NextLine, kind |-> "quit"]>>
      <4>1. [n |-> NextLine, kind |-> "quit"] \in ALine BY <3>1
      <4> QED BY <3>2, <3>5, <4>1
    <3> QED BY <2>1, <3>3, <3>4, <3>5
  <2>4. \A i \in 1 .. Len(lines) : lines[i].n = NextLine + i - 1
    BY <2>1, <2>2
  <2> QED BY <2>1, <2>3, <2>4, TellKeeps
<1>5. CASE WaitFor
  <2>1. app.conn \in Conns /\ Sock = host[app.conn] /\ Sock \in Sockets
    BY <1>5 DEF WaitFor, HostSide, Clients, Sock
  <2>2. [Sock EXCEPT !.inbox = Tail(@)] \in Sockets
    <3>1. Tail(Sock.inbox) \in Seq(Nat) BY <1>5, <2>1, SocketFields, TailKeepsSeq DEF WaitFor
    <3>2. [Sock EXCEPT !.inbox = Tail(@)] \in SocketTypes
      BY <2>1, <3>1 DEF Sockets, SocketTypes
    <3> QED BY <2>1, <3>2, SameLines, SocketFields DEF Sockets, SocketTypes
  <2>3. host' \in [Conns -> Sockets] BY <1>5, <2>1, <2>2, SetHostKeeps DEF WaitFor
  <2> QED BY <1>5, <2>3 DEF WaitFor, NetTypes, HostSide, Clients
<1>6. CASE CloseConnection \/ Reconnect
  <2>1. Close BY <1>6 DEF CloseConnection, Reconnect
  <2>2. app.conn # 0 BY <1>6 DEF CloseConnection, Reconnect, HostSide, Clients
  <2> QED BY <2>1, <2>2, CloseKeeps
<1> QED BY <1>1, <1>2, <1>3, <1>4, <1>5, <1>6

-----------------------------------------------------------------------------
(* What a call of the application may leave: it handles at most one line, the first of
   those it kept or of the new ones, or one of stale bytes in its place. *)
LineOr(x) == {<<>>, <<x>>, <<Junk>>}

LEMMA HandleLineType ==
  ASSUME NEW p \in Psocks, NEW line \in ALine \cup {Junk}
  PROVE  LET o == HandleLine(p, line)
         IN  /\ o.ps \in Psocks /\ o.ps.rest = p.rest
             /\ o.lines \in {<<>>, <<line>>} /\ o.lines \in Seq(ALine \cup {Junk})
             /\ o.says \in Seq(Nat)
<1>1. line.n \in Nat BY DEF ALine, Junk
<1>2. p.rest \in Seq(ALine) BY DEF Psocks
<1>3. CASE line.kind = "quit"
  BY <1>1, <1>2, <1>3 DEF HandleLine, Outcome, Psock, Psocks, PsockAt
<1>4. CASE line.kind # "quit"
  BY <1>1, <1>2, <1>4 DEF HandleLine, Outcome, Psock, Psocks, PsockAt
<1> QED BY <1>3, <1>4

LEMMA NothingSaid == <<>> \in Seq(ALine \cup {Junk}) /\ <<>> \in Seq(Nat)
BY EmptySeq

LEMMA ReadNewType ==
  ASSUME NEW p \in Psocks, NEW ev, NEW data \in Seq(ALine),
         "newdata" \in ev => data # <<>>, NEW o \in ReadNew(p, "newdata" \in ev, data)
  PROVE  /\ o.ps \in Psocks /\ o.lines \in Seq(ALine \cup {Junk}) /\ o.says \in Seq(Nat)
         /\ \/ o.lines = <<>> /\ o.ps.rest = p.rest
            \/ "newdata" \in ev /\ o.lines \in LineOr(Head(data)) /\ o.ps.rest = Tail(data)
<1>1. CASE "newdata" \in ev
  <2> DEFINE g == [p EXCEPT !.rest = Tail(data)]
             line == IF p.dirty THEN Junk ELSE Head(data)
  <2>1. Tail(data) \in Seq(ALine) /\ Head(data) \in ALine BY <1>1, TailKeepsSeq
  <2>2. g \in Psocks /\ g.rest = Tail(data) BY <2>1 DEF Psocks
  <2>3. line \in ALine \cup {Junk} /\ (line = Junk \/ line = Head(data)) BY <2>1
  <2>4. o = HandleLine(g, line) BY <1>1 DEF ReadNew
  <2> HIDE DEF g, line
  <2> QED BY <1>1, <2>2, <2>3, <2>4, HandleLineType DEF LineOr
<1>2. CASE ~("newdata" \in ev)
  <2>1. o = Outcome(p, FALSE, FALSE, <<>>, <<>>) BY <1>2 DEF ReadNew, Goes
  <2>2. o.ps = p /\ o.lines = <<>> /\ o.says = <<>> BY <2>1 DEF Outcome
  <2> QED BY <2>2, NothingSaid
<1> QED BY <1>1, <1>2

LEMMA ReadToType ==
  ASSUME NEW p \in Psocks, NEW ev, NEW data \in Seq(ALine),
         "newdata" \in ev => data # <<>>, NEW o \in ReadTo(p, "newdata" \in ev, data)
  PROVE  /\ o.ps \in Psocks /\ o.lines \in Seq(ALine \cup {Junk}) /\ o.says \in Seq(Nat)
         /\ \/ o.lines = <<>> /\ o.ps.rest \in {p.rest, <<>>}
            \/ p.rest # <<>> /\ o.lines \in LineOr(Head(p.rest)) /\ o.ps.rest = Tail(p.rest)
            \/ "newdata" \in ev /\ o.lines \in LineOr(Head(data)) /\ o.ps.rest = Tail(data)
<1>1. CASE p.rest = <<>>
  BY <1>1, ReadNewType DEF ReadTo
<1>2. CASE p.rest # <<>>
  <2> DEFINE after == [p EXCEPT !.rest = Tail(p.rest)]
             new == [p EXCEPT !.rest = <<>>, !.dirty = TRUE]
  <2>1. p.rest \in Seq(ALine) BY DEF Psocks
  <2>2. Tail(p.rest) \in Seq(ALine) /\ Head(p.rest) \in ALine BY <1>2, <2>1, TailKeepsSeq
  <2>3. after \in Psocks /\ after.rest = Tail(p.rest) BY <2>2 DEF Psocks
  <2>4. new \in Psocks /\ new.rest = <<>>
    <3>1. <<>> \in Seq(ALine) OBVIOUS
    <3> QED BY <3>1 DEF Psocks
  <2>5. \/ o = HandleLine(after, Head(p.rest)) \/ o = HandleLine(after, Junk)
        \/ o \in ReadNew(new, "newdata" \in ev, data)
    BY <1>2 DEF ReadTo
  <2> HIDE DEF after, new
  <2>6. CASE o = HandleLine(after, Head(p.rest)) \/ o = HandleLine(after, Junk)
    BY <1>2, <2>2, <2>3, <2>6, HandleLineType DEF LineOr
  <2>7. CASE o \in ReadNew(new, "newdata" \in ev, data)
    BY <2>4, <2>7, ReadNewType
  <2> QED BY <2>5, <2>6, <2>7
<1> QED BY <1>1, <1>2

LEMMA CallOutcome ==
  ASSUME NEW p \in Psocks, NEW ev, NEW data \in Seq(ALine),
         "newdata" \in ev => data # <<>>, NEW o \in AppCall(p, ev, data)
  PROVE  LET q == IF "connected" \in ev THEN <<>> ELSE p.rest
         IN  /\ o.ps \in Psocks /\ o.lines \in Seq(ALine \cup {Junk}) /\ o.says \in Seq(Nat)
             /\ \/ o.lines = <<>> /\ o.ps.rest \in {q, <<>>}
                \/ q # <<>> /\ o.lines \in LineOr(Head(q)) /\ o.ps.rest = Tail(q)
                \/ "newdata" \in ev /\ o.lines \in LineOr(Head(data)) /\ o.ps.rest = Tail(data)
<1> DEFINE g == IF "connected" \in ev THEN Fresh ELSE p
<1>1. g \in Psocks /\ g.rest = IF "connected" \in ev THEN <<>> ELSE p.rest
  <2>1. <<>> \in Seq(ALine) OBVIOUS
  <2>2. Fresh \in Psocks /\ Fresh.rest = <<>> BY <2>1 DEF Fresh, Psock, Psocks, PsockAt
  <2> QED BY <2>2
<1>2. o \in IF g.at = "read" THEN ReadTo(g, "newdata" \in ev, data) ELSE GoesOn(g, ev, data)
  BY DEF AppCall
<1> HIDE DEF g
<1>4. CASE g.at = "read"
  <2>1. o \in ReadTo(g, "newdata" \in ev, data) BY <1>2, <1>4
  <2> QED BY <1>1, <2>1, ReadToType
<1>5. CASE g.at # "read"
  <2> DEFINE f == [g EXCEPT !.at = "read"]
  <2>1. f \in Psocks /\ f.rest = g.rest BY <1>1 DEF Psocks, PsockAt
  <2> HIDE DEF f
  <2>2. CASE ~("acked" \in ev)
    <3>1. o = Goes(g, "rexmit" \in ev, FALSE) BY <1>2, <1>5, <2>2 DEF GoesOn
    <3>2. o.ps = g /\ o.lines = <<>> /\ o.says = <<>> BY <3>1 DEF Goes, Outcome
    <3> QED BY <1>1, <3>2, NothingSaid
  <2>3. CASE "acked" \in ev /\ g.at = "sendlast"
    <3>1. o = Goes(f, FALSE, TRUE) BY <1>2, <1>5, <2>3 DEF GoesOn, f
    <3>2. o.ps = f /\ o.lines = <<>> /\ o.says = <<>> BY <3>1 DEF Goes, Outcome
    <3> QED BY <1>1, <2>1, <3>2, NothingSaid
  <2>4. CASE "acked" \in ev /\ g.at # "sendlast"
    <3>1. o \in ReadTo(f, "newdata" \in ev, data) BY <1>2, <1>5, <2>4 DEF GoesOn, f
    <3>2. /\ o.ps \in Psocks /\ o.lines \in Seq(ALine \cup {Junk}) /\ o.says \in Seq(Nat)
          /\ \/ o.lines = <<>> /\ o.ps.rest \in {f.rest, <<>>}
             \/ f.rest # <<>> /\ o.lines \in LineOr(Head(f.rest)) /\ o.ps.rest = Tail(f.rest)
             \/ "newdata" \in ev /\ o.lines \in LineOr(Head(data)) /\ o.ps.rest = Tail(data)
      BY <2>1, <3>1, ReadToType
    <3> QED BY <1>1, <2>1, <3>2
  <2> QED BY <2>2, <2>3, <2>4
<1> QED BY <1>4, <1>5

-----------------------------------------------------------------------------
(* How a call goes on with the lines that were handled and kept. *)
Heard == Seq(ALine \cup {Junk})

LEMMA OrderOf ==
  \A l \in Heard : InOrder(l) <=> \A i, j \in 1 .. Len(l) :
                        i < j /\ l[i] # Junk /\ l[j] # Junk => l[i].n < l[j].n
BY DEF InOrder, Heard

LEMMA BehindWeaker ==
  ASSUME NEW l \in Heard, NEW q \in Seq(ALine), NEW r \in Nat, Behind(l, q, r),
         NEW k \in Nat, r <= k
  PROVE  /\ Behind(<<>>, q, k) /\ Behind(l, <<>>, k) /\ Behind(l, q, k)
<1>1. InOrder(<<>>) BY DEF InOrder
<1>2. Len(<<>>) = 0 /\ 1 .. 0 = {} OBVIOUS
<1>3. \A i \in 1 .. Len(l) : l[i] # Junk => l[i].n \in Nat
  BY ElementOfSeq DEF Heard, ALine
<1>4. \A j \in 1 .. Len(q) : q[j].n \in Nat
  <2>1. \A j \in 1 .. Len(q) : q[j] \in ALine BY ElementOfSeq
  <2> QED BY <2>1 DEF ALine
<1>5. \A i \in 1 .. Len(l) : l[i] # Junk => l[i].n < k BY <1>3 DEF Behind
<1>6. \A j \in 1 .. Len(q) : q[j].n < k BY <1>4 DEF Behind
<1> QED BY <1>1, <1>2, <1>5, <1>6 DEF Behind

LEMMA NewLinesBehind ==
  ASSUME NEW l \in Heard, NEW q, NEW r \in Nat, Behind(l, q, r), NEW data \in Seq(ALine),
         \A i \in 1 .. Len(data) : data[i].n = r + i - 1
  PROVE  Behind(l, data, r + Len(data))
<1>1. Len(data) \in Nat /\ DOMAIN data = 1 .. Len(data) OBVIOUS
<1>2. InOrder(data) BY <1>1 DEF InOrder
<1>3. \A i \in 1 .. Len(l) : l[i] # Junk => l[i].n \in Nat /\ l[i].n < r
  BY ElementOfSeq DEF Heard, ALine, Behind
<1>4. \A i \in 1 .. Len(l), j \in 1 .. Len(data) : l[i] # Junk => l[i].n < data[j].n
  <2> SUFFICES ASSUME NEW i \in 1 .. Len(l), NEW j \in 1 .. Len(data), l[i] # Junk
               PROVE  l[i].n < data[j].n
    OBVIOUS
  <2>1. l[i].n \in Nat /\ l[i].n < r /\ data[j].n = r + j - 1 BY <1>3
  <2> QED BY <2>1
<1>5. \A i \in 1 .. Len(l) : l[i] # Junk => l[i].n < r + Len(data) BY <1>1, <1>3
<1>6. \A j \in 1 .. Len(data) : data[j].n < r + Len(data) BY <1>1
<1> QED BY <1>2, <1>4, <1>5, <1>6 DEF Behind

LEMMA NextLineBehind ==
  ASSUME NEW l \in Heard, NEW q \in Seq(ALine), NEW r \in Nat, Behind(l, q, r), q # <<>>,
         NEW x \in LineOr(Head(q))
  PROVE  Behind(l \o x, Tail(q), r)
<1> DEFINE t == Tail(q)
           m == l \o x
<1>1. /\ t \in Seq(ALine) /\ Len(q) \in Nat /\ Len(q) >= 1 /\ Len(t) = Len(q) - 1
      /\ \A i \in 1 .. Len(t) : t[i] = q[i + 1] /\ i + 1 \in 1 .. Len(q) /\ 1 < i + 1
      /\ Head(q) = q[1] /\ q[1] \in ALine
  BY HeadTailProperties, LenProperties, ElementOfSeq
<1>2. \A i \in 1 .. Len(q) : q[i] # Junk /\ q[i].n \in Nat /\ q[i].n < r
  <2>1. \A i \in 1 .. Len(q) : q[i] \in ALine BY ElementOfSeq
  <2>2. \A i \in 1 .. Len(q) : q[i].n < r BY DEF Behind
  <2>3. \A u \in ALine : u.n \in Nat /\ u # Junk BY LinesDiffer DEF ALine
  <2> QED BY <2>1, <2>2, <2>3
<1>3. \A i, j \in 1 .. Len(q) : i < j => q[i].n < q[j].n
  BY <1>2 DEF Behind, InOrder
<1>4. InOrder(t)
  <2>1. DOMAIN t = 1 .. Len(t) BY <1>1
  <2> HIDE DEF t
  <2> SUFFICES ASSUME NEW i \in 1 .. Len(t), NEW j \in 1 .. Len(t), i < j PROVE t[i].n < t[j].n
    BY <2>1 DEF InOrder
  <2>2. i + 1 < j + 1 BY <1>1
  <2> QED BY <1>1, <1>3, <2>2
<1>5. \A j \in 1 .. Len(t) : t[j].n < r BY <1>1, <1>2
<1> HIDE DEF t
<1>6. l \in Heard /\ Len(l) \in Nat /\ DOMAIN l = 1 .. Len(l) BY DEF Heard
<1>7. CASE x = <<>>
  <2>1. m = l BY <1>7 DEF Heard
  <2>2. \A i \in 1 .. Len(l), j \in 1 .. Len(t) : l[i] # Junk => l[i].n < t[j].n
    BY <1>1 DEF Behind
  <2> HIDE DEF m
  <2> QED BY <1>4, <1>5, <2>1, <2>2 DEF Behind, t, m
<1>8. CASE x # <<>>
  <2>1. PICK u \in {Head(q), Junk} : x = <<u>> BY <1>8 DEF LineOr
  <2>2. u # Junk => u = q[1] BY <1>1, <2>1
  <2>3. u \in ALine \cup {Junk} BY <1>1, <2>1
  <2>4. /\ m \in Heard /\ Len(m) = Len(l) + 1 /\ m[Len(l) + 1] = u
        /\ \A i \in 1 .. Len(l) : m[i] = l[i]
    BY <1>6, <2>1, <2>3 DEF Heard
  <2>5. \A i \in 1 .. Len(m) : i \in 1 .. Len(l) \/ i = Len(l) + 1 BY <1>6, <2>4
  <2>6. DOMAIN m = 1 .. Len(m) BY <2>4 DEF Heard
  <2> HIDE DEF m
  <2>7. \A i \in 1 .. Len(l) : l[i] # Junk => l[i].n < q[1].n /\ l[i].n < r
    BY <1>1 DEF Behind
  <2>8. InOrder(m)
    <3> SUFFICES ASSUME NEW i \in 1 .. Len(m), NEW j \in 1 .. Len(m),
                        i < j, m[i] # Junk, m[j] # Junk
                 PROVE  m[i].n < m[j].n
      BY <2>6 DEF InOrder
    <3>1. i \in 1 .. Len(l) BY <1>6, <2>4
    <3>2. CASE j \in 1 .. Len(l) BY <1>6, <2>4, <3>1, <3>2 DEF Behind, InOrder
    <3>3. CASE j = Len(l) + 1 BY <2>2, <2>4, <2>7, <3>1, <3>3
    <3> QED BY <2>5, <3>2, <3>3
  <2>9. \A i \in 1 .. Len(m), j \in 1 .. Len(t) : m[i] # Junk => m[i].n < t[j].n
    <3> SUFFICES ASSUME NEW i \in 1 .. Len(m), NEW j \in 1 .. Len(t), m[i] # Junk
                 PROVE  m[i].n < t[j].n
      OBVIOUS
    <3>1. t[j] = q[j + 1] /\ j + 1 \in 1 .. Len(q) /\ 1 < j + 1 /\ 1 \in 1 .. Len(q) BY <1>1
    <3>2. CASE i \in 1 .. Len(l) BY <2>4, <3>1, <3>2 DEF Behind
    <3>3. CASE i = Len(l) + 1 BY <1>3, <2>2, <2>4, <3>1, <3>3
    <3> QED BY <2>5, <3>2, <3>3
  <2>10. \A i \in 1 .. Len(m) : m[i] # Junk => m[i].n < r
    BY <1>1, <1>2, <2>2, <2>4, <2>5, <2>7
  <2> QED BY <1>4, <1>5, <2>8, <2>9, <2>10 DEF Behind, t, m
<1> QED BY <1>7, <1>8
LEMMA CallBehind ==
  ASSUME NEW l \in Heard, NEW q \in Seq(ALine), NEW r \in Nat, Behind(l, q, r),
         NEW data \in Seq(ALine), \A i \in 1 .. Len(data) : data[i].n = r + i - 1,
         NEW k \in Nat, r + Len(data) <= k, NEW x, NEW rest,
         \/ x = <<>> /\ rest \in {q, <<>>}
         \/ q # <<>> /\ x \in LineOr(Head(q)) /\ rest = Tail(q)
         \/ data # <<>> /\ x \in LineOr(Head(data)) /\ rest = Tail(data)
  PROVE  l \o x \in Heard /\ Behind(l \o x, rest, k) /\ Behind(<<>>, rest, k)
<1>1. Len(data) \in Nat /\ r + Len(data) \in Nat /\ r <= k OBVIOUS
<1>2. \A y \in ALine : <<y>> \in Heard /\ <<Junk>> \in Heard /\ <<>> \in Heard
  <2>1. \A y \in ALine \cup {Junk} : <<y>> \in Heard BY DEF Heard
  <2>2. <<>> \in Heard BY EmptySeq DEF Heard
  <2> QED BY <2>1, <2>2
<1>3. \A y \in Heard : l \o y \in Heard BY DEF Heard
<1>4. CASE x = <<>> /\ rest \in {q, <<>>}
  <2>1. l \o x = l BY <1>4 DEF Heard
  <2>2. Behind(<<>>, q, k) /\ Behind(l, <<>>, k) /\ Behind(l, q, k) BY <1>1, BehindWeaker
  <2>3. Behind(<<>>, <<>>, k)
    <3>1. <<>> \in Heard BY EmptySeq DEF Heard
    <3>2. k <= k OBVIOUS
    <3> QED BY <2>2, <3>1, <3>2, BehindWeaker
  <2> QED BY <1>4, <2>1, <2>2, <2>3
<1>5. CASE q # <<>> /\ x \in LineOr(Head(q)) /\ rest = Tail(q)
  <2>1. Behind(l \o x, rest, r) BY <1>5, NextLineBehind
  <2>2. Head(q) \in ALine /\ rest \in Seq(ALine) BY <1>5, TailKeepsSeq
  <2>3. l \o x \in Heard BY <1>2, <1>3, <1>5, <2>2 DEF LineOr
  <2> HIDE DEF Behind
  <2> QED BY <1>1, <2>1, <2>2, <2>3, BehindWeaker
<1>6. CASE data # <<>> /\ x \in LineOr(Head(data)) /\ rest = Tail(data)
  <2>1. Behind(l, data, r + Len(data)) BY NewLinesBehind
  <2>2. Behind(l \o x, rest, r + Len(data)) BY <1>1, <1>6, <2>1, NextLineBehind
  <2>3. Head(data) \in ALine /\ rest \in Seq(ALine) BY <1>6, TailKeepsSeq
  <2>4. l \o x \in Heard BY <1>2, <1>3, <1>6, <2>3 DEF LineOr
  <2> QED BY <1>1, <2>2, <2>3, <2>4, BehindWeaker
<1> QED BY <1>4, <1>5, <1>6

-----------------------------------------------------------------------------
(* The clock's side. *)
Lives(d) == d.state \notin {"CLOSED", "SYN_RCVD"}

(* New data that are the next of the stream. *)
NextData(ev, data) ==
  /\ data \in Seq(ALine)
  /\ "newdata" \in ev => data # <<>>
  /\ \A i \in 1 .. Len(data) : data[i].n = dev.rcv + i - 1

(* What a call of the application leaves of the connection: it is over, or it goes on
   with the next number. *)
GoesOnAs(d, ev, data) ==
  \/ d.state = "CLOSED" /\ data = <<>>
  \/ /\ Lives(d) /\ dev.rcv + Len(data) <= d.rcv
     /\ dev.state = "SYN_RCVD" => "connected" \in ev

LEMMA CalledKeeps ==
  ASSUME DevSide, Streams, dev.state # "CLOSED", NEW ev, NEW data, NextData(ev, data),
         NEW o \in AppCall(ps, ev, data), Called(o),
         dev' \in Devs, GoesOnAs(dev', ev, data)
  PROVE  DevSide' /\ Streams'
<1> DEFINE q == IF "connected" \in ev THEN <<>> ELSE ps.rest
<1>1. /\ handled \in Heard /\ ps \in Psocks /\ ps.rest \in Seq(ALine) /\ dev.rcv \in Nat
      /\ answered \in Seq(Nat)
  BY DEF DevSide, Psocks, Devs, Heard
<1>2. data \in Seq(ALine) /\ ("newdata" \in ev => data # <<>>) BY DEF NextData
<1>3. /\ o.ps \in Psocks /\ o.lines \in Heard /\ o.says \in Seq(Nat)
      /\ \/ o.lines = <<>> /\ o.ps.rest \in {q, <<>>}
         \/ q # <<>> /\ o.lines \in LineOr(Head(q)) /\ o.ps.rest = Tail(q)
         \/ "newdata" \in ev /\ o.lines \in LineOr(Head(data)) /\ o.ps.rest = Tail(data)
  <2>1. /\ o.ps \in Psocks /\ o.lines \in Seq(ALine \cup {Junk}) /\ o.says \in Seq(Nat)
        /\ \/ o.lines = <<>> /\ o.ps.rest \in {IF "connected" \in ev THEN <<>> ELSE ps.rest, <<>>}
           \/ /\ (IF "connected" \in ev THEN <<>> ELSE ps.rest) # <<>>
              /\ o.lines \in LineOr(Head(IF "connected" \in ev THEN <<>> ELSE ps.rest))
              /\ o.ps.rest = Tail(IF "connected" \in ev THEN <<>> ELSE ps.rest)
           \/ "newdata" \in ev /\ o.lines \in LineOr(Head(data)) /\ o.ps.rest = Tail(data)
    BY <1>1, <1>2, CallOutcome
  <2> QED BY <2>1 DEF Heard
<1>4. q \in Seq(ALine)
  <2>1. <<>> \in Seq(ALine) BY EmptySeq
  <2> QED BY <1>1, <2>1
<1>5. \E b \in Nat : /\ Behind(handled, q, b)
                     /\ \A i \in 1 .. Len(data) : data[i].n = b + i - 1
                     /\ dev'.state \notin {"CLOSED", "SYN_RCVD"} => b = dev.rcv
  <2>1. CASE Lives(dev)
    <3>1. Behind(handled, ps.rest, dev.rcv) BY <2>1 DEF Streams, Lives
    <3>2. Behind(handled, q, dev.rcv) BY <1>1, <3>1, BehindWeaker
    <3> QED BY <1>1, <3>2 DEF NextData
  <2>2. CASE ~Lives(dev) /\ "connected" \in ev
    <3>1. handled = <<>> /\ q = <<>> BY <2>2 DEF Lives, Streams
    <3>2. PICK r \in Nat : Behind(<<>>, ps.rest, r) BY DEF Streams
    <3>3. InOrder(<<>>) BY <3>2 DEF Behind
    <3>4. 1 .. Len(<<>>) = {} OBVIOUS
    <3>5. Behind(<<>>, <<>>, dev.rcv) BY <3>3, <3>4 DEF Behind
    <3> QED BY <1>1, <3>1, <3>5 DEF NextData
  <2>3. CASE ~Lives(dev) /\ ~("connected" \in ev)
    <3>1. handled = <<>> /\ q = ps.rest BY <2>3 DEF Lives, Streams
    <3>2. dev'.state = "CLOSED" /\ data = <<>> BY <2>3 DEF GoesOnAs, Lives
    <3>3. PICK r \in Nat : Behind(<<>>, ps.rest, r) BY DEF Streams
    <3>4. 1 .. Len(data) = {} BY <3>2
    <3> QED BY <3>1, <3>2, <3>3, <3>4
  <2> QED BY <2>1, <2>2, <2>3
<1>6. PICK b \in Nat : /\ Behind(handled, q, b)
                       /\ \A i \in 1 .. Len(data) : data[i].n = b + i - 1
                       /\ dev'.state \notin {"CLOSED", "SYN_RCVD"} => b = dev.rcv
  BY <1>5
<1> HIDE DEF q
<1>7. \A k \in Nat : b + Len(data) <= k =>
        /\ handled \o o.lines \in Heard
        /\ Behind(handled \o o.lines, o.ps.rest, k) /\ Behind(<<>>, o.ps.rest, k)
  <2>1. \/ o.lines = <<>> /\ o.ps.rest \in {q, <<>>}
        \/ q # <<>> /\ o.lines \in LineOr(Head(q)) /\ o.ps.rest = Tail(q)
        \/ data # <<>> /\ o.lines \in LineOr(Head(data)) /\ o.ps.rest = Tail(data)
    BY <1>2, <1>3
  <2>2. PICK x, rest : x = o.lines /\ rest = o.ps.rest OBVIOUS
  <2> SUFFICES ASSUME NEW k \in Nat, b + Len(data) <= k
               PROVE  handled \o x \in Heard /\ Behind(handled \o x, rest, k) /\ Behind(<<>>, rest, k)
    BY <2>2
  <2>3. \/ x = <<>> /\ rest \in {q, <<>>}
        \/ q # <<>> /\ x \in LineOr(Head(q)) /\ rest = Tail(q)
        \/ data # <<>> /\ x \in LineOr(Head(data)) /\ rest = Tail(data)
    BY <2>1, <2>2
  <2> QED BY <1>1, <1>2, <1>4, <1>6, <2>3, CallBehind
<1>8. b + Len(data) \in Nat /\ b + Len(data) <= b + Len(data) BY <1>2
<1>9. handled' = handled \o o.lines /\ ps' = o.ps /\ answered' = answered \o o.says
  BY DEF Called
<1>10. handled' \in Heard /\ Behind(handled', ps'.rest, b + Len(data)) /\ Behind(<<>>, ps'.rest, b + Len(data))
  BY <1>7, <1>8, <1>9
<1>11. answered' \in Seq(Nat) BY <1>1, <1>3, <1>9
<1>12. DevSide' BY <1>3, <1>9, <1>10, <1>11 DEF DevSide, Heard
<1>13. dev'.state # "SYN_RCVD" BY DEF GoesOnAs, Lives
<1>14. dev'.state \notin {"CLOSED", "SYN_RCVD"} => Behind(handled', ps'.rest, dev'.rcv)
  <2> HAVE dev'.state \notin {"CLOSED", "SYN_RCVD"}
  <2>1. Lives(dev') BY DEF Lives
  <2>2. b = dev.rcv BY <1>6
  <2>3. dev.rcv + Len(data) <= dev'.rcv BY <2>1 DEF GoesOnAs, Lives
  <2>4. dev'.rcv \in Nat BY DEF Devs
  <2> QED BY <1>7, <1>9, <2>2, <2>3, <2>4
<1>15. InOrder(handled') BY <1>10 DEF Behind
<1> QED BY <1>8, <1>10, <1>12, <1>13, <1>14, <1>15 DEF Streams

(* A step that calls no application. *)
Quiet ==
  /\ UNCHANGED ps /\ answered' \in Seq(Nat)
  /\ \/ handled' = handled /\ dev'.state = "CLOSED"
     \/ handled' = handled /\ dev'.state = dev.state /\ dev'.rcv = dev.rcv
     \/ handled' = handled /\ Lives(dev) /\ Lives(dev') /\ dev.rcv <= dev'.rcv
     \/ handled' = <<>> /\ dev'.state = "SYN_RCVD"

LEMMA QuietKeeps ==
  ASSUME DevSide, Streams, Quiet, dev' \in Devs
  PROVE  DevSide' /\ Streams'
<1>1. handled \in Heard /\ ps.rest \in Seq(ALine) /\ dev.rcv \in Nat /\ dev'.rcv \in Nat
  BY DEF DevSide, Psocks, Devs, Heard
<1>2. PICK r \in Nat : Behind(<<>>, ps.rest, r) BY DEF Streams
<1>3. InOrder(<<>>) BY <1>2 DEF Behind
<1>4. handled' \in Heard
  <2>1. <<>> \in Heard BY EmptySeq DEF Heard
  <2> QED BY <1>1, <2>1 DEF Quiet
<1>5. DevSide' BY <1>4 DEF DevSide, Quiet, Heard
<1>6. InOrder(handled') BY <1>3 DEF Quiet, Streams
<1>7. dev'.state = "SYN_RCVD" => handled' = <<>> BY DEF Quiet, Streams, Lives
<1>8. Behind(<<>>, ps'.rest, r) BY <1>2 DEF Quiet
<1>9. dev'.state \notin {"CLOSED", "SYN_RCVD"} => Behind(handled', ps'.rest, dev'.rcv)
  <2> HAVE dev'.state \notin {"CLOSED", "SYN_RCVD"}
  <2>1. handled' = handled /\ ps' = ps /\ dev.rcv <= dev'.rcv /\ Lives(dev)
    BY <1>1 DEF Quiet, Lives
  <2>2. Behind(handled, ps.rest, dev.rcv) BY <2>1 DEF Streams, Lives
  <2> QED BY <1>1, <2>1, <2>2, BehindWeaker
<1> QED BY <1>5, <1>6, <1>7, <1>8, <1>9 DEF Streams
(* What the clock sends. *)
LEMMA MereReply ==
  ASSUME NEW c \in Conns, NEW kind \in Kinds \ {"syn"}, NEW seq \in Nat,
         NEW fin \in BOOLEAN, NEW ack \in Nat
  PROVE  Segment(c, kind, seq, <<>>, fin, ack) \in Replies
BY NothingSaid DEF Replies, Segment

LEMMA AcksAreReplies ==
  ASSUME NEW d \in Devs, d.conn \in Conns
  PROVE  SynAck(d) \in Replies /\ Ack(d) \in Replies /\ FinAck(d) \in Replies
<1>1. d.snd \in Nat /\ d.rcv \in Nat BY DEF Devs
<1>2. "synack" \in Kinds \ {"syn"} /\ "seg" \in Kinds \ {"syn"} BY DEF Kinds
<1> QED BY <1>1, <1>2, MereReply DEF SynAck, Ack, FinAck

LEMMA AnswerIsReply ==
  ASSUME NEW d \in Devs, d.conn \in Conns, NEW p \in Psocks
  PROVE  Answer(d, p) \in Replies
<1>1. d.snd \in Nat /\ d.rcv \in Nat /\ p.answer \in Nat BY DEF Devs, Psocks
<1>2. "seg" \in Kinds \ {"syn"} BY DEF Kinds
<1>3. \A n \in Nat : <<n>> \in Seq(Nat) OBVIOUS
<1> QED BY <1>1, <1>2, <1>3 DEF Answer, Segment, Replies

LEMMA ReplyKeeps ==
  ASSUME toHost \in Seq(Replies), NEW s \in Replies, Reply(s)
  PROVE  toHost' \in Seq(Replies)
BY PutKeepsSeq DEF Reply

LEMMA SilentKeeps ==
  ASSUME toHost \in Seq(Replies), Silent
  PROVE  toHost' \in Seq(Replies)
BY DEF Silent

(* What becomes of the connection's record. *)
LEMMA ClosedType == Closed \in Devs /\ Closed.state = "CLOSED"
BY DEF Closed, Devs, TcpStates

LEMMA DevFields ==
  ASSUME NEW d \in Devs
  PROVE  /\ d.state \in TcpStates /\ d.rcv \in Nat /\ d.snd \in Nat /\ d.len \in Nat /\ d.nrtx \in Nat
         /\ d.state # "CLOSED" => d.conn \in Conns
BY DEF Devs

LEMMA AckedType ==
  ASSUME NEW s \in Requests, dev \in Devs
  PROVE  /\ Acked(s) \in Devs /\ Acked(s).state = dev.state /\ Acked(s).rcv = dev.rcv
         /\ Acked(s).conn = dev.conn
BY DEF Acked, Devs, Requests

LEMMA TookType ==
  ASSUME NEW d \in Devs, NEW n \in Nat
  PROVE  /\ Took(d, n) \in Devs /\ Took(d, n).state = d.state /\ Took(d, n).rcv = d.rcv + n
         /\ Took(d, n).conn = d.conn
BY DEF Took, Devs

LEMMA ChangedState ==
  ASSUME NEW d \in Devs, d.state # "CLOSED", NEW state \in TcpStates
  PROVE  LET g == [d EXCEPT !.state = state]
         IN  g \in Devs /\ g.state = state /\ g.rcv = d.rcv /\ g.conn = d.conn
BY DEF Devs

(* The next data of the stream, when a segment in sequence brings them. *)
LEMMA InSequence ==
  ASSUME DevSide, NEW s \in Requests, ~OutOfSequence(s), NEW ev, "newdata" \in ev => s.data # <<>>
  PROVE  NextData(ev, s.data) /\ Len(s.data) \in Nat
<1>1. s.data \in Seq(ALine) BY DEF Requests
<1>2. CASE s.data = <<>>
  <2>1. 1 .. Len(s.data) = {} BY <1>2
  <2> QED BY <1>1, <2>1 DEF NextData
<1>3. CASE s.data # <<>>
  <2>1. s.seq = dev.rcv BY <1>3 DEF OutOfSequence
  <2>2. \A i \in 1 .. Len(s.data) : s.data[i].n = s.seq + i - 1 BY DEF Requests
  <2> QED BY <1>1, <2>1, <2>2 DEF NextData
<1> QED BY <1>2, <1>3

LEMMA NoNewData == NextData({}, <<>>) /\ Len(<<>>) = 0
<1>1. <<>> \in Seq(ALine) BY EmptySeq
<1>2. 1 .. Len(<<>>) = {} OBVIOUS
<1> QED BY <1>1, <1>2 DEF NextData

LEMMA AppSendKeeps ==
  ASSUME toHost \in Seq(Replies), NEW d \in Devs, d.state # "CLOSED", NEW ev, NEW o,
         o.ps \in Psocks, AppSend(d, ev, o)
  PROVE  /\ toHost' \in Seq(Replies) /\ dev' \in Devs
         /\ dev'.rcv = d.rcv /\ dev'.state \in {d.state, "FIN_WAIT_1"}
<1> DEFINE sending == [d EXCEPT !.len = IF o.sends THEN 1 ELSE @, !.nrtx = 0]
           closing == [d EXCEPT !.len = 1, !.nrtx = 0, !.state = "FIN_WAIT_1"]
<1>1. sending \in Devs /\ sending.rcv = d.rcv /\ sending.state = d.state /\ sending.conn \in Conns
  BY DEF Devs
<1>2. closing \in Devs /\ closing.rcv = d.rcv /\ closing.state = "FIN_WAIT_1" /\ closing.conn \in Conns
  BY DEF Devs, TcpStates
<1> HIDE DEF sending, closing
<1>3. CASE o.closes
  <2>1. dev' = closing /\ Reply(FinAck(closing)) BY <1>3 DEF AppSend, closing
  <2> QED BY <1>2, <2>1, AcksAreReplies, ReplyKeeps
<1>4. CASE ~o.closes
  <2>1. /\ dev' = sending
        /\ \/ Reply(Answer(sending, o.ps)) \/ Reply(Ack(sending)) \/ Silent
    BY <1>4 DEF AppSend, sending
  <2> QED BY <1>1, <2>1, AcksAreReplies, AnswerIsReply, ReplyKeeps, SilentKeeps
<1> QED BY <1>3, <1>4

(* What every step of the clock keeps, besides its input. *)
Kept == toHost' \in Seq(Replies) /\ DevSide' /\ Streams'

LEMMA CallAndSendKeeps ==
  ASSUME toHost \in Seq(Replies), DevSide, Streams, dev.state # "CLOSED", NEW ev, NEW data,
         NextData(ev, data), NEW d \in Devs, GoesOnAs(d, ev, data), d.state # "CLOSED",
         CallAndSend(d, ev, data)
  PROVE  Kept
<1>1. PICK o \in AppCall(ps, ev, data) : Called(o) /\ AppSend(d, ev, o) BY DEF CallAndSend
<1>2. o.ps \in Psocks
  <2>1. ps \in Psocks /\ data \in Seq(ALine) /\ ("newdata" \in ev => data # <<>>)
    BY DEF DevSide, NextData
  <2> QED BY <2>1, CallOutcome
<1>3. /\ toHost' \in Seq(Replies) /\ dev' \in Devs
      /\ dev'.rcv = d.rcv /\ dev'.state \in {d.state, "FIN_WAIT_1"}
  BY <1>1, <1>2, AppSendKeeps
<1>4. GoesOnAs(dev', ev, data) BY <1>3 DEF GoesOnAs, Lives
<1> QED BY <1>1, <1>3, <1>4, CalledKeeps DEF Kept

LEMMA CallOnlyKeeps ==
  ASSUME DevSide, Streams, dev.state # "CLOSED", NEW ev, NEW data,
         NextData(ev, data), NEW d \in Devs, GoesOnAs(d, ev, data),
         CallOnly(d, ev, data)
  PROVE  DevSide' /\ Streams'
<1>1. PICK o \in AppCall(ps, ev, data) : Called(o) BY DEF CallOnly
<1>2. dev' = d BY DEF CallOnly
<1>3. dev' \in Devs /\ GoesOnAs(dev', ev, data) BY <1>2
<1> QED BY <1>1, <1>3, CalledKeeps

LEMMA ClosingKeeps ==
  ASSUME DevSide, Streams, dev.state # "CLOSED", CallOnly(Closed, {}, <<>>)
  PROVE  DevSide' /\ Streams'
<1>1. GoesOnAs(Closed, {}, <<>>) BY ClosedType DEF GoesOnAs
<1> QED BY <1>1, ClosedType, NoNewData, CallOnlyKeeps

LEMMA NotCalledKeeps ==
  ASSUME DevSide, Streams, NotCalled, NEW d \in Devs, dev' = d,
         \/ d.state = "CLOSED"
         \/ d.state = dev.state /\ d.rcv = dev.rcv
         \/ Lives(dev) /\ Lives(d) /\ dev.rcv <= d.rcv
  PROVE  DevSide' /\ Streams'
<1>1. Quiet BY DEF NotCalled, Quiet, DevSide, Lives
<1> QED BY <1>1, QuietKeeps

LEMMA UnchangedKeeps ==
  ASSUME DevSide, Streams, NotCalled, UNCHANGED dev
  PROVE  DevSide' /\ Streams'
<1>1. dev \in Devs BY DEF DevSide
<1> QED BY <1>1, NotCalledKeeps
-----------------------------------------------------------------------------
(* One lemma for what the clock does with a segment, by the state it finds. *)
Before == toHost \in Seq(Replies) /\ DevSide /\ Streams

LEMMA AcceptKeeps ==
  ASSUME Before, NEW s \in Requests, Accept(s)
  PROVE  Kept
<1>1. CASE dev.state \in {"CLOSED", "TIME_WAIT"}
  <2> DEFINE d == [state |-> "SYN_RCVD", conn |-> s.conn, rcv |-> s.seq + 1,
                   snd |-> 0, len |-> 1, nrtx |-> 0]
  <2>1. d \in Devs /\ d.conn \in Conns /\ d.state = "SYN_RCVD" BY DEF Devs, TcpStates, Requests
  <2>2. dev' = d /\ handled' = <<>> /\ answered' = <<>> /\ UNCHANGED ps /\ Reply(SynAck(dev'))
    BY <1>1 DEF Accept
  <2> HIDE DEF d
  <2>3. toHost' \in Seq(Replies)
    <3>1. SynAck(d) \in Replies BY <2>1, AcksAreReplies
    <3> QED BY <2>2, <3>1, ReplyKeeps DEF Before
  <2>4. Quiet BY <2>1, <2>2, NothingSaid DEF Quiet
  <2> QED BY <2>1, <2>2, <2>3, <2>4, QuietKeeps DEF Before, Kept
<1>2. CASE dev.state \notin {"CLOSED", "TIME_WAIT"}
  BY <1>2, UnchangedKeeps, SilentKeeps DEF Accept, NotCalled, Before, Kept
<1> QED BY <1>1, <1>2

LEMMA RefuseKeeps ==
  ASSUME Before, NEW s \in Requests, Refuse(s)
  PROVE  Kept
<1>1. Reset(s) \in Replies BY MereReply DEF Reset, Requests, Kinds
<1>2. toHost' \in Seq(Replies) BY <1>1, ReplyKeeps, SilentKeeps DEF Refuse, Before
<1> QED BY <1>2, UnchangedKeeps DEF Refuse, Before, Kept

LEMMA ResetInKeeps ==
  ASSUME Before, NEW s \in Requests, ResetIn(s)
  PROVE  Kept
BY ClosingKeeps, SilentKeeps DEF ResetIn, Mine, Before, Kept

LEMMA DevsConn ==
  ASSUME Before, dev.state # "CLOSED"
  PROVE  dev \in Devs /\ dev.conn \in Conns /\ dev.rcv \in Nat
BY DevFields DEF Before, DevSide

LEMMA RepeatedKeeps ==
  ASSUME Before, NEW s \in Requests, Repeated(s)
  PROVE  Kept
<1>1. toHost' \in Seq(Replies)
  BY DevsConn, AcksAreReplies, ReplyKeeps DEF Repeated, Mine, Before
<1> QED BY <1>1, UnchangedKeeps DEF Repeated, Before, Kept

LEMMA InTimeWaitKeeps ==
  ASSUME Before, NEW s \in Requests, InTimeWait(s)
  PROVE  Kept
<1>1. toHost' \in Seq(Replies)
  BY DevsConn, AcksAreReplies, ReplyKeeps DEF InTimeWait, Expected, Before
<1> QED BY <1>1, UnchangedKeeps DEF InTimeWait, Before, Kept

(* The connection that a segment in sequence leaves. *)
LEMMA TookAcked ==
  ASSUME Before, NEW s \in Requests, ~OutOfSequence(s), dev.state # "CLOSED"
  PROVE  LET d == Took(Acked(s), Len(s.data))
         IN  /\ d \in Devs /\ d.state = dev.state /\ d.conn \in Conns
             /\ d.rcv = dev.rcv + Len(s.data) /\ dev.rcv <= d.rcv
             /\ dev.rcv \in Nat /\ d.rcv \in Nat /\ Len(s.data) \in Nat
<1>1. Len(s.data) \in Nat BY DEF Requests
<1>2. dev \in Devs /\ dev.conn \in Conns /\ dev.rcv \in Nat BY DevsConn
<1>3. Acked(s) \in Devs /\ Acked(s).state = dev.state /\ Acked(s).rcv = dev.rcv /\ Acked(s).conn = dev.conn
  BY <1>2, AckedType
<1>4. LET d == Took(Acked(s), Len(s.data))
      IN  d \in Devs /\ d.state = dev.state /\ d.conn = dev.conn /\ d.rcv = dev.rcv + Len(s.data)
  BY <1>1, <1>3, TookType
<1> QED BY <1>1, <1>2, <1>4

LEMMA InSynRcvdKeeps ==
  ASSUME Before, NEW s \in Requests, InSynRcvd(s)
  PROVE  Kept
<1>1. dev.state = "SYN_RCVD" /\ ~OutOfSequence(s) BY DEF InSynRcvd, Expected
<1>2. CASE ~Acks(s)
  BY <1>2, UnchangedKeeps, SilentKeeps DEF InSynRcvd, Before, Kept
<1>3. CASE Acks(s)
  <2> DEFINE t  == Took(Acked(s), Len(s.data))
             d  == [t EXCEPT !.state = "ESTABLISHED"]
             ev == {"connected"} \cup (Events(s) \ {"acked"})
  <2>1. t \in Devs /\ t.state = "SYN_RCVD" /\ t.rcv = dev.rcv + Len(s.data) /\ t.rcv \in Nat
    BY <1>1, TookAcked
  <2>2. CallAndSend(d, ev, s.data) BY <1>3 DEF InSynRcvd
  <2>3. "connected" \in ev /\ ("newdata" \in ev => s.data # <<>>) BY DEF Events
  <2> HIDE DEF t, ev
  <2>4. d \in Devs /\ d.state = "ESTABLISHED" /\ d.rcv = t.rcv
    BY <2>1, ChangedState DEF TcpStates
  <2>5. NextData(ev, s.data) BY <1>1, <2>3, InSequence DEF Before
  <2>6. GoesOnAs(d, ev, s.data) BY <2>1, <2>3, <2>4 DEF GoesOnAs, Lives
  <2> HIDE DEF d
  <2> QED BY <1>1, <2>2, <2>4, <2>5, <2>6, CallAndSendKeeps DEF Before
<1> QED BY <1>2, <1>3

LEMMA InEstablishedKeeps ==
  ASSUME Before, NEW s \in Requests, InEstablished(s)
  PROVE  Kept
<1>1. dev.state = "ESTABLISHED" /\ ~OutOfSequence(s) BY DEF InEstablished, Expected
<1>2. CASE Events(s) = {}
  BY <1>2, UnchangedKeeps, SilentKeeps DEF InEstablished, Before, Kept
<1>3. CASE Events(s) # {}
  <2> DEFINE d == Took(Acked(s), Len(s.data))
  <2>1. d \in Devs /\ d.state = "ESTABLISHED" /\ d.rcv = dev.rcv + Len(s.data) /\ d.rcv \in Nat
    BY <1>1, TookAcked
  <2>2. CallAndSend(d, Events(s), s.data) BY <1>3 DEF InEstablished
  <2>3. "newdata" \in Events(s) => s.data # <<>> BY DEF Events
  <2> HIDE DEF d
  <2>4. NextData(Events(s), s.data) BY <1>1, <2>3, InSequence DEF Before
  <2>5. GoesOnAs(d, Events(s), s.data) BY <1>1, <2>1 DEF GoesOnAs, Lives
  <2> QED BY <1>1, <2>1, <2>2, <2>4, <2>5, CallAndSendKeeps DEF Before
<1> QED BY <1>2, <1>3

LEMMA FinInKeeps ==
  ASSUME Before, NEW s \in Requests, FinIn(s)
  PROVE  Kept
<1>1. dev.state = "ESTABLISHED" /\ ~OutOfSequence(s) BY DEF FinIn, Expected
<1>2. dev \in Devs /\ dev.conn \in Conns /\ dev.rcv \in Nat BY <1>1, DevsConn
<1>3. CASE Acked(s).len > 0
  <2>1. Acked(s) \in Devs /\ Acked(s).state = dev.state /\ Acked(s).rcv = dev.rcv
    BY <1>2, AckedType
  <2>2. NotCalled /\ dev' = Acked(s) /\ Silent BY <1>3 DEF FinIn
  <2> QED BY <2>1, <2>2, NotCalledKeeps, SilentKeeps DEF Before, Kept
<1>4. CASE ~(Acked(s).len > 0)
  <2> DEFINE n == 1 + Len(s.data)
             t == Took(Acked(s), n)
             d == [t EXCEPT !.len = 1, !.state = "LAST_ACK", !.nrtx = 0]
  <2>1. Acked(s) \in Devs /\ Acked(s).state = dev.state /\ Acked(s).rcv = dev.rcv /\ Acked(s).conn = dev.conn
    BY <1>2, AckedType
  <2>2. Len(s.data) \in Nat /\ n \in Nat BY DEF Requests
  <2>3. t \in Devs /\ t.state = dev.state /\ t.conn = dev.conn /\ t.rcv = dev.rcv + n
    BY <2>1, <2>2, TookType
  <2>4. CallOnly(d, Events(s), s.data) /\ Reply(FinAck(dev')) BY <1>4 DEF FinIn
  <2> HIDE DEF t
  <2>5. d \in Devs /\ d.state = "LAST_ACK" /\ d.rcv = t.rcv /\ d.conn = dev.conn
    BY <1>1, <2>3 DEF Devs, TcpStates
  <2> HIDE DEF d
  <2>6. NextData(Events(s), s.data)
    <3>1. "newdata" \in Events(s) => s.data # <<>> BY DEF Events
    <3> QED BY <1>1, <3>1, InSequence DEF Before
  <2>7. GoesOnAs(d, Events(s), s.data)
    <3>1. dev.rcv + Len(s.data) <= d.rcv BY <1>2, <2>2, <2>3, <2>5
    <3> QED BY <1>1, <2>5, <3>1 DEF GoesOnAs, Lives
  <2>8. DevSide' /\ Streams' BY <1>1, <2>4, <2>5, <2>6, <2>7, CallOnlyKeeps DEF Before
  <2>9. dev' = d BY <2>4 DEF CallOnly
  <2>10. toHost' \in Seq(Replies)
    <3>1. FinAck(d) \in Replies BY <1>2, <2>5, AcksAreReplies
    <3> QED BY <2>4, <2>9, <3>1, ReplyKeeps DEF Before
  <2> QED BY <2>8, <2>10 DEF Kept
<1> QED BY <1>3, <1>4

LEMMA InLastAckKeeps ==
  ASSUME Before, NEW s \in Requests, InLastAck(s)
  PROVE  Kept
<1>1. dev.state = "LAST_ACK" BY DEF InLastAck, Expected
<1>2. toHost' \in Seq(Replies) BY SilentKeeps DEF InLastAck, Before
<1>3. CASE Acks(s)
  BY <1>1, <1>2, <1>3, ClosingKeeps DEF InLastAck, Before, Kept
<1>4. CASE ~Acks(s)
  BY <1>2, <1>4, UnchangedKeeps DEF InLastAck, Before, Kept
<1> QED BY <1>3, <1>4

LEMMA InFinWaitKeeps ==
  ASSUME Before, NEW s \in Requests, InFinWait(s)
  PROVE  Kept
<1> DEFINE d    == Took(Acked(s), Len(s.data))
           done == d.len = 0
<1>1. dev.state \in {"FIN_WAIT_1", "FIN_WAIT_2"} /\ ~OutOfSequence(s) BY DEF InFinWait, Expected
<1>2. /\ d \in Devs /\ d.state = dev.state /\ d.conn \in Conns
      /\ d.rcv = dev.rcv + Len(s.data) /\ dev.rcv <= d.rcv
      /\ dev.rcv \in Nat /\ d.rcv \in Nat
  BY <1>1, TookAcked
<1>3. CASE s.fin
  <2> DEFINE g == [Took(d, 1) EXCEPT !.state = IF done THEN "TIME_WAIT" ELSE "CLOSING"]
  <2>1. CallOnly(g, {}, <<>>) /\ Reply(Ack(dev')) BY <1>3 DEF InFinWait
  <2> HIDE DEF d
  <2>2. Took(d, 1) \in Devs /\ Took(d, 1).state = dev.state /\ Took(d, 1).rcv = d.rcv + 1 /\ Took(d, 1).conn = d.conn
    BY <1>2, TookType
  <2>3. PICK state \in {"TIME_WAIT", "CLOSING"} : g = [Took(d, 1) EXCEPT !.state = state]
    OBVIOUS
  <2> HIDE DEF g
  <2>4. g \in Devs /\ g.state = state /\ g.rcv = d.rcv + 1 /\ g.conn = d.conn
    <3>1. Took(d, 1).state # "CLOSED" /\ state \in TcpStates BY <1>1, <2>2 DEF TcpStates
    <3> QED BY <2>2, <2>3, <3>1, ChangedState
  <2>5. GoesOnAs(g, {}, <<>>)
    <3>1. dev.rcv + Len(<<>>) <= g.rcv BY <1>2, <2>4, NoNewData
    <3> QED BY <1>1, <2>4, <3>1 DEF GoesOnAs, Lives
  <2>6. DevSide' /\ Streams' BY <1>1, <2>1, <2>4, <2>5, NoNewData, CallOnlyKeeps DEF Before
  <2>7. toHost' \in Seq(Replies)
    <3>1. Ack(g) \in Replies BY <1>2, <2>4, AcksAreReplies
    <3>2. dev' = g BY <2>1 DEF CallOnly
    <3> QED BY <2>1, <3>1, <3>2, ReplyKeeps DEF Before
  <2> QED BY <2>6, <2>7 DEF Kept
<1>4. CASE ~s.fin
  <2> DEFINE g == [d EXCEPT !.state = IF done THEN "FIN_WAIT_2" ELSE "FIN_WAIT_1"]
  <2>1. NotCalled /\ dev' = g /\ (Reply(Ack(d)) \/ Silent) BY <1>4 DEF InFinWait
  <2> HIDE DEF d
  <2>2. PICK state \in {"FIN_WAIT_2", "FIN_WAIT_1"} : g = [d EXCEPT !.state = state]
    OBVIOUS
  <2> HIDE DEF g
  <2>3. g \in Devs /\ g.state = state /\ g.rcv = d.rcv
    <3>1. d.state # "CLOSED" /\ state \in TcpStates BY <1>1, <1>2 DEF TcpStates
    <3> QED BY <1>2, <2>2, <3>1, ChangedState
  <2>4. Lives(dev) /\ Lives(g) /\ dev.rcv <= g.rcv BY <1>1, <1>2, <2>3 DEF Lives
  <2>5. DevSide' /\ Streams' BY <2>1, <2>3, <2>4, NotCalledKeeps DEF Before
  <2>6. toHost' \in Seq(Replies) BY <1>2, <2>1, AcksAreReplies, ReplyKeeps, SilentKeeps DEF Before
  <2> QED BY <2>5, <2>6 DEF Kept
<1> QED BY <1>3, <1>4

LEMMA InClosingKeeps ==
  ASSUME Before, NEW s \in Requests, InClosing(s)
  PROVE  Kept
<1>1. dev.state = "CLOSING" BY DEF InClosing, Expected
<1>2. toHost' \in Seq(Replies) BY SilentKeeps DEF InClosing, Before
<1>3. CASE Acks(s)
  <2> DEFINE g == [Acked(s) EXCEPT !.state = "TIME_WAIT"]
  <2>1. Acked(s) \in Devs /\ Acked(s).state = dev.state /\ Acked(s).rcv = dev.rcv
    BY AckedType DEF Before, DevSide
  <2>2. g \in Devs /\ g.state = "TIME_WAIT" /\ g.rcv = dev.rcv
    BY <1>1, <2>1, ChangedState DEF TcpStates
  <2>3. NotCalled /\ dev' = g BY <1>3 DEF InClosing
  <2> HIDE DEF g
  <2>4. Lives(dev) /\ Lives(g) /\ dev.rcv <= g.rcv
    BY <1>1, <2>2, DevsConn DEF Lives
  <2> QED BY <1>2, <2>2, <2>3, <2>4, NotCalledKeeps DEF Before, Kept
<1>4. CASE ~Acks(s)
  BY <1>2, <1>4, UnchangedKeeps DEF InClosing, Before, Kept
<1> QED BY <1>3, <1>4
LEMMA DevReceiveKeeps ==
  ASSUME NetTypes, DevSide, Streams, DevReceive
  PROVE  toDev' \in Seq(Requests) /\ Kept
<1> DEFINE s == Head(toDev)
<1>1. s \in Requests /\ toDev' \in Seq(Requests) BY TailKeepsSeq DEF DevReceive, NetTypes
<1>2. Before BY DEF Before, NetTypes
<1>3. \/ Accept(s) \/ Refuse(s) \/ ResetIn(s) \/ Repeated(s)
      \/ InSynRcvd(s) \/ InEstablished(s) \/ FinIn(s) \/ InLastAck(s)
      \/ InFinWait(s) \/ InClosing(s) \/ InTimeWait(s)
  BY DEF DevReceive
<1> HIDE DEF s
<1>4. Kept
  BY <1>1, <1>2, <1>3, AcceptKeeps, RefuseKeeps, ResetInKeeps, RepeatedKeeps, InSynRcvdKeeps,
     InEstablishedKeeps, FinInKeeps, InLastAckKeeps, InFinWaitKeeps, InClosingKeeps, InTimeWaitKeeps
<1> QED BY <1>1, <1>4

(* The timer of uip_periodic(), and the end of it all. *)
LEMMA RetransmitKeeps ==
  ASSUME Before, Retransmit
  PROVE  Kept
<1>1. dev.state # "CLOSED" BY DEF Retransmit
<1>2. dev \in Devs /\ dev.conn \in Conns /\ dev.rcv \in Nat BY <1>1, DevsConn
<1>3. Counted \in Devs /\ Counted.state = dev.state /\ Counted.rcv = dev.rcv /\ Counted.conn = dev.conn
  BY <1>2 DEF Counted, Devs
<1>4. dev' = Counted BY DEF Retransmit
<1>5. CASE dev.state = "ESTABLISHED"
  <2>1. PICK o \in AppCall(ps, {"rexmit"}, <<>>) :
          Called(o) /\ (Reply(Answer(Counted, o.ps)) \/ Silent)
    BY <1>5 DEF Retransmit
  <2>2. NextData({"rexmit"}, <<>>)
    <3>1. <<>> \in Seq(ALine) /\ 1 .. Len(<<>>) = {} BY EmptySeq
    <3> QED BY <3>1 DEF NextData
  <2>3. o.ps \in Psocks
    <3>1. ps \in Psocks /\ <<>> \in Seq(ALine) BY <2>2 DEF Before, DevSide, NextData
    <3>2. "newdata" \notin {"rexmit"} OBVIOUS
    <3> QED BY <3>1, <3>2, CallOutcome
  <2>4. GoesOnAs(dev', {"rexmit"}, <<>>)
    <3>1. dev.rcv + Len(<<>>) <= dev.rcv BY <1>2, NoNewData
    <3> QED BY <1>3, <1>4, <1>5, <3>1 DEF GoesOnAs, Lives
  <2>5. DevSide' /\ Streams' BY <1>1, <1>3, <1>4, <2>1, <2>2, <2>4, CalledKeeps DEF Before
  <2>6. toHost' \in Seq(Replies)
    BY <1>2, <1>3, <2>1, <2>3, AnswerIsReply, ReplyKeeps, SilentKeeps DEF Before
  <2> QED BY <2>5, <2>6 DEF Kept
<1>6. CASE dev.state # "ESTABLISHED"
  <2>1. NotCalled /\ (Reply(SynAck(dev)) \/ Reply(FinAck(dev))) BY <1>6 DEF Retransmit
  <2>2. toHost' \in Seq(Replies) BY <1>2, <2>1, AcksAreReplies, ReplyKeeps DEF Before
  <2> QED BY <1>3, <1>4, <2>1, <2>2, NotCalledKeeps DEF Before, Kept
<1> QED BY <1>5, <1>6

LEMMA GiveUpKeeps ==
  ASSUME Before, GiveUp
  PROVE  Kept
<1>1. dev.state # "CLOSED" BY DEF GiveUp
<1>2. Segment(dev.conn, "rst", dev.snd, <<>>, FALSE, dev.rcv) \in Replies
  <2>1. dev.conn \in Conns /\ dev.snd \in Nat /\ dev.rcv \in Nat BY <1>1, DevsConn, DevFields
  <2> QED BY <2>1, MereReply DEF Kinds
<1>3. toHost' \in Seq(Replies) BY <1>2, ReplyKeeps DEF GiveUp, Before
<1> QED BY <1>1, <1>3, ClosingKeeps DEF GiveUp, Before, Kept

LEMMA PollKeeps ==
  ASSUME Before, Poll
  PROVE  Kept
<1>1. dev.state = "ESTABLISHED" /\ CallAndSend(dev, {}, <<>>) BY DEF Poll
<1>2. dev \in Devs /\ dev.rcv \in Nat BY <1>1, DevsConn
<1>3. GoesOnAs(dev, {}, <<>>)
  <2>1. dev.rcv + Len(<<>>) <= dev.rcv BY <1>2, NoNewData
  <2> QED BY <1>1, <2>1 DEF GoesOnAs, Lives
<1> QED BY <1>1, <1>2, <1>3, NoNewData, CallAndSendKeeps DEF Before

LEMMA EndKeeps ==
  ASSUME Before, WaitEnds \/ StackInit
  PROVE  Kept
<1>1. dev' = Closed /\ NotCalled /\ Silent BY DEF WaitEnds, StackInit
<1> QED BY <1>1, ClosedType, NotCalledKeeps, SilentKeeps DEF Before, Kept

-----------------------------------------------------------------------------
(* The invariant. *)
LEMMA InitIInv == Init => IInv
<1> SUFFICES ASSUME Init PROVE IInv
  OBVIOUS
<1>1. \A S : <<>> \in Seq(S) BY EmptySeq
<1>2. /\ dev = Closed /\ ps = Fresh /\ toDev = <<>> /\ toHost = <<>>
      /\ handled = <<>> /\ answered = <<>>
      /\ host = [c \in Conns |-> NoSocket] /\ app = Idle
  BY DEF Init, DevInit, HostInit
<1>3. NetTypes BY <1>1, <1>2 DEF NetTypes
<1>4. HostSide BY <1>2, NoSocketIsSocket DEF HostSide, Clients, Idle
<1>5. Fresh \in Psocks /\ Fresh.rest = <<>> BY <1>1 DEF Fresh, Psock, Psocks, PsockAt
<1>6. DevSide BY <1>1, <1>2, <1>5, ClosedType DEF DevSide
<1>7. Streams
  <2>1. InOrder(<<>>) BY DEF InOrder
  <2>2. 1 .. Len(<<>>) = {} OBVIOUS
  <2>3. Behind(<<>>, <<>>, 0) BY <2>1, <2>2 DEF Behind
  <2> QED BY <1>2, <1>5, <2>1, <2>3, ClosedType DEF Streams
<1> QED BY <1>3, <1>4, <1>6, <1>7 DEF IInv

LEMMA DevStays ==
  ASSUME DevSide, Streams, UNCHANGED devVars
  PROVE  DevSide' /\ Streams'
BY DEF DevSide, Streams, devVars

LEMMA NextIInv == IInv /\ [Next]_vars => IInv'
<1> SUFFICES ASSUME IInv, [Next]_vars PROVE IInv'
  OBVIOUS
<1>1. NetTypes /\ HostSide /\ DevSide /\ Streams /\ Before BY DEF IInv, Before, NetTypes
<1>2. CASE DevReceive /\ HostSteps
  BY <1>1, <1>2, DevReceiveKeeps DEF IInv, HostSteps, HostSide, NetTypes, Kept
<1>3. CASE (Retransmit \/ GiveUp \/ Poll \/ WaitEnds \/ StackInit) /\ HostSteps
  <2>1. Kept BY <1>1, <1>3, RetransmitKeeps, GiveUpKeeps, PollKeeps, EndKeeps
  <2>2. UNCHANGED toDev BY <1>3 DEF Retransmit, GiveUp, Poll, WaitEnds, StackInit
  <2> QED BY <1>1, <1>3, <2>1, <2>2 DEF IInv, HostSteps, HostSide, NetTypes, Kept
<1>4. CASE HostReceive
  BY <1>1, <1>4, ReceiveKeeps, DevStays DEF IInv, HostReceive
<1>5. CASE Lose \/ HostCrash
  <2>1. UNCHANGED devVars BY <1>5 DEF Lose, HostCrash
  <2> QED BY <1>1, <1>5, <2>1, ClientKeeps, DevStays DEF IInv
<1>6. CASE \E c \in Conns : Transmit(c) \/ Resend(c) \/ HostAck(c) \/ HostForgets(c)
  <2>1. PICK c \in Conns : Transmit(c) \/ Resend(c) \/ HostAck(c) \/ HostForgets(c) BY <1>6
  <2>2. UNCHANGED devVars BY <2>1 DEF Transmit, Resend, HostAck, HostForgets, devVars
  <2> QED BY <1>1, <2>1, <2>2, KernelKeeps, DevStays DEF IInv
<1>7. CASE Open \/ TelnetCmd \/ PlayFrame \/ Quit \/ WaitFor \/ CloseConnection \/ Reconnect
  <2>1. UNCHANGED devVars
    BY <1>7 DEF Open, TelnetCmd, PlayFrame, Quit, Tell, WaitFor, CloseConnection, Reconnect, Close
  <2> QED BY <1>1, <1>7, <2>1, ClientKeeps, DevStays DEF IInv
<1>8. CASE UNCHANGED vars
  BY <1>1, <1>8 DEF IInv, vars, NetTypes, HostSide, DevSide, Streams
<1> QED BY <1>2, <1>3, <1>4, <1>5, <1>6, <1>7, <1>8 DEF Next

(* The types of both ends and of all that is under way; the lines of a segment bear the
   numbers of the stream, and the lines the clock keeps of a segment come after all it
   has handled and before all it will take. *)
THEOREM StreamInvariant == Spec => []IInv
<1> QED BY InitIInv, NextIInv, PTL DEF Spec

(* However segments are lost and repeated, on whatever number of connections and at
   whatever moment either side gives one up, handleCommand() gets no line twice and none
   before an earlier one, lines of stale bytes aside. *)
THEOREM LinesAreHandledOnce == Spec => []HandledOnce
<1>1. IInv => HandledOnce BY DEF IInv, Streams, HandledOnce
<1> QED BY <1>1, StreamInvariant, PTL
=============================================================================
