-------------------------- MODULE TelnetEndsProofs --------------------------
(***************************************************************************)
(* The two ends of a connection agree, for any number of connections,      *)
(* answers, losses and repetitions.                                        *)
(*                                                                         *)
(* What is under way on a connection was sent by one of its ends as it is  *)
(* or as it was (Sent, FromClock), and what an end knows of the other lags *)
(* behind by no more than what may still be repeated (GotSoFar).  A clock  *)
(* that lost the connection may be made to begin it again by a SYN that is *)
(* still under way; then nothing has been said on it (Begins).             *)
(*                                                                         *)
(* From there on, the answer that the client reads is the one to the line  *)
(* it has printed: lines and answers take turns (TurnInv).                 *)
(***************************************************************************)
EXTENDS TelnetHostProofs

(* Segments under way, whatever their order. *)
Segs(way) == {way[i] : i \in 1 .. Len(way)}

One(b)   == IF b THEN 1 ELSE 0
EndOf(s) == s.seq + Len(s.data) + One(s.fin)

Known(h) == h.state \in {"est", "fin", "wait"}
Alive(h) == h.state = "syn" \/ Known(h)
On(c)    == dev.state # "CLOSED" /\ dev.conn = c

(* Numbers of connections are taken in turn, and a socket that is not in use is empty. *)
Opened ==
  /\ \A s \in Segs(toDev) : s.conn <= app.opened
  /\ \A s \in Segs(toHost) : s.conn <= app.opened
  /\ dev.state # "CLOSED" => dev.conn <= app.opened
  /\ app.conn <= app.opened
  /\ \A c \in Conns : c > app.opened => host[c].state = "none"

Unused ==
  \A c \in Conns : ~Known(host[c]) => host[c] = [NoSocket EXCEPT !.state = host[c].state]

(* What the kernel of the client has sent on a connection: its SYNs first, then what it
   still has to repeat, and acknowledgements of what it has. *)
InStream(s, h) ==
  s.kind = "seg" /\ Known(h) /\ EndOf(s) <= h.una + h.flying /\ s.ack <= h.rcv

SynsFirst(c) ==
  \A i, j \in 1 .. Len(toDev) :
    i < j /\ toDev[i].conn = c /\ toDev[j].conn = c /\ toDev[j].kind = "syn" => toDev[i].kind = "syn"

SynsAreZero == \A s \in Segs(toDev) : s.kind = "syn" => s.seq = 0

Sent(c) ==
  Alive(host[c]) =>
    /\ \A s \in Segs(toDev) : s.conn = c => s.kind = "syn" \/ InStream(s, host[c])
    /\ SynsFirst(c)

(* As long as a SYN may still open it, neither side has got anything on a connection. *)
Early(c) ==
  \/ host[c].state = "syn"
  \/ On(c) /\ dev.state = "SYN_RCVD"
  \/ \E s \in Segs(toDev) : s.conn = c /\ s.kind = "syn"

SaysNothing(s) == s.data = <<>> /\ ~s.fin /\ s.ack <= 1

Begins(c) ==
  Alive(host[c]) /\ Early(c) =>
    /\ On(c) => dev.state = "SYN_RCVD"
    /\ Known(host[c]) => /\ host[c].una = 1 /\ host[c].rcv = 1
                         /\ host[c].got = <<>> /\ ~host[c].eof
    /\ \A s \in Segs(toHost) : s.conn = c /\ s.kind # "rst" => SaysNothing(s)

(* What the clock's numbers say of its answers: numbered are those that were sent. *)
FinSent  == dev.state # "ESTABLISHED"
NumberOf == dev.snd + dev.len - (IF FinSent THEN 2 ELSE 1)

DevNumbers ==
  /\ dev.state = "SYN_RCVD" => dev.rcv = 1 /\ dev.snd = 0 /\ dev.len = 1 /\ answered = <<>>
  /\ Lives(dev) => NumberOf \in Nat /\ NumberOf \in {Len(answered), Len(answered) - 1}
  /\ dev.state \in {"ESTABLISHED", "FIN_WAIT_1", "FIN_WAIT_2"} => NumberOf = Len(answered)
  /\ dev.state = "ESTABLISHED" =>
       IF ps.at = "read" THEN dev.len = 0
                         ELSE dev.len = 1 /\ NumberOf > 0 /\ ps.answer = answered[NumberOf]
  /\ dev.state \in {"FIN_WAIT_1", "CLOSING", "LAST_ACK"} => dev.len = 1
  /\ dev.state \in {"FIN_WAIT_2", "TIME_WAIT"} => dev.len = 0

(* What the clock has sent of them, and what the client has got. *)
FromClock(s) ==
  /\ s.ack <= dev.rcv
  /\ s.data # <<>> => s.seq \in 1 .. NumberOf /\ s.data = <<answered[s.seq]>> /\ ~s.fin
  /\ s.fin => FinSent /\ s.seq = NumberOf + 1

GotSoFar(h) ==
  /\ h.una <= dev.rcv /\ dev.rcv <= h.una + h.flying
  /\ dev.snd <= h.rcv /\ h.rcv <= dev.snd + dev.len
  /\ h.rcv = 1 + Len(h.got) + One(h.eof)
  /\ h.eof => FinSent /\ h.rcv = dev.snd + dev.len
  /\ Len(h.got) <= NumberOf /\ \A i \in 1 .. Len(h.got) : h.got[i] = answered[i]

Together(c) ==
  On(c) /\ Lives(dev) /\ Alive(host[c]) =>
    /\ Known(host[c]) /\ GotSoFar(host[c])
    /\ \A s \in Segs(toHost) : s.conn = c /\ s.kind # "rst" => FromClock(s)

Talk(c) == Sent(c) /\ Begins(c) /\ Together(c)

EndsInv == Opened /\ Unused /\ SynsAreZero /\ DevNumbers /\ \A c \in Conns : Talk(c)

-----------------------------------------------------------------------------
(* Ways. *)
LEMMA SegsOfTail ==
  ASSUME NEW S, NEW way \in Seq(S), way # <<>>
  PROVE  /\ Segs(Tail(way)) \subseteq Segs(way) /\ Head(way) \in Segs(way)
         /\ \A i \in 1 .. Len(Tail(way)) : Tail(way)[i] = way[i + 1] /\ i + 1 \in 1 .. Len(way)
<1>1. /\ Len(way) \in Nat /\ Len(way) >= 1 /\ Len(Tail(way)) = Len(way) - 1 /\ Head(way) = way[1]
      /\ \A i \in 1 .. Len(Tail(way)) : Tail(way)[i] = way[i + 1]
  BY HeadTailProperties, LenProperties
<1>2. \A i \in 1 .. Len(Tail(way)) : i + 1 \in 1 .. Len(way) BY <1>1
<1>3. 1 \in 1 .. Len(way) BY <1>1
<1> QED BY <1>1, <1>2, <1>3 DEF Segs

LEMMA SegsOfPut ==
  ASSUME NEW S, NEW way \in Seq(S), NEW s \in S
  PROVE  /\ Segs(Put(way, s)) \subseteq Segs(way) \cup {s}
         /\ \A i \in 1 .. Len(Put(way, s)) :
              \/ i \in 1 .. Len(way) /\ Put(way, s)[i] = way[i]
              \/ i = Len(way) + 1 /\ Put(way, s)[i] = s
<1>1. CASE Put(way, s) = way
  BY <1>1 DEF Segs
<1>2. CASE Put(way, s) = Append(way, s)
  <2>1. Len(way) \in Nat /\ Len(Append(way, s)) = Len(way) + 1 BY LenProperties
  <2>2. \A i \in 1 .. Len(Append(way, s)) :
          \/ i \in 1 .. Len(way) /\ Append(way, s)[i] = way[i]
          \/ i = Len(way) + 1 /\ Append(way, s)[i] = s
    BY <2>1
  <2> QED BY <1>2, <2>2 DEF Segs
<1> QED BY <1>1, <1>2 DEF Put

LEMMA SynsFirstTail ==
  ASSUME NetTypes, toDev # <<>>, toDev' = Tail(toDev), NEW c, SynsFirst(c)
  PROVE  /\ SynsFirst(c)'
         /\ Head(toDev).conn = c /\ Head(toDev).kind # "syn" =>
              \A s \in Segs(toDev') : s.conn = c => s.kind # "syn"
<1>1. /\ \A i \in 1 .. Len(toDev') : toDev'[i] = toDev[i + 1] /\ i + 1 \in 1 .. Len(toDev)
      /\ Head(toDev) = toDev[1] /\ 1 \in 1 .. Len(toDev)
  <2>1. toDev \in Seq(Requests) BY DEF NetTypes
  <2>2. Len(toDev) \in Nat /\ Len(toDev) >= 1 /\ Head(toDev) = toDev[1]
    BY <2>1, LenProperties, HeadTailProperties
  <2> QED BY <2>1, <2>2, SegsOfTail
<1>2. SynsFirst(c)'
  <2> SUFFICES ASSUME NEW i \in 1 .. Len(toDev'), NEW j \in 1 .. Len(toDev'), i < j,
                      toDev'[i].conn = c, toDev'[j].conn = c, toDev'[j].kind = "syn"
               PROVE  toDev'[i].kind = "syn"
    BY DEF SynsFirst
  <2>1. i + 1 < j + 1 OBVIOUS
  <2> QED BY <1>1, <2>1 DEF SynsFirst
<1>3. ASSUME Head(toDev).conn = c, Head(toDev).kind # "syn", NEW s \in Segs(toDev'), s.conn = c
      PROVE  s.kind # "syn"
  <2>1. PICK i \in 1 .. Len(toDev') : s = toDev'[i] BY <1>3 DEF Segs
  <2>2. 1 < i + 1 OBVIOUS
  <2> QED BY <1>1, <1>3, <2>1, <2>2 DEF SynsFirst
<1> QED BY <1>2, <1>3

LEMMA SynsFirstPut ==
  ASSUME NetTypes, NEW s \in Requests, toDev' = Put(toDev, s), NEW c, SynsFirst(c),
         s.conn # c \/ s.kind # "syn" \/ \A t \in Segs(toDev) : t.conn = c => t.kind = "syn"
  PROVE  SynsFirst(c)'
<1>1. \A i \in 1 .. Len(toDev') :
        \/ i \in 1 .. Len(toDev) /\ toDev'[i] = toDev[i]
        \/ i = Len(toDev) + 1 /\ toDev'[i] = s
  BY SegsOfPut DEF NetTypes
<1>2. Len(toDev) \in Nat BY LenProperties DEF NetTypes
<1> SUFFICES ASSUME NEW i \in 1 .. Len(toDev'), NEW j \in 1 .. Len(toDev'), i < j,
                    toDev'[i].conn = c, toDev'[j].conn = c, toDev'[j].kind = "syn"
             PROVE  toDev'[i].kind = "syn"
  BY DEF SynsFirst
<1>3. CASE j \in 1 .. Len(toDev) /\ toDev'[j] = toDev[j]
  <2>1. i \in 1 .. Len(toDev) /\ toDev'[i] = toDev[i] BY <1>1, <1>2, <1>3
  <2> QED BY <1>3, <2>1 DEF SynsFirst
<1>4. CASE j = Len(toDev) + 1 /\ toDev'[j] = s
  <2>1. i \in 1 .. Len(toDev) /\ toDev'[i] = toDev[i] BY <1>1, <1>2, <1>4
  <2>2. toDev[i] \in Segs(toDev) BY <2>1 DEF Segs
  <2> QED BY <1>4, <2>1, <2>2
<1> QED BY <1>1, <1>3, <1>4

(* A connection that a step does not touch: its socket and the clock's side are as they
   were, and of its segments none is new, resets excepted. *)
Fewer(c) ==
  /\ \/ toDev' = toDev
     \/ toDev # <<>> /\ toDev' = Tail(toDev)
     \/ \E s \in Requests : s.conn # c /\ toDev' = Put(toDev, s)
  /\ \A s \in Segs(toHost') : s.conn = c => s \in Segs(toHost) \/ s.kind = "rst"

LEMMA FewerSegs ==
  ASSUME NetTypes, NEW c, Fewer(c)
  PROVE  /\ \A s \in Segs(toDev') : s.conn = c => s \in Segs(toDev)
         /\ SynsFirst(c) => SynsFirst(c)'
<1>1. CASE toDev' = toDev BY <1>1 DEF SynsFirst
<1>2. CASE toDev # <<>> /\ toDev' = Tail(toDev)
  BY <1>2, SegsOfTail, SynsFirstTail DEF NetTypes
<1>3. CASE \E s \in Requests : s.conn # c /\ toDev' = Put(toDev, s)
  BY <1>3, SegsOfPut, SynsFirstPut DEF NetTypes
<1> QED BY <1>1, <1>2, <1>3 DEF Fewer

LEMMA OthersTalk ==
  ASSUME NetTypes, NEW c \in Conns, Talk(c), Fewer(c), host'[c] = host[c], UNCHANGED devVars
  PROVE  Talk(c)'
<1>1. /\ \A s \in Segs(toDev') : s.conn = c => s \in Segs(toDev)
      /\ SynsFirst(c) => SynsFirst(c)'
      /\ \A s \in Segs(toHost') : s.conn = c => s \in Segs(toHost) \/ s.kind = "rst"
  BY FewerSegs DEF Fewer
<1>2. Sent(c)' BY <1>1 DEF Talk, Sent
<1>3. Begins(c)' BY <1>1 DEF Talk, Begins, Early, On, devVars
<1>4. Together(c)'
  <2>1. On(c)' = On(c) /\ NumberOf' = NumberOf /\ FinSent' = FinSent /\ dev' = dev /\ answered' = answered
    BY DEF On, NumberOf, FinSent, devVars
  <2>2. \A s : FromClock(s)' <=> FromClock(s) BY <2>1 DEF FromClock
  <2>3. GotSoFar(host[c]) => GotSoFar(host[c])' BY <2>1 DEF GotSoFar
  <2> QED BY <1>1, <2>1, <2>2, <2>3 DEF Talk, Together
<1> QED BY <1>2, <1>3, <1>4 DEF Talk

LEMMA SegsTypes ==
  ASSUME NetTypes
  PROVE  Segs(toDev) \subseteq Requests /\ Segs(toHost) \subseteq Replies
<1>1. \A S : \A q \in Seq(S) : \A i \in 1 .. Len(q) : q[i] \in S BY ElementOfSeq
<1> QED BY <1>1 DEF NetTypes, Segs

LEMMA EndType ==
  ASSUME NEW s \in Requests
  PROVE  EndOf(s) \in Nat /\ s.ack \in Nat /\ s.seq \in Nat /\ Len(s.data) \in Nat
         /\ EndOf(s) = s.seq + Len(s.data) + One(s.fin) /\ One(s.fin) \in {0, 1}
<1>1. s.seq \in Nat /\ s.ack \in Nat /\ Len(s.data) \in Nat BY DEF Requests
<1>2. One(s.fin) \in {0, 1} BY DEF One
<1> QED BY <1>1, <1>2 DEF EndOf

(* A socket that goes on: it never takes back what it sent, and what it sends now is
   in its stream. *)
LEMMA KernelGoesOn ==
  ASSUME NetTypes, NEW c \in Conns, Talk(c), UNCHANGED devVars,
         host[c] \in Sockets, host'[c] \in Sockets, Known(host[c]), Known(host'[c]),
         \A s \in Segs(toHost') : s.conn = c => s \in Segs(toHost),
         \/ toDev' = toDev
         \/ \E s \in Requests : InStream(s, host'[c]) /\ toDev' = Put(toDev, s),
         host[c].una + host[c].flying <= host'[c].una + host'[c].flying,
         host[c].rcv <= host'[c].rcv,
         Early(c) => /\ host'[c].una = host[c].una /\ host'[c].rcv = host[c].rcv
                     /\ host'[c].got = host[c].got /\ host'[c].eof = host[c].eof,
         On(c) /\ Lives(dev) /\ GotSoFar(host[c]) => GotSoFar(host'[c])
  PROVE  Talk(c)'
<1>1. /\ \A s \in Segs(toDev') : s \in Segs(toDev) \/ (s.kind = "seg" /\ InStream(s, host'[c]))
      /\ SynsFirst(c) => SynsFirst(c)'
  <2>1. CASE toDev' = toDev BY <2>1 DEF SynsFirst
  <2>2. CASE \E s \in Requests : InStream(s, host'[c]) /\ toDev' = Put(toDev, s)
    <3>1. PICK s \in Requests : InStream(s, host'[c]) /\ toDev' = Put(toDev, s) BY <2>2
    <3>2. s.kind = "seg" BY <3>1 DEF InStream
    <3>3. Segs(toDev') \subseteq Segs(toDev) \cup {s} BY <3>1, SegsOfPut DEF NetTypes
    <3>4. SynsFirst(c) => SynsFirst(c)' BY <3>1, <3>2, SynsFirstPut
    <3> QED BY <3>1, <3>2, <3>3, <3>4
  <2> QED BY <2>1, <2>2
<1>2. Alive(host[c]) BY DEF Alive
<1>3. /\ host[c].una \in Nat /\ host[c].flying \in Nat /\ host[c].rcv \in Nat
      /\ host'[c].una \in Nat /\ host'[c].flying \in Nat /\ host'[c].rcv \in Nat
  BY SocketFields
<1>4. \A s \in Segs(toDev) : InStream(s, host[c]) => InStream(s, host'[c])
  <2> SUFFICES ASSUME NEW s \in Segs(toDev), InStream(s, host[c]) PROVE InStream(s, host'[c])
    OBVIOUS
  <2>1. EndOf(s) \in Nat /\ s.ack \in Nat BY EndType, SegsTypes
  <2> QED BY <1>3, <2>1 DEF InStream
<1>5. Sent(c)' BY <1>1, <1>2, <1>4 DEF Talk, Sent
<1>6. Begins(c)'
  <2>1. Early(c)' => Early(c) BY <1>1 DEF Early, On, Known, devVars
  <2> QED BY <1>2, <2>1 DEF Talk, Begins, On, devVars
<1>7. Together(c)'
  <2>1. On(c)' = On(c) /\ NumberOf' = NumberOf /\ FinSent' = FinSent /\ dev' = dev /\ answered' = answered
    BY DEF On, NumberOf, FinSent, devVars
  <2>2. \A s : FromClock(s)' <=> FromClock(s) BY <2>1 DEF FromClock
  <2>3. GotSoFar(host'[c]) => GotSoFar(host[c])' BY <2>1 DEF GotSoFar
  <2> QED BY <1>2, <2>1, <2>2, <2>3 DEF Talk, Together
<1> QED BY <1>5, <1>6, <1>7 DEF Talk

(* A socket that is no longer in use. *)
LEMMA SocketEnds ==
  ASSUME NEW c \in Conns, ~Alive(host'[c])
  PROVE  Talk(c)'
BY DEF Talk, Sent, Begins, Together

(* A connection that is being opened: what it sends are SYNs. *)
LEMMA SocketOpens ==
  ASSUME NetTypes, NEW c \in Conns, Talk(c), UNCHANGED devVars, host[c].state = "syn",
         \/ host'[c].state = "syn"
         \/ /\ host'[c].state = "est" /\ host'[c].una = 1 /\ host'[c].rcv = 1
            /\ host'[c].got = <<>> /\ ~host'[c].eof,
         \A s \in Segs(toHost') : s.conn = c => s \in Segs(toHost),
         \/ toDev' = toDev
         \/ \E s \in Requests : s.kind = "syn" /\ toDev' = Put(toDev, s)
  PROVE  Talk(c)'
<1>1. Alive(host[c]) /\ ~Known(host[c]) /\ Early(c) BY DEF Alive, Known, Early
<1>2. \A s \in Segs(toDev) : s.conn = c => s.kind = "syn" BY <1>1 DEF Talk, Sent, InStream
<1>3. On(c) => dev.state = "SYN_RCVD" BY <1>1 DEF Talk, Begins
<1>4. /\ \A s \in Segs(toDev') : s.conn = c => s.kind = "syn"
      /\ SynsFirst(c)'
  <2>1. SynsFirst(c) BY <1>1 DEF Talk, Sent
  <2>2. CASE toDev' = toDev BY <1>2, <2>1, <2>2 DEF SynsFirst
  <2>3. CASE \E s \in Requests : s.kind = "syn" /\ toDev' = Put(toDev, s)
    <3>1. PICK s \in Requests : s.kind = "syn" /\ toDev' = Put(toDev, s) BY <2>3
    <3>2. Segs(toDev') \subseteq Segs(toDev) \cup {s} BY <3>1, SegsOfPut DEF NetTypes
    <3>3. SynsFirst(c)' BY <1>2, <2>1, <3>1, SynsFirstPut
    <3> QED BY <1>2, <3>1, <3>2, <3>3
  <2> QED BY <2>2, <2>3
<1>5. Sent(c)' BY <1>4 DEF Sent
<1>6. Begins(c)' BY <1>1, <1>3 DEF Talk, Begins, On, Known, devVars
<1>7. Together(c)' BY <1>3 DEF Together, On, Lives, devVars
<1> QED BY <1>5, <1>6, <1>7 DEF Talk

-----------------------------------------------------------------------------
(* What the kernel sends. *)
LEMMA LinesAndEnd ==
  ASSUME NEW q \in Seq(Units)
  PROVE  Len(Lines(q)) + One(HasFin(q)) = Len(q)
<1>1. Len(q) \in Nat /\ DOMAIN q = 1 .. Len(q) OBVIOUS
<1>2. CASE HasFin(q)
  <2>1. Len(q) >= 1 BY <1>1, <1>2 DEF HasFin
  <2>2. Len(SubSeq(q, 1, Len(q) - 1)) = Len(q) - 1
    <3>1. Len(SubSeq(q, 1, Len(q) - 1)) = IF 1 <= Len(q) - 1 THEN Len(q) - 1 - 1 + 1 ELSE 0
      <4>1. \A i \in 1 .. Len(q) - 1 : q[i] \in Units
        <5>1. \A i \in 1 .. Len(q) - 1 : i \in 1 .. Len(q) BY <1>1
        <5> QED BY <5>1, ElementOfSeq
      <4>2. 1 \in Int /\ Len(q) - 1 \in Int BY <1>1
      <4> QED BY <4>1, <4>2, SubSeqProperties
    <3> QED BY <1>1, <2>1, <3>1
  <2> QED BY <1>1, <1>2, <2>1, <2>2 DEF Lines, Front, One
<1>3. CASE ~HasFin(q) BY <1>1, <1>3 DEF Lines, One
<1> QED BY <1>2, <1>3

(* Whatever it sends on a connection that is open is of its stream. *)
SendsInStream(c) ==
  \E s \in Requests, g \in Sockets :
    /\ Send(s) /\ SetHost(c, g) /\ s.conn = c /\ InStream(s, g)
    /\ Known(host[c]) /\ Known(g) /\ g.una = host[c].una /\ g.rcv = host[c].rcv
    /\ g.got = host[c].got /\ g.eof = host[c].eof /\ host[c].flying <= g.flying

LEMMA TransmitSends ==
  ASSUME HostSide, NEW c \in Conns, Transmit(c)
  PROVE  SendsInStream(c)
<1> DEFINE h == host[c]
           new == SubSeq(h.unacked, h.flying + 1, Len(h.unacked))
           s == Segment(c, "seg", h.una + h.flying, Lines(new), HasFin(new), h.rcv)
           g == [h EXCEPT !.flying = Len(h.unacked), !.due = FALSE]
<1>1. h \in Sockets BY DEF HostSide
<1>2. /\ h.state \in {"est", "fin"} /\ h.flying < Len(h.unacked) /\ Send(s) /\ SetHost(c, g)
  BY DEF Transmit
<1> HIDE DEF h
<1>3. /\ h.una + (h.flying + 1) - 1 = h.una + h.flying /\ h.flying + 1 \in Nat /\ h.flying + 1 >= 1
      /\ Len(h.unacked) <= Len(h.unacked) /\ Len(h.unacked) \in Nat
      /\ h.una \in Nat /\ h.flying \in Nat
  BY <1>1, SocketFields
<1>4. s \in Requests
  <2>1. HasFin(new) \in BOOLEAN BY DEF HasFin
  <2> HIDE DEF new
  <2>2. Segment(c, "seg", h.una + (h.flying + 1) - 1, Lines(new), HasFin(new), h.rcv) \in Requests
    BY <1>1, <1>3, <2>1, LinesSegment DEF new
  <2> QED BY <1>3, <2>2
<1>5. /\ g \in Sockets /\ g.state = h.state /\ g.una = h.una /\ g.rcv = h.rcv /\ g.got = h.got
      /\ g.eof = h.eof /\ g.flying = Len(h.unacked)
  <2>1. g \in SocketTypes BY <1>1, SocketFields DEF Sockets, SocketTypes
  <2>2. /\ g.state = h.state /\ g.una = h.una /\ g.rcv = h.rcv /\ g.got = h.got
        /\ g.eof = h.eof /\ g.flying = Len(h.unacked) /\ g.unacked = h.unacked
    BY <1>1 DEF Sockets, SocketTypes
  <2>3. g.flying <= Len(h.unacked) BY <1>3, <2>2
  <2> HIDE DEF g
  <2> QED BY <1>1, <2>1, <2>2, <2>3, SameLines
<1>6. EndOf(s) = h.una + Len(h.unacked)
  <2>1. new \in Seq(Units) /\ Len(new) = Len(h.unacked) - h.flying
    <3>1. \A i \in h.flying + 1 .. Len(h.unacked) : h.unacked[i] \in Units
      <4>1. \A i \in h.flying + 1 .. Len(h.unacked) : i \in 1 .. Len(h.unacked) BY <1>3
      <4> QED BY <1>1, <4>1, SocketFields, ElementOfSeq
    <3>2. /\ new \in Seq(Units)
          /\ Len(new) = IF h.flying + 1 <= Len(h.unacked) THEN Len(h.unacked) - (h.flying + 1) + 1 ELSE 0
      BY <1>1, <1>3, <3>1, SocketFields, SubSeqProperties
    <3> HIDE DEF new
    <3> QED BY <1>2, <1>3, <3>2
  <2> HIDE DEF new
  <2>2. Len(Lines(new)) + One(HasFin(new)) = Len(h.unacked) - h.flying BY <2>1, LinesAndEnd
  <2>3. s.seq = h.una + h.flying /\ s.data = Lines(new) /\ s.fin = HasFin(new) BY DEF Segment
  <2>4. EndOf(s) = h.una + h.flying + Len(Lines(new)) + One(HasFin(new))
    BY <2>3 DEF EndOf
  <2>5. Len(Lines(new)) \in Nat /\ One(HasFin(new)) \in Nat
    <3>1. Len(s.data) \in Nat BY <1>4, EndType
    <3> QED BY <2>3, <3>1 DEF One
  <2>6. PICK x \in Nat, o \in Nat : x = Len(Lines(new)) /\ o = One(HasFin(new)) BY <2>5
  <2> HIDE DEF s
  <2>7. x + o = Len(h.unacked) - h.flying BY <2>2, <2>6
  <2>8. EndOf(s) = h.una + h.flying + x + o BY <2>4, <2>6
  <2>9. PICK u \in Nat, f \in Nat, l \in Nat : u = h.una /\ f = h.flying /\ l = Len(h.unacked)
    BY <1>3
  <2>10. x + o = l - f /\ EndOf(s) = u + f + x + o BY <2>7, <2>8, <2>9
  <2>11. EndOf(s) = u + l BY <2>10
  <2> QED BY <2>9, <2>11
<1>7. s.conn = c /\ s.kind = "seg" /\ s.ack = h.rcv BY DEF Segment
<1> HIDE DEF s, g
<1>8. InStream(s, g)
  <2>1. Known(g) BY <1>2, <1>5 DEF Known
  <2>2. EndOf(s) <= g.una + g.flying /\ s.ack <= g.rcv BY <1>1, <1>5, <1>6, <1>7, SocketFields
  <2> QED BY <1>7, <2>1, <2>2 DEF InStream
<1>9. Known(h) /\ Known(g) /\ h.flying <= g.flying BY <1>1, <1>2, <1>5, SocketFields DEF Known
<1> QED BY <1>2, <1>4, <1>5, <1>7, <1>8, <1>9 DEF SendsInStream, h

LEMMA ResendSends ==
  ASSUME HostSide, NEW c \in Conns, Resend(c), host[c].state # "syn"
  PROVE  SendsInStream(c)
<1> DEFINE h == host[c]
           q == SubSeq(h.unacked, 1, h.flying)
           s == Segment(c, "seg", h.una, Lines(q), HasFin(q), h.rcv)
           g == [h EXCEPT !.due = FALSE]
<1>1. h \in Sockets BY DEF HostSide
<1>2. h.flying > 0 /\ Send(s) /\ SetHost(c, g) BY DEF Resend, Say
<1> HIDE DEF h
<1>3. h.una + 1 - 1 = h.una /\ h.flying \in Nat /\ h.flying <= Len(h.unacked)
  BY <1>1, SocketFields
<1>4. Known(h)
  <2>1. h.unacked # <<>>
    <3>1. Len(h.unacked) # 0 BY <1>1, <1>2, SocketFields
    <3> QED BY <3>1
  <2> QED BY <1>1, <2>1 DEF Sockets, Known
<1>5. s \in Requests
  <2>1. HasFin(q) \in BOOLEAN BY DEF HasFin
  <2> HIDE DEF q
  <2>2. Segment(c, "seg", h.una + 1 - 1, Lines(q), HasFin(q), h.rcv) \in Requests
    BY <1>1, <1>3, <2>1, LinesSegment DEF q
  <2> QED BY <1>3, <2>2
<1>6. /\ g \in Sockets /\ g.state = h.state /\ g.una = h.una /\ g.rcv = h.rcv /\ g.got = h.got
      /\ g.eof = h.eof /\ g.flying = h.flying
  <2>1. g \in SocketTypes BY <1>1 DEF Sockets, SocketTypes
  <2>2. /\ g.state = h.state /\ g.una = h.una /\ g.rcv = h.rcv /\ g.got = h.got
        /\ g.eof = h.eof /\ g.flying = h.flying /\ g.unacked = h.unacked
    BY <1>1 DEF Sockets, SocketTypes
  <2> HIDE DEF g
  <2> QED BY <1>1, <1>3, <2>1, <2>2, SameLines
<1>7. EndOf(s) = h.una + h.flying
  <2>1. q \in Seq(Units) /\ Len(q) = h.flying
    <3>1. \A i \in 1 .. h.flying : h.unacked[i] \in Units
      <4>1. \A i \in 1 .. h.flying : i \in 1 .. Len(h.unacked) BY <1>1, <1>3, SocketFields
      <4> QED BY <1>1, <4>1, SocketFields, ElementOfSeq
    <3>2. q \in Seq(Units) /\ Len(q) = IF 1 <= h.flying THEN h.flying - 1 + 1 ELSE 0
      BY <1>1, <1>3, <3>1, SocketFields, SubSeqProperties
    <3> HIDE DEF q
    <3> QED BY <1>2, <1>3, <3>2
  <2> HIDE DEF q
  <2>2. Len(Lines(q)) + One(HasFin(q)) = h.flying BY <2>1, LinesAndEnd
  <2>3. s.seq = h.una /\ s.data = Lines(q) /\ s.fin = HasFin(q) BY DEF Segment
  <2>4. EndOf(s) = h.una + Len(Lines(q)) + One(HasFin(q)) BY <2>3 DEF EndOf
  <2>5. Len(Lines(q)) \in Nat /\ One(HasFin(q)) \in Nat
    <3>1. Len(s.data) \in Nat BY <1>5, EndType
    <3> QED BY <2>3, <3>1 DEF One
  <2> QED BY <1>1, <2>2, <2>4, <2>5, SocketFields
<1>8. s.conn = c /\ s.kind = "seg" /\ s.ack = h.rcv BY DEF Segment
<1> HIDE DEF s, g
<1>9. Known(g) /\ h.flying <= g.flying BY <1>3, <1>4, <1>6 DEF Known
<1>10. InStream(s, g)
  <2>1. EndOf(s) <= g.una + g.flying /\ s.ack <= g.rcv BY <1>1, <1>6, <1>7, <1>8, SocketFields
  <2> QED BY <1>8, <1>9, <2>1 DEF InStream
<1> QED BY <1>2, <1>4, <1>5, <1>6, <1>8, <1>9, <1>10 DEF SendsInStream, h

LEMMA HostAckSends ==
  ASSUME HostSide, Unused, NEW c \in Conns, HostAck(c)
  PROVE  SendsInStream(c)
<1> DEFINE h == host[c]
           s == Segment(c, "seg", h.una + h.flying, <<>>, FALSE, h.rcv)
           g == [h EXCEPT !.due = FALSE]
<1>1. h \in Sockets BY DEF HostSide
<1>2. h.due /\ Send(s) /\ SetHost(c, g) BY DEF HostAck
<1>3. Known(h)
  <2>1. \A x : ~[NoSocket EXCEPT !.state = x].due BY DEF NoSocket
  <2> QED BY <1>2, <2>1 DEF Unused
<1> HIDE DEF h
<1>4. s \in Requests
  <2>1. h.una + h.flying \in Nat /\ h.rcv \in Nat BY <1>1, SocketFields
  <2> QED BY <2>1, MereSegment DEF Kinds
<1>5. /\ g \in Sockets /\ g.state = h.state /\ g.una = h.una /\ g.rcv = h.rcv /\ g.got = h.got
      /\ g.eof = h.eof /\ g.flying = h.flying
  <2>1. g \in SocketTypes BY <1>1 DEF Sockets, SocketTypes
  <2>2. /\ g.state = h.state /\ g.una = h.una /\ g.rcv = h.rcv /\ g.got = h.got
        /\ g.eof = h.eof /\ g.flying = h.flying /\ g.unacked = h.unacked
    BY <1>1 DEF Sockets, SocketTypes
  <2> HIDE DEF g
  <2> QED BY <1>1, <2>1, <2>2, SameLines, SocketFields
<1>6. s.conn = c /\ s.kind = "seg" /\ s.ack = h.rcv /\ s.seq = h.una + h.flying /\ s.data = <<>> /\ ~s.fin
  BY DEF Segment
<1> HIDE DEF s, g
<1>7. EndOf(s) = h.una + h.flying
  <2>1. Len(s.data) = 0 /\ One(s.fin) = 0 BY <1>6 DEF One
  <2> QED BY <1>1, <1>6, <2>1, SocketFields DEF EndOf
<1>8. Known(g) /\ h.flying <= g.flying BY <1>1, <1>3, <1>5, SocketFields DEF Known
<1>9. InStream(s, g)
  <2>1. EndOf(s) <= g.una + g.flying /\ s.ack <= g.rcv BY <1>1, <1>5, <1>6, <1>7, SocketFields
  <2> QED BY <1>6, <1>8, <2>1 DEF InStream
<1> QED BY <1>2, <1>3, <1>4, <1>5, <1>6, <1>8, <1>9 DEF SendsInStream, h

-----------------------------------------------------------------------------
(* The steps of the client's side, each on one connection. *)
OpenedGrows ==
  app'.opened \in Nat /\ app.opened <= app'.opened /\ app'.conn <= app'.opened

SocketIsSet(c, g) ==
  /\ SetHost(c, g) /\ c <= app'.opened
  /\ ~Known(g) => g = [NoSocket EXCEPT !.state = g.state]

LEMMA HostSegs ==
  ASSUME NetTypes, toHost' = toHost \/ (toHost # <<>> /\ toHost' = Tail(toHost))
  PROVE  Segs(toHost') \subseteq Segs(toHost)
BY SegsOfTail DEF NetTypes

LEMMA HostStepAgrees ==
  ASSUME NetTypes, HostSide, DevSide, EndsInv, UNCHANGED devVars, OpenedGrows,
         NEW c \in Conns, NEW g \in Sockets, SocketIsSet(c, g),
         \/ toDev' = toDev
         \/ \E s \in Requests : /\ s.conn = c /\ (s.kind = "syn" => s.seq = 0)
                                /\ toDev' = Put(toDev, s),
         toHost' = toHost \/ (toHost # <<>> /\ toHost' = Tail(toHost)),
         Talk(c)'
  PROVE  EndsInv'
<1>1. /\ host'[c] = g /\ \A d \in Conns : d # c => host'[d] = host[d]
      /\ c <= app'.opened /\ (~Known(g) => g = [NoSocket EXCEPT !.state = g.state])
  BY DEF SocketIsSet, SetHost, HostSide
<1>2. \A s \in Segs(toDev') : \/ s \in Segs(toDev)
                              \/ s.conn = c /\ (s.kind = "syn" => s.seq = 0)
  <2>1. CASE toDev' = toDev BY <2>1
  <2>2. CASE toDev' # toDev
    <3>1. PICK s \in Requests : s.conn = c /\ (s.kind = "syn" => s.seq = 0) /\ toDev' = Put(toDev, s)
      BY <2>2
    <3> QED BY <3>1, SegsOfPut DEF NetTypes
  <2> QED BY <2>1, <2>2
<1>3. Segs(toHost') \subseteq Segs(toHost) BY HostSegs
<1>4. /\ app.opened \in Nat /\ app'.opened \in Nat /\ app.opened <= app'.opened /\ app'.conn <= app'.opened
      /\ Conns \subseteq Nat
  BY TcpAssumption DEF HostSide, Clients, OpenedGrows
<1>5. Opened'
  <2>1. \A s \in Segs(toDev') : s.conn <= app'.opened
    <3> SUFFICES ASSUME NEW s \in Segs(toDev') PROVE s.conn <= app'.opened
      OBVIOUS
    <3>1. CASE s \in Segs(toDev)
      <4>1. s.conn <= app.opened /\ s.conn \in Conns BY <3>1, SegsTypes DEF EndsInv, Opened, Requests
      <4>2. s.conn \in Nat BY <1>4, <4>1
      <4> QED BY <1>4, <4>1, <4>2
    <3>2. CASE s.conn = c BY <1>1, <3>2
    <3> QED BY <1>2, <3>1, <3>2
  <2>2. \A s \in Segs(toHost') : s.conn <= app'.opened
    <3> SUFFICES ASSUME NEW s \in Segs(toHost') PROVE s.conn <= app'.opened
      OBVIOUS
    <3>1. s.conn <= app.opened /\ s.conn \in Conns BY <1>3, SegsTypes DEF EndsInv, Opened, Replies
    <3>2. s.conn \in Nat BY <1>4, <3>1
    <3> QED BY <1>4, <3>1, <3>2
  <2>3. dev'.state # "CLOSED" => dev'.conn <= app'.opened
    <3> HAVE dev'.state # "CLOSED"
    <3>1. dev' = dev /\ dev.conn <= app.opened BY DEF EndsInv, Opened, devVars
    <3>2. dev.conn \in Nat BY <1>4, <3>1, DevFields DEF DevSide
    <3> QED BY <1>4, <3>1, <3>2
  <2>4. \A d \in Conns : d > app'.opened => host'[d].state = "none"
    <3> SUFFICES ASSUME NEW d \in Conns, d > app'.opened PROVE host'[d].state = "none"
      OBVIOUS
    <3>1. d \in Nat /\ c \in Nat /\ d # c /\ d > app.opened BY <1>1, <1>4
    <3> QED BY <1>1, <3>1 DEF EndsInv, Opened
  <2> QED BY <1>4, <2>1, <2>2, <2>3, <2>4 DEF Opened
<1>6. Unused'
  <2> SUFFICES ASSUME NEW d \in Conns, ~Known(host'[d])
               PROVE  host'[d] = [NoSocket EXCEPT !.state = host'[d].state]
    BY DEF Unused, Known
  <2> QED BY <1>1 DEF EndsInv, Unused
<1>7. SynsAreZero' BY <1>2 DEF EndsInv, SynsAreZero
<1>8. DevNumbers'
  <2>1. DevNumbers BY DEF EndsInv
  <2>2. NumberOf' = NumberOf /\ dev' = dev /\ ps' = ps /\ answered' = answered
    BY DEF NumberOf, FinSent, devVars
  <2> QED BY <2>1, <2>2 DEF DevNumbers
<1>9. \A d \in Conns : Talk(d)'
  <2> SUFFICES ASSUME NEW d \in Conns, d # c PROVE Talk(d)'
    OBVIOUS
  <2>1. Fewer(d)
    <3>1. \/ toDev' = toDev
          \/ \E s \in Requests : s.conn # d /\ toDev' = Put(toDev, s)
      OBVIOUS
    <3> QED BY <1>3, <3>1 DEF Fewer
  <2> QED BY <1>1, <2>1, OthersTalk DEF EndsInv
<1> QED BY <1>5, <1>6, <1>7, <1>8, <1>9 DEF EndsInv

LEMMA SameClient ==
  ASSUME HostSide, EndsInv, UNCHANGED app
  PROVE  OpenedGrows
BY DEF HostSide, Clients, EndsInv, Opened, OpenedGrows

LEMMA UsedIsOpened ==
  ASSUME HostSide, EndsInv, OpenedGrows, NEW c \in Conns, host[c].state # "none"
  PROVE  c <= app'.opened
<1>1. ~(c > app.opened) BY DEF EndsInv, Opened
<1>2. c \in Nat /\ app.opened \in Nat /\ app'.opened \in Nat /\ app.opened <= app'.opened
  BY TcpAssumption DEF HostSide, Clients, OpenedGrows
<1> QED BY <1>1, <1>2

LEMMA SocketSet ==
  ASSUME HostSide, NEW c \in Conns, NEW g, SetHost(c, g)
  PROVE  host'[c] = g
BY DEF HostSide, SetHost

(* The part of a socket that GotSoFar is about, except for what is under way. *)
LEMMA StillGot ==
  ASSUME DevSide, NEW h \in Sockets, NEW g \in Sockets, g.una = h.una, g.rcv = h.rcv, g.got = h.got,
         g.eof = h.eof, h.flying <= g.flying
  PROVE  GotSoFar(h) => GotSoFar(g)
<1>1. /\ h.una \in Nat /\ h.flying \in Nat /\ g.flying \in Nat
  BY SocketFields
<1>2. dev.rcv \in Nat BY DevFields DEF DevSide
<1>3. dev.rcv <= h.una + h.flying => dev.rcv <= h.una + g.flying BY <1>1, <1>2
<1> QED BY <1>3 DEF GotSoFar

LEMMA SendingAgrees ==
  ASSUME NetTypes, HostSide, DevSide, EndsInv, NEW c \in Conns, SendsInStream(c),
         UNCHANGED <<toHost, app, devVars>>
  PROVE  EndsInv'
<1>1. PICK s \in Requests, g \in Sockets :
        /\ Send(s) /\ SetHost(c, g) /\ s.conn = c /\ InStream(s, g)
        /\ Known(host[c]) /\ Known(g) /\ g.una = host[c].una /\ g.rcv = host[c].rcv
        /\ g.got = host[c].got /\ g.eof = host[c].eof /\ host[c].flying <= g.flying
  BY DEF SendsInStream
<1>2. OpenedGrows BY SameClient
<1>3. host'[c] = g /\ host[c] \in Sockets BY <1>1, SocketSet DEF HostSide
<1>4. host[c].una + host[c].flying <= g.una + g.flying /\ host[c].rcv <= g.rcv
  <2>1. /\ host[c].una \in Nat /\ host[c].flying \in Nat /\ g.flying \in Nat /\ host[c].rcv \in Nat
    BY <1>3, SocketFields
  <2> QED BY <1>1, <2>1
<1>5. toDev' = Put(toDev, s) /\ s.kind = "seg" BY <1>1 DEF Send, InStream
<1>6. Talk(c)'
  <2>1. GotSoFar(host[c]) => GotSoFar(host'[c]) BY <1>1, <1>3, StillGot
  <2>2. \E r \in Requests : InStream(r, host'[c]) /\ toDev' = Put(toDev, r) BY <1>1, <1>3, <1>5
  <2>3. /\ host'[c].una = host[c].una /\ host'[c].rcv = host[c].rcv
        /\ host'[c].got = host[c].got /\ host'[c].eof = host[c].eof
        /\ host[c].una + host[c].flying <= host'[c].una + host'[c].flying
        /\ host[c].rcv <= host'[c].rcv /\ host'[c] \in Sockets /\ Known(host'[c])
    BY <1>1, <1>3, <1>4
  <2>4. Talk(c) BY DEF EndsInv
  <2> QED BY <1>1, <1>3, <2>1, <2>2, <2>3, <2>4, KernelGoesOn
<1>7. SocketIsSet(c, g)
  <2>1. c <= app'.opened BY <1>1, <1>2, UsedIsOpened DEF Known
  <2> QED BY <1>1, <2>1 DEF SocketIsSet
<1>8. \E r \in Requests : /\ r.conn = c /\ (r.kind = "syn" => r.seq = 0)
                          /\ toDev' = Put(toDev, r)
  BY <1>1, <1>5
<1> QED BY <1>1, <1>2, <1>6, <1>7, <1>8, HostStepAgrees

LEMMA KernelAgrees ==
  ASSUME NetTypes, HostSide, DevSide, EndsInv, NEW c \in Conns,
         Transmit(c) \/ Resend(c) \/ HostAck(c) \/ HostForgets(c)
  PROVE  EndsInv'
<1>1. /\ UNCHANGED <<toHost, app, devVars>>
      /\ OpenedGrows
  BY SameClient DEF Transmit, Resend, HostAck, HostForgets
<1>2. CASE Transmit(c) \/ (Resend(c) /\ host[c].state # "syn") \/ HostAck(c)
  <2>1. SendsInStream(c) BY <1>2, TransmitSends, ResendSends, HostAckSends DEF EndsInv
  <2> QED BY <1>1, <2>1, SendingAgrees
<1>3. CASE Resend(c) /\ host[c].state = "syn"
  <2> DEFINE h == host[c]
             s == Say(h, c, "syn", <<>>, FALSE)
             g == [h EXCEPT !.due = FALSE]
  <2>1. Send(s) /\ SetHost(c, g) BY <1>3 DEF Resend
  <2>2. h = [NoSocket EXCEPT !.state = "syn"] BY <1>3 DEF EndsInv, Unused, Known
  <2>3. g = [NoSocket EXCEPT !.state = "syn"] /\ s = Segment(c, "syn", 0, <<>>, FALSE, 0)
    BY <2>2 DEF NoSocket, Say
  <2> HIDE DEF s, g
  <2>4. g \in Sockets /\ g.state = "syn" /\ s \in Requests /\ s.kind = "syn" /\ s.seq = 0 /\ s.conn = c
    <3>1. g \in Sockets BY <2>3, NoSocketType DEF HostStates
    <3>2. s \in Requests BY <2>3, MereSegment DEF Kinds
    <3> QED BY <2>3, <3>1, <3>2 DEF NoSocket, Segment
  <2>5. host'[c] = g /\ toDev' = Put(toDev, s) BY <2>1, SocketSet DEF Send
  <2>6. Talk(c)'
    <3>1. Talk(c) BY DEF EndsInv
    <3>2. \E r \in Requests : r.kind = "syn" /\ toDev' = Put(toDev, r) BY <2>4, <2>5
    <3>3. host'[c].state = "syn" BY <2>4, <2>5
    <3> QED BY <1>1, <1>3, <3>1, <3>2, <3>3, SocketOpens
  <2>7. SocketIsSet(c, g)
    <3>1. c <= app'.opened BY <1>1, <1>3, UsedIsOpened
    <3> QED BY <2>1, <2>3, <2>4, <3>1 DEF SocketIsSet
  <2> QED BY <1>1, <2>4, <2>5, <2>6, <2>7, HostStepAgrees
<1>4. CASE HostForgets(c)
  <2>1. SetHost(c, NoSocket) /\ toDev' = toDev /\ host[c].state # "none" BY <1>4 DEF HostForgets
  <2>2. host'[c] = NoSocket BY <2>1, SocketSet
  <2>3. ~Alive(NoSocket) /\ NoSocket = [NoSocket EXCEPT !.state = NoSocket.state]
    BY DEF Alive, Known, NoSocket
  <2>4. SocketIsSet(c, NoSocket) BY <1>1, <2>1, <2>3, UsedIsOpened DEF SocketIsSet
  <2>5. Talk(c)' BY <2>2, <2>3, SocketEnds
  <2> QED BY <1>1, <2>1, <2>4, <2>5, NoSocketIsSocket, HostStepAgrees
<1> QED BY <1>2, <1>3, <1>4

(* Segments that are lost, or taken without any effect. *)
LEMMA LosingAgrees ==
  ASSUME NetTypes, HostSide, DevSide, EndsInv, UNCHANGED <<host, app, devVars>>,
         toDev' = toDev \/ (toDev # <<>> /\ toDev' = Tail(toDev)),
         toHost' = toHost \/ (toHost # <<>> /\ toHost' = Tail(toHost))
  PROVE  EndsInv'
<1>1. Segs(toDev') \subseteq Segs(toDev) BY SegsOfTail DEF NetTypes
<1>2. Segs(toHost') \subseteq Segs(toHost) BY HostSegs
<1>3. Opened' /\ Unused' /\ SynsAreZero'
  BY <1>1, <1>2 DEF EndsInv, Opened, Unused, SynsAreZero, Known, devVars
<1>4. DevNumbers'
  <2>1. NumberOf' = NumberOf /\ dev' = dev /\ ps' = ps /\ answered' = answered
    BY DEF NumberOf, FinSent, devVars
  <2> QED BY <2>1 DEF EndsInv, DevNumbers
<1>5. \A c \in Conns : Talk(c)'
  <2> SUFFICES ASSUME NEW c \in Conns PROVE Talk(c)'
    OBVIOUS
  <2>1. Fewer(c) BY <1>2 DEF Fewer
  <2> QED BY <2>1, OthersTalk DEF EndsInv
<1> QED BY <1>3, <1>4, <1>5 DEF EndsInv

LEMMA CrashAgrees ==
  ASSUME NetTypes, HostSide, DevSide, EndsInv, HostCrash
  PROVE  EndsInv'
<1>1. /\ host' = [c \in Conns |-> NoSocket] /\ app' = [Idle EXCEPT !.opened = app.opened]
      /\ UNCHANGED <<toDev, toHost, devVars>>
  BY DEF HostCrash
<1>2. app'.opened = app.opened /\ app'.conn = 0 /\ app.opened \in Nat
  BY <1>1 DEF Idle, HostSide, Clients
<1>3. \A c \in Conns : ~Alive(host'[c]) /\ host'[c].state = "none"
                       /\ host'[c] = [NoSocket EXCEPT !.state = host'[c].state]
  BY <1>1 DEF Alive, Known, NoSocket
<1>4. Opened' BY <1>1, <1>2, <1>3 DEF EndsInv, Opened, devVars
<1>5. Unused' /\ SynsAreZero' BY <1>1, <1>3 DEF EndsInv, Unused, SynsAreZero
<1>6. DevNumbers'
  <2>1. NumberOf' = NumberOf /\ dev' = dev /\ ps' = ps /\ answered' = answered
    BY <1>1 DEF NumberOf, FinSent, devVars
  <2> QED BY <2>1 DEF EndsInv, DevNumbers
<1>7. \A c \in Conns : Talk(c)' BY <1>3, SocketEnds
<1> QED BY <1>4, <1>5, <1>6, <1>7 DEF EndsInv

(* Steps of the client that leave what has passed between the two ends alone. *)
LEMMA WritingAgrees ==
  ASSUME NetTypes, HostSide, HostSide', DevSide, EndsInv, UNCHANGED <<toDev, toHost, devVars>>,
         OpenedGrows, NEW c \in Conns, NEW g, SetHost(c, g), Known(host[c]), Known(g),
         g.una = host[c].una, g.rcv = host[c].rcv, g.got = host[c].got, g.eof = host[c].eof,
         host[c].flying = g.flying
  PROVE  EndsInv'
<1>1. host'[c] = g /\ host[c] \in Sockets /\ g \in Sockets
  BY SocketSet DEF HostSide
<1>2. /\ host[c].una + host[c].flying <= g.una + g.flying /\ host[c].rcv <= g.rcv
      /\ host[c].flying <= g.flying
  <2>1. host[c].una \in Nat /\ host[c].flying \in Nat /\ host[c].rcv \in Nat
    BY <1>1, SocketFields
  <2> QED BY <2>1
<1>3. GotSoFar(host[c]) => GotSoFar(g) BY <1>1, <1>2, StillGot
<1>4. Talk(c)'
  <2>1. Talk(c) BY DEF EndsInv
  <2> QED BY <1>1, <1>2, <1>3, <2>1, KernelGoesOn
<1>5. c <= app'.opened BY UsedIsOpened DEF Known
<1> QED BY <1>1, <1>4, <1>5, HostStepAgrees DEF SocketIsSet

LEMMA EndingAgrees ==
  ASSUME NetTypes, HostSide, DevSide, EndsInv, UNCHANGED devVars,
         toHost' = toHost \/ (toHost # <<>> /\ toHost' = Tail(toHost)),
         OpenedGrows, NEW c \in Conns, c <= app'.opened,
         NEW state \in {"none", "reset"}, SetHost(c, [NoSocket EXCEPT !.state = state]),
         \/ toDev' = toDev
         \/ \E s \in Requests : s.conn = c /\ s.kind = "rst" /\ toDev' = Put(toDev, s)
  PROVE  EndsInv'
<1> DEFINE g == [NoSocket EXCEPT !.state = state]
<1>1. g \in Sockets BY NoSocketType DEF HostStates
<1>2. ~Alive(g) /\ ~Known(g) /\ g.state = state BY DEF NoSocket, Alive, Known
<1>3. SocketIsSet(c, g) BY <1>2 DEF SocketIsSet
<1>4. host'[c] = g BY SocketSet
<1> HIDE DEF g
<1>5. Talk(c)' BY <1>2, <1>4, SocketEnds
<1>6. \/ toDev' = toDev
      \/ \E s \in Requests : /\ s.conn = c /\ (s.kind = "syn" => s.seq = 0)
                             /\ toDev' = Put(toDev, s)
  OBVIOUS
<1> QED BY <1>1, <1>3, <1>5, <1>6, HostStepAgrees

LEMMA CloseAgrees ==
  ASSUME NetTypes, HostSide, HostSide', DevSide, EndsInv, app.conn # 0, Close
  PROVE  EndsInv'
<1>1. PICK c \in Conns : c = app.conn BY DEF HostSide, Clients
<1> DEFINE h == host[c]
           s == Segment(c, "rst", h.una + h.flying, <<>>, FALSE, h.rcv)
           g == [h EXCEPT !.state = "fin", !.unacked = Append(@, FinMark)]
<1>2. h \in Sockets /\ app.opened \in Nat BY DEF HostSide, Clients
<1>3. /\ app' = [Idle EXCEPT !.opened = app.opened]
      /\ UNCHANGED <<toHost, devVars>>
  BY DEF Close
<1>4. app'.opened = app.opened /\ app'.conn = 0 BY <1>3 DEF Idle
<1>5. OpenedGrows /\ c <= app'.opened
  BY <1>1, <1>2, <1>4 DEF OpenedGrows, EndsInv, Opened
<1>6. CASE h.state = "est" /\ h.inbox = <<>>
  <2>1. SetHost(c, g) /\ UNCHANGED toDev BY <1>1, <1>6 DEF Close
  <2>2. /\ g.una = h.una /\ g.rcv = h.rcv /\ g.got = h.got /\ g.eof = h.eof /\ h.flying = g.flying
        /\ g.state = "fin"
    BY <1>2 DEF Sockets, SocketTypes
  <2>3. Known(h) /\ Known(g) BY <1>6, <2>2 DEF Known
  <2> HIDE DEF g
  <2> QED BY <1>1, <1>3, <1>5, <2>1, <2>2, <2>3, WritingAgrees
<1>7. CASE ~(h.state = "est" /\ h.inbox = <<>>)
  <2>1. SetHost(c, NoSocket) /\ (Send(s) \/ UNCHANGED toDev) BY <1>1, <1>7 DEF Close
  <2>2. s \in Requests /\ s.conn = c /\ s.kind = "rst"
    <3>1. h.una + h.flying \in Nat /\ h.rcv \in Nat BY <1>2, SocketFields
    <3>2. s \in Requests BY <3>1, MereSegment DEF Kinds
    <3> QED BY <3>2 DEF Segment
  <2> HIDE DEF s
  <2>3. \/ toDev' = toDev
        \/ \E r \in Requests : r.conn = c /\ r.kind = "rst" /\ toDev' = Put(toDev, r)
    BY <2>1, <2>2 DEF Send
  <2>4. NoSocket = [NoSocket EXCEPT !.state = "none"] BY DEF NoSocket
  <2> QED BY <1>1, <1>3, <1>5, <2>1, <2>3, <2>4, EndingAgrees
<1> QED BY <1>6, <1>7

LEMMA OpenAgrees ==
  ASSUME NetTypes, HostSide, DevSide, EndsInv, Open
  PROVE  EndsInv'
<1>1. PICK c \in Conns : c = app.opened + 1
  BY DEF Open
<1> DEFINE g == [NoSocket EXCEPT !.state = "syn"]
           s == Say(NoSocket, c, "syn", <<>>, FALSE)
<1>2. /\ app' = [Idle EXCEPT !.conn = c, !.opened = c] /\ SetHost(c, g) /\ toDev' = Put(toDev, s)
      /\ UNCHANGED <<toHost, devVars>>
  BY <1>1 DEF Open, Send
<1>3. s \in Requests /\ s.conn = c /\ s.kind = "syn" /\ s.seq = 0
  <2>1. s = Segment(c, "syn", 0, <<>>, FALSE, 0) BY DEF Say, NoSocket
  <2>2. s \in Requests BY <2>1, MereSegment DEF Kinds
  <2> HIDE DEF s
  <2> QED BY <2>1, <2>2 DEF Segment
<1> HIDE DEF s
<1>4. g \in Sockets /\ g.state = "syn" /\ ~Known(g) /\ g = [NoSocket EXCEPT !.state = g.state]
  <2>1. g \in Sockets BY NoSocketType DEF HostStates
  <2> QED BY <2>1 DEF NoSocket, Known
<1> HIDE DEF g
<1>5. c \in Nat /\ app.opened \in Nat /\ app.opened < c
  <2>1. c \in Nat /\ app.opened \in Nat BY TcpAssumption DEF HostSide, Clients
  <2> QED BY <1>1, <2>1
<1>6. OpenedGrows /\ c <= app'.opened
  <2>1. app'.opened = c /\ app'.conn = c BY <1>2 DEF Idle
  <2> QED BY <1>5, <2>1 DEF OpenedGrows
<1>7. SocketIsSet(c, g) BY <1>2, <1>4, <1>6 DEF SocketIsSet
<1>8. host'[c] = g BY <1>2, SocketSet
<1>9. /\ \A r \in Segs(toDev) : r.conn # c
      /\ \A r \in Segs(toHost) : r.conn # c
      /\ ~On(c)
  <2>1. ~(c <= app.opened) BY <1>5
  <2> QED BY <2>1 DEF EndsInv, Opened, On
<1>10. \A r \in Segs(toDev') : r.conn = c => r = s
  BY <1>2, <1>3, <1>9, SegsOfPut DEF NetTypes
<1>11. SynsFirst(c)'
  <2>1. SynsFirst(c) BY <1>9 DEF SynsFirst, Segs
  <2> QED BY <1>2, <1>3, <1>9, <2>1, SynsFirstPut
<1>12. ~On(c)' BY <1>2, <1>9 DEF On, devVars
<1>13. Talk(c)'
  <2>1. Sent(c)' BY <1>3, <1>10, <1>11 DEF Sent
  <2>2. Begins(c)' BY <1>2, <1>4, <1>8, <1>9, <1>12 DEF Begins, Known
  <2>3. Together(c)' BY <1>12 DEF Together
  <2> QED BY <2>1, <2>2, <2>3 DEF Talk
<1> QED BY <1>2, <1>3, <1>4, <1>6, <1>7, <1>13, HostStepAgrees

LEMMA ClientAgrees ==
  ASSUME NetTypes, HostSide, HostSide', DevSide, EndsInv,
         \/ Lose \/ HostCrash \/ Open \/ TelnetCmd \/ PlayFrame \/ Quit \/ WaitFor
         \/ CloseConnection \/ Reconnect
  PROVE  EndsInv'
<1>1. CASE Lose BY <1>1, LosingAgrees DEF Lose
<1>2. CASE HostCrash BY <1>2, CrashAgrees
<1>3. CASE Open BY <1>3, OpenAgrees
<1>4. CASE TelnetCmd \/ PlayFrame \/ Quit
  <2>1. PICK lines : Tell(lines) BY <1>4 DEF TelnetCmd, PlayFrame, Quit
  <2> DEFINE c == app.conn
             h == host[c]
             g == [h EXCEPT !.unacked = @ \o lines]
  <2>2. c \in Conns /\ Sock = h /\ h.state = "est" /\ SetHost(c, g) /\ UNCHANGED <<toDev, toHost, devVars>>
    BY <2>1 DEF Tell, Sock, HostSide, Clients
  <2>3. h \in Sockets BY <2>2 DEF HostSide
  <2>4. /\ g.una = h.una /\ g.rcv = h.rcv /\ g.got = h.got /\ g.eof = h.eof /\ h.flying = g.flying
        /\ g.state = "est"
    BY <2>2, <2>3 DEF Sockets, SocketTypes
  <2>5. Known(h) /\ Known(g) BY <2>2, <2>4 DEF Known
  <2>6. OpenedGrows
    <3>1. app'.opened = app.opened /\ app'.conn = app.conn BY <2>1 DEF Tell, HostSide, Clients
    <3> QED BY <3>1 DEF OpenedGrows, HostSide, Clients, EndsInv, Opened
  <2> HIDE DEF g
  <2> QED BY <2>2, <2>4, <2>5, <2>6, WritingAgrees
<1>5. CASE WaitFor
  <2> DEFINE c == app.conn
             h == host[c]
             g == [h EXCEPT !.inbox = Tail(@)]
  <2>1. c \in Conns /\ h.inbox # <<>> /\ SetHost(c, g) /\ UNCHANGED <<toDev, toHost, devVars>>
    BY <1>5 DEF WaitFor, Sock, HostSide, Clients
  <2>2. h \in Sockets BY <2>1 DEF HostSide
  <2>3. Known(h)
    <3>1. \A x : [NoSocket EXCEPT !.state = x].inbox = <<>> BY DEF NoSocket
    <3> QED BY <2>1, <3>1 DEF EndsInv, Unused
  <2>4. /\ g.una = h.una /\ g.rcv = h.rcv /\ g.got = h.got /\ g.eof = h.eof /\ h.flying = g.flying
        /\ g.state = h.state
    BY <2>2 DEF Sockets, SocketTypes
  <2>5. Known(g) BY <2>3, <2>4 DEF Known
  <2>6. OpenedGrows
    <3>1. app'.opened = app.opened /\ app'.conn = app.conn BY <1>5 DEF WaitFor, HostSide, Clients
    <3> QED BY <3>1 DEF OpenedGrows, HostSide, Clients, EndsInv, Opened
  <2> HIDE DEF g
  <2> QED BY <2>1, <2>3, <2>4, <2>5, <2>6, WritingAgrees
<1>6. CASE CloseConnection \/ Reconnect
  <2>1. Close BY <1>6 DEF CloseConnection, Reconnect
  <2>2. app.conn # 0 BY <1>6 DEF CloseConnection, Reconnect, HostSide, Clients
  <2> QED BY <2>1, <2>2, CloseAgrees
<1> QED BY <1>1, <1>2, <1>3, <1>4, <1>5, <1>6

-----------------------------------------------------------------------------
(* What a segment does to the socket that gets it. *)
LEMMA AckGoesOn ==
  ASSUME DevSide, NEW h \in Sockets, NEW s \in Replies
  PROVE  LET g == AfterAck(h, s)
         IN  /\ g \in Sockets /\ g.una + g.flying = h.una + h.flying /\ g.rcv = h.rcv
             /\ g.state = h.state /\ g.got = h.got /\ g.eof = h.eof
             /\ s.ack <= h.una => g = h
             /\ GotSoFar(h) /\ s.ack <= dev.rcv => GotSoFar(g)
<1> DEFINE n == s.ack - h.una
<1>1. /\ h.una \in Nat /\ h.flying \in Nat /\ s.ack \in Nat /\ dev.rcv \in Nat
  BY SocketFields, DevFields DEF Replies, DevSide
<1>2. CASE ~(n > 0 /\ n <= h.flying)
  BY <1>2 DEF AfterAck
<1>3. CASE n > 0 /\ n <= h.flying
  <2> DEFINE q == SubSeq(h.unacked, n + 1, Len(h.unacked))
             g == [h EXCEPT !.una = s.ack, !.flying = @ - n, !.unacked = q]
  <2>1. AfterAck(h, s) = g BY <1>3 DEF AfterAck
  <2>2. /\ g.una = s.ack /\ g.flying = h.flying - n /\ g.rcv = h.rcv /\ g.state = h.state
        /\ g.got = h.got /\ g.eof = h.eof
    BY DEF Sockets, SocketTypes
  <2>3. g \in Sockets BY <2>1, AfterAckType
  <2> HIDE DEF g
  <2>4. g.una + g.flying = h.una + h.flying BY <1>1, <1>3, <2>2
  <2>5. ~(s.ack <= h.una) BY <1>1, <1>3
  <2>6. GotSoFar(h) /\ s.ack <= dev.rcv => GotSoFar(g) BY <2>2, <2>4 DEF GotSoFar
  <2> QED BY <2>1, <2>2, <2>3, <2>4, <2>5, <2>6
<1> QED BY <1>2, <1>3

LEMMA DataGoOn ==
  ASSUME DevSide, DevNumbers, NEW h \in Sockets, NEW s \in Replies
  PROVE  LET g == AfterData(h, s)
         IN  /\ g \in Sockets /\ g.una = h.una /\ g.flying = h.flying /\ h.rcv <= g.rcv
             /\ g.state = h.state
             /\ s.data = <<>> /\ ~s.fin => g = h
             /\ Lives(dev) /\ GotSoFar(h) /\ FromClock(s) => GotSoFar(g)
<1> DEFINE g == AfterData(h, s)
<1>0. h.eof \in BOOLEAN /\ s.fin \in BOOLEAN BY DEF Sockets, SocketTypes, Replies
<1>1. g \in Sockets BY AfterDataType
<1>2. h.rcv \in Nat /\ h.got \in Seq(Nat) /\ Len(h.got) \in Nat BY SocketFields
<1>3. s.data \in Seq(Nat) /\ Len(s.data) \in Nat /\ s.seq \in Nat BY DEF Replies
<1>4. CASE s.data = <<>> /\ ~s.fin
  <2>1. g = h BY <1>4 DEF AfterData
  <2> HIDE DEF g
  <2> QED BY <1>2, <2>1 DEF g
<1>5. CASE ~(s.data = <<>> /\ ~s.fin) /\ s.seq # h.rcv
  <2>1. g = [h EXCEPT !.due = TRUE] BY <1>5 DEF AfterData
  <2>2. /\ g.una = h.una /\ g.flying = h.flying /\ g.rcv = h.rcv /\ g.state = h.state
        /\ g.got = h.got /\ g.eof = h.eof
    BY <2>1 DEF Sockets, SocketTypes
  <2> HIDE DEF g
  <2>3. GotSoFar(h) => GotSoFar(g) BY <2>2 DEF GotSoFar
  <2> QED BY <1>1, <1>2, <1>5, <2>2, <2>3 DEF g
<1>6. CASE ~(s.data = <<>> /\ ~s.fin) /\ s.seq = h.rcv
  <2>1. g = [h EXCEPT !.rcv = @ + Len(s.data) + One(s.fin), !.due = TRUE,
                      !.inbox = @ \o s.data, !.got = @ \o s.data, !.eof = @ \/ s.fin]
    BY <1>6 DEF AfterData, One
  <2>2. /\ g.una = h.una /\ g.flying = h.flying /\ g.rcv = h.rcv + Len(s.data) + One(s.fin)
        /\ g.state = h.state /\ g.got = h.got \o s.data /\ (g.eof <=> h.eof \/ s.fin)
    BY <2>1, <1>0 DEF Sockets, SocketTypes
  <2>3. One(s.fin) \in Nat BY DEF One
  <2> HIDE DEF g
  <2>4. h.rcv <= g.rcv
    <3>1. PICK a \in Nat, b \in Nat, r \in Nat : a = Len(s.data) /\ b = One(s.fin) /\ r = h.rcv
      BY <1>2, <1>3, <2>3
    <3>2. g.rcv = r + a + b BY <2>2, <3>1
    <3> QED BY <3>1, <3>2
  <2>5. ASSUME Lives(dev), GotSoFar(h), FromClock(s) PROVE GotSoFar(g)
    <3>1. /\ h.una <= dev.rcv /\ dev.rcv <= h.una + h.flying
          /\ dev.snd <= h.rcv /\ h.rcv <= dev.snd + dev.len
          /\ h.rcv = 1 + Len(h.got) + One(h.eof)
          /\ h.eof => FinSent /\ h.rcv = dev.snd + dev.len
          /\ \A i \in 1 .. Len(h.got) : h.got[i] = answered[i]
          /\ Len(h.got) <= NumberOf
      BY <2>5 DEF GotSoFar
    <3>2. PICK n \in Nat, e \in Nat, d \in Nat, o \in Nat :
             /\ n = NumberOf /\ e = dev.snd + dev.len /\ d = dev.snd /\ o = IF FinSent THEN 2 ELSE 1
             /\ n + o = e
      <4>1. NumberOf \in Nat BY <2>5 DEF DevNumbers
      <4>2. dev.snd \in Nat /\ dev.len \in Nat BY DevFields DEF DevSide
      <4>3. (IF FinSent THEN 2 ELSE 1) \in Nat OBVIOUS
      <4>4. NumberOf = dev.snd + dev.len - (IF FinSent THEN 2 ELSE 1) BY DEF NumberOf
      <4>5. PICK o \in Nat, a \in Nat, b \in Nat : o = (IF FinSent THEN 2 ELSE 1) /\ a = dev.snd /\ b = dev.len
        BY <4>2, <4>3
      <4>6. NumberOf + o = dev.snd + dev.len /\ dev.snd + dev.len \in Nat BY <4>1, <4>4, <4>5
      <4> QED BY <4>1, <4>2, <4>5, <4>6
    <3>3. PICK l \in Nat, r \in Nat : l = Len(h.got) /\ r = h.rcv BY <1>2
    <3>4. CASE s.data # <<>>
      <4>1. s.seq \in 1 .. n /\ s.data = <<answered[s.seq]>> /\ ~s.fin /\ r = s.seq
        BY <1>6, <2>5, <3>2, <3>3, <3>4 DEF FromClock
      <4>2. ~h.eof BY <3>1, <3>2, <3>3, <4>1
      <4>3. r = 1 + l BY <3>1, <3>3, <4>2 DEF One
      <4>4. Len(s.data) = 1 /\ One(s.fin) = 0 /\ s.data[1] = answered[r] BY <4>1 DEF One
      <4>5. g.rcv = r + 1 /\ ~g.eof
        <5>1. g.rcv = r + 1 + 0 BY <2>2, <3>3, <4>4
        <5> QED BY <2>2, <4>1, <4>2, <5>1
      <4>6. /\ Len(g.got) = l + 1 /\ g.got[l + 1] = s.data[1]
            /\ \A i \in 1 .. l : g.got[i] = h.got[i]
        <5>1. /\ Len(h.got \o s.data) = Len(h.got) + Len(s.data)
              /\ \A i \in 1 .. Len(h.got) + Len(s.data) :
                   (h.got \o s.data)[i] = IF i <= Len(h.got) THEN h.got[i] ELSE s.data[i - Len(h.got)]
          BY <1>2, <1>3, ConcatProperties
        <5>2. /\ Len(g.got) = l + 1
              /\ \A i \in 1 .. l + 1 : g.got[i] = IF i <= l THEN h.got[i] ELSE s.data[i - l]
          BY <2>2, <3>3, <4>4, <5>1
        <5>3. l + 1 - l = 1 /\ l + 1 \in 1 .. l + 1 /\ ~(l + 1 <= l) OBVIOUS
        <5> QED BY <5>2, <5>3
      <4>7. l + 1 <= n /\ d <= r + 1 /\ r + 1 <= e BY <3>1, <3>2, <3>3, <4>1, <4>3
      <4>8. \A i \in 1 .. l + 1 : g.got[i] = answered[i]
        <5>1. \A i \in 1 .. l + 1 : i \in 1 .. l \/ i = l + 1 OBVIOUS
        <5> QED BY <3>1, <3>3, <4>3, <4>4, <4>6, <5>1
      <4>9. One(g.eof) = 0 /\ r + 1 = 1 + (l + 1) + 0 BY <4>3, <4>5 DEF One
      <4> QED BY <2>2, <3>1, <3>2, <4>5, <4>6, <4>7, <4>8, <4>9 DEF GotSoFar
    <3>5. CASE s.data = <<>>
      <4>1. s.fin /\ FinSent /\ r = n + 1 /\ e = n + 2
        BY <1>6, <2>5, <3>2, <3>3, <3>5 DEF FromClock
      <4>2. ~h.eof BY <3>1, <3>2, <3>3, <4>1
      <4>3. r = 1 + l BY <3>1, <3>3, <4>2 DEF One
      <4>4. Len(s.data) = 0 /\ One(s.fin) = 1 BY <3>5, <4>1 DEF One
      <4>5. g.rcv = r + 1 /\ g.eof /\ g.got = h.got
        <5>1. h.got \o <<>> = h.got BY <1>2
        <5>2. g.rcv = r + 0 + 1 BY <2>2, <3>3, <4>4
        <5>3. g.eof BY <2>2, <4>1
        <5> QED BY <2>2, <3>5, <5>1, <5>2, <5>3
      <4>6. One(g.eof) = 1 BY <4>5 DEF One
      <4>7. r + 1 = 1 + l + 1 /\ r + 1 = e /\ d <= r + 1 BY <3>1, <3>2, <3>3, <4>1, <4>3
      <4>8. /\ g.rcv = 1 + Len(g.got) + One(g.eof) /\ g.rcv = dev.snd + dev.len
            /\ dev.snd <= g.rcv /\ g.rcv <= dev.snd + dev.len
        <5>1. g.rcv = 1 + l + 1 /\ g.rcv = e /\ d <= g.rcv /\ g.rcv <= e BY <4>5, <4>7
        <5> QED BY <3>2, <3>3, <4>5, <4>6, <5>1
      <4> QED BY <2>2, <3>1, <4>1, <4>5, <4>8 DEF GotSoFar
    <3> QED BY <3>4, <3>5
  <2>6. ~(s.data = <<>> /\ ~s.fin) BY <1>6
  <2> QED BY <1>1, <2>2, <2>4, <2>5, <2>6 DEF g
<1> QED BY <1>4, <1>5, <1>6

LEMMA CloseGoesOn ==
  ASSUME NEW h \in Sockets
  PROVE  LET g == AfterClose(h)
         IN  /\ g \in Sockets /\ g.una = h.una /\ g.flying = h.flying /\ g.rcv = h.rcv
             /\ g.got = h.got /\ g.eof = h.eof /\ (Known(h) => Known(g))
             /\ GotSoFar(h) => GotSoFar(g)
<1> DEFINE g == AfterClose(h)
<1>1. g \in Sockets BY AfterCloseType
<1>2. /\ g.una = h.una /\ g.flying = h.flying /\ g.rcv = h.rcv
      /\ g.got = h.got /\ g.eof = h.eof /\ g.state \in {h.state, "wait"}
  BY DEF AfterClose, Sockets, SocketTypes
<1> HIDE DEF g
<1>3. Known(h) => Known(g) BY <1>2 DEF Known
<1>4. GotSoFar(h) => GotSoFar(g) BY <1>2 DEF GotSoFar
<1> QED BY <1>1, <1>2, <1>3, <1>4 DEF g

(* A segment of the clock that the socket takes. *)
LEMMA TakenAgrees ==
  ASSUME NetTypes, HostSide, DevSide, EndsInv, UNCHANGED <<toDev, app, devVars>>,
         toHost # <<>>, toHost' = Tail(toHost), NEW s \in Segs(toHost), s.kind = "seg",
         Known(host[s.conn]),
         SetHost(s.conn, AfterClose(AfterData(AfterAck(host[s.conn], s), s)))
  PROVE  EndsInv'
<1>1. s \in Replies BY SegsTypes
<1>2. PICK c \in Conns : c = s.conn BY <1>1 DEF Replies
<1> DEFINE h == host[c]
           f == AfterAck(h, s)
           t == AfterData(f, s)
           g == AfterClose(t)
<1>3. h \in Sockets BY DEF HostSide
<1>4. DevNumbers /\ Talk(c) BY DEF EndsInv
<1>5. /\ f \in Sockets /\ f.una + f.flying = h.una + h.flying /\ f.rcv = h.rcv
      /\ f.state = h.state /\ f.got = h.got /\ f.eof = h.eof
      /\ s.ack <= h.una => f = h
      /\ GotSoFar(h) /\ s.ack <= dev.rcv => GotSoFar(f)
  BY <1>1, <1>3, AckGoesOn
<1> HIDE DEF f
<1>6. /\ t \in Sockets /\ t.una = f.una /\ t.flying = f.flying /\ f.rcv <= t.rcv
      /\ t.state = f.state
      /\ s.data = <<>> /\ ~s.fin => t = f
      /\ Lives(dev) /\ GotSoFar(f) /\ FromClock(s) => GotSoFar(t)
  BY <1>1, <1>4, <1>5, DataGoOn
<1> HIDE DEF t
<1>7. /\ g \in Sockets /\ g.una = t.una /\ g.flying = t.flying /\ g.rcv = t.rcv
      /\ g.got = t.got /\ g.eof = t.eof /\ (Known(t) => Known(g))
      /\ GotSoFar(t) => GotSoFar(g)
  BY <1>6, CloseGoesOn
<1> HIDE DEF g
<1>8. Known(h) BY <1>2
<1>9. Known(g) BY <1>5, <1>6, <1>7, <1>8 DEF Known
<1>10. SetHost(c, g) BY <1>2 DEF f, t, g
<1>11. host'[c] = g BY <1>10, SocketSet
<1>12. Alive(h) BY <1>8 DEF Alive
<1>13. Early(c) => g.una = h.una /\ g.rcv = h.rcv /\ g.got = h.got /\ g.eof = h.eof
  <2> HAVE Early(c)
  <2>1. SaysNothing(s) /\ h.una = 1 BY <1>2, <1>4, <1>8, <1>12 DEF Talk, Begins
  <2>2. f = h BY <1>5, <2>1 DEF SaysNothing
  <2>3. t = f BY <1>6, <2>1 DEF SaysNothing
  <2> QED BY <1>7, <2>2, <2>3
<1>14. On(c) /\ Lives(dev) /\ GotSoFar(h) => GotSoFar(g)
  <2> HAVE On(c) /\ Lives(dev) /\ GotSoFar(h)
  <2>1. FromClock(s) BY <1>2, <1>4, <1>12 DEF Talk, Together
  <2>2. s.ack <= dev.rcv BY <2>1 DEF FromClock
  <2> QED BY <1>5, <1>6, <1>7, <2>1, <2>2
<1>15. Talk(c)'
  <2>1. h.una + h.flying <= g.una + g.flying /\ h.rcv <= g.rcv
    <3>1. h.una + h.flying \in Nat /\ h.rcv \in Nat BY <1>3, SocketFields
    <3>2. g.una + g.flying = h.una + h.flying BY <1>5, <1>6, <1>7
    <3>3. h.rcv <= g.rcv BY <1>5, <1>6, <1>7
    <3> QED BY <3>1, <3>2, <3>3
  <2>2. Segs(toHost') \subseteq Segs(toHost) BY HostSegs
  <2> QED BY <1>3, <1>4, <1>7, <1>8, <1>9, <1>11, <1>13, <1>14, <2>1, <2>2, KernelGoesOn
<1>16. OpenedGrows BY SameClient
<1>17. c <= app'.opened BY <1>8, <1>16, UsedIsOpened DEF Known
<1> QED BY <1>7, <1>9, <1>10, <1>15, <1>16, <1>17, HostStepAgrees DEF SocketIsSet

(* The clock has answered the SYN. *)
LEMMA SynAckAgrees ==
  ASSUME NetTypes, HostSide, DevSide, EndsInv, UNCHANGED <<toDev, app, devVars>>,
         toHost # <<>>, toHost' = Tail(toHost), NEW c \in Conns, host[c].state = "syn",
         SetHost(c, [host[c] EXCEPT !.state = "est", !.una = 1, !.rcv = 1, !.due = TRUE])
  PROVE  EndsInv'
<1> DEFINE g == [host[c] EXCEPT !.state = "est", !.una = 1, !.rcv = 1, !.due = TRUE]
<1>1. host[c] = [NoSocket EXCEPT !.state = "syn"] BY DEF EndsInv, Unused, Known
<1>2. g = [NoSocket EXCEPT !.state = "est", !.una = 1, !.rcv = 1, !.due = TRUE]
  BY <1>1 DEF NoSocket
<1> HIDE DEF g
<1>3. /\ g.state = "est" /\ g.una = 1 /\ g.rcv = 1 /\ g.got = <<>> /\ ~g.eof
      /\ g.unacked = <<>> /\ g.flying = 0
  BY <1>2 DEF NoSocket
<1>4. g \in Sockets
  <2>1. g \in SocketTypes
    <3>1. \A S : <<>> \in Seq(S) BY EmptySeq
    <3> QED BY <1>2, <3>1 DEF NoSocket, SocketTypes, HostStates
  <2> QED BY <1>3, <2>1, NothingToSend
<1>5. SetHost(c, g) BY DEF g
<1>6. host'[c] = g BY <1>5, SocketSet
<1>7. Talk(c)'
  <2>1. Segs(toHost') \subseteq Segs(toHost) BY HostSegs
  <2>2. Talk(c) BY DEF EndsInv
  <2> QED BY <1>3, <1>6, <2>1, <2>2, SocketOpens
<1>8. OpenedGrows BY SameClient
<1>9. c <= app'.opened BY <1>8, UsedIsOpened
<1>10. Known(g) BY <1>3 DEF Known
<1> QED BY <1>4, <1>5, <1>7, <1>8, <1>9, <1>10, HostStepAgrees DEF SocketIsSet

LEMMA ReceiveAgrees ==
  ASSUME NetTypes, HostSide, DevSide, EndsInv, HostReceive
  PROVE  EndsInv'
<1>1. toHost # <<>> /\ toHost' = Tail(toHost) /\ UNCHANGED <<app, devVars>>
  BY DEF HostReceive
<1>2. PICK s \in Segs(toHost) : s = Head(toHost) BY <1>1, SegsOfTail DEF NetTypes
<1>3. s \in Replies BY SegsTypes
<1>4. PICK c \in Conns : c = s.conn BY <1>3 DEF Replies
<1> DEFINE h == host[c]
<1>5. OpenedGrows BY <1>1, SameClient
<1>6. c <= app'.opened
  <2>1. c <= app.opened BY <1>4 DEF EndsInv, Opened
  <2> QED BY <1>1, <2>1
<1>7. h \in Sockets BY DEF HostSide
<1>8. \/ /\ s.kind = "rst"
         /\ SetHost(c, IF h.state \in {"syn", "est"} THEN [NoSocket EXCEPT !.state = "reset"]
                       ELSE NoSocket)
         /\ UNCHANGED toDev
      \/ /\ s.kind # "rst" /\ Unwanted(h, s)
         /\ Send(Segment(c, "rst", s.ack, <<>>, FALSE, 0))
         /\ SetHost(c, [NoSocket EXCEPT !.state = IF h.state = "reset" THEN "reset" ELSE "none"])
      \/ /\ s.kind = "synack" /\ h.state = "syn"
         /\ SetHost(c, [h EXCEPT !.state = "est", !.una = 1, !.rcv = 1, !.due = TRUE])
         /\ UNCHANGED toDev
      \/ /\ s.kind = "synack" /\ h.state \in {"est", "fin", "wait"} /\ ~Unwanted(h, s)
         /\ SetHost(c, [h EXCEPT !.due = TRUE])
         /\ UNCHANGED toDev
      \/ s.kind = "seg" /\ h.state = "syn" /\ UNCHANGED <<host, toDev>>
      \/ /\ s.kind = "seg" /\ h.state \in {"est", "fin", "wait"} /\ ~Unwanted(h, s)
         /\ SetHost(c, AfterClose(AfterData(AfterAck(h, s), s)))
         /\ UNCHANGED toDev
  BY <1>2, <1>4 DEF HostReceive
<1>9. CASE /\ s.kind = "rst"
           /\ SetHost(c, IF h.state \in {"syn", "est"} THEN [NoSocket EXCEPT !.state = "reset"]
                         ELSE NoSocket)
           /\ UNCHANGED toDev
  <2>1. NoSocket = [NoSocket EXCEPT !.state = "none"] BY DEF NoSocket
  <2>2. PICK state \in {"none", "reset"} : SetHost(c, [NoSocket EXCEPT !.state = state])
    BY <1>9, <2>1
  <2> QED BY <1>1, <1>5, <1>6, <1>9, <2>2, EndingAgrees
<1>10. CASE /\ s.kind # "rst" /\ Unwanted(h, s)
            /\ Send(Segment(c, "rst", s.ack, <<>>, FALSE, 0))
            /\ SetHost(c, [NoSocket EXCEPT !.state = IF h.state = "reset" THEN "reset" ELSE "none"])
  <2>1. PICK state \in {"none", "reset"} : SetHost(c, [NoSocket EXCEPT !.state = state])
    BY <1>10
  <2>2. \E r \in Requests : r.conn = c /\ r.kind = "rst" /\ toDev' = Put(toDev, r)
    <3> DEFINE r == Segment(c, "rst", s.ack, <<>>, FALSE, 0)
    <3>1. r \in Requests BY <1>3, MereSegment DEF Kinds, Replies
    <3>2. r.conn = c /\ r.kind = "rst" BY DEF Segment
    <3>3. toDev' = Put(toDev, r) BY <1>10 DEF Send
    <3> QED BY <3>1, <3>2, <3>3
  <2> QED BY <1>1, <1>5, <1>6, <2>1, <2>2, EndingAgrees
<1>11. CASE /\ s.kind = "synack" /\ h.state = "syn"
            /\ SetHost(c, [h EXCEPT !.state = "est", !.una = 1, !.rcv = 1, !.due = TRUE])
            /\ UNCHANGED toDev
  BY <1>1, <1>11, SynAckAgrees
<1>12. CASE /\ s.kind = "synack" /\ h.state \in {"est", "fin", "wait"}
            /\ SetHost(c, [h EXCEPT !.due = TRUE])
            /\ UNCHANGED toDev
  <2> DEFINE g == [h EXCEPT !.due = TRUE]
  <2>1. /\ g.una = h.una /\ g.rcv = h.rcv /\ g.got = h.got /\ g.eof = h.eof /\ h.flying = g.flying
        /\ g.state = h.state /\ g.unacked = h.unacked /\ g \in SocketTypes
    BY <1>7 DEF Sockets, SocketTypes
  <2> HIDE DEF g
  <2>2. Known(h) /\ Known(g) BY <1>12, <2>1 DEF Known
  <2>3. g \in Sockets BY <1>7, <2>1, SameLines, SocketFields
  <2>4. SetHost(c, g) BY <1>12 DEF g
  <2>5. host'[c] = g BY <2>4, SocketSet
  <2>6. Talk(c)'
    <3>1. Segs(toHost') \subseteq Segs(toHost) BY <1>1, HostSegs
    <3>2. GotSoFar(h) => GotSoFar(g) BY <2>1 DEF GotSoFar
    <3>3. h.una + h.flying <= g.una + g.flying /\ h.rcv <= g.rcv
      <4>1. h.una \in Nat /\ h.flying \in Nat /\ h.rcv \in Nat BY <1>7, SocketFields
      <4> QED BY <2>1, <4>1
    <3>4. Talk(c) BY DEF EndsInv
    <3> QED BY <1>1, <1>7, <1>12, <2>1, <2>2, <2>3, <2>5, <3>1, <3>2, <3>3, <3>4, KernelGoesOn
  <2> QED BY <1>1, <1>5, <1>6, <1>12, <2>2, <2>3, <2>4, <2>6, HostStepAgrees DEF SocketIsSet
<1>13. CASE s.kind = "seg" /\ h.state = "syn" /\ UNCHANGED <<host, toDev>>
  BY <1>1, <1>13, LosingAgrees
<1>14. CASE /\ s.kind = "seg" /\ h.state \in {"est", "fin", "wait"}
            /\ SetHost(c, AfterClose(AfterData(AfterAck(h, s), s)))
            /\ UNCHANGED toDev
  <2>1. Known(h) BY <1>14 DEF Known
  <2> QED BY <1>1, <1>4, <1>14, <2>1, TakenAgrees
<1> QED BY <1>8, <1>9, <1>10, <1>11, <1>12, <1>13, <1>14

-----------------------------------------------------------------------------
(* The steps of the clock's side.  A segment may be taken from the way to the clock, and
   at most one is sent. *)
Takes   == toDev' = toDev \/ (toDev # <<>> /\ toDev' = Tail(toDev))
Says(r) == toHost' = toHost \/ toHost' = Put(toHost, r)

LEMMA TakesSegs ==
  ASSUME NetTypes, Takes
  PROVE  /\ Segs(toDev') \subseteq Segs(toDev)
         /\ \A c : SynsFirst(c) => SynsFirst(c)'
<1>1. CASE toDev' = toDev BY <1>1 DEF SynsFirst
<1>2. CASE toDev # <<>> /\ toDev' = Tail(toDev)
  BY <1>2, SegsOfTail, SynsFirstTail DEF NetTypes
<1> QED BY <1>1, <1>2 DEF Takes

LEMMA SaysSegs ==
  ASSUME NetTypes, NEW r \in Replies, Says(r)
  PROVE  \A s \in Segs(toHost') : s \in Segs(toHost) \/ s = r
BY SegsOfPut DEF Says, NetTypes

LEMMA DevFrame ==
  ASSUME NetTypes, HostSide, EndsInv, HostSteps, Takes, NEW r \in Replies, Says(r),
         r.conn <= app.opened, dev'.state # "CLOSED" => dev'.conn <= app.opened,
         DevNumbers', \A c \in Conns : Talk(c)'
  PROVE  EndsInv'
<1>1. host' = host /\ app' = app BY DEF HostSteps
<1>2. Segs(toDev') \subseteq Segs(toDev) BY TakesSegs
<1>3. \A s \in Segs(toHost') : s \in Segs(toHost) \/ s = r BY SaysSegs
<1>4. Opened' BY <1>1, <1>2, <1>3 DEF EndsInv, Opened
<1>5. Unused' /\ SynsAreZero' BY <1>1, <1>2 DEF EndsInv, Unused, Known, SynsAreZero
<1> QED BY <1>4, <1>5 DEF EndsInv

(* A connection that the clock does not have. *)
LEMMA NotOnTalk ==
  ASSUME NetTypes, HostSteps, Takes, NEW r \in Replies, Says(r), NEW c \in Conns, Talk(c), ~On(c)',
         r.conn = c => r.kind = "rst"
  PROVE  Talk(c)'
<1>1. host' = host BY DEF HostSteps
<1>2. /\ Segs(toDev') \subseteq Segs(toDev) /\ (SynsFirst(c) => SynsFirst(c)')
      /\ \A s \in Segs(toHost') : s \in Segs(toHost) \/ s = r
  BY TakesSegs, SaysSegs
<1>3. Sent(c)' BY <1>1, <1>2 DEF Talk, Sent
<1>4. Begins(c)' BY <1>1, <1>2 DEF Talk, Begins, Early
<1>5. Together(c)' BY DEF Together
<1> QED BY <1>3, <1>4, <1>5 DEF Talk

(* A connection that waits for the acknowledgement of its SYN, or begins to. *)
LEMMA BeginningTalk ==
  ASSUME NetTypes, HostSteps, Takes, NEW r \in Replies, Says(r), NEW c \in Conns, Talk(c), Early(c),
         dev'.state = "SYN_RCVD", SaysNothing(r)
  PROVE  Talk(c)'
<1>1. host' = host BY DEF HostSteps
<1>2. /\ Segs(toDev') \subseteq Segs(toDev) /\ (SynsFirst(c) => SynsFirst(c)')
      /\ \A s \in Segs(toHost') : s \in Segs(toHost) \/ s = r
  BY TakesSegs, SaysSegs
<1>3. Sent(c)' BY <1>1, <1>2 DEF Talk, Sent
<1>4. Begins(c)' BY <1>1, <1>2 DEF Talk, Begins
<1>5. Together(c)' BY DEF Together, Lives
<1> QED BY <1>3, <1>4, <1>5 DEF Talk

(* The acknowledgement of the SYN has come: from now on no SYN is under way. *)
LEMMA OpeningTalk ==
  ASSUME NetTypes, HostSide, DevSide, DevSide', HostSteps, NEW r \in Replies, Says(r),
         NEW c \in Conns, Talk(c), On(c), dev.state = "SYN_RCVD", DevNumbers,
         toDev # <<>>, toDev' = Tail(toDev), Head(toDev).conn = c, Head(toDev).kind = "seg",
         ~OutOfSequence(Head(toDev)), Lives(dev'),
         dev'.rcv = dev.rcv + Len(Head(toDev).data), dev'.snd = 1,
         NumberOf' \in Nat, FromClock(r)'
  PROVE  Talk(c)'
<1> DEFINE h == host[c]
           s == Head(toDev)
<1>1. host' = host /\ Takes BY DEF HostSteps, Takes
<1>2. /\ Segs(toDev') \subseteq Segs(toDev) /\ (SynsFirst(c) => SynsFirst(c)')
      /\ \A t \in Segs(toHost') : t \in Segs(toHost) \/ t = r
  BY <1>1, TakesSegs, SaysSegs
<1>3. s \in Segs(toDev) /\ s \in Requests BY SegsOfTail, SegsTypes DEF NetTypes
<1>4. CASE ~Alive(h)
  BY <1>1, <1>4 DEF Talk, Sent, Begins, Together
<1>5. CASE Alive(h)
  <2>1. Early(c) BY DEF Early
  <2>2. InStream(s, h) /\ SynsFirst(c) BY <1>3, <1>5 DEF Talk, Sent
  <2>3. Known(h) /\ EndOf(s) <= h.una + h.flying BY <2>2 DEF InStream
  <2>4. /\ h.una = 1 /\ h.rcv = 1 /\ h.got = <<>> /\ ~h.eof
        /\ \A t \in Segs(toHost) : t.conn = c /\ t.kind # "rst" => SaysNothing(t)
    BY <1>5, <2>1, <2>3 DEF Talk, Begins
  <2>5. Sent(c)' BY <1>1, <1>2 DEF Talk, Sent
  <2>6. ~Early(c)'
    <3>1. \A t \in Segs(toDev') : t.conn = c => t.kind # "syn" BY <2>2, SynsFirstTail
    <3>2. host'[c].state # "syn" BY <1>1, <2>3 DEF Known
    <3>3. dev'.state # "SYN_RCVD" BY DEF Lives
    <3> QED BY <3>1, <3>2, <3>3 DEF Early
  <2>7. Begins(c)' BY <2>6 DEF Begins
  <2>8. dev.rcv = 1 BY DEF DevNumbers
  <2>9. dev'.rcv \in Nat /\ 1 <= dev'.rcv /\ dev'.rcv <= h.una + h.flying
    <3>1. PICK n \in Nat, f \in Nat : n = Len(s.data) /\ f = h.flying
      <4>1. h \in Sockets BY DEF HostSide
      <4> QED BY <1>3, <4>1, EndType, SocketFields
    <3>2. dev'.rcv = 1 + n BY <2>8, <3>1
    <3>3. CASE s.data = <<>>
      <4>1. n = 0 BY <3>1, <3>3
      <4> QED BY <2>4, <3>1, <3>2, <4>1
    <3>4. CASE s.data # <<>>
      <4>1. s.seq = 1 BY <2>8, <3>4 DEF OutOfSequence
      <4>2. EndOf(s) = 1 + n + One(s.fin) BY <3>1, <4>1 DEF EndOf
      <4>3. One(s.fin) \in Nat BY DEF One
      <4>4. 1 + n + One(s.fin) <= 1 + f BY <2>3, <2>4, <3>1, <4>2
      <4>5. 1 + n <= 1 + f BY <4>3, <4>4
      <4> QED BY <2>4, <3>1, <3>2, <4>5
    <3> QED BY <3>3, <3>4
  <2>10. GotSoFar(h)'
    <3>1. Len(<<>>) = 0 /\ 1 .. 0 = {} OBVIOUS
    <3>2. One(h.eof) = 0 BY <2>4 DEF One
    <3>3. 1 <= dev'.snd + dev'.len
      <4>1. dev'.len \in Nat BY DevFields DEF DevSide
      <4> QED BY <4>1
    <3>4. 0 <= NumberOf' OBVIOUS
    <3>5. /\ h.una <= dev'.rcv /\ dev'.rcv <= h.una + h.flying
          /\ dev'.snd <= h.rcv /\ h.rcv <= dev'.snd + dev'.len
      BY <2>4, <2>9, <3>3
    <3>6. h.rcv = 1 + Len(h.got) + One(h.eof) BY <2>4, <3>1, <3>2
    <3>7. Len(h.got) <= NumberOf' /\ 1 .. Len(h.got) = {} BY <2>4, <3>1, <3>4
    <3> QED BY <1>1, <2>4, <3>5, <3>6, <3>7 DEF GotSoFar
  <2>11. \A t \in Segs(toHost) : t.conn = c /\ t.kind # "rst" => FromClock(t)'
    <3> SUFFICES ASSUME NEW t \in Segs(toHost), t.conn = c, t.kind # "rst" PROVE FromClock(t)'
      OBVIOUS
    <3>1. SaysNothing(t) BY <2>4
    <3>2. t.ack \in Nat BY SegsTypes DEF Replies
    <3>3. t.ack <= dev'.rcv BY <2>9, <3>1, <3>2 DEF SaysNothing
    <3> QED BY <3>1, <3>3 DEF SaysNothing, FromClock
  <2>12. Together(c)' BY <1>1, <1>2, <2>3, <2>10, <2>11 DEF Together, Known
  <2> QED BY <2>5, <2>7, <2>12 DEF Talk
<1> QED BY <1>4, <1>5

(* A connection that goes on: the clock takes what the client sends next, learns that all
   it sent has arrived, and sends more. *)
Takeable(c) == {s \in Segs(toDev) : s.conn = c /\ s.kind = "seg"}

GoesOnFrom(c) ==
  /\ Lives(dev) /\ dev'.state \notin {"CLOSED", "SYN_RCVD"} /\ dev'.conn = dev.conn
  /\ dev.rcv <= dev'.rcv
  /\ dev'.rcv = dev.rcv \/ \E s \in Takeable(c) : dev'.rcv <= EndOf(s)
  /\ \/ dev'.snd = dev.snd
     \/ \E s \in Takeable(c) : dev'.snd = s.ack /\ s.ack = dev.snd + dev.len
  /\ dev.snd + dev.len <= dev'.snd + dev'.len
  /\ NumberOf <= NumberOf' /\ (FinSent => FinSent' /\ dev.snd + dev.len = dev'.snd + dev'.len)
  /\ \A i \in 1 .. Len(answered) : answered'[i] = answered[i]

LEMMA GoingOnTalk ==
  ASSUME NetTypes, HostSide, DevSide, DevSide', HostSteps, Takes, NEW r \in Replies, Says(r),
         NEW c \in Conns, Talk(c), On(c), GoesOnFrom(c), DevNumbers, DevNumbers',
         r.kind = "rst" \/ FromClock(r)'
  PROVE  Talk(c)'
<1> DEFINE h == host[c]
<1>1. host' = host BY DEF HostSteps
<1>2. /\ Segs(toDev') \subseteq Segs(toDev) /\ (SynsFirst(c) => SynsFirst(c)')
      /\ \A t \in Segs(toHost') : t \in Segs(toHost) \/ t = r
  BY TakesSegs, SaysSegs
<1>3. Lives(dev) /\ Lives(dev') /\ dev'.conn = dev.conn BY DEF GoesOnFrom, Lives
<1>4. CASE ~Alive(h)
  BY <1>1, <1>4 DEF Talk, Sent, Begins, Together
<1>5. CASE Alive(h)
  <2>1. Known(h) /\ GotSoFar(h) /\ \A s \in Segs(toHost) : s.conn = c /\ s.kind # "rst" => FromClock(s)
    BY <1>3, <1>5 DEF Talk, Together
  <2>2. ~Early(c) BY <1>3, <1>5 DEF Talk, Begins, Lives
  <2>3. \A s \in Takeable(c) : EndOf(s) <= h.una + h.flying /\ s.ack <= h.rcv
                               /\ EndOf(s) \in Nat /\ s.ack \in Nat
    <3>1. \A s \in Takeable(c) : InStream(s, h) BY <1>5 DEF Talk, Sent, Takeable
    <3>2. \A s \in Takeable(c) : EndOf(s) \in Nat /\ s.ack \in Nat
      BY EndType, SegsTypes DEF Takeable
    <3> QED BY <3>1, <3>2 DEF InStream
  <2>4. /\ h.una \in Nat /\ h.flying \in Nat /\ h.rcv \in Nat
        /\ dev.rcv \in Nat /\ dev'.rcv \in Nat /\ dev.snd \in Nat /\ dev'.snd \in Nat
        /\ dev.len \in Nat /\ dev'.len \in Nat /\ NumberOf \in Nat /\ NumberOf' \in Nat
    <3>1. h \in Sockets BY DEF HostSide
    <3>2. NumberOf \in Nat /\ NumberOf' \in Nat BY <1>3 DEF DevNumbers
    <3> QED BY <3>1, <3>2, SocketFields, DevFields DEF DevSide
  <2>5. Sent(c)' BY <1>1, <1>2 DEF Talk, Sent
  <2>6. Begins(c)'
    <3>1. ~Early(c)' BY <1>1, <1>2, <1>3, <2>2 DEF Early, Lives
    <3> QED BY <3>1 DEF Begins
  <2>7. \A i \in 1 .. NumberOf : answered'[i] = answered[i]
    <3>1. NumberOf <= Len(answered) /\ Len(answered) \in Nat
      <4>1. answered \in Seq(Nat) BY DEF DevSide
      <4>2. Len(answered) \in Nat BY <4>1
      <4>3. NumberOf \in {Len(answered), Len(answered) - 1} BY <1>3 DEF DevNumbers
      <4> QED BY <4>2, <4>3
    <3>2. 1 .. NumberOf \subseteq 1 .. Len(answered) BY <2>4, <3>1
    <3> QED BY <3>2 DEF GoesOnFrom
  <2>8. GotSoFar(h)'
    <3>1. h.una <= dev'.rcv
      <4>1. h.una <= dev.rcv BY <2>1 DEF GotSoFar
      <4>2. dev.rcv <= dev'.rcv BY DEF GoesOnFrom
      <4> QED BY <2>4, <4>1, <4>2
    <3>2. dev'.rcv <= h.una + h.flying
      <4>1. CASE dev'.rcv = dev.rcv BY <2>1, <4>1 DEF GotSoFar
      <4>2. CASE \E s \in Takeable(c) : dev'.rcv <= EndOf(s)
        <5>1. PICK s \in Takeable(c) : dev'.rcv <= EndOf(s) BY <4>2
        <5>2. EndOf(s) <= h.una + h.flying /\ EndOf(s) \in Nat BY <2>3
        <5>3. h.una + h.flying \in Nat BY <2>4
        <5> QED BY <2>4, <5>1, <5>2, <5>3
      <4> QED BY <4>1, <4>2 DEF GoesOnFrom
    <3>3. dev'.snd <= h.rcv BY <2>1, <2>3, <2>4 DEF GotSoFar, GoesOnFrom
    <3>4. h.rcv <= dev'.snd + dev'.len
      <4>1. PICK a \in Nat, b \in Nat : a = dev.snd + dev.len /\ b = dev'.snd + dev'.len BY <2>4
      <4>2. h.rcv <= a /\ a <= b BY <2>1, <4>1 DEF GotSoFar, GoesOnFrom
      <4> QED BY <2>4, <4>1, <4>2
    <3>5. h.eof => FinSent' /\ h.rcv = dev'.snd + dev'.len BY <2>1 DEF GotSoFar, GoesOnFrom
    <3>6. Len(h.got) <= NumberOf'
      <4>1. Len(h.got) \in Nat
        <5>1. h \in Sockets BY DEF HostSide
        <5> QED BY <5>1, SocketFields
      <4>2. Len(h.got) <= NumberOf /\ NumberOf <= NumberOf' BY <2>1 DEF GotSoFar, GoesOnFrom
      <4> QED BY <2>4, <4>1, <4>2
    <3>7. \A i \in 1 .. Len(h.got) : h.got[i] = answered'[i]
      <4>1. \A i \in 1 .. Len(h.got) : i \in 1 .. NumberOf
        <5>1. Len(h.got) <= NumberOf /\ Len(h.got) \in Nat
          <6>1. h \in Sockets BY DEF HostSide
          <6> QED BY <2>1, <6>1, SocketFields DEF GotSoFar
        <5> QED BY <2>4, <5>1
      <4> QED BY <2>1, <2>7, <4>1 DEF GotSoFar
    <3>8. h.rcv = 1 + Len(h.got) + One(h.eof) BY <2>1 DEF GotSoFar
    <3> QED BY <1>1, <3>1, <3>2, <3>3, <3>4, <3>5, <3>6, <3>7, <3>8 DEF GotSoFar
  <2>9. \A t \in Segs(toHost) : t.conn = c /\ t.kind # "rst" => FromClock(t)'
    <3> SUFFICES ASSUME NEW t \in Segs(toHost), t.conn = c, t.kind # "rst" PROVE FromClock(t)'
      OBVIOUS
    <3>1. FromClock(t) BY <2>1
    <3>2. t.ack \in Nat /\ t.seq \in Nat BY SegsTypes DEF Replies
    <3>3. t.ack <= dev'.rcv BY <2>4, <3>1, <3>2 DEF FromClock, GoesOnFrom
    <3>4. t.data # <<>> => t.seq \in 1 .. NumberOf' /\ t.data = <<answered'[t.seq]>> /\ ~t.fin
      <4> HAVE t.data # <<>>
      <4>1. t.seq \in 1 .. NumberOf /\ t.data = <<answered[t.seq]>> /\ ~t.fin BY <3>1 DEF FromClock
      <4>2. NumberOf <= NumberOf' BY DEF GoesOnFrom
      <4>3. t.seq \in 1 .. NumberOf' BY <2>4, <4>1, <4>2
      <4> QED BY <2>7, <4>1, <4>3
    <3>5. t.fin => FinSent' /\ t.seq = NumberOf' + 1
      <4> HAVE t.fin
      <4>1. FinSent /\ t.seq = NumberOf + 1 BY <3>1 DEF FromClock
      <4>2. FinSent' /\ dev.snd + dev.len = dev'.snd + dev'.len BY <4>1 DEF GoesOnFrom
      <4>3. NumberOf = dev.snd + dev.len - 2 /\ NumberOf' = dev'.snd + dev'.len - 2
        BY <4>1, <4>2 DEF NumberOf
      <4>4. NumberOf = NumberOf'
        <5>1. NumberOf = (dev.snd + dev.len) - 2 /\ NumberOf' = (dev'.snd + dev'.len) - 2
          BY <2>4, <4>3
        <5> QED BY <4>2, <5>1
      <4>5. t.seq = NumberOf' + 1 BY <4>1, <4>4
      <4> QED BY <4>2, <4>5
    <3> QED BY <3>3, <3>4, <3>5 DEF FromClock
  <2>10. Together(c)' BY <1>1, <1>2, <2>1, <2>8, <2>9 DEF Together, Known
  <2> QED BY <2>5, <2>6, <2>10 DEF Talk
<1> QED BY <1>4, <1>5

-----------------------------------------------------------------------------
(* What a call of the application says: it waits for the acknowledgement of its answer,
   closes after the last one, or reads, and answers at most one line. *)
Reads(o) ==
  /\ ~o.closes
  /\ \/ o.ps.at = "read" /\ o.says = <<>> /\ ~o.sends
     \/ o.ps.at # "read" /\ o.says = <<o.ps.answer>> /\ o.sends

LEMMA HandleLineReads == ASSUME NEW p, NEW line PROVE Reads(HandleLine(p, line))
BY DEF Reads, HandleLine, Outcome, Psock

LEMMA ReadNewReads ==
  ASSUME NEW p \in Psocks, p.at = "read", NEW ev, NEW data, NEW o \in ReadNew(p, "newdata" \in ev, data)
  PROVE  Reads(o)
<1>1. CASE "newdata" \in ev
  <2>1. PICK g, line : o = HandleLine(g, line) BY <1>1 DEF ReadNew
  <2> QED BY <2>1, HandleLineReads
<1>2. CASE ~("newdata" \in ev)
  <2>1. o = Outcome(p, FALSE, FALSE, <<>>, <<>>) BY <1>2 DEF ReadNew, Goes
  <2> QED BY <2>1 DEF Outcome, Reads
<1> QED BY <1>1, <1>2

LEMMA ReadToReads ==
  ASSUME NEW p \in Psocks, p.at = "read", NEW ev, NEW data, NEW o \in ReadTo(p, "newdata" \in ev, data)
  PROVE  Reads(o)
<1>1. CASE p.rest = <<>>
  BY <1>1, ReadNewReads DEF ReadTo
<1>2. CASE p.rest # <<>>
  <2> DEFINE after == [p EXCEPT !.rest = Tail(p.rest)]
             new == [p EXCEPT !.rest = <<>>, !.dirty = TRUE]
  <2>1. new \in Psocks /\ new.at = "read"
    <3>1. <<>> \in Seq(ALine) BY EmptySeq
    <3> QED BY <3>1 DEF Psocks
  <2>2. \/ o = HandleLine(after, Head(p.rest)) \/ o = HandleLine(after, Junk)
        \/ o \in ReadNew(new, "newdata" \in ev, data)
    BY <1>2 DEF ReadTo
  <2> HIDE DEF after, new
  <2> QED BY <2>1, <2>2, HandleLineReads, ReadNewReads
<1> QED BY <1>1, <1>2

StartsAt(p, ev) == IF "connected" \in ev THEN "read" ELSE p.at

LEMMA CallShape ==
  ASSUME NEW p \in Psocks, NEW ev, NEW data, NEW o \in AppCall(p, ev, data)
  PROVE  \/ /\ StartsAt(p, ev) # "read" /\ "acked" \notin ev
            /\ o.ps = p /\ o.says = <<>> /\ ~o.closes /\ (o.sends <=> "rexmit" \in ev)
         \/ /\ StartsAt(p, ev) # "read" /\ "acked" \in ev
            /\ o.ps.at = "read" /\ o.says = <<>> /\ o.closes
         \/ (StartsAt(p, ev) = "read" \/ "acked" \in ev) /\ Reads(o)
<1> DEFINE g == IF "connected" \in ev THEN Fresh ELSE p
<1>1. g \in Psocks /\ g.at = StartsAt(p, ev)
  <2>1. <<>> \in Seq(ALine) BY EmptySeq
  <2>2. Fresh \in Psocks /\ Fresh.at = "read" BY <2>1 DEF Fresh, Psock, Psocks, PsockAt
  <2> QED BY <2>2 DEF StartsAt
<1>2. o \in IF g.at = "read" THEN ReadTo(g, "newdata" \in ev, data) ELSE GoesOn(g, ev, data)
  BY DEF AppCall
<1>3. g.at # "read" => g = p
  <2>1. Fresh.at = "read" BY DEF Fresh, Psock
  <2> QED BY <2>1
<1> HIDE DEF g
<1>4. CASE g.at = "read"
  <2>1. o \in ReadTo(g, "newdata" \in ev, data) BY <1>2, <1>4
  <2> QED BY <1>1, <1>4, <2>1, ReadToReads
<1>5. CASE g.at # "read"
  <2> DEFINE f == [g EXCEPT !.at = "read"]
  <2>1. f \in Psocks /\ f.at = "read" BY <1>1 DEF Psocks, PsockAt
  <2> HIDE DEF f
  <2>2. CASE ~("acked" \in ev)
    <3>1. o = Goes(g, "rexmit" \in ev, FALSE) BY <1>2, <1>5, <2>2 DEF GoesOn
    <3>2. o.ps = g /\ o.says = <<>> /\ ~o.closes /\ (o.sends <=> "rexmit" \in ev)
      BY <3>1 DEF Goes, Outcome
    <3> QED BY <1>1, <1>3, <1>5, <2>2, <3>2
  <2>3. CASE "acked" \in ev /\ g.at = "sendlast"
    <3>1. o = Goes(f, FALSE, TRUE) BY <1>2, <1>5, <2>3 DEF GoesOn, f
    <3>2. o.ps = f /\ o.says = <<>> /\ o.closes BY <3>1 DEF Goes, Outcome
    <3> QED BY <1>1, <1>5, <2>1, <2>3, <3>2
  <2>4. CASE "acked" \in ev /\ g.at # "sendlast"
    <3>1. o \in ReadTo(f, "newdata" \in ev, data) BY <1>2, <1>5, <2>4 DEF GoesOn, f
    <3> QED BY <2>1, <2>4, <3>1, ReadToReads
  <2> QED BY <2>2, <2>3, <2>4
<1> QED BY <1>4, <1>5

LEMMA SaysAtMostOne ==
  ASSUME NEW p \in Psocks, NEW ev, NEW data \in Seq(ALine), "newdata" \in ev => data # <<>>,
         NEW o \in AppCall(p, ev, data), answered \in Seq(Nat)
  PROVE  /\ answered \o o.says \in Seq(Nat)
         /\ Len(answered \o o.says) \in {Len(answered), Len(answered) + 1}
         /\ \A i \in 1 .. Len(answered) : (answered \o o.says)[i] = answered[i]
<1>1. o.says \in Seq(Nat) BY CallOutcome
<1>2. Len(o.says) \in {0, 1}
  <2>1. o.says = <<>> \/ o.says = <<o.ps.answer>> BY CallShape DEF Reads
  <2>2. Len(<<>>) = 0 /\ Len(<<o.ps.answer>>) = 1 OBVIOUS
  <2>3. CASE o.says = <<>> BY <2>2, <2>3
  <2>4. CASE o.says = <<o.ps.answer>> BY <2>2, <2>4
  <2> QED BY <2>1, <2>3, <2>4
<1>3. /\ Len(answered \o o.says) = Len(answered) + Len(o.says)
      /\ \A i \in 1 .. Len(answered) + Len(o.says) :
           (answered \o o.says)[i] = IF i <= Len(answered) THEN answered[i] ELSE o.says[i - Len(answered)]
  BY <1>1, ConcatProperties
<1>4. Len(answered) \in Nat OBVIOUS
<1>5. \A i \in 1 .. Len(answered) : i \in 1 .. Len(answered) + Len(o.says) /\ i <= Len(answered)
  BY <1>2, <1>4
<1>6. Len(answered) + Len(o.says) \in {Len(answered), Len(answered) + 1}
  <2>1. PICK a \in Nat : a = Len(answered) BY <1>4
  <2>2. PICK l \in Nat : l = Len(o.says) /\ (l = 0 \/ l = 1) BY <1>2
  <2>3. CASE l = 0 BY <2>1, <2>2, <2>3
  <2>4. CASE l = 1 BY <2>1, <2>2, <2>4
  <2> QED BY <2>2, <2>3, <2>4
<1>7. answered \o o.says \in Seq(Nat) BY <1>1
<1> QED BY <1>3, <1>5, <1>6, <1>7

(* The numbers after a call of the application in ESTABLISHED, for which nothing is
   outstanding but the answer whose acknowledgement it waits for. *)
LEMMA NumbersOfAnswer ==
  ASSUME NEW n \in Nat, dev'.state = "ESTABLISHED", dev'.snd \in Nat, dev'.len \in Nat,
         dev'.snd + dev'.len = n + 1
  PROVE  NumberOf' = n
BY DEF NumberOf, FinSent

LEMMA NumbersOfFin ==
  ASSUME NEW n \in Nat, dev'.state # "ESTABLISHED", dev'.snd \in Nat, dev'.len \in Nat,
         dev'.snd + dev'.len = n + 2
  PROVE  NumberOf' = n
BY DEF NumberOf, FinSent

LEMMA SendsNext ==
  ASSUME NEW d \in Devs, d.state = "ESTABLISHED", ps \in Psocks, answered \in Seq(Nat),
         dev' \in Devs, ps' \in Psocks, answered' \in Seq(Nat),
         NEW ev, NEW data, NEW o \in AppCall(ps, ev, data), Called(o), AppSend(d, ev, o),
         "rexmit" \notin ev, d.snd + d.len = Len(answered) + 1,
         StartsAt(ps, ev) = "read" \/ "acked" \in ev => d.len = 0,
         StartsAt(ps, ev) # "read" /\ "acked" \notin ev =>
           d.len = 1 /\ Len(answered) > 0 /\ ps.answer = answered[Len(answered)]
  PROVE  /\ dev'.state \in {"ESTABLISHED", "FIN_WAIT_1"}
         /\ dev'.conn = d.conn /\ dev'.rcv = d.rcv /\ dev'.snd = d.snd
         /\ d.snd + d.len <= dev'.snd + dev'.len
         /\ DevNumbers' /\ Len(answered) <= NumberOf'
         /\ Silent \/ \E r \in Replies : Reply(r) /\ r.conn = d.conn /\ FromClock(r)'
<1> DEFINE sending == [d EXCEPT !.len = IF o.sends THEN 1 ELSE @, !.nrtx = 0]
           closing == [d EXCEPT !.len = 1, !.nrtx = 0, !.state = "FIN_WAIT_1"]
<1>1. PICK a \in Nat, sn \in Nat, ln \in Nat : a = Len(answered) /\ sn = d.snd /\ ln = d.len /\ sn + ln = a + 1
  BY DevFields
<1>2. ps' = o.ps /\ answered' = answered \o o.says BY DEF Called
<1>3. /\ sending.state = "ESTABLISHED" /\ sending.conn = d.conn /\ sending.rcv = d.rcv
      /\ sending.snd = d.snd /\ sending.len = IF o.sends THEN 1 ELSE d.len
  BY DEF Devs
<1>4. /\ closing.state = "FIN_WAIT_1" /\ closing.conn = d.conn /\ closing.rcv = d.rcv
      /\ closing.snd = d.snd /\ closing.len = 1
  BY DEF Devs
<1>5. d.conn \in Conns /\ d.rcv \in Nat BY DevFields
<1>6. /\ o.closes => dev' = closing /\ Reply(FinAck(closing))
      /\ ~o.closes => /\ dev' = sending
                      /\ o.sends => Reply(Answer(sending, o.ps))
                      /\ ~o.sends => Reply(Ack(sending)) \/ Silent
  BY DEF AppSend
<1> HIDE DEF sending, closing
<1>7. dev'.len \in Nat /\ dev'.snd \in Nat /\ dev'.rcv \in Nat BY DevFields
<1>8. ASSUME ~o.closes, ~o.sends, o.says = <<>>, ln = 1 => a > 0 /\ o.ps.answer = answered[a],
             o.ps.at = "read" <=> ln = 0, ln \in {0, 1}
      PROVE  /\ dev'.state = "ESTABLISHED"
             /\ dev'.conn = d.conn /\ dev'.rcv = d.rcv /\ dev'.snd = d.snd
             /\ d.snd + d.len <= dev'.snd + dev'.len
             /\ DevNumbers' /\ Len(answered) <= NumberOf'
             /\ Silent \/ \E r \in Replies : Reply(r) /\ r.conn = d.conn /\ FromClock(r)'
  <2>1. dev' = sending /\ (Reply(Ack(sending)) \/ Silent) BY <1>6, <1>8
  <2>2. /\ dev'.state = "ESTABLISHED" /\ dev'.conn = d.conn /\ dev'.rcv = d.rcv
        /\ dev'.snd = d.snd /\ dev'.len = d.len
    BY <1>3, <1>8, <2>1
  <2>3. answered' = answered
    <3>1. answered \o <<>> = answered OBVIOUS
    <3> QED BY <1>2, <1>8, <3>1
  <2>4. NumberOf' = a
    <3>1. dev'.snd + dev'.len = a + 1 BY <1>1, <2>2
    <3> QED BY <1>7, <2>2, <3>1, NumbersOfAnswer
  <2>5. DevNumbers'
    <3>1. Len(answered') = a BY <1>1, <2>3
    <3>2. IF ps'.at = "read" THEN dev'.len = 0
          ELSE dev'.len = 1 /\ NumberOf' > 0 /\ ps'.answer = answered'[NumberOf']
      BY <1>1, <1>2, <1>8, <2>2, <2>3, <2>4
    <3> QED BY <2>2, <2>4, <3>1, <3>2 DEF DevNumbers
  <2>6. FromClock(Ack(sending))'
    <3>1. PICK r : r = Ack(sending) OBVIOUS
    <3>2. r.data = <<>> /\ ~r.fin /\ r.ack = sending.rcv BY <3>1 DEF Ack, Segment
    <3>3. r.ack <= dev'.rcv BY <1>7, <2>1, <3>2
    <3>4. FromClock(r)' BY <3>2, <3>3 DEF FromClock
    <3> QED BY <3>1, <3>4
  <2>7. Ack(sending) \in Replies /\ Ack(sending).conn = d.conn
    <3>1. Ack(sending).conn = sending.conn BY DEF Ack, Segment
    <3> QED BY <1>3, <1>5, <2>1, <3>1, AcksAreReplies
  <2>8. d.snd + d.len <= dev'.snd + dev'.len BY <1>1, <2>2
  <2>9. Len(answered) <= NumberOf' BY <1>1, <2>4
  <2> QED BY <2>1, <2>2, <2>5, <2>6, <2>7, <2>8, <2>9
<1>9. CASE StartsAt(ps, ev) # "read" /\ "acked" \notin ev
  <2>1. o.ps = ps /\ o.says = <<>> /\ ~o.closes /\ ~o.sends BY <1>9, CallShape
  <2>2. ln = 1 /\ a > 0 /\ ps.answer = answered[a] BY <1>1, <1>9
  <2>3. ps.at # "read" BY <1>9 DEF StartsAt
  <2> QED BY <1>8, <2>1, <2>2, <2>3
<1>10. CASE o.closes /\ "acked" \in ev
  <2>1. o.says = <<>> /\ o.ps.at = "read" BY <1>10, CallShape DEF Reads
  <2>2. ln = 0 BY <1>1, <1>10
  <2>3. dev' = closing /\ Reply(FinAck(dev')) BY <1>6, <1>10
  <2>4. answered' = answered
    <3>1. answered \o <<>> = answered OBVIOUS
    <3> QED BY <1>2, <2>1, <3>1
  <2>5. NumberOf' = a
    <3>1. dev'.snd + dev'.len = a + 2 BY <1>1, <1>4, <2>2, <2>3
    <3> QED BY <1>4, <1>7, <2>3, <3>1, NumbersOfFin
  <2>6. DevNumbers'
    <3>1. Len(answered') = a BY <1>1, <2>4
    <3> QED BY <1>4, <2>3, <2>5, <3>1 DEF DevNumbers
  <2>7. PICK r : r = FinAck(dev') OBVIOUS
  <2>8. FromClock(r)'
    <3>1. r.data = <<>> /\ r.ack = dev'.rcv /\ r.seq = dev'.snd BY <2>7 DEF FinAck, Segment
    <3>2. dev'.snd = NumberOf' + 1 BY <1>1, <1>4, <2>2, <2>3, <2>5
    <3>3. FinSent' BY <1>4, <2>3 DEF FinSent
    <3>4. dev'.rcv <= dev'.rcv BY <1>7
    <3> QED BY <3>1, <3>2, <3>3, <3>4 DEF FromClock
  <2>9. r \in Replies /\ r.conn = d.conn
    <3>1. r.conn = dev'.conn BY <2>7 DEF FinAck, Segment
    <3> QED BY <1>4, <1>5, <2>3, <2>7, <3>1, AcksAreReplies
  <2>10. d.snd + d.len <= dev'.snd + dev'.len BY <1>1, <1>4, <2>2, <2>3
  <2>11. Len(answered) <= NumberOf' BY <1>1, <2>5
  <2> QED BY <1>4, <2>3, <2>6, <2>7, <2>8, <2>9, <2>10, <2>11
<1>11. CASE (StartsAt(ps, ev) = "read" \/ "acked" \in ev) /\ Reads(o)
  <2>1. ln = 0 /\ ~o.closes BY <1>1, <1>11 DEF Reads
  <2>2. CASE o.ps.at = "read" /\ o.says = <<>> /\ ~o.sends
    BY <1>8, <2>1, <2>2
  <2>3. CASE o.ps.at # "read" /\ o.says = <<o.ps.answer>> /\ o.sends
    <3>1. dev' = sending /\ Reply(Answer(dev', ps')) BY <1>2, <1>6, <2>1, <2>3
    <3>2. /\ dev'.state = "ESTABLISHED" /\ dev'.conn = d.conn /\ dev'.rcv = d.rcv
          /\ dev'.snd = d.snd /\ dev'.len = 1
      BY <1>3, <2>3, <3>1
    <3>3. answered' = Append(answered, ps'.answer) /\ Len(answered') = a + 1 /\ answered'[a + 1] = ps'.answer
      <4>1. ps'.answer \in Nat BY DEF Psocks
      <4>2. answered' = answered \o <<ps'.answer>> BY <1>2, <2>3
      <4>3. answered \o <<ps'.answer>> = Append(answered, ps'.answer) BY <4>1
      <4> QED BY <1>1, <4>1, <4>2, <4>3, AppendProperties
    <3>4. NumberOf' = a + 1
      <4>1. dev'.snd + dev'.len = (a + 1) + 1 BY <1>1, <2>1, <3>2
      <4>2. a + 1 \in Nat OBVIOUS
      <4> QED BY <1>7, <3>2, <4>1, <4>2, NumbersOfAnswer
    <3>5. DevNumbers'
      <4>1. ps'.at # "read" BY <1>2, <2>3
      <4>2. NumberOf' > 0 BY <3>4
      <4> QED BY <3>2, <3>3, <3>4, <4>1, <4>2 DEF DevNumbers
    <3>6. PICK r : r = Answer(dev', ps') OBVIOUS
    <3>7. /\ r.data = <<ps'.answer>> /\ ~r.fin /\ r.ack = dev'.rcv /\ r.seq = dev'.snd
          /\ r.conn = dev'.conn
      BY <3>6 DEF Answer, Segment
    <3>8. FromClock(r)'
      <4>1. dev'.snd = a + 1 BY <1>1, <2>1, <3>2
      <4>2. a + 1 \in 1 .. NumberOf' BY <3>4
      <4>3. dev'.rcv <= dev'.rcv BY <1>7
      <4> QED BY <3>3, <3>7, <4>1, <4>2, <4>3 DEF FromClock
    <3>9. r \in Replies BY <1>5, <3>2, <3>6, AnswerIsReply
    <3>10. d.snd + d.len <= dev'.snd + dev'.len BY <1>1, <2>1, <3>2
    <3>11. Len(answered) <= NumberOf' BY <1>1, <3>4
    <3> QED BY <3>1, <3>2, <3>5, <3>6, <3>7, <3>8, <3>9, <3>10, <3>11
  <2> QED BY <1>11, <2>2, <2>3 DEF Reads
<1> QED BY <1>8, <1>9, <1>10, <1>11, CallShape

-----------------------------------------------------------------------------
(* The steps of the clock, by what becomes of its connection.  In the place of a reply
   that is not sent stands a reset, which says nothing of the connection. *)
MereReset(c) == Segment(c, "rst", 0, <<>>, FALSE, 0)

LEMMA MereResetSaid ==
  ASSUME NEW c \in Conns
  PROVE  /\ MereReset(c) \in Replies /\ MereReset(c).kind = "rst" /\ MereReset(c).conn = c
         /\ Silent => Says(MereReset(c))
<1>1. MereReset(c) \in Replies BY MereReply DEF MereReset, Kinds
<1> QED BY <1>1 DEF MereReset, Segment, Silent, Says

ClockSteps == HostSteps /\ Takes

Ready == NetTypes /\ HostSide /\ DevSide /\ DevSide' /\ EndsInv /\ ClockSteps

LEMMA UnmovedAgrees ==
  ASSUME Ready, NotCalled, UNCHANGED dev,
         NEW r \in Replies, Says(r), r.kind = "rst", r.conn <= app.opened
  PROVE  EndsInv'
<1>1. UNCHANGED devVars BY DEF NotCalled, devVars
<1>2. DevNumbers'
  <2>1. NumberOf' = NumberOf /\ dev' = dev /\ ps' = ps /\ answered' = answered
    BY <1>1 DEF NumberOf, FinSent, devVars
  <2> QED BY <2>1 DEF Ready, EndsInv, DevNumbers
<1>3. \A c \in Conns : Talk(c)'
  <2> SUFFICES ASSUME NEW c \in Conns PROVE Talk(c)'
    OBVIOUS
  <2>1. Fewer(c) BY SaysSegs DEF Ready, ClockSteps, Takes, Fewer
  <2> QED BY <1>1, <2>1, OthersTalk DEF Ready, ClockSteps, HostSteps, EndsInv
<1>4. dev'.state # "CLOSED" => dev'.conn <= app.opened BY DEF Ready, EndsInv, Opened
<1> QED BY <1>2, <1>3, <1>4, DevFrame DEF Ready, ClockSteps

LEMMA ClosedAgrees ==
  ASSUME Ready, dev' = Closed, NEW r \in Replies, Says(r), r.kind = "rst", r.conn <= app.opened
  PROVE  EndsInv'
<1>1. dev'.state = "CLOSED" BY ClosedType
<1>2. DevNumbers' BY <1>1 DEF DevNumbers, Lives
<1>3. \A c \in Conns : Talk(c)'
  <2> SUFFICES ASSUME NEW c \in Conns PROVE Talk(c)'
    OBVIOUS
  <2>1. ~On(c)' BY <1>1 DEF On
  <2> QED BY <2>1, NotOnTalk DEF Ready, ClockSteps, EndsInv
<1> QED BY <1>1, <1>2, <1>3, DevFrame DEF Ready, ClockSteps

(* Of the connections the clock does not have, none is touched. *)
LEMMA OnlyOn ==
  ASSUME Ready, NEW c \in Conns, dev'.conn = c, NEW r \in Replies, Says(r), r.conn = c,
         Talk(c)', DevNumbers', c <= app.opened
  PROVE  EndsInv'
<1>1. \A d \in Conns : Talk(d)'
  <2> SUFFICES ASSUME NEW d \in Conns, d # c PROVE Talk(d)'
    OBVIOUS
  <2>1. ~On(d)' BY DEF On
  <2> QED BY <2>1, NotOnTalk DEF Ready, ClockSteps, EndsInv
<1> QED BY <1>1, DevFrame DEF Ready, ClockSteps

LEMMA MineIsOpened ==
  ASSUME Ready, dev.state # "CLOSED"
  PROVE  dev.conn \in Conns /\ dev.conn <= app.opened /\ Talk(dev.conn) /\ On(dev.conn) /\ DevNumbers
BY DevFields DEF Ready, DevSide, EndsInv, Opened, On

LEMMA AcceptAgrees ==
  ASSUME Ready, NEW s \in Segs(toDev), Accept(s)
  PROVE  EndsInv'
<1>1. s \in Requests /\ s.conn <= app.opened /\ s.kind = "syn" /\ s.seq = 0
  BY SegsTypes DEF Ready, EndsInv, Opened, SynsAreZero, Accept
<1>2. PICK c \in Conns : c = s.conn BY <1>1 DEF Requests
<1>3. CASE dev.state \in {"CLOSED", "TIME_WAIT"}
  <2>1. /\ dev' = [state |-> "SYN_RCVD", conn |-> c, rcv |-> 0 + 1, snd |-> 0, len |-> 1, nrtx |-> 0]
        /\ answered' = <<>> /\ Reply(SynAck(dev'))
    BY <1>1, <1>2, <1>3 DEF Accept
  <2>2. dev'.state = "SYN_RCVD" /\ dev'.conn = c /\ dev'.rcv = 1 /\ dev'.snd = 0 /\ dev'.len = 1
    BY <2>1
  <2>3. PICK r : r = SynAck(dev') OBVIOUS
  <2>4. r \in Replies /\ r.conn = c /\ SaysNothing(r) /\ Says(r)
    <3>1. r.conn = c /\ r.data = <<>> /\ ~r.fin /\ r.ack = 1 BY <2>2, <2>3 DEF SynAck, Segment
    <3>2. r \in Replies BY <2>2, <2>3, AcksAreReplies DEF Ready, DevSide
    <3> QED BY <2>1, <2>3, <3>1, <3>2 DEF SaysNothing, Says, Reply
  <2>5. DevNumbers'
    <3>1. ~(dev'.state \notin {"CLOSED", "SYN_RCVD"}) BY <2>2
    <3> QED BY <2>1, <2>2, <3>1 DEF DevNumbers, Lives
  <2>6. Early(c) BY <1>1, <1>2 DEF Early
  <2>7. Talk(c)' BY <2>2, <2>4, <2>6, BeginningTalk DEF Ready, ClockSteps, EndsInv
  <2> QED BY <1>1, <1>2, <2>2, <2>4, <2>5, <2>7, OnlyOn
<1>4. CASE dev.state \notin {"CLOSED", "TIME_WAIT"}
  <2>1. NotCalled /\ UNCHANGED dev /\ Silent BY <1>4 DEF Accept, NotCalled
  <2> QED BY <1>1, <1>2, <2>1, MereResetSaid, UnmovedAgrees
<1> QED BY <1>3, <1>4

LEMMA RefuseAgrees ==
  ASSUME Ready, NEW s \in Segs(toDev), Refuse(s)
  PROVE  EndsInv'
<1>1. s \in Requests /\ s.conn \in Conns /\ s.conn <= app.opened
  BY SegsTypes DEF Ready, EndsInv, Opened, Requests
<1>2. NotCalled /\ UNCHANGED dev /\ (Silent \/ Reply(Reset(s))) BY DEF Refuse
<1>3. Reset(s) \in Replies /\ Reset(s).conn = s.conn /\ Reset(s).kind = "rst"
  <2>1. Reset(s) \in Replies BY <1>1, MereReply DEF Reset, Requests, Kinds
  <2> QED BY <2>1 DEF Reset, Segment
<1>4. CASE Silent BY <1>1, <1>2, <1>4, MereResetSaid, UnmovedAgrees
<1>5. CASE Reply(Reset(s))
  <2>1. Says(Reset(s)) BY <1>5 DEF Says, Reply
  <2> QED BY <1>1, <1>2, <1>3, <2>1, UnmovedAgrees
<1> QED BY <1>2, <1>4, <1>5

(* A step that leaves the connection as it is, without a word. *)
LEMMA IdleAgrees ==
  ASSUME Ready, dev.state # "CLOSED", NotCalled, UNCHANGED dev, Silent
  PROVE  EndsInv'
BY MineIsOpened, MereResetSaid, UnmovedAgrees

(* A step that ends the connection, with a reset or without a word. *)
LEMMA OverAgrees ==
  ASSUME Ready, dev.state # "CLOSED", dev' = Closed,
         Silent \/ Reply(Segment(dev.conn, "rst", dev.snd, <<>>, FALSE, dev.rcv))
  PROVE  EndsInv'
<1>1. dev.conn \in Conns /\ dev.conn <= app.opened BY MineIsOpened
<1>2. CASE Silent BY <1>1, <1>2, MereResetSaid, ClosedAgrees
<1>3. CASE Reply(Segment(dev.conn, "rst", dev.snd, <<>>, FALSE, dev.rcv))
  <2>1. PICK r : r = Segment(dev.conn, "rst", dev.snd, <<>>, FALSE, dev.rcv) OBVIOUS
  <2>2. r \in Replies
    <3>1. dev.snd \in Nat /\ dev.rcv \in Nat BY DevFields DEF Ready, DevSide
    <3> QED BY <1>1, <2>1, <3>1, MereReply DEF Kinds
  <2>3. r.conn = dev.conn /\ r.kind = "rst" BY <2>1 DEF Segment
  <2>4. Says(r) BY <1>3, <2>1 DEF Says, Reply
  <2> QED BY <1>1, <2>2, <2>3, <2>4, ClosedAgrees
<1> QED BY <1>2, <1>3

(* The SYN's answer is repeated, or an acknowledgement that brings nothing. *)
LEMMA StayingAgrees ==
  ASSUME Ready, dev.state = "SYN_RCVD", NotCalled,
         dev'.state = "SYN_RCVD", dev'.conn = dev.conn, dev'.rcv = dev.rcv, dev'.snd = dev.snd,
         dev'.len = dev.len, Reply(SynAck(dev)) \/ Reply(Ack(dev))
  PROVE  EndsInv'
<1>1. PICK c \in Conns : c = dev.conn /\ c <= app.opened /\ Talk(c) /\ On(c) BY MineIsOpened
<1>2. DevNumbers BY MineIsOpened
<1>3. dev.rcv = 1 BY <1>2 DEF DevNumbers
<1>4. PICK r : (r = SynAck(dev) \/ r = Ack(dev)) /\ Reply(r) OBVIOUS
<1>5. r.conn = c /\ r.data = <<>> /\ ~r.fin /\ r.ack = 1 BY <1>1, <1>3, <1>4 DEF SynAck, Ack, Segment
<1>6. r \in Replies BY <1>1, <1>4, AcksAreReplies DEF Ready, DevSide
<1>7. SaysNothing(r) /\ Says(r) BY <1>4, <1>5 DEF SaysNothing, Says, Reply
<1>8. Early(c) BY <1>1 DEF Early
<1>9. Talk(c)' BY <1>1, <1>6, <1>7, <1>8, BeginningTalk DEF Ready, ClockSteps
<1>10. DevNumbers'
  <2>1. ~(dev'.state \notin {"CLOSED", "SYN_RCVD"}) OBVIOUS
  <2> QED BY <1>2, <2>1 DEF DevNumbers, Lives, NotCalled
<1> QED BY <1>1, <1>5, <1>6, <1>7, <1>9, <1>10, OnlyOn

LEMMA GoingOnAgrees ==
  ASSUME Ready, GoesOnFrom(dev.conn), DevNumbers',
         Silent \/ \E r \in Replies : Reply(r) /\ r.conn = dev.conn /\ FromClock(r)'
  PROVE  EndsInv'
<1>1. dev.state # "CLOSED" BY DEF GoesOnFrom, Lives
<1>2. PICK c \in Conns : c = dev.conn /\ c <= app.opened /\ Talk(c) /\ On(c) BY <1>1, MineIsOpened
<1>3. DevNumbers BY <1>1, MineIsOpened
<1>4. PICK r \in Replies : Says(r) /\ r.conn = c /\ (r.kind = "rst" \/ FromClock(r)')
  <2>1. CASE Silent BY <1>2, <2>1, MereResetSaid
  <2>2. CASE \E r \in Replies : Reply(r) /\ r.conn = dev.conn /\ FromClock(r)'
    <3>1. PICK r \in Replies : Reply(r) /\ r.conn = dev.conn /\ FromClock(r)' BY <2>2
    <3>2. Says(r) BY <3>1 DEF Says, Reply
    <3> QED BY <1>2, <3>1, <3>2
  <2> QED BY <2>1, <2>2
<1>5. Talk(c)' BY <1>2, <1>3, <1>4, GoingOnTalk DEF Ready, ClockSteps
<1>6. dev'.conn = c BY <1>2 DEF GoesOnFrom
<1> QED BY <1>2, <1>4, <1>5, <1>6, OnlyOn

-----------------------------------------------------------------------------
(* What an acknowledgement of all that is outstanding changes: the numbers sent stay. *)
LEMMA AckedNumbers ==
  ASSUME dev \in Devs, NEW s \in Requests
  PROVE  /\ Acked(s).snd \in Nat /\ Acked(s).len \in Nat
         /\ Acked(s).snd + Acked(s).len = dev.snd + dev.len
         /\ \/ Acked(s) = dev /\ ~Acks(s)
            \/ /\ Acks(s) /\ Acked(s).len = 0
               /\ Acked(s).snd = s.ack /\ s.ack = dev.snd + dev.len
<1>1. dev.snd \in Nat /\ dev.len \in Nat /\ s.ack \in Nat BY DevFields DEF Requests
<1>2. CASE Acks(s)
  <2>1. Acked(s).snd = s.ack /\ Acked(s).len = 0 BY <1>2 DEF Acked, Devs
  <2>2. s.ack = dev.snd + dev.len BY <1>2 DEF Acks
  <2>3. s.ack + 0 = s.ack BY <1>1
  <2> QED BY <1>1, <1>2, <2>1, <2>2, <2>3
<1>3. CASE ~Acks(s)
  BY <1>1, <1>3 DEF Acked
<1> QED BY <1>2, <1>3

(* The numbers of a segment that comes next are those that follow. *)
LEMMA NextEnds ==
  ASSUME dev \in Devs, NEW s \in Requests, ~OutOfSequence(s)
  PROVE  /\ Len(s.data) \in Nat /\ dev.rcv \in Nat /\ EndOf(s) \in Nat
         /\ s.data # <<>> => dev.rcv + Len(s.data) <= EndOf(s)
         /\ s.data = <<>> => Len(s.data) = 0
         /\ s.fin => (dev.rcv + Len(s.data)) + 1 = EndOf(s)
<1>1. dev.rcv \in Nat BY DevFields
<1>2. PICK n \in Nat, q \in Nat, l \in {0, 1} : n = Len(s.data) /\ q = s.seq /\ l = One(s.fin) /\ EndOf(s) = q + n + l
  BY EndType
<1>3. s.data # <<>> \/ s.fin => s.seq = dev.rcv BY DEF OutOfSequence
<1>4. s.fin => l = 1 BY <1>2 DEF One
<1>5. Len(<<>>) = 0 OBVIOUS
<1>6. CASE l = 0 BY <1>1, <1>2, <1>3, <1>4, <1>5, <1>6
<1>7. CASE l = 1 BY <1>1, <1>2, <1>3, <1>4, <1>5, <1>7
<1> QED BY <1>2, <1>6, <1>7

(* A connection that stays as it is; an acknowledgement or the FIN may be repeated. *)
LEMMA StillAgrees ==
  ASSUME Ready, Lives(dev), NotCalled, dev'.state = dev.state, dev'.conn = dev.conn,
         dev'.rcv = dev.rcv, dev'.snd = dev.snd, dev'.len = dev.len,
         \/ Silent \/ Reply(Ack(dev))
         \/ dev.state # "ESTABLISHED" /\ dev.len = 1 /\ Reply(FinAck(dev))
  PROVE  EndsInv'
<1>1. dev.state # "CLOSED" BY DEF Lives
<1>2. DevNumbers /\ dev.conn \in Conns BY <1>1, MineIsOpened
<1>3. NumberOf' = NumberOf /\ (FinSent' <=> FinSent) /\ answered' = answered /\ ps' = ps
  BY DEF NumberOf, FinSent, NotCalled
<1>4. NumberOf \in Nat BY <1>2 DEF DevNumbers
<1>5. dev \in Devs /\ dev.rcv \in Nat /\ dev.snd \in Nat /\ dev.len \in Nat BY DevFields DEF Ready, DevSide
<1>6. GoesOnFrom(dev.conn)
  <2>1. dev.rcv <= dev'.rcv /\ dev.snd + dev.len <= dev'.snd + dev'.len /\ NumberOf <= NumberOf'
    BY <1>3, <1>4, <1>5
  <2> QED BY <1>3, <2>1 DEF GoesOnFrom, Lives
<1>7. DevNumbers'
  BY <1>2, <1>3 DEF DevNumbers, Lives
<1>8. Silent \/ \E r \in Replies : Reply(r) /\ r.conn = dev.conn /\ FromClock(r)'
  <2>1. ASSUME Reply(Ack(dev)) PROVE \E r \in Replies : Reply(r) /\ r.conn = dev.conn /\ FromClock(r)'
    <3>1. PICK r : r = Ack(dev) OBVIOUS
    <3>2. r \in Replies BY <1>2, <1>5, <3>1, AcksAreReplies
    <3>3. r.conn = dev.conn /\ r.data = <<>> /\ ~r.fin /\ r.ack = dev.rcv BY <3>1 DEF Ack, Segment
    <3>4. r.ack <= dev'.rcv BY <1>5, <3>3
    <3>5. FromClock(r)' BY <3>3, <3>4 DEF FromClock
    <3> QED BY <2>1, <3>1, <3>2, <3>3, <3>5
  <2>2. ASSUME dev.state # "ESTABLISHED", dev.len = 1, Reply(FinAck(dev))
        PROVE  \E r \in Replies : Reply(r) /\ r.conn = dev.conn /\ FromClock(r)'
    <3>1. PICK r : r = FinAck(dev) OBVIOUS
    <3>2. r \in Replies BY <1>2, <1>5, <3>1, AcksAreReplies
    <3>3. r.conn = dev.conn /\ r.data = <<>> /\ r.ack = dev.rcv /\ r.seq = dev.snd
      BY <3>1 DEF FinAck, Segment
    <3>4. r.ack <= dev'.rcv BY <1>5, <3>3
    <3>5. FinSent' /\ r.seq = NumberOf' + 1
      <4>1. FinSent BY <2>2 DEF FinSent
      <4>2. NumberOf + 1 = dev.snd BY <1>5, <2>2, <4>1 DEF NumberOf
      <4> QED BY <1>3, <3>3, <4>1, <4>2
    <3>6. FromClock(r)' BY <3>3, <3>4, <3>5 DEF FromClock
    <3> QED BY <2>2, <3>1, <3>2, <3>3, <3>6
  <2> QED BY <2>1, <2>2
<1> QED BY <1>6, <1>7, <1>8, GoingOnAgrees

(* A connection on which the FIN has been sent. *)
LEMMA ClosingAgrees ==
  ASSUME Ready, Lives(dev), dev.state # "ESTABLISHED", dev'.conn = dev.conn,
         dev'.state \in {"FIN_WAIT_1", "FIN_WAIT_2", "CLOSING", "TIME_WAIT"},
         dev.rcv <= dev'.rcv,
         dev'.rcv = dev.rcv \/ \E s \in Takeable(dev.conn) : dev'.rcv <= EndOf(s),
         \/ dev'.snd = dev.snd
         \/ \E s \in Takeable(dev.conn) : dev'.snd = s.ack /\ s.ack = dev.snd + dev.len,
         dev.snd + dev.len = dev'.snd + dev'.len,
         dev'.len = IF dev'.state \in {"FIN_WAIT_1", "CLOSING"} THEN 1 ELSE 0,
         \/ answered' = answered /\ (dev'.state \in {"FIN_WAIT_1", "FIN_WAIT_2"} =>
                                       dev.state \in {"FIN_WAIT_1", "FIN_WAIT_2"})
         \/ /\ dev.state \in {"FIN_WAIT_1", "FIN_WAIT_2"} /\ dev'.state \in {"CLOSING", "TIME_WAIT"}
            /\ Len(answered') \in {Len(answered), Len(answered) + 1}
            /\ \A i \in 1 .. Len(answered) : answered'[i] = answered[i],
         NEW d \in Devs, d.conn = dev.conn, d.rcv = dev'.rcv, Silent \/ Reply(Ack(d))
  PROVE  EndsInv'
<1>1. dev.state # "CLOSED" BY DEF Lives
<1>2. DevNumbers /\ dev.conn \in Conns BY <1>1, MineIsOpened
<1>3. /\ dev.rcv \in Nat /\ dev.snd \in Nat /\ dev.len \in Nat
      /\ dev'.rcv \in Nat /\ dev'.snd \in Nat /\ dev'.len \in Nat
  BY DevFields DEF Ready, DevSide
<1>4. FinSent /\ FinSent' BY DEF FinSent
<1>5. PICK n \in Nat : n = NumberOf /\ n \in {Len(answered), Len(answered) - 1}
  BY <1>2 DEF DevNumbers
<1>6. NumberOf' = n
  <2>1. dev.snd + dev.len = n + 2 BY <1>3, <1>4, <1>5 DEF NumberOf
  <2> QED BY <1>3, <2>1, NumbersOfFin
<1>7. GoesOnFrom(dev.conn)
  <2>1. dev.snd + dev.len <= dev'.snd + dev'.len BY <1>3
  <2>2. NumberOf <= NumberOf' BY <1>5, <1>6
  <2>3. \A i \in 1 .. Len(answered) : answered'[i] = answered[i] OBVIOUS
  <2> QED BY <1>4, <2>1, <2>2, <2>3 DEF GoesOnFrom
<1>8. DevNumbers'
  <2>1. n \in {Len(answered'), Len(answered') - 1}
    <3>1. CASE answered' = answered BY <1>5, <3>1
    <3>2. CASE dev.state \in {"FIN_WAIT_1", "FIN_WAIT_2"} /\ Len(answered') \in {Len(answered), Len(answered) + 1}
      <4>1. n = Len(answered) BY <1>2, <1>5, <3>2 DEF DevNumbers
      <4> QED BY <3>2, <4>1
    <3> QED BY <3>1, <3>2
  <2>2. dev'.state \in {"FIN_WAIT_1", "FIN_WAIT_2"} => n = Len(answered')
    BY <1>2, <1>5 DEF DevNumbers
  <2> QED BY <1>6, <2>1, <2>2 DEF DevNumbers
<1>9. Silent \/ \E r \in Replies : Reply(r) /\ r.conn = dev.conn /\ FromClock(r)'
  <2> SUFFICES ASSUME Reply(Ack(d)) PROVE \E r \in Replies : Reply(r) /\ r.conn = dev.conn /\ FromClock(r)'
    OBVIOUS
  <2>1. PICK r : r = Ack(d) OBVIOUS
  <2>2. r \in Replies BY <1>2, <2>1, AcksAreReplies
  <2>3. r.conn = dev.conn /\ r.data = <<>> /\ ~r.fin /\ r.ack = dev'.rcv BY <2>1 DEF Ack, Segment
  <2>4. r.ack <= dev'.rcv BY <1>3, <2>3
  <2>5. FromClock(r)' BY <2>3, <2>4 DEF FromClock
  <2> QED BY <2>1, <2>2, <2>3, <2>5
<1> QED BY <1>7, <1>8, <1>9, GoingOnAgrees

(* A call of the application in ESTABLISHED. *)
LEMMA CallingAgrees ==
  ASSUME Ready, dev.state = "ESTABLISHED", NEW d \in Devs, d.state = "ESTABLISHED", d.conn = dev.conn,
         dev.rcv <= d.rcv,
         d.rcv = dev.rcv \/ \E s \in Takeable(dev.conn) : d.rcv <= EndOf(s),
         \/ d.snd = dev.snd
         \/ \E s \in Takeable(dev.conn) : d.snd = s.ack /\ s.ack = dev.snd + dev.len,
         d.snd + d.len = dev.snd + dev.len,
         NEW ev, NEW data \in Seq(ALine), "newdata" \in ev => data # <<>>,
         "rexmit" \notin ev, "connected" \notin ev,
         IF "acked" \in ev THEN d.len = 0 ELSE d.len = dev.len,
         CallAndSend(d, ev, data)
  PROVE  EndsInv'
<1>1. DevNumbers /\ dev.conn \in Conns BY MineIsOpened
<1>2. PICK o \in AppCall(ps, ev, data) : Called(o) /\ AppSend(d, ev, o) BY DEF CallAndSend
<1>3. ps \in Psocks /\ answered \in Seq(Nat) /\ dev' \in Devs /\ ps' \in Psocks /\ answered' \in Seq(Nat)
  BY DEF Ready, DevSide
<1>4. dev.snd \in Nat /\ dev.len \in Nat /\ d.snd \in Nat /\ d.len \in Nat BY DevFields DEF Ready, DevSide
<1>5. ~FinSent BY DEF FinSent
<1>6. PICK n \in Nat : n = NumberOf /\ n = Len(answered) /\ dev.snd + dev.len = n + 1
  <2>1. NumberOf \in Nat /\ NumberOf = Len(answered) BY <1>1 DEF DevNumbers, Lives
  <2>2. dev.snd + dev.len = NumberOf + 1 BY <1>4, <1>5, <2>1 DEF NumberOf
  <2> QED BY <2>1, <2>2
<1>7. StartsAt(ps, ev) = ps.at BY DEF StartsAt
<1>8. StartsAt(ps, ev) = "read" \/ "acked" \in ev => d.len = 0 BY <1>1, <1>7 DEF DevNumbers
<1>9. StartsAt(ps, ev) # "read" /\ "acked" \notin ev =>
        d.len = 1 /\ Len(answered) > 0 /\ ps.answer = answered[Len(answered)]
  BY <1>1, <1>6, <1>7 DEF DevNumbers
<1>10. /\ dev'.state \in {"ESTABLISHED", "FIN_WAIT_1"}
       /\ dev'.conn = d.conn /\ dev'.rcv = d.rcv /\ dev'.snd = d.snd
       /\ d.snd + d.len <= dev'.snd + dev'.len
       /\ DevNumbers' /\ Len(answered) <= NumberOf'
       /\ Silent \/ \E r \in Replies : Reply(r) /\ r.conn = d.conn /\ FromClock(r)'
  BY <1>2, <1>3, <1>6, <1>8, <1>9, SendsNext
<1>11. \A i \in 1 .. Len(answered) : answered'[i] = answered[i]
  BY <1>2, <1>3, SaysAtMostOne DEF Called
<1>12. GoesOnFrom(dev.conn) BY <1>5, <1>6, <1>10, <1>11 DEF GoesOnFrom, Lives
<1> QED BY <1>10, <1>12, GoingOnAgrees

-----------------------------------------------------------------------------
(* The handlers of the clock, each by what it makes of the connection. *)
Taken(s) == toDev # <<>> /\ toDev' = Tail(toDev) /\ s = Head(toDev) /\ s \in Segs(toDev) /\ s \in Requests

LEMMA MineIsTakeable ==
  ASSUME Ready, NEW s, Taken(s), Mine(s), s.kind = "seg"
  PROVE  s \in Takeable(dev.conn)
BY DEF Mine, Taken, Takeable

LEMMA ResetInAgrees ==
  ASSUME Ready, NEW s, Taken(s), ResetIn(s)
  PROVE  EndsInv'
BY OverAgrees DEF ResetIn, Mine, CallOnly

LEMMA RepeatedAgrees ==
  ASSUME Ready, NEW s, Taken(s), Repeated(s)
  PROVE  EndsInv'
<1>1. dev.state # "CLOSED" /\ NotCalled /\ dev' = dev /\ Reply(Ack(dev)) BY DEF Repeated, Mine
<1>2. CASE dev.state = "SYN_RCVD" BY <1>1, <1>2, StayingAgrees
<1>3. CASE dev.state # "SYN_RCVD"
  <2>1. Lives(dev) BY <1>1, <1>3 DEF Lives
  <2> QED BY <1>1, <2>1, StillAgrees
<1> QED BY <1>2, <1>3

LEMMA InTimeWaitAgrees ==
  ASSUME Ready, NEW s, Taken(s), InTimeWait(s)
  PROVE  EndsInv'
<1>1. Lives(dev) /\ NotCalled /\ dev' = dev /\ Reply(Ack(dev)) BY DEF InTimeWait, Expected, Lives
<1> QED BY <1>1, StillAgrees

LEMMA InLastAckAgrees ==
  ASSUME Ready, NEW s, Taken(s), InLastAck(s)
  PROVE  EndsInv'
<1>1. dev.state # "CLOSED" /\ Silent BY DEF InLastAck, Expected
<1>2. CASE Acks(s) BY <1>1, <1>2, OverAgrees DEF InLastAck, CallOnly
<1>3. CASE ~Acks(s) BY <1>1, <1>3, IdleAgrees DEF InLastAck
<1> QED BY <1>2, <1>3

LEMMA InEstablishedAgrees ==
  ASSUME Ready, NEW s, Taken(s), InEstablished(s)
  PROVE  EndsInv'
<1>1. dev.state = "ESTABLISHED" /\ ~OutOfSequence(s) /\ Mine(s) /\ s.kind = "seg"
  BY DEF InEstablished, Expected
<1>2. CASE Events(s) = {} BY <1>1, <1>2, IdleAgrees DEF InEstablished
<1>3. CASE Events(s) # {}
  <2> DEFINE d == Took(Acked(s), Len(s.data))
             ev == Events(s)
  <2>1. CallAndSend(d, ev, s.data) BY <1>3 DEF InEstablished
  <2>2. dev \in Devs /\ s \in Requests /\ s.data \in Seq(ALine) BY DEF Ready, DevSide, Taken, Requests
  <2>3. /\ Acked(s) \in Devs /\ Acked(s).state = "ESTABLISHED" /\ Acked(s).rcv = dev.rcv
        /\ Acked(s).conn = dev.conn
    BY <1>1, <2>2, AckedType
  <2>4. Len(s.data) \in Nat BY <2>2
  <2>5. d \in Devs /\ d.state = "ESTABLISHED" /\ d.rcv = dev.rcv + Len(s.data) /\ d.conn = dev.conn
    BY <2>3, <2>4, TookType
  <2>6. d.snd = Acked(s).snd /\ d.len = Acked(s).len BY <2>3 DEF Took, Devs
  <2>7. /\ "newdata" \in ev => s.data # <<>>
        /\ "rexmit" \notin ev /\ "connected" \notin ev
        /\ "acked" \in ev <=> Acks(s)
    BY DEF Events
  <2> HIDE DEF d, ev
  <2>8. dev.rcv <= d.rcv /\ (d.rcv = dev.rcv \/ d.rcv <= EndOf(s))
    BY <1>1, <2>2, <2>5, NextEnds
  <2>9. s \in Takeable(dev.conn) BY <1>1, MineIsTakeable
  <2>10. /\ d.snd + d.len = dev.snd + dev.len
         /\ d.snd = dev.snd \/ (d.snd = s.ack /\ s.ack = dev.snd + dev.len)
         /\ IF "acked" \in ev THEN d.len = 0 ELSE d.len = dev.len
    BY <2>2, <2>6, <2>7, AckedNumbers
  <2> QED BY <1>1, <2>1, <2>2, <2>5, <2>7, <2>8, <2>9, <2>10, CallingAgrees
<1> QED BY <1>2, <1>3

LEMMA PollAgrees ==
  ASSUME Ready, Poll
  PROVE  EndsInv'
<1>1. dev.state = "ESTABLISHED" /\ CallAndSend(dev, {}, <<>>) BY DEF Poll
<1>2. dev \in Devs /\ dev.rcv \in Nat /\ <<>> \in Seq(ALine) BY DevFields, EmptySeq DEF Ready, DevSide
<1>3. dev.rcv <= dev.rcv BY <1>2
<1> QED BY <1>1, <1>2, <1>3, CallingAgrees

LEMMA FinInAgrees ==
  ASSUME Ready, NEW s, Taken(s), FinIn(s)
  PROVE  EndsInv'
<1>1. dev.state = "ESTABLISHED" /\ ~OutOfSequence(s) /\ Mine(s) /\ s.kind = "seg" /\ s.fin
  BY DEF FinIn, Expected
<1>2. dev \in Devs /\ s \in Requests /\ s.data \in Seq(ALine) BY DEF Ready, DevSide, Taken, Requests
<1>3. CASE Acked(s).len > 0
  <2>1. Acked(s) = dev BY <1>2, <1>3, AckedNumbers
  <2> QED BY <1>1, <1>3, <2>1, IdleAgrees DEF FinIn
<1>4. CASE ~(Acked(s).len > 0)
  <2> DEFINE n == 1 + Len(s.data)
             t == Took(Acked(s), n)
             d == [t EXCEPT !.len = 1, !.state = "LAST_ACK", !.nrtx = 0]
  <2>1. CallOnly(d, Events(s), s.data) /\ Reply(FinAck(dev')) BY <1>4 DEF FinIn
  <2>2. /\ Acked(s) \in Devs /\ Acked(s).state = "ESTABLISHED" /\ Acked(s).rcv = dev.rcv
        /\ Acked(s).conn = dev.conn
    BY <1>1, <1>2, AckedType
  <2>3. Len(s.data) \in Nat /\ n \in Nat /\ (dev.rcv + Len(s.data)) + 1 = EndOf(s)
        /\ dev.rcv \in Nat /\ EndOf(s) \in Nat
    BY <1>1, <1>2, NextEnds
  <2>4. t \in Devs /\ t.rcv = dev.rcv + n /\ t.conn = dev.conn BY <2>2, <2>3, TookType
  <2>5. t.snd = Acked(s).snd BY <2>2 DEF Took, Devs
  <2> HIDE DEF t
  <2>6. /\ d.state = "LAST_ACK" /\ d.conn = dev.conn /\ d.rcv = t.rcv /\ d.snd = t.snd /\ d.len = 1
    BY <2>4 DEF Devs
  <2>7. dev' = d BY <2>1 DEF CallOnly
  <2> HIDE DEF d
  <2>8. PICK a \in Nat : a = Len(answered) /\ a = NumberOf /\ dev.snd + dev.len = a + 1
    <3>1. DevNumbers BY <1>1, MineIsOpened
    <3>2. NumberOf \in Nat /\ NumberOf = Len(answered) BY <1>1, <3>1 DEF DevNumbers, Lives
    <3>3. dev.snd \in Nat /\ dev.len \in Nat BY <1>2, DevFields
    <3>4. dev.snd + dev.len = NumberOf + 1 BY <1>1, <3>2, <3>3 DEF NumberOf, FinSent
    <3> QED BY <3>2, <3>4
  <2>9. Acked(s).len = 0 /\ Acked(s).snd = a + 1
        /\ (Acked(s).snd = dev.snd \/ (Acked(s).snd = s.ack /\ s.ack = dev.snd + dev.len))
    BY <1>2, <1>4, <2>8, AckedNumbers
  <2>10. dev'.snd = a + 1 /\ dev'.len = 1 /\ dev'.state = "LAST_ACK" /\ dev'.conn = dev.conn
    BY <2>5, <2>6, <2>7, <2>9
  <2>11. NumberOf' = a
    <3>1. dev'.snd + dev'.len = a + 2 BY <2>10
    <3>2. dev'.snd \in Nat /\ dev'.len \in Nat BY <2>10
    <3> QED BY <2>10, <3>1, <3>2, NumbersOfFin
  <2>12. /\ Len(answered') \in {Len(answered), Len(answered) + 1}
         /\ \A i \in 1 .. Len(answered) : answered'[i] = answered[i]
    <3>1. "newdata" \in Events(s) => s.data # <<>> BY DEF Events
    <3>2. ps \in Psocks /\ answered \in Seq(Nat) BY DEF Ready, DevSide
    <3>3. PICK o \in AppCall(ps, Events(s), s.data) : Called(o) BY <2>1 DEF CallOnly
    <3> QED BY <1>2, <3>1, <3>2, <3>3, SaysAtMostOne DEF Called
  <2>13. DevNumbers'
    <3>1. NumberOf' \in {Len(answered'), Len(answered') - 1} BY <2>8, <2>11, <2>12
    <3> QED BY <2>10, <2>11, <3>1 DEF DevNumbers
  <2>14. dev'.rcv = EndOf(s) /\ dev.rcv <= dev'.rcv BY <2>3, <2>4, <2>6, <2>7
  <2>15. GoesOnFrom(dev.conn)
    <3>1. s \in Takeable(dev.conn) BY <1>1, MineIsTakeable
    <3>2. dev'.rcv <= EndOf(s) BY <2>3, <2>14
    <3>3. dev'.snd = dev.snd \/ (dev'.snd = s.ack /\ s.ack = dev.snd + dev.len)
      BY <2>9, <2>10
    <3>4. dev.snd + dev.len <= dev'.snd + dev'.len BY <2>8, <2>10
    <3>5. NumberOf <= NumberOf' /\ ~FinSent BY <1>1, <2>8, <2>11 DEF FinSent
    <3> QED BY <1>1, <2>10, <2>12, <2>14, <3>1, <3>2, <3>3, <3>4, <3>5 DEF GoesOnFrom, Lives
  <2>16. \E r \in Replies : Reply(r) /\ r.conn = dev.conn /\ FromClock(r)'
    <3>1. PICK r : r = FinAck(dev') OBVIOUS
    <3>2. r.conn = dev.conn /\ r.data = <<>> /\ r.ack = dev'.rcv /\ r.seq = dev'.snd
      BY <2>10, <3>1 DEF FinAck, Segment
    <3>3. r \in Replies
      <4>1. dev' \in Devs /\ dev'.conn \in Conns BY <2>10, DevFields DEF Ready, DevSide
      <4> QED BY <3>1, <4>1, AcksAreReplies
    <3>4. r.ack <= dev'.rcv BY <2>3, <2>14, <3>2
    <3>5. FinSent' /\ r.seq = NumberOf' + 1 BY <2>10, <2>11, <3>2 DEF FinSent
    <3>6. FromClock(r)' BY <3>2, <3>4, <3>5 DEF FromClock
    <3> QED BY <2>1, <3>1, <3>2, <3>3, <3>6
  <2> QED BY <2>13, <2>15, <2>16, GoingOnAgrees
<1> QED BY <1>3, <1>4

LEMMA InSynRcvdAgrees ==
  ASSUME Ready, NEW s, Taken(s), InSynRcvd(s)
  PROVE  EndsInv'
<1>1. dev.state = "SYN_RCVD" /\ ~OutOfSequence(s) /\ Mine(s) /\ s.kind = "seg"
  BY DEF InSynRcvd, Expected
<1>2. dev \in Devs /\ s \in Requests /\ s.data \in Seq(ALine) BY DEF Ready, DevSide, Taken, Requests
<1>3. CASE ~Acks(s) BY <1>1, <1>3, IdleAgrees DEF InSynRcvd
<1>4. CASE Acks(s)
  <2> DEFINE t  == Took(Acked(s), Len(s.data))
             d  == [t EXCEPT !.state = "ESTABLISHED"]
             ev == {"connected"} \cup (Events(s) \ {"acked"})
  <2>1. CallAndSend(d, ev, s.data) BY <1>4 DEF InSynRcvd
  <2>2. "connected" \in ev /\ "acked" \notin ev /\ "rexmit" \notin ev
        /\ ("newdata" \in ev => s.data # <<>>)
    BY DEF Events
  <2>3. Acked(s) \in Devs /\ Acked(s).state = dev.state /\ Acked(s).rcv = dev.rcv /\ Acked(s).conn = dev.conn
    BY <1>2, AckedType
  <2>4. Len(s.data) \in Nat BY <1>2
  <2>5. t \in Devs /\ t.state = "SYN_RCVD" /\ t.rcv = dev.rcv + Len(s.data) /\ t.conn = dev.conn
    BY <1>1, <2>3, <2>4, TookType
  <2>6. t.snd = Acked(s).snd /\ t.len = Acked(s).len BY <2>3 DEF Took, Devs
  <2> HIDE DEF t, ev
  <2>7. d \in Devs /\ d.state = "ESTABLISHED" /\ d.rcv = t.rcv /\ d.conn = t.conn
    BY <2>5, ChangedState DEF TcpStates
  <2>8. d.snd = t.snd /\ d.len = t.len BY <2>5 DEF Devs
  <2> HIDE DEF d
  <2>9. DevNumbers /\ dev.conn \in Conns /\ dev.conn <= app.opened BY <1>1, MineIsOpened
  <2>10. dev.snd = 0 /\ dev.len = 1 /\ answered = <<>> BY <1>1, <2>9 DEF DevNumbers
  <2>11. d.snd = 1 /\ d.len = 0 BY <1>2, <1>4, <2>6, <2>8, <2>10, AckedNumbers
  <2>12. PICK o \in AppCall(ps, ev, s.data) : Called(o) /\ AppSend(d, ev, o) BY <2>1 DEF CallAndSend
  <2>13. /\ ps \in Psocks /\ answered \in Seq(Nat) /\ dev' \in Devs /\ ps' \in Psocks
         /\ answered' \in Seq(Nat)
    BY DEF Ready, DevSide
  <2>14. d.snd + d.len = Len(answered) + 1 /\ StartsAt(ps, ev) = "read"
    <3>1. Len(<<>>) = 0 OBVIOUS
    <3> QED BY <2>2, <2>10, <2>11, <3>1 DEF StartsAt
  <2>15. /\ dev'.state \in {"ESTABLISHED", "FIN_WAIT_1"}
         /\ dev'.conn = d.conn /\ dev'.rcv = d.rcv /\ dev'.snd = d.snd /\ DevNumbers'
         /\ Silent \/ \E r \in Replies : Reply(r) /\ r.conn = d.conn /\ FromClock(r)'
    BY <2>2, <2>7, <2>11, <2>12, <2>13, <2>14, SendsNext
  <2>16. PICK c \in Conns : c = dev.conn /\ c <= app.opened /\ Talk(c) /\ On(c)
    BY <1>1, MineIsOpened
  <2>17. PICK r \in Replies : Says(r) /\ r.conn = c /\ FromClock(r)'
    <3>1. CASE Silent
      <4>1. PICK r : r = MereReset(c) OBVIOUS
      <4>2. r \in Replies /\ r.conn = c /\ Says(r) BY <3>1, <4>1, MereResetSaid
      <4>3. r.data = <<>> /\ ~r.fin /\ r.ack = 0 BY <4>1 DEF MereReset, Segment
      <4>4. r.ack <= dev'.rcv BY <2>13, <4>3, DevFields
      <4>5. FromClock(r)' BY <4>3, <4>4 DEF FromClock
      <4> QED BY <4>2, <4>5
    <3>2. CASE \E r \in Replies : Reply(r) /\ r.conn = d.conn /\ FromClock(r)'
      <4>1. PICK r \in Replies : Reply(r) /\ r.conn = d.conn /\ FromClock(r)' BY <3>2
      <4>2. Says(r) BY <4>1 DEF Says, Reply
      <4> QED BY <2>5, <2>7, <2>16, <4>1, <4>2
    <3> QED BY <2>15, <3>1, <3>2
  <2>18. dev'.conn = c /\ dev'.rcv = dev.rcv + Len(s.data) /\ dev'.snd = 1 /\ Lives(dev')
    BY <2>5, <2>7, <2>11, <2>15, <2>16 DEF Lives
  <2>19. NumberOf' \in Nat
    <3>1. Lives(dev)' BY <2>18
    <3> QED BY <2>15, <3>1 DEF DevNumbers
  <2>20. /\ toDev # <<>> /\ toDev' = Tail(toDev) /\ Head(toDev) = s /\ Head(toDev).conn = c
         /\ Head(toDev).kind = "seg" /\ ~OutOfSequence(Head(toDev))
    BY <1>1, <2>16 DEF Taken, Mine
  <2>21. Talk(c)'
    BY <1>1, <2>9, <2>16, <2>17, <2>18, <2>19, <2>20, OpeningTalk DEF Ready, ClockSteps
  <2> QED BY <2>15, <2>16, <2>17, <2>18, <2>21, OnlyOn
<1> QED BY <1>3, <1>4

LEMMA InFinWaitAgrees ==
  ASSUME Ready, NEW s, Taken(s), InFinWait(s)
  PROVE  EndsInv'
<1> DEFINE d    == Took(Acked(s), Len(s.data))
           done == d.len = 0
<1>1. /\ dev.state \in {"FIN_WAIT_1", "FIN_WAIT_2"} /\ ~OutOfSequence(s)
      /\ Mine(s) /\ s.kind = "seg" /\ Lives(dev)
  BY DEF InFinWait, Expected, Lives
<1>2. dev \in Devs /\ s \in Requests /\ s.data \in Seq(ALine) /\ s.fin \in BOOLEAN
  BY DEF Ready, DevSide, Taken, Requests
<1>3. Acked(s) \in Devs /\ Acked(s).state = dev.state /\ Acked(s).rcv = dev.rcv /\ Acked(s).conn = dev.conn
  BY <1>2, AckedType
<1>4. /\ Len(s.data) \in Nat /\ dev.rcv \in Nat /\ EndOf(s) \in Nat
      /\ s.data # <<>> => dev.rcv + Len(s.data) <= EndOf(s)
      /\ s.data = <<>> => Len(s.data) = 0
      /\ s.fin => (dev.rcv + Len(s.data)) + 1 = EndOf(s)
  BY <1>1, <1>2, NextEnds
<1>5. d \in Devs /\ d.state = dev.state /\ d.rcv = dev.rcv + Len(s.data) /\ d.conn = dev.conn
  BY <1>3, <1>4, TookType
<1>6. d.snd = Acked(s).snd /\ d.len = Acked(s).len BY <1>3 DEF Took, Devs
<1>7. DevNumbers BY <1>1, MineIsOpened
<1>8. /\ dev.state = "FIN_WAIT_1" => dev.len = 1
      /\ dev.state = "FIN_WAIT_2" => dev.len = 0
  BY <1>7 DEF DevNumbers
<1>9. /\ d.snd \in Nat /\ d.len \in {0, 1} /\ d.snd + d.len = dev.snd + dev.len
      /\ d.snd = dev.snd \/ (d.snd = s.ack /\ s.ack = dev.snd + dev.len)
  BY <1>1, <1>2, <1>6, <1>8, AckedNumbers
<1>10. s \in Takeable(dev.conn) BY <1>1, MineIsTakeable
<1>11. CASE s.fin
  <2> DEFINE g == [Took(d, 1) EXCEPT !.state = IF done THEN "TIME_WAIT" ELSE "CLOSING"]
  <2>1. CallOnly(g, {}, <<>>) /\ Reply(Ack(dev')) BY <1>11 DEF InFinWait
  <2> HIDE DEF d
  <2>2. Took(d, 1) \in Devs /\ Took(d, 1).rcv = d.rcv + 1 /\ Took(d, 1).conn = d.conn
        /\ Took(d, 1).snd = d.snd /\ Took(d, 1).len = d.len
    <3>1. Took(d, 1).snd = d.snd /\ Took(d, 1).len = d.len BY <1>5 DEF Took, Devs
    <3> QED BY <1>5, <3>1, TookType
  <2>3. /\ g.state = (IF done THEN "TIME_WAIT" ELSE "CLOSING") /\ g.conn = dev.conn
        /\ g.rcv = d.rcv + 1 /\ g.snd = d.snd /\ g.len = d.len
    BY <1>5, <2>2 DEF Devs
  <2>4. dev' = g BY <2>1 DEF CallOnly
  <2> HIDE DEF g
  <2>5. dev'.state \in {"CLOSING", "TIME_WAIT"} /\ dev'.len = (IF dev'.state = "CLOSING" THEN 1 ELSE 0)
    BY <1>9, <2>3, <2>4
  <2>6. dev'.rcv = EndOf(s) /\ dev.rcv <= dev'.rcv /\ dev'.rcv <= EndOf(s)
    BY <1>4, <1>5, <1>11, <2>3, <2>4
  <2>7. /\ Len(answered') \in {Len(answered), Len(answered) + 1}
        /\ \A i \in 1 .. Len(answered) : answered'[i] = answered[i]
    <3>1. <<>> \in Seq(ALine) /\ "newdata" \notin {} BY EmptySeq
    <3>2. ps \in Psocks /\ answered \in Seq(Nat) BY DEF Ready, DevSide
    <3>3. PICK o \in AppCall(ps, {}, <<>>) : Called(o) BY <2>1 DEF CallOnly
    <3> QED BY <3>1, <3>2, <3>3, SaysAtMostOne DEF Called
  <2>8. PICK e \in Devs : e = dev' BY DEF Ready, DevSide
  <2>9. e.conn = dev.conn /\ e.rcv = dev'.rcv /\ Reply(Ack(e)) BY <2>1, <2>3, <2>4, <2>8
  <2>10. /\ dev'.state \in {"FIN_WAIT_1", "FIN_WAIT_2", "CLOSING", "TIME_WAIT"}
         /\ dev'.len = IF dev'.state \in {"FIN_WAIT_1", "CLOSING"} THEN 1 ELSE 0
         /\ dev.state # "ESTABLISHED"
    BY <1>1, <2>5
  <2>11. dev'.conn = dev.conn /\ dev'.snd = d.snd /\ dev'.len = d.len BY <2>3, <2>4
  <2> QED BY <1>1, <1>9, <1>10, <2>5, <2>6, <2>7, <2>9, <2>10, <2>11, ClosingAgrees
<1>12. CASE ~s.fin
  <2> DEFINE g == [d EXCEPT !.state = IF done THEN "FIN_WAIT_2" ELSE "FIN_WAIT_1"]
  <2>1. NotCalled /\ dev' = g /\ (Reply(Ack(d)) \/ Silent) BY <1>12 DEF InFinWait
  <2> HIDE DEF d
  <2>2. /\ g.state = (IF done THEN "FIN_WAIT_2" ELSE "FIN_WAIT_1") /\ g.conn = dev.conn
        /\ g.rcv = d.rcv /\ g.snd = d.snd /\ g.len = d.len
    BY <1>5 DEF Devs
  <2> HIDE DEF g
  <2>3. /\ dev'.state \in {"FIN_WAIT_1", "FIN_WAIT_2", "CLOSING", "TIME_WAIT"}
        /\ dev'.len = IF dev'.state \in {"FIN_WAIT_1", "CLOSING"} THEN 1 ELSE 0
        /\ dev.state # "ESTABLISHED"
    BY <1>1, <1>9, <2>1, <2>2
  <2>4. dev.rcv <= dev'.rcv /\ (dev'.rcv = dev.rcv \/ dev'.rcv <= EndOf(s))
    BY <1>4, <1>5, <2>1, <2>2
  <2>5. answered' = answered BY <2>1 DEF NotCalled
  <2>6. dev'.conn = dev.conn /\ dev'.snd = d.snd /\ dev'.len = d.len /\ d.rcv = dev'.rcv BY <2>1, <2>2
  <2> QED BY <1>1, <1>5, <1>9, <1>10, <2>1, <2>3, <2>4, <2>5, <2>6, ClosingAgrees
<1> QED BY <1>2, <1>11, <1>12

LEMMA InClosingAgrees ==
  ASSUME Ready, NEW s, Taken(s), InClosing(s)
  PROVE  EndsInv'
<1>1. dev.state = "CLOSING" /\ Mine(s) /\ s.kind = "seg" /\ NotCalled /\ Silent /\ Lives(dev)
  BY DEF InClosing, Expected, Lives
<1>2. dev \in Devs /\ s \in Requests /\ dev.rcv \in Nat BY DevFields DEF Ready, DevSide, Taken
<1>3. CASE ~Acks(s)
  <2>1. dev' = dev BY <1>3 DEF InClosing
  <2> QED BY <1>1, <2>1, IdleAgrees
<1>4. CASE Acks(s)
  <2>1. Acked(s) \in Devs /\ Acked(s).conn = dev.conn /\ Acked(s).rcv = dev.rcv BY <1>2, AckedType
  <2>2. Acked(s).len = 0 /\ Acked(s).snd = s.ack /\ s.ack = dev.snd + dev.len
        /\ Acked(s).snd + Acked(s).len = dev.snd + dev.len
    BY <1>2, <1>4, AckedNumbers
  <2>3. dev' = [Acked(s) EXCEPT !.state = "TIME_WAIT"] BY <1>4 DEF InClosing
  <2>4. /\ dev'.state = "TIME_WAIT" /\ dev'.conn = dev.conn /\ dev'.rcv = dev.rcv
        /\ dev'.snd = Acked(s).snd /\ dev'.len = Acked(s).len
    BY <2>1, <2>3 DEF Devs
  <2>5. s \in Takeable(dev.conn) BY <1>1, MineIsTakeable
  <2>6. dev.rcv <= dev'.rcv BY <1>2, <2>4
  <2>7. answered' = answered BY <1>1 DEF NotCalled
  <2>8. /\ dev'.state \in {"FIN_WAIT_1", "FIN_WAIT_2", "CLOSING", "TIME_WAIT"}
        /\ dev'.len = IF dev'.state \in {"FIN_WAIT_1", "CLOSING"} THEN 1 ELSE 0
        /\ dev.state # "ESTABLISHED" /\ dev'.state \notin {"FIN_WAIT_1", "FIN_WAIT_2"}
    BY <1>1, <2>2, <2>4
  <2>9. dev.rcv = dev'.rcv /\ dev.snd + dev.len = dev'.snd + dev'.len
        /\ dev'.snd = s.ack /\ s.ack = dev.snd + dev.len
    BY <2>2, <2>4
  <2> HIDE DEF Takeable
  <2> QED BY <1>1, <1>2, <2>4, <2>5, <2>6, <2>7, <2>8, <2>9, ClosingAgrees
<1> QED BY <1>3, <1>4

LEMMA DevReceiveAgrees ==
  ASSUME Ready, DevReceive
  PROVE  EndsInv'
<1>1. PICK s : Taken(s) /\ (\/ Accept(s) \/ Refuse(s) \/ ResetIn(s) \/ Repeated(s)
                            \/ InSynRcvd(s) \/ InEstablished(s) \/ FinIn(s) \/ InLastAck(s)
                            \/ InFinWait(s) \/ InClosing(s) \/ InTimeWait(s))
  <2>1. Head(toDev) \in Segs(toDev) /\ Head(toDev) \in Requests
    BY SegsOfTail, SegsTypes DEF DevReceive, Ready, NetTypes
  <2> QED BY <2>1 DEF DevReceive, Taken
<1>2. s \in Segs(toDev) BY <1>1 DEF Taken
<1> QED BY <1>1, <1>2, AcceptAgrees, RefuseAgrees, ResetInAgrees, RepeatedAgrees, InSynRcvdAgrees,
           InEstablishedAgrees, FinInAgrees, InLastAckAgrees, InFinWaitAgrees, InClosingAgrees,
           InTimeWaitAgrees

(* The timer. *)
LEMMA RetransmitAgrees ==
  ASSUME Ready, Retransmit
  PROVE  EndsInv'
<1>1. /\ dev.state \notin {"CLOSED", "TIME_WAIT", "FIN_WAIT_2"} /\ dev.len > 0 /\ dev' = Counted
  BY DEF Retransmit, Outstanding
<1>2. dev \in Devs /\ dev.conn \in Conns /\ dev.rcv \in Nat /\ dev.snd \in Nat /\ dev.len \in Nat
      /\ dev' \in Devs
  BY <1>1, DevFields DEF Ready, DevSide
<1>3. /\ dev'.state = dev.state /\ dev'.conn = dev.conn /\ dev'.rcv = dev.rcv /\ dev'.snd = dev.snd
      /\ dev'.len = dev.len
  BY <1>1, <1>2 DEF Counted, Devs
<1>4. DevNumbers BY <1>1, MineIsOpened
<1>5. CASE dev.state = "SYN_RCVD"
  <2>1. NotCalled /\ Reply(SynAck(dev)) BY <1>5 DEF Retransmit
  <2> QED BY <1>3, <1>5, <2>1, StayingAgrees
<1>6. CASE dev.state \in {"FIN_WAIT_1", "CLOSING", "LAST_ACK"}
  <2>1. NotCalled /\ Reply(FinAck(dev)) BY <1>6 DEF Retransmit
  <2>2. dev.len = 1 BY <1>4, <1>6 DEF DevNumbers
  <2>3. Lives(dev) BY <1>6 DEF Lives
  <2> QED BY <1>3, <1>6, <2>1, <2>2, <2>3, StillAgrees
<1>7. CASE dev.state = "ESTABLISHED"
  <2>1. PICK o \in AppCall(ps, {"rexmit"}, <<>>) :
          Called(o) /\ (IF o.sends THEN Reply(Answer(Counted, o.ps)) ELSE Silent)
    BY <1>7 DEF Retransmit
  <2>2. PICK a \in Nat : a = NumberOf /\ a = Len(answered) /\ dev.snd = a /\ a > 0 /\ ps.answer = answered[a]
                         /\ ps.at # "read" /\ dev.len = 1
    <3>1. NumberOf \in Nat /\ NumberOf = Len(answered) BY <1>4, <1>7 DEF DevNumbers, Lives
    <3>2. dev.len = 1 /\ NumberOf > 0 /\ ps.answer = answered[NumberOf] /\ ps.at # "read"
      BY <1>1, <1>2, <1>4, <1>7 DEF DevNumbers
    <3>3. dev.snd = NumberOf BY <1>2, <1>7, <3>1, <3>2 DEF NumberOf, FinSent
    <3> QED BY <3>1, <3>2, <3>3
  <2>3. StartsAt(ps, {"rexmit"}) # "read" /\ "acked" \notin {"rexmit"} /\ "rexmit" \in {"rexmit"}
    BY <2>2 DEF StartsAt
  <2>4. o.ps = ps /\ o.says = <<>> /\ o.sends
    <3>1. ps \in Psocks BY DEF Ready, DevSide
    <3> QED BY <2>3, <3>1, CallShape
  <2>5. answered' = answered /\ ps' = ps
    <3>1. answered \in Seq(Nat) BY DEF Ready, DevSide
    <3>2. answered \o <<>> = answered BY <3>1
    <3> QED BY <2>1, <2>4, <3>2 DEF Called
  <2>6. PICK r : r = Answer(dev', ps) OBVIOUS
  <2>7. Reply(r) BY <1>1, <2>1, <2>4, <2>6
  <2>8. /\ r.data = <<ps.answer>> /\ ~r.fin /\ r.ack = dev'.rcv /\ r.seq = dev'.snd /\ r.conn = dev'.conn
    BY <2>6 DEF Answer, Segment
  <2>9. r \in Replies
    <3>1. ps \in Psocks BY DEF Ready, DevSide
    <3> QED BY <1>2, <1>3, <2>6, <3>1, AnswerIsReply
  <2>10. NumberOf' = a
    <3>1. NumberOf' = NumberOf BY <1>3 DEF NumberOf, FinSent
    <3> QED BY <2>2, <3>1
  <2>11. FromClock(r)'
    <3>1. r.ack <= dev'.rcv BY <1>2, <1>3, <2>8
    <3>2. r.seq \in 1 .. NumberOf' /\ r.data = <<answered'[r.seq]>> BY <1>3, <2>2, <2>5, <2>8, <2>10
    <3> QED BY <2>8, <3>1, <3>2 DEF FromClock
  <2>12. DevNumbers' BY <1>3, <1>4, <2>2, <2>5, <2>10 DEF DevNumbers, Lives
  <2>13. GoesOnFrom(dev.conn)
    <3>1. dev.rcv <= dev'.rcv /\ dev.snd + dev.len <= dev'.snd + dev'.len /\ NumberOf <= NumberOf'
      BY <1>2, <1>3, <2>2, <2>10
    <3>2. ~FinSent BY <1>7 DEF FinSent
    <3> QED BY <1>3, <1>7, <2>5, <3>1, <3>2 DEF GoesOnFrom, Lives
  <2> QED BY <1>3, <2>7, <2>8, <2>9, <2>11, <2>12, <2>13, GoingOnAgrees
<1> QED BY <1>1, <1>2, <1>5, <1>6, <1>7, DevFields DEF TcpStates

LEMMA TimerAgrees ==
  ASSUME Ready, Retransmit \/ GiveUp \/ Poll \/ WaitEnds \/ StackInit
  PROVE  EndsInv'
<1>1. ASSUME GiveUp PROVE EndsInv' BY <1>1, OverAgrees DEF GiveUp, CallOnly
<1>2. ASSUME WaitEnds \/ StackInit PROVE EndsInv' BY <1>2, OverAgrees DEF WaitEnds, StackInit
<1> QED BY <1>1, <1>2, RetransmitAgrees, PollAgrees

-----------------------------------------------------------------------------
LEMMA InitEndsInv == Init => EndsInv
<1> SUFFICES ASSUME Init PROVE EndsInv
  OBVIOUS
<1>1. /\ dev = Closed /\ toDev = <<>> /\ toHost = <<>>
      /\ host = [c \in Conns |-> NoSocket] /\ app = Idle
  BY DEF Init, DevInit, HostInit
<1>2. Segs(<<>>) = {} /\ NoSocket.state = "none" /\ Closed.state = "CLOSED"
  BY ClosedType DEF Segs, NoSocket
<1>3. \A c \in Conns : host[c] = NoSocket /\ host[c].state = "none" BY <1>1, <1>2
<1>4. Opened BY <1>1, <1>2, <1>3 DEF Opened, Idle
<1>5. Unused
  <2>1. NoSocket = [NoSocket EXCEPT !.state = NoSocket.state] BY DEF NoSocket
  <2> QED BY <1>3, <2>1 DEF Unused
<1>6. SynsAreZero BY <1>1, <1>2 DEF SynsAreZero
<1>7. DevNumbers BY <1>1, <1>2 DEF DevNumbers, Lives
<1>8. \A c \in Conns : Talk(c) BY <1>3 DEF Talk, Sent, Begins, Together, Alive, Known
<1> QED BY <1>4, <1>5, <1>6, <1>7, <1>8 DEF EndsInv

LEMMA NextEndsInv == IInv /\ IInv' /\ EndsInv /\ [Next]_vars => EndsInv'
<1> SUFFICES ASSUME IInv, IInv', EndsInv, [Next]_vars PROVE EndsInv'
  OBVIOUS
<1>1. NetTypes /\ HostSide /\ HostSide' /\ DevSide /\ DevSide' BY DEF IInv
<1>2. CASE DevReceive /\ HostSteps
  <2>1. Takes BY <1>2 DEF DevReceive, Takes
  <2> QED BY <1>1, <1>2, <2>1, DevReceiveAgrees DEF Ready, ClockSteps
<1>3. CASE (Retransmit \/ GiveUp \/ Poll \/ WaitEnds \/ StackInit) /\ HostSteps
  <2>1. Takes BY <1>3 DEF Retransmit, GiveUp, Poll, WaitEnds, StackInit, Takes
  <2> QED BY <1>1, <1>3, <2>1, TimerAgrees DEF Ready, ClockSteps
<1>4. CASE HostReceive BY <1>1, <1>4, ReceiveAgrees
<1>5. CASE \E c \in Conns : Transmit(c) \/ Resend(c) \/ HostAck(c) \/ HostForgets(c)
  BY <1>1, <1>5, KernelAgrees
<1>6. CASE \/ Lose \/ HostCrash \/ Open \/ TelnetCmd \/ PlayFrame \/ Quit \/ WaitFor
           \/ CloseConnection \/ Reconnect
  BY <1>1, <1>6, ClientAgrees
<1>7. CASE UNCHANGED vars
  <2>1. UNCHANGED <<host, app, devVars>> /\ toDev' = toDev /\ toHost' = toHost BY <1>7 DEF vars, devVars
  <2> QED BY <1>1, <2>1, LosingAgrees
<1> QED BY <1>2, <1>3, <1>4, <1>5, <1>6, <1>7 DEF Next

LEMMA PrefixByItems ==
  ASSUME NEW q \in Seq(Nat), NEW r \in Seq(Nat), Len(q) <= Len(r),
         \A i \in 1 .. Len(q) : q[i] = r[i]
  PROVE  IsPrefix(q, r)
<1>1. SubSeq(r, 1, Len(q)) = q
  <2>1. Len(q) \in Nat /\ Len(r) \in Nat OBVIOUS
  <2>2. /\ SubSeq(r, 1, Len(q)) \in Seq(Nat) /\ Len(SubSeq(r, 1, Len(q))) = Len(q)
        /\ \A i \in 1 .. Len(q) : SubSeq(r, 1, Len(q))[i] = r[i]
    BY <2>1, SubSeqProperties
  <2> QED BY <2>2, SeqEqual
<1> QED BY <1>1 DEF IsPrefix

(* All answers but the last have arrived: the last but one is acknowledged when the
   next line is read. *)
LEMMA OneAhead ==
  ASSUME DevSide, Lives(dev), DevNumbers, NEW h \in Sockets, GotSoFar(h)
  PROVE  Len(h.got) <= Len(answered) /\ Len(answered) <= Len(h.got) + 1
<1>1. PICK n \in Nat, a \in Nat : n = NumberOf /\ a = Len(answered) /\ n \in {a, a - 1}
  <2>1. Len(answered) \in Nat BY DEF DevSide
  <2> QED BY <2>1 DEF DevNumbers
<1>2. PICK g \in Nat, rcv \in Nat : g = Len(h.got) /\ rcv = h.rcv /\ g <= n
  BY <1>1, SocketFields DEF GotSoFar
<1>3. PICK e \in {0, 1} : e = One(h.eof) /\ rcv = (1 + g) + e /\ (e = 1 <=> h.eof)
  <2>1. One(h.eof) \in {0, 1} /\ (One(h.eof) = 1 <=> h.eof) BY DEF One
  <2>2. rcv = 1 + g + One(h.eof) BY <1>2 DEF GotSoFar
  <2> QED BY <1>2, <2>1, <2>2
<1>4. PICK sn \in Nat, l \in {0, 1} : sn = dev.snd /\ l = dev.len
  <2>1. dev.len \in {0, 1}
    <3>1. dev.state \in TcpStates BY DevFields DEF DevSide
    <3> QED BY <3>1 DEF DevNumbers, Lives, TcpStates
  <2> QED BY <2>1, DevFields DEF DevSide
<1>5. sn <= rcv /\ (e = 1 => rcv = sn + l /\ FinSent) BY <1>2, <1>3, <1>4 DEF GotSoFar
<1>6. CASE dev.state = "ESTABLISHED"
  <2>1. n = a BY <1>1, <1>6 DEF DevNumbers
  <2>2. sn + l = n + 1 BY <1>1, <1>4, <1>6 DEF NumberOf, FinSent
  <2>3. e = 0 BY <1>5, <1>6 DEF FinSent
  <2> QED BY <1>1, <1>2, <1>3, <1>4, <1>5, <2>1, <2>2, <2>3
<1>7. CASE dev.state # "ESTABLISHED"
  <2>1. sn + l = n + 2 BY <1>1, <1>4, <1>7 DEF NumberOf, FinSent
  <2>2. n <= g
    <3>1. CASE e = 0 BY <1>2, <1>3, <1>4, <1>5, <2>1, <3>1
    <3>2. CASE e = 1 BY <1>2, <1>3, <1>4, <1>5, <2>1, <3>2
    <3> QED BY <3>1, <3>2
  <2> QED BY <1>1, <1>2, <2>2
<1> QED BY <1>6, <1>7

LEMMA EndsInvAgrees == IInv /\ EndsInv => EndsAgree
<1> SUFFICES ASSUME IInv, EndsInv PROVE EndsAgree
  OBVIOUS
<1>1. ASSUME dev.state # "CLOSED", Known(host[dev.conn])
      PROVE  /\ dev.conn \in Conns /\ host[dev.conn] \in Sockets /\ answered \in Seq(Nat)
             /\ Begins(dev.conn) /\ Together(dev.conn) /\ On(dev.conn) /\ Alive(host[dev.conn])
  BY <1>1, DevFields DEF IInv, HostSide, DevSide, EndsInv, Talk, On, Alive
<1>2. ASSUME dev.state # "CLOSED", Known(host[dev.conn]), dev.state # "SYN_RCVD"
      PROVE  Lives(dev) /\ GotSoFar(host[dev.conn])
  BY <1>1, <1>2 DEF Together, Lives
<1>3. AnswersArriveInOrder
  <2> SUFFICES ASSUME dev.state # "CLOSED", Known(host[dev.conn])
               PROVE  /\ IsPrefix(host[dev.conn].got, answered)
                      /\ Len(answered) <= Len(host[dev.conn].got) + 1
    BY DEF AnswersArriveInOrder, Known
  <2>1. PICK h \in Sockets : h = host[dev.conn] BY <1>1
  <2>2. h.got \in Seq(Nat) /\ answered \in Seq(Nat) BY <1>1 DEF Sockets, SocketTypes
  <2>3. CASE dev.state = "SYN_RCVD"
    <3>1. h.got = <<>> BY <1>1, <2>1, <2>3 DEF Begins, Early
    <3>2. answered = <<>> BY <2>3 DEF EndsInv, DevNumbers
    <3>3. Len(<<>>) = 0 /\ 1 .. 0 = {} OBVIOUS
    <3>4. Len(h.got) = 0 /\ Len(answered) = 0 BY <3>1, <3>2, <3>3
    <3>5. IsPrefix(h.got, answered) BY <2>2, <3>3, <3>4, PrefixByItems
    <3> QED BY <2>1, <3>4, <3>5
  <2>4. CASE dev.state # "SYN_RCVD"
    <3>1. Lives(dev) /\ GotSoFar(h) BY <1>2, <2>1, <2>4
    <3>2. Len(h.got) <= Len(answered) /\ Len(answered) <= Len(h.got) + 1
      BY <3>1, OneAhead DEF IInv, EndsInv
    <3>3. \A i \in 1 .. Len(h.got) : h.got[i] = answered[i] BY <3>1 DEF GotSoFar
    <3> QED BY <2>1, <2>2, <3>2, <3>3, PrefixByItems
  <2> QED BY <2>3, <2>4
<1>4. NumbersAgree
  BY <1>2 DEF NumbersAgree, Known, GotSoFar
<1> QED BY <1>3, <1>4 DEF EndsAgree

(* What the two ends of a connection know of each other: what either has sent and not
   heard of is what the other has still to get, segments of the past included; a SYN that
   is still under way finds a connection on which nothing was said. *)
THEOREM EndsInvariant == Spec => []EndsInv
<1>1. Init => EndsInv BY InitEndsInv
<1>2. IInv /\ IInv' /\ EndsInv /\ [Next]_vars => EndsInv' BY NextEndsInv
<1> QED BY <1>1, <1>2, StreamInvariant, PTL DEF Spec

(* However segments are lost, delayed and repeated, on whatever number of connections:
   as long as both ends know the connection, they agree on the numbers; what the client
   has got is what the clock answered, without a gap or a repetition, and the clock is at
   most one answer ahead. *)
THEOREM EndsAlwaysAgree == Spec => []EndsAgree
<1>1. IInv /\ EndsInv => EndsAgree BY EndsInvAgrees
<1> QED BY <1>1, StreamInvariant, EndsInvariant, PTL

-----------------------------------------------------------------------------
-----------------------------------------------------------------------------
(* Question and answer. *)

(* The client's connection, as long as no picture was sent on it: a line is told when the
   one before it is answered, so that there is one line under way, or one answer. *)
Mate    == host[app.conn]
Plain   == app.conn # 0 /\ ~app.drew /\ Mate.state = "est"
Told(h) == h.una + Len(h.unacked) - 1

InTurn(h) ==
  /\ 1 + Len(h.got) <= h.una /\ 1 + Len(h.got) <= h.rcv
  /\ IF app.asked = 0 THEN h.inbox = <<>> /\ Told(h) = Len(h.got)
     ELSE /\ app.asked = Told(h)
          /\ \/ h.inbox = <<>> /\ Told(h) = Len(h.got) + 1
             \/ h.inbox = <<app.asked>> /\ Told(h) = Len(h.got)

(* One line a segment, sent when all the answers before it had come. *)
OneLine(s) == ~s.fin /\ (s.data # <<>> => Len(s.data) = 1 /\ s.seq <= s.ack)

(* An answer bears the number of its line, and acknowledges it. *)
ItsAnswer(s, h) ==
  /\ s.ack <= h.una + h.flying
  /\ s.data # <<>> => s.data = <<s.seq>> /\ s.seq + 1 <= s.ack

(* The clock keeps nothing of a segment, and answers each line as it takes it. *)
AnswersLines ==
  /\ \A i \in 1 .. Len(answered) : answered[i] = i
  /\ Len(answered) + 1 <= dev.rcv
  /\ dev.state = "ESTABLISHED" => /\ ps.rest = <<>> /\ ~ps.dirty
                                  /\ dev.rcv = Len(answered) + 1

Turns ==
  Plain =>
    /\ InTurn(Mate)
    /\ \A s \in Segs(toDev) : s.conn = app.conn /\ s.kind = "seg" => OneLine(s)
    /\ \A s \in Segs(toHost) : s.conn = app.conn /\ s.kind # "rst" => ItsAnswer(s, Mate)
    /\ On(app.conn) /\ Lives(dev) => AnswersLines

Opening == app.conn # 0 /\ Mate.state = "syn" => app.asked = 0

TurnInv == Opening /\ Turns

(* What the client does, and what is under way, as the clock stays as it is. *)
LEMMA MateType ==
  ASSUME HostSide, app.conn # 0
  PROVE  app.conn \in Conns /\ Mate \in Sockets
BY DEF HostSide, Clients, Mate

LEMMA MateGoesOn ==
  ASSUME NetTypes, HostSide, HostSide', DevSide, Plain, TurnInv, UNCHANGED devVars,
         app'.conn = app.conn, Plain' => InTurn(Mate)',
         \/ toDev' = toDev \/ (toDev # <<>> /\ toDev' = Tail(toDev))
         \/ \E s : /\ s.conn = app.conn /\ s.kind = "seg" => OneLine(s)
                  /\ toDev' = Put(toDev, s),
         toHost' = toHost \/ (toHost # <<>> /\ toHost' = Tail(toHost)),
         Mate.una + Mate.flying <= Mate'.una + Mate'.flying
  PROVE  Turns'
<1> SUFFICES ASSUME Plain' PROVE Turns'
  BY DEF Turns
<1>1. \A s \in Segs(toDev') : s.conn = app.conn /\ s.kind = "seg" => OneLine(s)
  <2>1. \A s \in Segs(toDev) : s.conn = app.conn /\ s.kind = "seg" => OneLine(s) BY DEF TurnInv, Turns
  <2>2. CASE toDev' = toDev BY <2>1, <2>2
  <2>3. CASE toDev # <<>> /\ toDev' = Tail(toDev) BY <2>1, <2>3, SegsOfTail DEF NetTypes
  <2>4. CASE \E s : /\ s.conn = app.conn /\ s.kind = "seg" => OneLine(s)
                   /\ toDev' = Put(toDev, s)
    <3>1. PICK s : /\ s.conn = app.conn /\ s.kind = "seg" => OneLine(s)
                   /\ toDev' = Put(toDev, s)
      BY <2>4
    <3>2. toDev \in Seq(Requests \cup {s}) /\ s \in Requests \cup {s} BY DEF NetTypes
    <3>3. Segs(toDev') \subseteq Segs(toDev) \cup {s} BY <3>1, <3>2, SegsOfPut
    <3> QED BY <2>1, <3>1, <3>3
  <2> QED BY <2>2, <2>3, <2>4
<1>2. \A s \in Segs(toHost') : s.conn = app.conn /\ s.kind # "rst" => ItsAnswer(s, Mate')
  <2> SUFFICES ASSUME NEW s \in Segs(toHost'), s.conn = app.conn, s.kind # "rst"
               PROVE  ItsAnswer(s, Mate')
    OBVIOUS
  <2>1. s \in Segs(toHost) BY HostSegs
  <2>2. ItsAnswer(s, Mate) BY <2>1 DEF TurnInv, Turns
  <2>3. s.ack \in Nat BY <2>1, SegsTypes DEF Replies
  <2>4. PICK a \in Nat, b \in Nat : a = Mate.una + Mate.flying /\ b = Mate'.una + Mate'.flying
    <3>1. Mate \in Sockets /\ Mate' \in Sockets BY MateType DEF Plain, HostSide, Clients, Mate
    <3> QED BY <3>1, SocketFields
  <2>5. s.ack <= a /\ a <= b BY <2>2, <2>4 DEF ItsAnswer
  <2>6. s.ack <= b BY <2>3, <2>4, <2>5
  <2> QED BY <2>2, <2>4, <2>6 DEF ItsAnswer
<1>3. On(app.conn)' /\ Lives(dev)' => AnswersLines'
  BY DEF TurnInv, Turns, On, AnswersLines, devVars
<1> QED BY <1>1, <1>2, <1>3 DEF Turns

(* The kernel: one line at most is to be sent. *)
LEMMA OneToSend ==
  ASSUME HostSide, Plain, TurnInv
  PROVE  /\ Mate \in Sockets /\ app.conn \in Conns
         /\ Mate.una \in Nat /\ Mate.rcv \in Nat /\ Mate.flying \in Nat /\ Mate.flying <= Len(Mate.unacked)
         /\ Len(Mate.unacked) \in {0, 1} /\ (Len(Mate.unacked) = 1 => Mate.una <= Mate.rcv)
         /\ \A i \in 1 .. Len(Mate.unacked) : Mate.unacked[i] \in ALine
<1>1. Mate \in Sockets /\ app.conn \in Conns BY MateType DEF Plain
<1>2. PICK u \in Nat, l \in Nat, g \in Nat, r \in Nat :
        u = Mate.una /\ l = Len(Mate.unacked) /\ g = Len(Mate.got) /\ r = Mate.rcv
  <2>1. Len(Mate.got) \in Nat BY <1>1, SocketFields
  <2> QED BY <1>1, <2>1, SocketFields
<1>3. 1 + g <= u /\ 1 + g <= r /\ (Told(Mate) = g \/ Told(Mate) = g + 1)
  BY <1>2 DEF TurnInv, Turns, InTurn
<1>4. Told(Mate) = (u + l) - 1 BY <1>2 DEF Told
<1>5. l \in {0, 1} /\ (l = 1 => u <= r) BY <1>3, <1>4
<1>6. \A i \in 1 .. l : Mate.unacked[i] \in ALine
  <2> TAKE i \in 1 .. l
  <2>1. Mate.unacked[i] \in Units BY <1>1, <1>2, SocketFields, ElementOfSeq
  <2>2. Mate.unacked[i] # FinMark BY <1>1, <1>2 DEF Sockets, Numbered, Plain
  <2> QED BY <2>1, <2>2 DEF Units
<1> QED BY <1>1, <1>2, <1>5, <1>6, SocketFields

LEMMA OneOrNone == ASSUME NEW S, NEW q \in Seq(S), Len(q) <= 1 PROVE q # <<>> => Len(q) = 1
<1>1. Len(q) \in Nat /\ (Len(q) = 0 => q = <<>>) BY EmptySeq, LenProperties
<1>2. PICK n \in Nat : n = Len(q) BY <1>1
<1>3. n <= 1 => n = 0 \/ n = 1 OBVIOUS
<1> QED BY <1>1, <1>2, <1>3

LEMMA NoEndIn ==
  ASSUME NEW q \in Seq(Units), NEW m \in Nat, NEW n \in Nat, 1 <= m, n <= Len(q),
         \A i \in 1 .. Len(q) : q[i] \in ALine
  PROVE  /\ SubSeq(q, m, n) \in Seq(Units) /\ ~HasFin(SubSeq(q, m, n))
         /\ Len(SubSeq(q, m, n)) <= Len(q) /\ Len(SubSeq(q, m, n)) \in Nat
<1> DEFINE r == SubSeq(q, m, n)
<1>1. Len(q) \in Nat OBVIOUS
<1>2. /\ r \in Seq(Units) /\ Len(r) = IF m <= n THEN (n - m) + 1 ELSE 0
      /\ \A i \in 1 .. (n - m) + 1 : r[i] = q[m + i - 1]
  <2>1. \A i \in m .. n : q[i] \in Units
    <3>1. \A i \in m .. n : i \in 1 .. Len(q) BY <1>1
    <3> QED BY <3>1 DEF Units
  <2> QED BY <1>1, <2>1, SubSeqProperties
<1> HIDE DEF r
<1>3. Len(r) <= Len(q) /\ Len(r) \in Nat BY <1>1, <1>2
<1>4. \A i \in 1 .. Len(r) : r[i] \in ALine
  <2> TAKE i \in 1 .. Len(r)
  <2>1. m <= n /\ i \in 1 .. (n - m) + 1 BY <1>1, <1>2
  <2>2. r[i] = q[m + i - 1] BY <1>2, <2>1
  <2>3. m + i - 1 \in 1 .. Len(q) BY <1>1, <2>1
  <2> QED BY <2>2, <2>3
<1>5. ~HasFin(r)
  <2>1. DOMAIN r = 1 .. Len(r) BY <1>2
  <2> QED BY <1>4, <2>1 DEF HasFin, ALine
<1> QED BY <1>2, <1>3, <1>5 DEF r

(* A step of the kernel on a connection, which sends a segment of it, or none. *)
LEMMA SocketTurns ==
  ASSUME NetTypes, HostSide, HostSide', DevSide, TurnInv, NEW c \in Conns, NEW g,
         SetHost(c, g), UNCHANGED <<toHost, app, devVars>>, g.state \in {host[c].state, "none"},
         g.state = "est" => /\ g.una = host[c].una /\ g.rcv = host[c].rcv /\ g.got = host[c].got
                            /\ g.unacked = host[c].unacked /\ g.inbox = host[c].inbox
                            /\ host[c].flying <= g.flying,
         \/ toDev' = toDev
         \/ \E s : /\ s.conn = c /\ (Plain /\ c = app.conn /\ s.kind = "seg" => OneLine(s))
                   /\ toDev' = Put(toDev, s)
  PROVE  TurnInv'
<1>1. host'[c] = g /\ \A d \in Conns : d # c => host'[d] = host[d] BY DEF HostSide, SetHost
<1>2. app' = app OBVIOUS
<1>3. Opening'
  <2> SUFFICES ASSUME app.conn # 0, host'[app.conn].state = "syn" PROVE app.asked = 0
    BY <1>2 DEF Opening, Mate
  <2>1. app.conn \in Conns BY MateType
  <2>2. host[app.conn].state = "syn" BY <1>1, <2>1
  <2> QED BY <2>2 DEF TurnInv, Opening, Mate
<1>4. Turns'
  <2> SUFFICES ASSUME Plain' PROVE Turns'
    BY DEF Turns
  <2>1. app.conn # 0 /\ ~app.drew /\ app.conn \in Conns /\ host'[app.conn].state = "est"
    BY <1>2, MateType DEF Plain, Mate
  <2>2. Plain BY <1>1, <2>1 DEF Plain, Mate
  <2>3. /\ Mate' = host'[app.conn]
        /\ Mate'.una = Mate.una /\ Mate'.rcv = Mate.rcv /\ Mate'.got = Mate.got
        /\ Mate'.unacked = Mate.unacked /\ Mate'.inbox = Mate.inbox /\ Mate.flying <= Mate'.flying
    <3>1. Mate' = host'[app.conn] BY <1>2 DEF Mate
    <3>2. CASE app.conn = c BY <1>1, <2>1, <3>1, <3>2 DEF Mate
    <3>3. CASE app.conn # c
      <4>1. Mate' = Mate BY <1>1, <2>1, <3>1, <3>3 DEF Mate
      <4>2. Mate.flying \in Nat BY <2>1, MateType, SocketFields
      <4> QED BY <3>1, <4>1, <4>2
    <3> QED BY <3>2, <3>3
  <2>4. InTurn(Mate)' BY <1>2, <2>2, <2>3 DEF TurnInv, Turns, InTurn, Told
  <2>5. Mate.una + Mate.flying <= Mate'.una + Mate'.flying
    <3>1. Mate \in Sockets /\ Mate' \in Sockets BY <2>1, <2>3 DEF HostSide, Mate
    <3>2. Mate.una \in Nat /\ Mate.flying \in Nat /\ Mate'.flying \in Nat BY <3>1, SocketFields
    <3> QED BY <2>3, <3>2
  <2>6. CASE toDev' = toDev BY <1>2, <2>2, <2>4, <2>5, <2>6, MateGoesOn
  <2>7. CASE \E s : /\ s.conn = c /\ (Plain /\ c = app.conn /\ s.kind = "seg" => OneLine(s))
                    /\ toDev' = Put(toDev, s)
    <3>1. PICK s : /\ s.conn = c /\ (Plain /\ c = app.conn /\ s.kind = "seg" => OneLine(s))
                   /\ toDev' = Put(toDev, s)
      BY <2>7
    <3>2. s.conn = app.conn /\ s.kind = "seg" => OneLine(s) BY <2>2, <3>1
    <3> QED BY <1>2, <2>2, <2>4, <2>5, <3>1, <3>2, MateGoesOn
  <2> QED BY <2>6, <2>7
<1> QED BY <1>3, <1>4 DEF TurnInv

LEMMA KernelTurns ==
  ASSUME NetTypes, HostSide, HostSide', DevSide, TurnInv, NEW c \in Conns,
         Transmit(c) \/ Resend(c) \/ HostAck(c) \/ HostForgets(c)
  PROVE  TurnInv'
<1> DEFINE h == host[c]
<1>1. UNCHANGED <<toHost, app, devVars>> BY DEF Transmit, Resend, HostAck, HostForgets
<1>2. h \in Sockets /\ h \in SocketTypes BY DEF HostSide, Sockets
<1>3. h.flying \in Nat /\ h.flying <= Len(h.unacked) /\ Len(h.unacked) \in Nat /\ h.unacked \in Seq(Units)
  BY <1>2, SocketFields
<1>4. ASSUME Plain, c = app.conn
      PROVE  /\ Len(h.unacked) \in {0, 1} /\ (Len(h.unacked) = 1 => h.una <= h.rcv)
             /\ \A i \in 1 .. Len(h.unacked) : h.unacked[i] \in ALine
  BY <1>4, OneToSend DEF Mate
<1>5. CASE Transmit(c)
  <2> DEFINE g == [h EXCEPT !.flying = Len(h.unacked), !.due = FALSE]
             q == SubSeq(h.unacked, h.flying + 1, Len(h.unacked))
             s == Segment(c, "seg", h.una + h.flying, Lines(q), HasFin(q), h.rcv)
  <2>1. SetHost(c, g) /\ toDev' = Put(toDev, s) /\ h.flying < Len(h.unacked) BY <1>5 DEF Transmit, Send
  <2>2. /\ g.state = h.state /\ g.una = h.una /\ g.rcv = h.rcv /\ g.got = h.got
        /\ g.unacked = h.unacked /\ g.inbox = h.inbox /\ g.flying = Len(h.unacked)
    BY <1>2 DEF SocketTypes
  <2>3. ASSUME Plain, c = app.conn PROVE OneLine(s)
    <3>1. h.flying = 0 /\ Len(h.unacked) = 1 /\ h.una <= h.rcv BY <1>3, <1>4, <2>1, <2>3
    <3>2. ~HasFin(q) /\ Len(q) <= 1 /\ Len(q) \in Nat /\ q \in Seq(Units)
      <4>1. h.flying + 1 \in Nat /\ 1 <= h.flying + 1 BY <1>3
      <4> QED BY <1>3, <1>4, <2>3, <3>1, <4>1, NoEndIn
    <3> HIDE DEF q
    <3>3. s.data = q /\ s.fin = FALSE /\ s.seq = h.una + h.flying /\ s.ack = h.rcv
      BY <3>2 DEF Segment, Lines
    <3>4. h.una \in Nat BY <1>2, SocketFields
    <3>5. q # <<>> => Len(q) = 1 BY <3>2, OneOrNone
    <3> QED BY <3>1, <3>3, <3>4, <3>5 DEF OneLine
  <2>4. s.conn = c BY DEF Segment
  <2> HIDE DEF g, s
  <2> QED BY <1>1, <1>3, <2>1, <2>2, <2>3, <2>4, SocketTurns
<1>6. CASE Resend(c)
  <2> DEFINE g == [h EXCEPT !.due = FALSE]
             q == SubSeq(h.unacked, 1, h.flying)
             s == IF h.state = "syn" THEN Say(h, c, "syn", <<>>, FALSE)
                  ELSE Say(h, c, "seg", Lines(q), HasFin(q))
  <2>1. SetHost(c, g) /\ toDev' = Put(toDev, s) BY <1>6 DEF Resend, Send
  <2>2. /\ g.state = h.state /\ g.una = h.una /\ g.rcv = h.rcv /\ g.got = h.got
        /\ g.unacked = h.unacked /\ g.inbox = h.inbox /\ g.flying = h.flying
    BY <1>2 DEF SocketTypes
  <2>3. ASSUME Plain, c = app.conn PROVE OneLine(s)
    <3>1. h.state # "syn" BY <2>3 DEF Plain, Mate
    <3>2. ~HasFin(q) /\ Len(q) <= Len(h.unacked) /\ Len(q) \in Nat /\ q \in Seq(Units)
      BY <1>3, <1>4, <2>3, NoEndIn
    <3> HIDE DEF q
    <3>3. s.data = q /\ s.fin = FALSE /\ s.seq = h.una /\ s.ack = h.rcv
      BY <3>1, <3>2 DEF Segment, Lines, Say
    <3>4. q # <<>> => Len(q) = 1 /\ h.una <= h.rcv
      <4>1. PICK n \in Nat, l \in {0, 1} : n = Len(q) /\ l = Len(h.unacked) /\ n <= l
        BY <1>4, <2>3, <3>2
      <4>2. n <= 1
        <5>1. CASE l = 0 BY <4>1, <5>1
        <5>2. CASE l = 1 BY <4>1, <5>2
        <5> QED BY <4>1, <5>1, <5>2
      <4>3. q # <<>> => n = 1 BY <3>2, <4>1, <4>2, OneOrNone
      <4>4. n = 1 => l = 1 BY <4>1
      <4> QED BY <1>4, <2>3, <4>1, <4>3, <4>4
    <3> QED BY <3>3, <3>4 DEF OneLine
  <2>4. s.conn = c BY DEF Segment, Say
  <2>5. h.flying <= h.flying BY <1>3
  <2> HIDE DEF g, s
  <2> QED BY <1>1, <2>1, <2>2, <2>3, <2>4, <2>5, SocketTurns
<1>7. CASE HostAck(c)
  <2> DEFINE g == [h EXCEPT !.due = FALSE]
             s == Segment(c, "seg", h.una + h.flying, <<>>, FALSE, h.rcv)
  <2>1. SetHost(c, g) /\ toDev' = Put(toDev, s) BY <1>7 DEF HostAck, Send
  <2>2. /\ g.state = h.state /\ g.una = h.una /\ g.rcv = h.rcv /\ g.got = h.got
        /\ g.unacked = h.unacked /\ g.inbox = h.inbox /\ g.flying = h.flying
    BY <1>2 DEF SocketTypes
  <2>3. OneLine(s) /\ s.conn = c BY DEF OneLine, Segment
  <2>4. h.flying <= h.flying BY <1>3
  <2> HIDE DEF g, s
  <2> QED BY <1>1, <2>1, <2>2, <2>3, <2>4, SocketTurns
<1>8. CASE HostForgets(c)
  <2>1. SetHost(c, NoSocket) /\ toDev' = toDev BY <1>8 DEF HostForgets
  <2>2. NoSocket.state = "none" BY DEF NoSocket
  <2> QED BY <1>1, <2>1, <2>2, SocketTurns
<1> QED BY <1>5, <1>6, <1>7, <1>8

-----------------------------------------------------------------------------
(* What a segment does to the socket of such a connection. *)
LEMMA AckInTurn ==
  ASSUME NEW h \in Sockets, NEW s \in Replies
  PROVE  LET g == AfterAck(h, s)
         IN  /\ g.una \in Nat /\ h.una <= g.una /\ Told(g) = Told(h)
             /\ g.una + g.flying = h.una + h.flying
             /\ g.inbox = h.inbox /\ g.got = h.got /\ g.rcv = h.rcv /\ g.state = h.state
             /\ s.ack <= h.una + h.flying => s.ack <= g.una
<1> DEFINE n == s.ack - h.una
<1>1. /\ h.una \in Nat /\ h.flying \in Nat /\ s.ack \in Nat /\ Len(h.unacked) \in Nat
      /\ h.flying <= Len(h.unacked)
  BY SocketFields DEF Replies
<1>2. CASE ~(n > 0 /\ n <= h.flying)
  <2>1. AfterAck(h, s) = h BY <1>2 DEF AfterAck
  <2>2. s.ack <= h.una + h.flying => s.ack <= h.una BY <1>1, <1>2
  <2> QED BY <1>1, <2>1, <2>2
<1>3. CASE n > 0 /\ n <= h.flying
  <2> DEFINE q == SubSeq(h.unacked, n + 1, Len(h.unacked))
             g == [h EXCEPT !.una = s.ack, !.flying = @ - n, !.unacked = q]
  <2>1. AfterAck(h, s) = g BY <1>3 DEF AfterAck
  <2>2. /\ g.una = s.ack /\ g.flying = h.flying - n /\ g.rcv = h.rcv /\ g.state = h.state
        /\ g.got = h.got /\ g.inbox = h.inbox /\ g.unacked = q
    BY DEF Sockets, SocketTypes
  <2>3. PICK u \in Nat, f \in Nat, l \in Nat, a \in Nat :
          u = h.una /\ f = h.flying /\ l = Len(h.unacked) /\ a = s.ack /\ u < a /\ a - u <= f /\ f <= l
    BY <1>1, <1>3
  <2>4. n = a - u /\ n \in Nat BY <2>3
  <2> HIDE DEF n
  <2>5. Len(q) = l - (a - u)
    <3>1. \A i \in n + 1 .. Len(h.unacked) : h.unacked[i] \in Units
      <4>1. \A i \in n + 1 .. Len(h.unacked) : i \in 1 .. Len(h.unacked) BY <2>3, <2>4
      <4> QED BY <4>1, SocketFields, ElementOfSeq
    <3>2. Len(q) = IF n + 1 <= Len(h.unacked) THEN Len(h.unacked) - (n + 1) + 1 ELSE 0
      BY <1>1, <2>4, <3>1, SocketFields, SubSeqProperties
    <3> HIDE DEF q
    <3>3. PICK m \in Nat : m = n /\ m <= l /\ m = a - u BY <2>3, <2>4
    <3>4. Len(q) = IF m + 1 <= l THEN l - (m + 1) + 1 ELSE 0 BY <2>3, <3>2, <3>3
    <3>5. Len(q) = l - m BY <3>3, <3>4
    <3> QED BY <3>3, <3>5
  <2> HIDE DEF g, q
  <2>6. Told(h) = u + l - 1 /\ Told(g) = a + (l - (a - u)) - 1
    BY <2>2, <2>3, <2>5 DEF Told
  <2>7. Told(g) = Told(h)
    <3>1. u + l - 1 = a + (l - (a - u)) - 1 OBVIOUS
    <3> QED BY <2>6, <3>1
  <2>8. g.una + g.flying = h.una + h.flying
    <3>1. g.una + g.flying = a + (f - (a - u)) BY <2>2, <2>3, <2>4
    <3> QED BY <2>3, <3>1
  <2>9. h.una <= g.una /\ s.ack <= g.una /\ g.una \in Nat BY <2>2, <2>3
  <2> QED BY <2>1, <2>2, <2>7, <2>8, <2>9
<1> QED BY <1>2, <1>3

LEMMA DataInTurn ==
  ASSUME NEW f \in Sockets, NEW s \in Replies, InTurn(f), f.una \in Nat, s.ack <= f.una,
         s.data # <<>> => s.data = <<s.seq>> /\ s.seq + 1 <= s.ack /\ s.ack <= Told(f) + 1
  PROVE  LET g == AfterData(f, s)
         IN  InTurn(g) /\ g.una = f.una /\ g.flying = f.flying
<1> DEFINE g == AfterData(f, s)
<1>1. /\ f.una \in Nat /\ f.rcv \in Nat /\ Len(f.got) \in Nat /\ Len(f.unacked) \in Nat
      /\ f.got \in Seq(Nat) /\ f.inbox \in Seq(Nat) /\ s.seq \in Nat /\ s.ack \in Nat
  BY SocketFields DEF Replies
<1>2. CASE ~(s.data = <<>> /\ ~s.fin) /\ s.seq = f.rcv
  <2> DEFINE k == f.rcv + Len(s.data) + (IF s.fin THEN 1 ELSE 0)
  <2>1. g = [f EXCEPT !.rcv = k, !.due = TRUE,
                      !.inbox = @ \o s.data, !.got = @ \o s.data, !.eof = @ \/ s.fin]
    BY <1>2 DEF AfterData
  <2>2. /\ g.una = f.una /\ g.flying = f.flying /\ g.rcv = k /\ g.unacked = f.unacked
        /\ g.got = f.got \o s.data /\ g.inbox = f.inbox \o s.data
    BY <2>1 DEF Sockets, SocketTypes
  <2> HIDE DEF g
  <2>3. Told(g) = Told(f) BY <2>2 DEF Told
  <2>4. PICK u \in Nat, l \in Nat, r \in Nat : u = f.una /\ l = Len(f.got) /\ r = f.rcv BY <1>1
  <2>5. 1 + l <= u /\ 1 + l <= r BY <2>4 DEF InTurn
  <2>6. CASE s.data = <<>>
    <3>1. g.got = f.got /\ g.inbox = f.inbox BY <1>1, <2>2, <2>6
    <3>2. r <= k /\ k \in Nat
      <4>1. Len(s.data) = 0 BY <2>6
      <4> QED BY <2>4, <4>1
    <3> HIDE DEF k
    <3>3. 1 + Len(g.got) <= g.rcv BY <2>2, <2>4, <2>5, <3>1, <3>2
    <3> QED BY <2>2, <2>3, <3>1, <3>3 DEF InTurn, g
  <2>7. CASE s.data # <<>>
    <3>1. s.data = <<s.seq>> /\ s.seq + 1 <= s.ack /\ s.ack <= Told(f) + 1 BY <2>7
    <3>2. PICK t \in Int, a \in Nat : t = Told(f) /\ a = s.ack
      <4>1. Told(f) \in Int BY <1>1 DEF Told
      <4> QED BY <1>1, <4>1
    <3>3. r + 1 <= a /\ a <= t + 1 /\ a <= u BY <1>2, <2>4, <3>1, <3>2
    <3>4. t >= l + 1 BY <2>5, <3>2, <3>3
    <3>5. app.asked # 0 /\ app.asked = t /\ f.inbox = <<>> /\ t = l + 1
      BY <2>4, <3>2, <3>4 DEF InTurn
    <3>6. r = t BY <2>5, <3>2, <3>3, <3>5
    <3>7. Len(s.data) = 1 /\ s.data \in Seq(Nat) BY <1>1, <3>1
    <3>8. g.inbox = <<app.asked>>
      <4>1. <<>> \o s.data = s.data BY <3>7
      <4> QED BY <1>2, <2>2, <2>4, <3>1, <3>5, <3>6, <4>1
    <3>9. Len(g.got) = l + 1
      <4>1. Len(f.got \o s.data) = Len(f.got) + Len(s.data) BY <1>1, <3>7, ConcatProperties
      <4> QED BY <2>2, <2>4, <3>7, <4>1
    <3>10. k >= r + 1 /\ k \in Nat
      <4>1. CASE s.fin BY <2>4, <3>7, <4>1
      <4>2. CASE ~s.fin BY <2>4, <3>7, <4>2
      <4> QED BY <4>1, <4>2
    <3> HIDE DEF k
    <3>11. 1 + (l + 1) <= u /\ 1 + (l + 1) <= k BY <3>3, <3>5, <3>6, <3>10
    <3> QED BY <2>2, <2>3, <2>4, <3>2, <3>5, <3>8, <3>9, <3>11 DEF InTurn, g
  <2> QED BY <2>6, <2>7
<1>3. CASE ~(s.data = <<>> /\ ~s.fin) /\ s.seq # f.rcv
  <2>1. g = [f EXCEPT !.due = TRUE] BY <1>3 DEF AfterData
  <2>2. /\ g.una = f.una /\ g.flying = f.flying /\ g.rcv = f.rcv /\ g.unacked = f.unacked
        /\ g.got = f.got /\ g.inbox = f.inbox
    BY <2>1 DEF Sockets, SocketTypes
  <2> HIDE DEF g
  <2>3. Told(g) = Told(f) BY <2>2 DEF Told
  <2> QED BY <2>2, <2>3 DEF InTurn, g
<1>4. CASE s.data = <<>> /\ ~s.fin
  BY <1>4 DEF AfterData
<1> QED BY <1>2, <1>3, <1>4

(* The clock has answered the SYN: nothing is told yet, and nothing said. *)
LEMMA OpenedTurns ==
  ASSUME NetTypes, HostSide, DevSide, EndsInv, TurnInv, UNCHANGED <<toDev, app, devVars>>,
         toHost # <<>>, toHost' = Tail(toHost), app.conn # 0, Mate.state = "syn",
         SetHost(app.conn, [Mate EXCEPT !.state = "est", !.una = 1, !.rcv = 1, !.due = TRUE])
  PROVE  Turns'
<1> DEFINE c == app.conn
           g == [Mate EXCEPT !.state = "est", !.una = 1, !.rcv = 1, !.due = TRUE]
<1>1. c \in Conns /\ Mate = host[c] BY MateType DEF Mate
<1>2. host[c] = [NoSocket EXCEPT !.state = "syn"] BY <1>1 DEF EndsInv, Unused, Known
<1>3. /\ g.state = "est" /\ g.una = 1 /\ g.rcv = 1 /\ g.got = <<>> /\ g.inbox = <<>>
      /\ g.unacked = <<>> /\ g.flying = 0
  BY <1>1, <1>2 DEF NoSocket
<1>4. Mate' = g BY <1>1, SocketSet DEF Mate
<1> HIDE DEF g
<1>5. app.asked = 0 BY DEF TurnInv, Opening
<1>6. InTurn(Mate)'
  <2>1. Told(g) = 0
    <3>1. Len(<<>>) = 0 OBVIOUS
    <3>2. Told(g) = 1 + 0 - 1 BY <1>3, <3>1 DEF Told
    <3> QED BY <3>2
  <2>2. Len(g.got) = 0 BY <1>3
  <2> QED BY <1>3, <1>4, <1>5, <2>1, <2>2 DEF InTurn, Told
<1>7. Talk(c) /\ Alive(host[c]) /\ Early(c) /\ ~Known(host[c])
  BY <1>1 DEF EndsInv, Alive, Early, Known
<1>8. \A s \in Segs(toDev') : s.conn = c => s.kind # "seg"
  BY <1>7 DEF Talk, Sent, InStream
<1>9. \A s \in Segs(toHost') : s.conn = c /\ s.kind # "rst" => ItsAnswer(s, g)
  <2> SUFFICES ASSUME NEW s \in Segs(toHost'), s.conn = c, s.kind # "rst" PROVE ItsAnswer(s, g)
    OBVIOUS
  <2>1. s \in Segs(toHost) BY HostSegs
  <2>2. SaysNothing(s) BY <1>7, <2>1 DEF Talk, Begins
  <2> QED BY <1>3, <2>2 DEF SaysNothing, ItsAnswer
<1>10. ~(On(c)' /\ Lives(dev)')
  <2>1. On(c) => dev.state = "SYN_RCVD" BY <1>7 DEF Talk, Begins
  <2>2. dev' = dev BY DEF devVars
  <2> QED BY <2>1, <2>2 DEF On, Lives
<1> QED BY <1>4, <1>6, <1>8, <1>9, <1>10 DEF Turns

(* What the clock's segments, if they are answers, make of a client that waits. *)
LEMMA TakenInTurn ==
  ASSUME NetTypes, HostSide, Plain, TurnInv, NEW s \in Segs(toHost), s.conn = app.conn, s.kind = "seg"
  PROVE  LET g == AfterClose(AfterData(AfterAck(Mate, s), s))
         IN  InTurn(g) /\ g.una + g.flying = Mate.una + Mate.flying
<1> DEFINE h == Mate
           f == AfterAck(h, s)
           t == AfterData(f, s)
<1>1. h \in Sockets /\ s \in Replies BY MateType, SegsTypes DEF Plain
<1>2. InTurn(h) /\ ItsAnswer(s, h) BY DEF TurnInv, Turns
<1>3. /\ f.una \in Nat /\ h.una <= f.una /\ Told(f) = Told(h)
      /\ f.una + f.flying = h.una + h.flying
      /\ f.inbox = h.inbox /\ f.got = h.got /\ f.rcv = h.rcv /\ f.state = h.state
      /\ s.ack <= h.una + h.flying => s.ack <= f.una
  BY <1>1, AckInTurn
<1>4. f \in Sockets BY <1>1, AfterAckType
<1>5. /\ h.una \in Nat /\ h.flying \in Nat /\ Len(h.unacked) \in Nat /\ h.flying <= Len(h.unacked)
      /\ Len(h.got) \in Nat /\ s.ack \in Nat
  BY <1>1, SocketFields DEF Replies
<1> HIDE DEF f
<1>6. InTurn(f)
  <2>1. PICK u \in Nat, v \in Nat, l \in Nat : u = h.una /\ v = f.una /\ l = Len(h.got) BY <1>3, <1>5
  <2>2. 1 + l <= u /\ u <= v BY <1>2, <1>3, <2>1 DEF InTurn
  <2>3. 1 + Len(f.got) <= f.una BY <1>3, <2>1, <2>2
  <2> QED BY <1>2, <1>3, <2>3 DEF InTurn
<1>7. s.ack <= f.una BY <1>2, <1>3 DEF ItsAnswer
<1>8. s.data # <<>> => s.data = <<s.seq>> /\ s.seq + 1 <= s.ack /\ s.ack <= Told(f) + 1
  <2>1. PICK u \in Nat, y \in Nat, l \in Nat, a \in Nat :
           u = h.una /\ y = h.flying /\ l = Len(h.unacked) /\ a = s.ack
    BY <1>5
  <2>2. a <= u + y /\ y <= l BY <1>2, <1>5, <2>1 DEF ItsAnswer
  <2>3. Told(f) = (u + l) - 1
    <3>1. Told(Mate) = (u + l) - 1 BY <2>1 DEF Told
    <3> QED BY <1>3, <3>1
  <2>4. a <= Told(f) + 1
    <3>1. (u + l) - 1 + 1 = u + l /\ a <= u + l BY <2>2
    <3> QED BY <2>3, <3>1
  <2> QED BY <1>2, <2>1, <2>4 DEF ItsAnswer
<1>9. InTurn(t) /\ t.una = f.una /\ t.flying = f.flying BY <1>1, <1>3, <1>4, <1>6, <1>7, <1>8, DataInTurn
<1>10. t.state = "est"
  <2>1. f.state = "est" BY <1>3 DEF Plain
  <2> QED BY <1>4, <2>1 DEF AfterData, Sockets, SocketTypes
<1> HIDE DEF t
<1>11. AfterClose(t) = t BY <1>10 DEF AfterClose
<1> QED BY <1>3, <1>9, <1>11 DEF f, t

LEMMA ReceiveTurns ==
  ASSUME NetTypes, HostSide, HostSide', DevSide, EndsInv, TurnInv, HostReceive
  PROVE  TurnInv'
<1>1. toHost # <<>> /\ toHost' = Tail(toHost) /\ UNCHANGED <<app, devVars>>
  BY DEF HostReceive
<1>2. PICK s \in Segs(toHost) : s = Head(toHost) BY <1>1, SegsOfTail DEF NetTypes
<1>3. s \in Replies BY SegsTypes
<1>4. PICK c \in Conns : c = s.conn BY <1>3 DEF Replies
<1> DEFINE h == host[c]
<1>5. h \in Sockets BY DEF HostSide
<1>6. \/ /\ s.kind = "rst"
         /\ SetHost(c, IF h.state \in {"syn", "est"} THEN [NoSocket EXCEPT !.state = "reset"]
                       ELSE NoSocket)
         /\ UNCHANGED toDev
      \/ /\ s.kind # "rst" /\ Unwanted(h, s)
         /\ Send(Segment(c, "rst", s.ack, <<>>, FALSE, 0))
         /\ SetHost(c, [NoSocket EXCEPT !.state = IF h.state = "reset" THEN "reset" ELSE "none"])
      \/ /\ s.kind = "synack" /\ h.state = "syn"
         /\ SetHost(c, [h EXCEPT !.state = "est", !.una = 1, !.rcv = 1, !.due = TRUE])
         /\ UNCHANGED toDev
      \/ /\ s.kind = "synack" /\ h.state \in {"est", "fin", "wait"} /\ ~Unwanted(h, s)
         /\ SetHost(c, [h EXCEPT !.due = TRUE])
         /\ UNCHANGED toDev
      \/ s.kind = "seg" /\ h.state = "syn" /\ UNCHANGED <<host, toDev>>
      \/ /\ s.kind = "seg" /\ h.state \in {"est", "fin", "wait"} /\ ~Unwanted(h, s)
         /\ SetHost(c, AfterClose(AfterData(AfterAck(h, s), s)))
         /\ UNCHANGED toDev
  BY <1>2, <1>4 DEF HostReceive
(* What the step makes of the socket, and of the way. *)
<1>7. PICK g : /\ SetHost(c, g) \/ (g = h /\ UNCHANGED host)
               /\ \/ g.state \in {"none", "reset"}
                  \/ /\ h.state = "syn" /\ s.kind = "synack" /\ toDev' = toDev
                     /\ g = [h EXCEPT !.state = "est", !.una = 1, !.rcv = 1, !.due = TRUE]
                     /\ SetHost(c, g)
                  \/ /\ h.state # "syn" /\ g = [h EXCEPT !.due = TRUE]
                  \/ /\ h.state = "syn" /\ g = h
                  \/ /\ h.state # "syn" /\ s.kind = "seg"
                     /\ g = AfterClose(AfterData(AfterAck(h, s), s))
  <2>1. /\ NoSocket.state = "none"
        /\ \A st : [NoSocket EXCEPT !.state = st].state = st
    BY DEF NoSocket
  <2>2. CASE /\ s.kind = "rst"
             /\ SetHost(c, IF h.state \in {"syn", "est"} THEN [NoSocket EXCEPT !.state = "reset"]
                           ELSE NoSocket)
    BY <2>1, <2>2
  <2>3. CASE SetHost(c, [NoSocket EXCEPT !.state = IF h.state = "reset" THEN "reset" ELSE "none"])
    BY <2>1, <2>3
  <2>4. CASE /\ s.kind = "synack" /\ h.state = "syn"
             /\ SetHost(c, [h EXCEPT !.state = "est", !.una = 1, !.rcv = 1, !.due = TRUE])
             /\ UNCHANGED toDev
    BY <2>4
  <2>5. CASE /\ h.state \in {"est", "fin", "wait"}
             /\ SetHost(c, [h EXCEPT !.due = TRUE])
    BY <2>5
  <2>6. CASE s.kind = "seg" /\ h.state = "syn" /\ UNCHANGED host
    BY <2>6
  <2>7. CASE /\ s.kind = "seg" /\ h.state \in {"est", "fin", "wait"}
             /\ SetHost(c, AfterClose(AfterData(AfterAck(h, s), s)))
    BY <2>7
  <2> QED BY <1>6, <2>2, <2>3, <2>4, <2>5, <2>6, <2>7
<1>8. host'[c] = g /\ \A d \in Conns : d # c => host'[d] = host[d]
  BY <1>7 DEF HostSide, SetHost
<1>9. toDev' = toDev \/ \E r : r.kind = "rst" /\ toDev' = Put(toDev, r)
  <2>1. Segment(c, "rst", s.ack, <<>>, FALSE, 0).kind = "rst" BY DEF Segment
  <2> QED BY <1>6, <2>1 DEF Send
<1>10. h.state = "syn" \/ g.state \in {"none", "reset"} \/ g.state # "syn"
  <2>1. CASE h.state # "syn" /\ g = [h EXCEPT !.due = TRUE]
    BY <1>5, <2>1 DEF Sockets, SocketTypes
  <2>2. CASE h.state # "syn" /\ s.kind = "seg" /\ g = AfterClose(AfterData(AfterAck(h, s), s))
    <3> DEFINE f == AfterAck(h, s)
               t == AfterData(f, s)
    <3>1. f \in Sockets /\ f.state = h.state BY <1>3, <1>5, AfterAckType, AckInTurn
    <3> HIDE DEF f
    <3>2. t \in Sockets /\ t.state = f.state
      BY <1>3, <3>1, AfterDataType DEF AfterData, Sockets, SocketTypes
    <3> HIDE DEF t
    <3>3. AfterClose(t).state \in {t.state, "wait"} BY <3>2 DEF AfterClose, Sockets, SocketTypes
    <3> QED BY <2>2, <3>1, <3>2, <3>3 DEF f, t
  <2> QED BY <1>7, <2>1, <2>2
<1>11. Opening'
  <2> SUFFICES ASSUME app.conn # 0, host'[app.conn].state = "syn" PROVE app.asked = 0
    BY <1>1 DEF Opening, Mate
  <2>1. app.conn \in Conns BY MateType
  <2>2. host[app.conn].state = "syn" BY <1>8, <1>10, <2>1
  <2> QED BY <2>2 DEF TurnInv, Opening, Mate
<1>12. ASSUME Plain' PROVE Turns'
  <2>1. app.conn # 0 /\ ~app.drew /\ app.conn \in Conns /\ host'[app.conn].state = "est"
    BY <1>1, <1>12, MateType DEF Plain, Mate
  <2>2. Mate' = host'[app.conn] /\ Mate = host[app.conn] BY <1>1 DEF Mate
  <2>3. CASE Mate.state = "syn"
    <3>1. c = app.conn BY <1>8, <2>1, <2>2, <2>3
    <3>2. /\ toDev' = toDev /\ SetHost(c, g)
          /\ g = [h EXCEPT !.state = "est", !.una = 1, !.rcv = 1, !.due = TRUE]
      BY <1>7, <1>8, <2>1, <2>2, <2>3, <3>1
    <3> QED BY <1>1, <2>1, <2>2, <2>3, <3>1, <3>2, OpenedTurns
  <2>4. CASE Mate.state # "syn"
    <3>1. CASE c # app.conn
      <4>1. Mate' = Mate BY <1>8, <2>1, <2>2, <3>1
      <4>2. Plain BY <2>1, <2>2, <4>1 DEF Plain
      <4>3. InTurn(Mate)' BY <1>1, <4>1, <4>2 DEF TurnInv, Turns, InTurn, Told
      <4>4. Mate.una + Mate.flying <= Mate'.una + Mate'.flying
        <5>1. Mate.una \in Nat /\ Mate.flying \in Nat BY <2>1, MateType, SocketFields
        <5> QED BY <4>1, <5>1
      <4>5. \/ toDev' = toDev
            \/ \E r : (r.conn = app.conn /\ r.kind = "seg" => OneLine(r)) /\ toDev' = Put(toDev, r)
        BY <1>9
      <4> QED BY <1>1, <4>2, <4>3, <4>4, <4>5, MateGoesOn
    <3>2. CASE c = app.conn
      <4>1. \/ h.state # "syn" /\ g = [h EXCEPT !.due = TRUE]
            \/ h.state # "syn" /\ s.kind = "seg" /\ g = AfterClose(AfterData(AfterAck(h, s), s))
        BY <1>7, <1>8, <2>1, <2>2, <2>4, <3>2
      <4>2. Plain
        <5> SUFFICES h.state = "est" BY <2>1, <2>2, <3>2 DEF Plain
        <5>1. CASE g = [h EXCEPT !.due = TRUE]
          BY <1>5, <1>8, <2>1, <3>2, <5>1 DEF Sockets, SocketTypes
        <5>2. CASE s.kind = "seg" /\ g = AfterClose(AfterData(AfterAck(h, s), s))
          <6> DEFINE f == AfterAck(h, s)
                     t == AfterData(f, s)
          <6>1. f \in Sockets /\ f.state = h.state BY <1>3, <1>5, AfterAckType, AckInTurn
          <6> HIDE DEF f
          <6>2. t \in Sockets /\ t.state = f.state
            BY <1>3, <6>1, AfterDataType DEF AfterData, Sockets, SocketTypes
          <6> HIDE DEF t
          <6>3. AfterClose(t).state \in {t.state, "wait"} BY <6>2 DEF AfterClose, Sockets, SocketTypes
          <6>4. AfterClose(t).state = "est" BY <1>8, <2>1, <3>2, <5>2 DEF f, t
          <6> QED BY <6>1, <6>2, <6>3, <6>4
        <5> QED BY <4>1, <5>1, <5>2
      <4>3. InTurn(Mate)' /\ Mate.una + Mate.flying <= Mate'.una + Mate'.flying
        <5>1. Mate.una \in Nat /\ Mate.flying \in Nat BY <2>1, MateType, SocketFields
        <5>2. CASE g = [h EXCEPT !.due = TRUE]
          <6>1. /\ g.una = h.una /\ g.rcv = h.rcv /\ g.got = h.got /\ g.unacked = h.unacked
                /\ g.inbox = h.inbox /\ g.flying = h.flying
            BY <1>5, <5>2 DEF Sockets, SocketTypes
          <6>2. InTurn(Mate)' BY <1>1, <1>8, <2>2, <3>2, <4>2, <6>1 DEF TurnInv, Turns, InTurn, Told
          <6> QED BY <1>8, <2>2, <3>2, <5>1, <6>1, <6>2
        <5>3. CASE s.kind = "seg" /\ g = AfterClose(AfterData(AfterAck(h, s), s))
          <6>1. InTurn(g) /\ g.una + g.flying = Mate.una + Mate.flying
            BY <1>4, <2>2, <3>2, <4>2, <5>3, TakenInTurn
          <6>2. Mate' = g BY <1>8, <2>2, <3>2
          <6>3. InTurn(Mate)' BY <1>1, <6>1, <6>2 DEF InTurn, Told
          <6> QED BY <5>1, <6>1, <6>2, <6>3
        <5> QED BY <4>1, <5>2, <5>3
      <4>4. \/ toDev' = toDev
            \/ \E r : (r.conn = app.conn /\ r.kind = "seg" => OneLine(r)) /\ toDev' = Put(toDev, r)
        BY <1>9
      <4> QED BY <1>1, <4>2, <4>3, <4>4, MateGoesOn
    <3> QED BY <3>1, <3>2
  <2> QED BY <2>3, <2>4
<1> QED BY <1>11, <1>12 DEF TurnInv, Turns

LEMMA LosingTurns ==
  ASSUME NetTypes, HostSide, HostSide', DevSide, TurnInv, Lose
  PROVE  TurnInv'
<1>1. /\ UNCHANGED <<host, app, devVars>>
      /\ toDev' = toDev \/ (toDev # <<>> /\ toDev' = Tail(toDev))
      /\ toHost' = toHost \/ (toHost # <<>> /\ toHost' = Tail(toHost))
  BY DEF Lose
<1>2. Mate' = Mate /\ Plain' = Plain BY <1>1 DEF Mate, Plain
<1>3. Opening' BY <1>1, <1>2 DEF TurnInv, Opening
<1>4. ASSUME Plain' PROVE Turns'
  <2>1. Plain BY <1>2, <1>4
  <2>2. InTurn(Mate)' BY <1>1, <1>2, <2>1 DEF TurnInv, Turns, InTurn, Told
  <2>3. Mate.una + Mate.flying <= Mate'.una + Mate'.flying
    <3>1. Mate.una \in Nat /\ Mate.flying \in Nat BY <2>1, MateType, SocketFields DEF Plain
    <3> QED BY <1>2, <3>1
  <2> QED BY <1>1, <2>1, <2>2, <2>3, MateGoesOn
<1> QED BY <1>3, <1>4 DEF TurnInv, Turns

-----------------------------------------------------------------------------
(* The client.  It has no connection, or one that is being opened. *)
LEMMA NoMateTurns ==
  ASSUME app'.conn = 0 \/ (app'.asked = 0 /\ host'[app'.conn].state # "est")
  PROVE  TurnInv'
BY DEF TurnInv, Opening, Turns, Plain, Mate

(* It tells the next line only when the answer to the one before it was read. *)
LEMMA TellingTurns ==
  ASSUME NetTypes, HostSide, HostSide', DevSide, TurnInv, NEW lines \in Seq(ALine), Tell(lines),
         Len(lines) = 1 \/ Head(lines).kind = "picture"
  PROVE  TurnInv'
<1> DEFINE c == app.conn
           h == host[c]
           g == [h EXCEPT !.unacked = @ \o lines]
<1>1. /\ c # 0 /\ h.state = "est" /\ app.asked = 0 /\ UNCHANGED <<toDev, toHost, devVars>>
      /\ SetHost(c, g) /\ Sock = h
      /\ app' = [app EXCEPT !.asked = NextLine, !.drew  = @ \/ Head(lines).kind = "picture",
                            !.quits = Head(lines).kind = "quit"]
  BY DEF Tell, Sock
<1>2. c \in Conns /\ h \in Sockets BY <1>1, MateType DEF Mate
<1>3. /\ app'.conn = c /\ app'.asked = NextLine
      /\ ~app'.drew => ~app.drew /\ Head(lines).kind # "picture"
  BY <1>1 DEF HostSide, Clients
<1>4. /\ g.state = "est" /\ g.una = h.una /\ g.rcv = h.rcv /\ g.got = h.got /\ g.inbox = h.inbox
      /\ g.flying = h.flying /\ g.unacked = h.unacked \o lines
  BY <1>1, <1>2 DEF Sockets, SocketTypes
<1>5. Mate' = g BY <1>1, <1>2, <1>3, SocketSet DEF Mate
<1> HIDE DEF g
<1>6. Opening' BY <1>4, <1>5 DEF Opening
<1>7. ASSUME Plain' PROVE Turns'
  <2>1. Plain /\ Len(lines) = 1 BY <1>1, <1>3, <1>7 DEF Plain, Mate
  <2>2. InTurn(h) BY <2>1 DEF TurnInv, Turns, Mate
  <2>3. PICK u \in Nat, l \in Nat, n \in Nat : u = h.una /\ l = Len(h.unacked) /\ n = Len(h.got)
    <3>1. Len(h.got) \in Nat BY <1>2, SocketFields
    <3> QED BY <1>2, <3>1, SocketFields
  <2>4. Told(h) = (u + l) - 1 BY <2>3 DEF Told
  <2>5. Told(h) = n /\ h.inbox = <<>> /\ 1 + n <= u BY <1>1, <2>2, <2>3 DEF InTurn
  <2>6. u + l = n + 1 BY <2>4, <2>5
  <2>7. Len(g.unacked) = l + 1
    <3>1. lines \in Seq(Units) /\ h.unacked \in Seq(Units) BY <1>2, SocketFields DEF Units
    <3>2. Len(h.unacked \o lines) = Len(h.unacked) + Len(lines) BY <3>1, ConcatProperties
    <3> QED BY <1>4, <2>1, <2>3, <3>2
  <2>8. Mate'.una + Len(Mate'.unacked) - 1 = n + 1
    <3>1. Mate'.una = u /\ Len(Mate'.unacked) = l + 1 BY <1>4, <1>5, <2>3, <2>7
    <3>2. u + (l + 1) - 1 = n + 1 BY <2>6
    <3> QED BY <3>1, <3>2
  <2>9. app'.asked = n + 1
    <3>1. NextLine = u + l BY <1>1, <2>3 DEF NextLine
    <3> QED BY <1>3, <2>6, <3>1
  <2>10. InTurn(h) /\ app'.asked # 0 BY <2>2, <2>9
  <2>11. /\ Mate'.una = h.una /\ Mate'.rcv = h.rcv /\ Mate'.got = h.got /\ Mate'.inbox = <<>>
         /\ Len(Mate'.got) = n
    BY <1>4, <1>5, <2>3, <2>5
  <2>12. InTurn(Mate)' BY <2>3, <2>8, <2>9, <2>10, <2>11 DEF InTurn, Told
  <2>13. Mate.una + Mate.flying <= Mate'.una + Mate'.flying
    <3>1. h.una \in Nat /\ h.flying \in Nat BY <1>2, SocketFields
    <3> QED BY <1>4, <1>5, <3>1 DEF Mate
  <2> QED BY <1>1, <1>3, <2>1, <2>12, <2>13, MateGoesOn
<1> QED BY <1>6, <1>7 DEF TurnInv, Turns

(* It reads the answer it waits for. *)
LEMMA WaitingTurns ==
  ASSUME NetTypes, HostSide, HostSide', DevSide, TurnInv, WaitFor
  PROVE  TurnInv'
<1> DEFINE c == app.conn
           h == host[c]
           g == [h EXCEPT !.inbox = Tail(@)]
<1>1. /\ c # 0 /\ app.asked # 0 /\ h.inbox # <<>> /\ SetHost(c, g)
      /\ UNCHANGED <<toDev, toHost, devVars>> /\ app' = [app EXCEPT !.asked = 0]
  BY DEF WaitFor, Sock
<1>2. c \in Conns /\ h \in Sockets BY <1>1, MateType DEF Mate
<1>3. app'.conn = c /\ app'.asked = 0 /\ app'.drew = app.drew
  BY <1>1 DEF HostSide, Clients
<1>4. /\ g.state = h.state /\ g.una = h.una /\ g.rcv = h.rcv /\ g.got = h.got
      /\ g.inbox = Tail(h.inbox) /\ g.flying = h.flying /\ g.unacked = h.unacked
  BY <1>2 DEF Sockets, SocketTypes
<1>5. Mate' = g BY <1>1, <1>2, <1>3, SocketSet DEF Mate
<1> HIDE DEF g
<1>6. Opening' BY <1>3 DEF Opening
<1>7. ASSUME Plain' PROVE Turns'
  <2>1. Plain BY <1>1, <1>3, <1>4, <1>5, <1>7 DEF Plain, Mate
  <2>2. InTurn(h) BY <2>1 DEF TurnInv, Turns, Mate
  <2>3. h.inbox = <<app.asked>> /\ Told(h) = Len(h.got) BY <1>1, <2>2 DEF InTurn
  <2>4. g.inbox = <<>>
    <3>1. Tail(<<app.asked>>) = <<>> OBVIOUS
    <3> QED BY <1>4, <2>3, <3>1
  <2>5. InTurn(Mate)'
    <3>1. Told(g) = Told(h) BY <1>4 DEF Told
    <3>2. Told(Mate)' = Told(h) BY <1>5, <3>1 DEF Told
    <3> QED BY <1>3, <1>4, <1>5, <2>2, <2>3, <2>4, <3>2 DEF InTurn
  <2>6. Mate.una + Mate.flying <= Mate'.una + Mate'.flying
    <3>1. h.una \in Nat /\ h.flying \in Nat BY <1>2, SocketFields
    <3> QED BY <1>4, <1>5, <3>1 DEF Mate
  <2> QED BY <1>1, <1>3, <2>1, <2>5, <2>6, MateGoesOn
<1> QED BY <1>6, <1>7 DEF TurnInv, Turns

LEMMA ClientTurns ==
  ASSUME NetTypes, HostSide, HostSide', DevSide, TurnInv,
         \/ Lose \/ HostCrash \/ Open \/ TelnetCmd \/ PlayFrame \/ Quit \/ WaitFor
         \/ CloseConnection \/ Reconnect
  PROVE  TurnInv'
<1>1. CASE Lose BY <1>1, LosingTurns
<1>2. CASE HostCrash
  <2>1. app'.conn = 0 BY <1>2 DEF HostCrash, Idle
  <2> QED BY <2>1, NoMateTurns
<1>3. CASE Open
  <2> DEFINE c == app.opened + 1
             g == [NoSocket EXCEPT !.state = "syn"]
  <2>1. c \in Conns /\ app' = [Idle EXCEPT !.conn = c, !.opened = c] /\ SetHost(c, g)
    BY <1>3 DEF Open
  <2>2. host'[c] = g BY <2>1, SocketSet
  <2>3. app'.conn = c /\ app'.asked = 0 /\ g.state = "syn" BY <2>1 DEF Idle, NoSocket
  <2> QED BY <2>2, <2>3, NoMateTurns
<1>4. CASE TelnetCmd \/ PlayFrame \/ Quit
  <2>1. PICK lines : /\ Tell(lines)
                     /\ \/ lines = <<[n |-> NextLine, kind |-> "command"]>>
                        \/ lines = <<[n |-> NextLine, kind |-> "picture"],
                                     [n |-> NextLine + 1, kind |-> "empty"]>>
                        \/ lines = <<[n |-> NextLine, kind |-> "quit"]>>
    BY <1>4 DEF TelnetCmd, PlayFrame, Quit
  <2>2. NextLine \in Nat
    <3>1. Sock \in Sockets BY <2>1 DEF Tell, HostSide, Clients, Sock
    <3> QED BY <3>1, SocketFields DEF NextLine
  <2>3. \A k \in {"command", "picture", "empty", "quit"} :
          [n |-> NextLine, kind |-> k] \in ALine /\ [n |-> NextLine + 1, kind |-> k] \in ALine
    BY <2>2 DEF ALine
  <2>4. \A u \in ALine, v \in ALine :
          /\ <<u>> \in Seq(ALine) /\ Len(<<u>>) = 1
          /\ <<u, v>> \in Seq(ALine) /\ Head(<<u, v>>) = u
    OBVIOUS
  <2>5. lines \in Seq(ALine) /\ (Len(lines) = 1 \/ Head(lines).kind = "picture")
    <3>1. PICK u \in ALine, v \in ALine :
             lines = <<u>> \/ (lines = <<u, v>> /\ u.kind = "picture")
      <4>1. [n |-> NextLine, kind |-> "picture"].kind = "picture" OBVIOUS
      <4> QED BY <2>1, <2>3, <4>1
    <3> QED BY <2>4, <3>1
  <2> QED BY <2>1, <2>5, TellingTurns
<1>5. CASE WaitFor BY <1>5, WaitingTurns
<1>6. CASE CloseConnection \/ Reconnect
  <2>1. app'.conn = 0 BY <1>6 DEF CloseConnection, Reconnect, Close, Idle
  <2> QED BY <2>1, NoMateTurns
<1> QED BY <1>1, <1>2, <1>3, <1>4, <1>5, <1>6

-----------------------------------------------------------------------------
(* The clock.  What a step of it says is a reset, or of the connection it then has, and
   an answer acknowledges all that was taken. *)
Word(r) ==
  \/ r.kind = "rst"
  \/ dev'.state # "CLOSED" /\ r.conn = dev'.conn /\ (r.data = <<>> \/ r.ack = dev'.rcv)

SaysWord  == \E r \in Replies : Says(r) /\ Word(r)
LinesStay == Plain /\ dev'.conn = app.conn /\ dev'.state \notin {"CLOSED", "SYN_RCVD"} => AnswersLines'

(* What follows from it, since the two ends still agree. *)
LEMMA AgreedAnswer ==
  ASSUME Ready, EndsInv', NetTypes', TurnInv, LinesStay, Plain,
         NEW s \in Segs(toHost'), s.conn = app.conn, s.kind # "rst", Word(s)
  PROVE  ItsAnswer(s, Mate)
<1>1. PICK c \in Conns : c = app.conn /\ Mate = host[c] /\ host' = host
  BY MateType DEF Plain, Ready, ClockSteps, HostSteps, Mate
<1>2. Known(Mate) /\ Alive(Mate) /\ Mate \in Sockets BY MateType DEF Plain, Known, Alive, Ready
<1>3. PICK u \in Nat, f \in Nat, k \in Nat : u = Mate.una /\ f = Mate.flying /\ k = s.ack
  <2>1. s \in Replies
    <3>1. \A S : \A q \in Seq(S) : \A i \in 1 .. Len(q) : q[i] \in S BY ElementOfSeq
    <3> QED BY <3>1 DEF NetTypes, Segs
  <2>2. s.ack \in Nat BY <2>1 DEF Replies
  <2> QED BY <1>2, <2>2, SocketFields
<1>4. dev'.state # "CLOSED" /\ dev'.conn = c /\ (s.data = <<>> \/ s.ack = dev'.rcv)
  BY <1>1 DEF Word
<1>5. On(c)' /\ Begins(c)' /\ Together(c)' BY <1>1, <1>4 DEF On, EndsInv, Talk
<1>6. CASE dev'.state = "SYN_RCVD"
  <2>1. Early(c)' /\ Alive(host[c])' /\ Known(host[c])' BY <1>1, <1>2, <1>5, <1>6 DEF Early, Alive, Known
  <2>2. SaysNothing(s) /\ host'[c].una = 1 BY <1>1, <1>5, <2>1 DEF Begins
  <2>3. u = 1 /\ k <= 1 /\ s.data = <<>> BY <1>1, <1>3, <2>2 DEF SaysNothing
  <2>4. k <= u + f BY <2>3
  <2> QED BY <1>3, <2>3, <2>4 DEF ItsAnswer
<1>7. CASE dev'.state # "SYN_RCVD"
  <2>1. Lives(dev)' /\ Lives(dev') BY <1>4, <1>7 DEF Lives
  <2>2. Alive(host[c])' BY <1>1, <1>2 DEF Alive, Known
  <2>3. GotSoFar(host[c])' /\ FromClock(s)' BY <1>1, <1>5, <2>1, <2>2 DEF Together
  <2>4. PICK v \in Nat : v = dev'.rcv BY DevFields DEF Ready, DevSide
  <2>5. k <= v /\ v <= u + f BY <1>1, <1>3, <2>3, <2>4 DEF GotSoFar, FromClock
  <2>6. k <= u + f BY <2>5
  <2>7. ASSUME s.data # <<>> PROVE s.data = <<s.seq>> /\ s.seq + 1 <= s.ack
    <3>1. AnswersLines' BY <1>1, <1>4, <1>7 DEF LinesStay
    <3>2. s.seq \in 1 .. NumberOf' /\ s.data = <<answered'[s.seq]>> BY <2>3, <2>7 DEF FromClock
    <3>3. PICK n \in Nat, a \in Nat : n = NumberOf' /\ a = Len(answered') /\ n \in {a, a - 1}
      <4>1. Len(answered') \in Nat BY DEF Ready, DevSide
      <4> QED BY <2>1, <4>1 DEF EndsInv, DevNumbers
    <3>4. PICK q \in 1 .. a : q = s.seq BY <3>2, <3>3
    <3>5. answered'[q] = q /\ a + 1 <= v BY <2>4, <3>1, <3>3 DEF AnswersLines
    <3>6. k = v BY <1>3, <1>4, <2>4, <2>7
    <3>7. q + 1 <= k BY <3>5, <3>6
    <3> QED BY <1>3, <3>2, <3>4, <3>5, <3>7
  <2> QED BY <1>3, <2>6, <2>7 DEF ItsAnswer
<1> QED BY <1>6, <1>7

LEMMA WordTurns ==
  ASSUME Ready, EndsInv', NetTypes', TurnInv, SaysWord, LinesStay
  PROVE  TurnInv'
<1>1. host' = host /\ app' = app BY DEF Ready, ClockSteps, HostSteps
<1>2. Mate' = Mate /\ (Plain' <=> Plain) BY <1>1 DEF Mate, Plain
<1>3. Opening' BY <1>1, <1>2 DEF TurnInv, Opening
<1>4. ASSUME Plain PROVE Turns'
  <2>1. InTurn(Mate)' BY <1>1, <1>2, <1>4 DEF TurnInv, Turns, InTurn, Told
  <2>2. \A s \in Segs(toDev') : s.conn = app.conn /\ s.kind = "seg" => OneLine(s)
    <3>1. Segs(toDev') \subseteq Segs(toDev) BY TakesSegs DEF Ready, ClockSteps
    <3> QED BY <1>4, <3>1 DEF TurnInv, Turns
  <2>3. \A s \in Segs(toHost') : s.conn = app.conn /\ s.kind # "rst" => ItsAnswer(s, Mate)
    <3> SUFFICES ASSUME NEW s \in Segs(toHost'), s.conn = app.conn, s.kind # "rst"
                 PROVE  ItsAnswer(s, Mate)
      OBVIOUS
    <3>1. s \in Segs(toHost) \/ Word(s) BY SaysSegs DEF SaysWord, Ready
    <3>2. s \in Segs(toHost) => ItsAnswer(s, Mate) BY <1>4 DEF TurnInv, Turns
    <3>3. Word(s) => ItsAnswer(s, Mate) BY <1>4, AgreedAnswer
    <3> QED BY <3>1, <3>2, <3>3
  <2>4. On(app.conn)' /\ Lives(dev)' => AnswersLines'
    BY <1>1, <1>4 DEF LinesStay, On, Lives
  <2> QED BY <1>1, <1>2, <2>1, <2>2, <2>3, <2>4 DEF Turns
<1> QED BY <1>2, <1>3, <1>4 DEF TurnInv, Turns

(* A connection that is over or only begins has answered nothing. *)
LEMMA EndTurns ==
  ASSUME Ready, EndsInv', NetTypes', TurnInv, SaysWord, dev'.state \in {"CLOSED", "SYN_RCVD"}
  PROVE  TurnInv'
BY WordTurns DEF LinesStay

(* One that goes on without an answer. *)
LEMMA StayTurns ==
  ASSUME Ready, EndsInv', NetTypes', TurnInv, SaysWord, dev'.conn = dev.conn,
         dev'.state \notin {"CLOSED", "SYN_RCVD"} => dev.state \notin {"CLOSED", "SYN_RCVD"},
         answered' = answered, dev.rcv <= dev'.rcv,
         dev'.state = "ESTABLISHED" => /\ dev.state = "ESTABLISHED" /\ dev'.rcv = dev.rcv
                                       /\ ps' = ps
  PROVE  TurnInv'
<1>1. LinesStay
  <2> SUFFICES ASSUME Plain, dev'.conn = app.conn, dev'.state \notin {"CLOSED", "SYN_RCVD"}
               PROVE  AnswersLines'
    BY DEF LinesStay
  <2>1. On(app.conn) /\ Lives(dev) BY DEF On, Lives
  <2>2. AnswersLines BY <2>1 DEF TurnInv, Turns
  <2>3. Len(answered) + 1 <= dev'.rcv
    <3>1. PICK a \in Nat, x \in Nat, y \in Nat : a = Len(answered) /\ x = dev.rcv /\ y = dev'.rcv
      <4>1. Len(answered) \in Nat BY DEF Ready, DevSide
      <4> QED BY <4>1, DevFields DEF Ready, DevSide
    <3>2. a + 1 <= x /\ x <= y BY <2>2, <3>1 DEF AnswersLines
    <3>3. a + 1 <= y BY <3>2
    <3> QED BY <3>1, <3>3
  <2> QED BY <2>2, <2>3 DEF AnswersLines
<1> QED BY <1>1, WordTurns

(* What may be said on a connection as it is left. *)
LEMMA SilentSays ==
  ASSUME Ready, Silent, NEW c \in Conns
  PROVE  SaysWord
BY MereResetSaid DEF SaysWord, Word

LEMMA AckSays ==
  ASSUME dev' \in Devs, dev'.state # "CLOSED", NEW d \in Devs, d.conn = dev'.conn,
         Reply(Ack(d)) \/ Reply(FinAck(d)) \/ Reply(SynAck(d))
  PROVE  SaysWord
<1>1. PICK r : Reply(r) /\ (r = Ack(d) \/ r = FinAck(d) \/ r = SynAck(d)) OBVIOUS
<1>2. d.conn \in Conns BY DevFields
<1>3. r \in Replies BY <1>1, <1>2, AcksAreReplies
<1>4. r.conn = dev'.conn /\ r.data = <<>> BY <1>1 DEF Ack, FinAck, SynAck, Segment
<1> QED BY <1>1, <1>3, <1>4 DEF SaysWord, Word, Says, Reply

(* No line comes with the end of the stream as long as the client is there. *)
LEMMA NoFin ==
  ASSUME Ready, TurnInv, NEW s, Taken(s), Mine(s), s.kind = "seg", s.fin, dev'.conn = dev.conn
  PROVE  LinesStay
<1> SUFFICES ASSUME Plain, dev.conn = app.conn PROVE FALSE
  BY DEF LinesStay
<1>1. s \in Segs(toDev) /\ s.conn = app.conn BY DEF Taken, Mine
<1> QED BY <1>1 DEF TurnInv, Turns, OneLine

LEMMA AcceptTurns ==
  ASSUME Ready, EndsInv', NetTypes', TurnInv, NEW s, Taken(s), Accept(s)
  PROVE  TurnInv'
<1>1. s \in Requests BY DEF Taken
<1>2. PICK c \in Conns : c = s.conn BY <1>1 DEF Requests
<1>3. CASE dev.state \in {"CLOSED", "TIME_WAIT"}
  <2>1. dev'.state = "SYN_RCVD" /\ Reply(SynAck(dev')) BY <1>3 DEF Accept
  <2>2. PICK d : d = dev' OBVIOUS
  <2>3. d \in Devs /\ d.conn = dev'.conn /\ Reply(SynAck(d)) BY <2>1, <2>2 DEF Ready, DevSide
  <2>4. SaysWord BY <2>1, <2>2, <2>3, AckSays
  <2> QED BY <2>1, <2>4, EndTurns
<1>4. CASE dev.state \notin {"CLOSED", "TIME_WAIT"}
  <2>1. dev' = dev /\ ps' = ps /\ answered' = answered /\ Silent BY <1>4 DEF Accept
  <2>2. SaysWord BY <1>2, <2>1, SilentSays
  <2>3. dev.rcv <= dev'.rcv
    <3>1. dev.rcv \in Nat BY DevFields DEF Ready, DevSide
    <3> QED BY <2>1, <3>1
  <2> QED BY <2>1, <2>2, <2>3, StayTurns
<1> QED BY <1>3, <1>4

(* A step that leaves the connection as it is, and the application asleep. *)
LEMMA UnmovedTurns ==
  ASSUME Ready, EndsInv', NetTypes', TurnInv, SaysWord, NotCalled, UNCHANGED dev
  PROVE  TurnInv'
<1>1. answered' = answered /\ ps' = ps BY DEF NotCalled
<1>2. dev.rcv <= dev'.rcv
  <2>1. dev.rcv \in Nat BY DevFields DEF Ready, DevSide
  <2> QED BY <2>1
<1> QED BY <1>1, <1>2, StayTurns

LEMMA RefuseTurns ==
  ASSUME Ready, EndsInv', NetTypes', TurnInv, NEW s, Taken(s), Refuse(s)
  PROVE  TurnInv'
<1>1. s \in Requests BY DEF Taken
<1>2. PICK c \in Conns : c = s.conn BY <1>1 DEF Requests
<1>3. NotCalled /\ UNCHANGED dev /\ (Silent \/ Reply(Reset(s))) BY DEF Refuse
<1>4. CASE Silent BY <1>2, <1>3, <1>4, SilentSays, UnmovedTurns
<1>5. CASE Reply(Reset(s))
  <2>1. Reset(s) \in Replies /\ Reset(s).kind = "rst"
    <3>1. Reset(s) \in Replies BY <1>1, MereReply DEF Reset, Requests, Kinds
    <3> QED BY <3>1 DEF Reset, Segment
  <2>2. SaysWord BY <1>5, <2>1 DEF SaysWord, Word, Says, Reply
  <2> QED BY <1>3, <2>2, UnmovedTurns
<1> QED BY <1>3, <1>4, <1>5

(* A step that ends the connection, with a reset or without a word. *)
LEMMA OverTurns ==
  ASSUME Ready, EndsInv', NetTypes', TurnInv, dev.state # "CLOSED", dev' = Closed,
         Silent \/ Reply(Segment(dev.conn, "rst", dev.snd, <<>>, FALSE, dev.rcv))
  PROVE  TurnInv'
<1>1. dev.conn \in Conns BY MineIsOpened
<1>2. SaysWord
  <2>1. CASE Silent BY <1>1, <2>1, SilentSays
  <2>2. CASE Reply(Segment(dev.conn, "rst", dev.snd, <<>>, FALSE, dev.rcv))
    <3>1. PICK r : r = Segment(dev.conn, "rst", dev.snd, <<>>, FALSE, dev.rcv) OBVIOUS
    <3>2. r \in Replies
      <4>1. dev.snd \in Nat /\ dev.rcv \in Nat BY DevFields DEF Ready, DevSide
      <4> QED BY <1>1, <3>1, <4>1, MereReply DEF Kinds
    <3>3. r.kind = "rst" BY <3>1 DEF Segment
    <3> QED BY <2>2, <3>1, <3>2, <3>3 DEF SaysWord, Word, Says, Reply
  <2> QED BY <2>1, <2>2
<1>3. dev'.state = "CLOSED" BY ClosedType
<1> QED BY <1>2, <1>3, EndTurns

LEMMA IdleTurns ==
  ASSUME Ready, EndsInv', NetTypes', TurnInv, dev.state # "CLOSED", NotCalled, UNCHANGED dev,
         Silent \/ Reply(Ack(dev))
  PROVE  TurnInv'
<1>1. dev.conn \in Conns /\ dev \in Devs /\ dev' \in Devs BY MineIsOpened DEF Ready, DevSide
<1>2. SaysWord BY <1>1, SilentSays, AckSays
<1> QED BY <1>2, UnmovedTurns

LEMMA RepeatedTurns ==
  ASSUME Ready, EndsInv', NetTypes', TurnInv, NEW s, Repeated(s) \/ InTimeWait(s)
  PROVE  TurnInv'
BY IdleTurns DEF Repeated, InTimeWait, Expected, Mine

LEMMA InLastAckTurns ==
  ASSUME Ready, EndsInv', NetTypes', TurnInv, NEW s, Taken(s), InLastAck(s)
  PROVE  TurnInv'
<1>1. dev.state # "CLOSED" /\ Silent BY DEF InLastAck, Expected
<1>2. CASE Acks(s) BY <1>1, <1>2, OverTurns DEF InLastAck, CallOnly
<1>3. CASE ~Acks(s) BY <1>1, <1>3, IdleTurns DEF InLastAck
<1> QED BY <1>2, <1>3

LEMMA FinInTurns ==
  ASSUME Ready, EndsInv', NetTypes', TurnInv, NEW s, Taken(s), FinIn(s)
  PROVE  TurnInv'
<1>1. dev.state = "ESTABLISHED" /\ Mine(s) /\ s.kind = "seg" /\ s.fin BY DEF FinIn, Expected
<1>2. dev \in Devs /\ s \in Requests /\ s.data \in Seq(ALine) /\ dev' \in Devs
  BY DEF Ready, DevSide, Taken, Requests
<1>3. CASE Acked(s).len > 0
  <2>1. Acked(s) = dev BY <1>2, <1>3, AckedNumbers
  <2> QED BY <1>1, <1>3, <2>1, IdleTurns DEF FinIn
<1>4. CASE ~(Acked(s).len > 0)
  <2> DEFINE t == Took(Acked(s), 1 + Len(s.data))
             d == [t EXCEPT !.len = 1, !.state = "LAST_ACK", !.nrtx = 0]
  <2>1. CallOnly(d, Events(s), s.data) /\ Reply(FinAck(dev')) BY <1>4 DEF FinIn
  <2>2. Acked(s) \in Devs /\ Acked(s).conn = dev.conn BY <1>2, AckedType
  <2>3. 1 + Len(s.data) \in Nat BY <1>2
  <2>4. t \in Devs /\ t.conn = dev.conn BY <2>2, <2>3, TookType
  <2> HIDE DEF t
  <2>5. d.state = "LAST_ACK" /\ d.conn = dev.conn BY <2>4 DEF Devs
  <2>6. dev' = d BY <2>1 DEF CallOnly
  <2>7. PICK e : e = dev' OBVIOUS
  <2>8. SaysWord
    <3>1. e \in Devs /\ e.conn = dev'.conn /\ Reply(FinAck(e)) /\ dev'.state # "CLOSED"
      BY <1>2, <2>1, <2>5, <2>6, <2>7
    <3> QED BY <1>2, <3>1, AckSays
  <2>9. LinesStay BY <1>1, <2>5, <2>6, NoFin
  <2> QED BY <2>8, <2>9, WordTurns
<1> QED BY <1>3, <1>4

LEMMA InFinWaitTurns ==
  ASSUME Ready, EndsInv', NetTypes', TurnInv, NEW s, Taken(s), InFinWait(s)
  PROVE  TurnInv'
<1> DEFINE d    == Took(Acked(s), Len(s.data))
           done == d.len = 0
<1>1. dev.state \in {"FIN_WAIT_1", "FIN_WAIT_2"} /\ Mine(s) /\ s.kind = "seg"
  BY DEF InFinWait, Expected
<1>2. dev \in Devs /\ s \in Requests /\ s.data \in Seq(ALine) /\ s.fin \in BOOLEAN /\ dev' \in Devs
  BY DEF Ready, DevSide, Taken, Requests
<1>3. Acked(s) \in Devs /\ Acked(s).rcv = dev.rcv /\ Acked(s).conn = dev.conn BY <1>2, AckedType
<1>4. Len(s.data) \in Nat /\ dev.rcv \in Nat BY <1>2, DevFields
<1>5. d \in Devs /\ d.rcv = dev.rcv + Len(s.data) /\ d.conn = dev.conn BY <1>3, <1>4, TookType
<1>6. CASE s.fin
  <2> DEFINE g == [Took(d, 1) EXCEPT !.state = IF done THEN "TIME_WAIT" ELSE "CLOSING"]
  <2>1. CallOnly(g, {}, <<>>) /\ Reply(Ack(dev')) BY <1>6 DEF InFinWait
  <2> HIDE DEF d
  <2>2. Took(d, 1) \in Devs /\ Took(d, 1).conn = d.conn BY <1>5, TookType
  <2>3. g.state \in {"TIME_WAIT", "CLOSING"} /\ g.conn = dev.conn BY <1>5, <2>2 DEF Devs
  <2>4. dev' = g BY <2>1 DEF CallOnly
  <2> HIDE DEF g
  <2>5. PICK e : e = dev' OBVIOUS
  <2>6. SaysWord
    <3>1. e \in Devs /\ e.conn = dev'.conn /\ Reply(Ack(e)) /\ dev'.state # "CLOSED"
      BY <1>2, <2>1, <2>3, <2>4, <2>5
    <3> QED BY <1>2, <3>1, AckSays
  <2>7. LinesStay BY <1>1, <1>6, <2>3, <2>4, NoFin
  <2> QED BY <2>6, <2>7, WordTurns
<1>7. CASE ~s.fin
  <2> DEFINE g == [d EXCEPT !.state = IF done THEN "FIN_WAIT_2" ELSE "FIN_WAIT_1"]
  <2>1. NotCalled /\ dev' = g /\ (Reply(Ack(d)) \/ Silent) BY <1>7 DEF InFinWait
  <2> HIDE DEF d
  <2>2. g.state \in {"FIN_WAIT_2", "FIN_WAIT_1"} /\ g.conn = dev.conn /\ g.rcv = d.rcv
    BY <1>5 DEF Devs
  <2> HIDE DEF g
  <2>3. /\ dev'.state \in {"FIN_WAIT_2", "FIN_WAIT_1"} /\ dev'.conn = dev.conn /\ dev.rcv <= dev'.rcv
        /\ answered' = answered
    BY <1>4, <1>5, <2>1, <2>2 DEF NotCalled
  <2>4. SaysWord
    <3>1. dev.conn \in Conns /\ dev'.state # "CLOSED" /\ d.conn = dev'.conn
      BY <1>1, <1>5, <2>3, MineIsOpened
    <3> QED BY <1>2, <1>5, <2>1, <3>1, SilentSays, AckSays
  <2> QED BY <1>1, <2>3, <2>4, StayTurns
<1> QED BY <1>2, <1>6, <1>7

LEMMA InClosingTurns ==
  ASSUME Ready, EndsInv', NetTypes', TurnInv, NEW s, Taken(s), InClosing(s)
  PROVE  TurnInv'
<1>1. dev.state = "CLOSING" /\ NotCalled /\ Silent BY DEF InClosing, Expected
<1>2. dev \in Devs /\ s \in Requests /\ dev.rcv \in Nat BY DevFields DEF Ready, DevSide, Taken
<1>3. Acked(s) \in Devs /\ Acked(s).conn = dev.conn /\ Acked(s).rcv = dev.rcv BY <1>2, AckedType
<1>4. dev' = IF Acks(s) THEN [Acked(s) EXCEPT !.state = "TIME_WAIT"] ELSE dev BY DEF InClosing
<1>5. dev'.state \in {"CLOSING", "TIME_WAIT"} /\ dev'.conn = dev.conn /\ dev'.rcv = dev.rcv
  BY <1>1, <1>2, <1>3, <1>4 DEF Devs
<1>6. dev.rcv <= dev'.rcv BY <1>2, <1>5
<1>7. SaysWord BY <1>1, MineIsOpened, SilentSays
<1> QED BY <1>1, <1>5, <1>6, <1>7, StayTurns DEF NotCalled

-----------------------------------------------------------------------------
(* The application, when nothing is left of an earlier segment and at most one line is
   new: it answers this one, or closes. *)
AnswersOne(o, ev, data) ==
  /\ ~o.closes /\ o.ps.rest = <<>> /\ ~o.ps.dirty
  /\ o.says = IF "newdata" \in ev THEN <<data[1].n>> ELSE <<>>

LEMMA OneLineRead ==
  ASSUME NEW p \in Psocks, p.at = "read", p.rest = <<>>, ~p.dirty, NEW ev, NEW data \in Seq(ALine),
         "newdata" \in ev => Len(data) = 1, NEW o \in ReadTo(p, "newdata" \in ev, data)
  PROVE  AnswersOne(o, ev, data)
<1>1. o \in ReadNew(p, "newdata" \in ev, data) BY DEF ReadTo
<1>2. CASE "newdata" \in ev
  <2>1. Len(data) = 1 BY <1>2
  <2>2. Head(data) = data[1] /\ Tail(data) = <<>>
    <3>1. data # <<>> BY <2>1, LenProperties
    <3>2. Tail(data) \in Seq(ALine) /\ Len(Tail(data)) = 0 /\ Head(data) = data[1]
      BY <2>1, <3>1, HeadTailProperties
    <3> QED BY <3>2, EmptySeq
  <2>3. PICK q : q = [p EXCEPT !.rest = Tail(data)] OBVIOUS
  <2>4. q.rest = <<>> BY <2>2, <2>3 DEF Psocks
  <2>5. o = HandleLine(q, data[1]) BY <1>1, <1>2, <2>2, <2>3 DEF ReadNew
  <2>6. o.ps.rest = <<>> /\ ~o.ps.dirty /\ ~o.closes /\ o.says = <<data[1].n>>
    BY <2>4, <2>5 DEF HandleLine, Outcome, Psock
  <2> QED BY <1>2, <2>6 DEF AnswersOne
<1>3. CASE "newdata" \notin ev
  <2>1. o = Outcome(p, FALSE, FALSE, <<>>, <<>>) BY <1>1, <1>3 DEF ReadNew, Goes
  <2> QED BY <1>3, <2>1 DEF Outcome, AnswersOne
<1> QED BY <1>2, <1>3

LEMMA OneLineCall ==
  ASSUME NEW p \in Psocks, NEW ev, NEW data \in Seq(ALine),
         "connected" \in ev \/ (p.rest = <<>> /\ ~p.dirty),
         "newdata" \in ev => Len(data) = 1 /\ (StartsAt(p, ev) = "read" \/ "acked" \in ev),
         NEW o \in AppCall(p, ev, data)
  PROVE  (o.says = <<>> /\ o.closes) \/ AnswersOne(o, ev, data)
<1> DEFINE g == IF "connected" \in ev THEN Fresh ELSE p
<1>1. g \in Psocks /\ g.at = StartsAt(p, ev) /\ g.rest = <<>> /\ ~g.dirty
  <2>1. <<>> \in Seq(ALine) BY EmptySeq
  <2>2. Fresh \in Psocks /\ Fresh.at = "read" /\ Fresh.rest = <<>> /\ ~Fresh.dirty
    BY <2>1 DEF Fresh, Psock, Psocks, PsockAt
  <2> QED BY <2>2 DEF StartsAt
<1>2. o \in IF g.at = "read" THEN ReadTo(g, "newdata" \in ev, data) ELSE GoesOn(g, ev, data)
  BY DEF AppCall
<1>3. "newdata" \in ev => Len(data) = 1 /\ (g.at = "read" \/ "acked" \in ev) BY <1>1
<1> HIDE DEF g
<1>4. CASE g.at = "read"
  <2>1. o \in ReadTo(g, "newdata" \in ev, data) BY <1>2, <1>4
  <2> QED BY <1>1, <1>3, <1>4, <2>1, OneLineRead
<1>5. CASE g.at # "read"
  <2> DEFINE f == [g EXCEPT !.at = "read"]
  <2>1. f \in Psocks /\ f.at = "read" /\ f.rest = <<>> /\ ~f.dirty BY <1>1 DEF Psocks, PsockAt
  <2>2. o \in GoesOn(g, ev, data) BY <1>2, <1>5
  <2>3. CASE "acked" \in ev /\ g.at = "sendlast"
    <3>1. o = Outcome(f, FALSE, TRUE, <<>>, <<>>) BY <2>2, <2>3 DEF GoesOn, Goes
    <3> QED BY <3>1 DEF Outcome
  <2>4. CASE "acked" \in ev /\ g.at # "sendlast"
    <3>1. o \in ReadTo(f, "newdata" \in ev, data) BY <2>2, <2>4 DEF GoesOn
    <3> HIDE DEF f
    <3> QED BY <1>3, <2>1, <3>1, OneLineRead
  <2>5. CASE "acked" \notin ev
    <3>1. o = Outcome(g, "rexmit" \in ev, FALSE, <<>>, <<>>) BY <2>2, <2>5 DEF GoesOn, Goes
    <3>2. "newdata" \notin ev BY <1>3, <1>5, <2>5
    <3> QED BY <1>1, <3>1, <3>2 DEF Outcome, AnswersOne
  <2> QED BY <2>3, <2>4, <2>5
<1> QED BY <1>4, <1>5

LEMMA SendWords ==
  ASSUME Ready, NEW d \in Devs, d.state # "CLOSED", NEW ev, NEW o, Called(o), AppSend(d, ev, o)
  PROVE  /\ SaysWord /\ dev'.conn = d.conn /\ dev'.rcv = d.rcv
         /\ dev'.state = IF o.closes THEN "FIN_WAIT_1" ELSE d.state
<1> DEFINE sending == [d EXCEPT !.len = IF o.sends THEN 1 ELSE @, !.nrtx = 0]
           closing == [d EXCEPT !.len = 1, !.nrtx = 0, !.state = "FIN_WAIT_1"]
<1>1. PICK p \in Psocks, e \in Devs : p = ps' /\ e = dev' BY DEF Ready, DevSide
<1>2. o.ps = p BY <1>1 DEF Called
<1>3. d.conn \in Conns BY DevFields
<1>4. CASE o.closes
  <2>1. e = closing /\ Reply(FinAck(closing)) BY <1>1, <1>4 DEF AppSend
  <2>2. closing.conn = d.conn /\ closing.rcv = d.rcv /\ closing.state = "FIN_WAIT_1" BY DEF Devs
  <2> HIDE DEF closing
  <2>3. SaysWord
    <3>1. Reply(FinAck(e)) /\ dev' \in Devs /\ e.conn = dev'.conn /\ dev'.state # "CLOSED"
      BY <1>1, <2>1, <2>2
    <3> QED BY <3>1, AckSays
  <2> QED BY <1>1, <1>4, <2>1, <2>2, <2>3
<1>5. CASE ~o.closes
  <2>1. e = sending
        /\ (IF o.sends THEN Reply(Answer(sending, p))
            ELSE IF "newdata" \in ev THEN Reply(Ack(sending)) ELSE Silent)
    BY <1>1, <1>2, <1>5 DEF AppSend
  <2>2. sending.conn = d.conn /\ sending.rcv = d.rcv /\ sending.state = d.state BY DEF Devs
  <2> HIDE DEF sending
  <2>3. SaysWord
    <3>1. CASE Reply(Answer(sending, p))
      <4>1. PICK r : r = Answer(e, p) OBVIOUS
      <4>2. r.conn = e.conn /\ r.ack = e.rcv BY <4>1 DEF Answer, Segment
      <4>3. e.conn \in Conns BY <1>3, <2>1, <2>2
      <4>4. r \in Replies BY <4>1, <4>3, AnswerIsReply
      <4>5. Reply(r) /\ r.conn = dev'.conn /\ r.ack = dev'.rcv /\ dev'.state # "CLOSED"
        BY <1>1, <2>1, <2>2, <3>1, <4>1, <4>2
      <4> QED BY <4>4, <4>5 DEF SaysWord, Word, Says, Reply
    <3>2. CASE Reply(Ack(sending))
      <4>1. Reply(Ack(e)) /\ dev' \in Devs /\ e.conn = dev'.conn /\ dev'.state # "CLOSED"
        BY <1>1, <2>1, <2>2, <3>2
      <4> QED BY <4>1, AckSays
    <3>3. CASE Silent BY <1>3, <3>3, SilentSays
    <3> QED BY <2>1, <3>1, <3>2, <3>3
  <2> QED BY <1>1, <1>5, <2>1, <2>2, <2>3
<1> QED BY <1>4, <1>5

(* A call that answers the line which has come, if one has. *)
LEMMA AnsweringTurns ==
  ASSUME Ready, EndsInv', NetTypes', TurnInv, NEW d \in Devs, d.state = "ESTABLISHED", d.conn = dev.conn,
         NEW ev, NEW data \in Seq(ALine), CallAndSend(d, ev, data),
         Plain /\ dev.conn = app.conn =>
           /\ "connected" \in ev \/ (ps.rest = <<>> /\ ~ps.dirty)
           /\ \A i \in 1 .. Len(answered) : answered[i] = i
           /\ dev.rcv = Len(answered) + 1
           /\ IF "newdata" \in ev
              THEN /\ Len(data) = 1 /\ data[1].n = dev.rcv /\ d.rcv = dev.rcv + 1
                   /\ StartsAt(ps, ev) = "read" \/ "acked" \in ev
              ELSE d.rcv = dev.rcv
  PROVE  TurnInv'
<1>1. PICK o \in AppCall(ps, ev, data) : Called(o) /\ AppSend(d, ev, o) BY DEF CallAndSend
<1>2. /\ SaysWord /\ dev'.conn = dev.conn /\ dev'.rcv = d.rcv
      /\ dev'.state = IF o.closes THEN "FIN_WAIT_1" ELSE "ESTABLISHED"
  BY <1>1, SendWords
<1>3. ASSUME Plain, dev.conn = app.conn PROVE AnswersLines'
  <2>1. ps \in Psocks /\ answered \in Seq(Nat) /\ answered' \in Seq(Nat) BY DEF Ready, DevSide
  <2>2. (o.says = <<>> /\ o.closes) \/ AnswersOne(o, ev, data) BY <1>1, <1>3, <2>1, OneLineCall
  <2>3. ps' = o.ps /\ answered' = answered \o o.says BY <1>1 DEF Called
  <2>4. PICK a \in Nat, x \in Nat, y \in Nat : a = Len(answered) /\ x = dev.rcv /\ y = dev'.rcv /\ x = a + 1
    <3>1. Len(answered) \in Nat BY <2>1
    <3> QED BY <1>3, <3>1, DevFields DEF Ready, DevSide
  <2>5. \A i \in 1 .. a : answered[i] = i BY <1>3, <2>4
  <2>6. answered \o <<>> = answered BY <2>1
  <2>7. CASE o.says = <<>> /\ o.closes
    <3>1. answered' = answered /\ dev'.state = "FIN_WAIT_1" BY <1>2, <2>3, <2>6, <2>7
    <3>2. x <= y BY <1>2, <1>3, <2>4
    <3>3. a + 1 <= y BY <2>4, <3>2
    <3> QED BY <2>4, <2>5, <3>1, <3>3 DEF AnswersLines
  <2>8. CASE AnswersOne(o, ev, data) /\ "newdata" \notin ev
    <3>1. answered' = answered /\ ps'.rest = <<>> /\ ~ps'.dirty BY <2>3, <2>6, <2>8 DEF AnswersOne
    <3>2. y = a + 1 BY <1>2, <1>3, <2>4, <2>8
    <3>3. a + 1 <= y BY <3>2
    <3> QED BY <2>4, <2>5, <3>1, <3>2, <3>3 DEF AnswersLines
  <2>9. CASE AnswersOne(o, ev, data) /\ "newdata" \in ev
    <3>1. o.says = <<x>> /\ y = x + 1 BY <1>2, <1>3, <2>4, <2>9 DEF AnswersOne
    <3>2. ps'.rest = <<>> /\ ~ps'.dirty BY <2>3, <2>9 DEF AnswersOne
    <3>3. answered' = Append(answered, x)
      <4>1. answered \o <<x>> = Append(answered, x) BY <2>1, <2>4
      <4> QED BY <2>3, <3>1, <4>1
    <3>4. /\ Len(answered') = a + 1 /\ answered'[a + 1] = x
          /\ \A i \in 1 .. a : answered'[i] = answered[i]
      BY <2>1, <2>4, <3>3, AppendProperties
    <3>5. \A i \in 1 .. Len(answered') : answered'[i] = i
      <4> TAKE i \in 1 .. Len(answered')
      <4>1. i \in 1 .. a \/ i = a + 1 BY <2>4, <3>4
      <4> QED BY <2>4, <2>5, <3>4, <4>1
    <3>6. y = (a + 1) + 1 /\ (a + 1) + 1 <= y BY <2>4, <3>1
    <3> QED BY <2>4, <3>2, <3>4, <3>5, <3>6 DEF AnswersLines
  <2> QED BY <2>2, <2>7, <2>8, <2>9
<1>4. LinesStay BY <1>2, <1>3 DEF LinesStay
<1> QED BY <1>2, <1>4, WordTurns

(* The line that a segment brings, and that the answer before it has arrived. *)
LEMMA LineTaken ==
  ASSUME Ready, TurnInv, NEW s, Taken(s), Mine(s), s.kind = "seg", ~OutOfSequence(s),
         Plain, dev.conn = app.conn, s.data # <<>>
  PROVE  /\ Len(s.data) = 1 /\ s.data[1].n = dev.rcv
         /\ Lives(dev) => dev.rcv <= s.ack /\ s.ack <= dev.snd + dev.len
<1>1. s \in Segs(toDev) /\ s \in Requests /\ s.conn = app.conn /\ s.seq = dev.rcv
  BY DEF Taken, Mine, OutOfSequence
<1>2. Len(s.data) = 1 /\ s.seq <= s.ack BY <1>1 DEF TurnInv, Turns, OneLine
<1>3. s.data[1].n = dev.rcv
  <2>1. \A i \in 1 .. Len(s.data) : s.data[i].n = s.seq + i - 1 BY <1>1 DEF Requests
  <2>2. 1 \in 1 .. Len(s.data) BY <1>2
  <2>3. PICK q \in Nat : q = s.seq BY <1>1 DEF Requests
  <2>4. s.data[1].n = q + 1 - 1 BY <2>1, <2>2, <2>3
  <2>5. q + 1 - 1 = q OBVIOUS
  <2> QED BY <1>1, <2>3, <2>4, <2>5
<1>4. ASSUME Lives(dev) PROVE s.ack <= dev.snd + dev.len
  <2>1. dev.state # "CLOSED" BY <1>4 DEF Lives
  <2>2. PICK c \in Conns : c = dev.conn /\ Talk(c) /\ On(c) BY <2>1, MineIsOpened
  <2>3. Mate = host[c] /\ Known(host[c]) /\ Alive(host[c]) BY <2>2 DEF Mate, Plain, Known, Alive
  <2>4. InStream(s, host[c]) BY <1>1, <2>2, <2>3 DEF Talk, Sent
  <2>5. GotSoFar(host[c]) BY <1>4, <2>2, <2>3 DEF Talk, Together
  <2>6. PICK k \in Nat, r \in Nat, e \in Nat : k = s.ack /\ r = host[c].rcv /\ e = dev.snd + dev.len
    <3>1. s.ack \in Nat BY <1>1 DEF Requests
    <3>2. host[c] \in Sockets BY DEF Ready, HostSide
    <3>3. dev.snd \in Nat /\ dev.len \in Nat BY DevFields DEF Ready, DevSide
    <3>4. dev.snd + dev.len \in Nat BY <3>3
    <3> QED BY <3>1, <3>2, <3>4, SocketFields
  <2>7. k <= r /\ r <= e BY <2>4, <2>5, <2>6 DEF InStream, GotSoFar
  <2>8. k <= e BY <2>7
  <2> QED BY <2>6, <2>8
<1> QED BY <1>1, <1>2, <1>3, <1>4

LEMMA InSynRcvdTurns ==
  ASSUME Ready, EndsInv', NetTypes', TurnInv, NEW s, Taken(s), InSynRcvd(s)
  PROVE  TurnInv'
<1>1. dev.state = "SYN_RCVD" /\ ~OutOfSequence(s) /\ Mine(s) /\ s.kind = "seg"
  BY DEF InSynRcvd, Expected
<1>2. dev \in Devs /\ s \in Requests /\ s.data \in Seq(ALine) BY DEF Ready, DevSide, Taken, Requests
<1>3. CASE ~Acks(s) BY <1>1, <1>3, IdleTurns DEF InSynRcvd
<1>4. CASE Acks(s)
  <2> DEFINE t  == Took(Acked(s), Len(s.data))
             d  == [t EXCEPT !.state = "ESTABLISHED"]
             ev == {"connected"} \cup (Events(s) \ {"acked"})
  <2>1. CallAndSend(d, ev, s.data) BY <1>4 DEF InSynRcvd
  <2>2. "connected" \in ev /\ ("newdata" \in ev <=> s.data # <<>>) BY DEF Events
  <2>3. Acked(s) \in Devs /\ Acked(s).state = dev.state /\ Acked(s).rcv = dev.rcv /\ Acked(s).conn = dev.conn
    BY <1>2, AckedType
  <2>4. Len(s.data) \in Nat BY <1>2
  <2>5. t \in Devs /\ t.state = "SYN_RCVD" /\ t.rcv = dev.rcv + Len(s.data) /\ t.conn = dev.conn
    BY <1>1, <2>3, <2>4, TookType
  <2> HIDE DEF t, ev
  <2>6. d \in Devs /\ d.state = "ESTABLISHED" /\ d.rcv = t.rcv /\ d.conn = t.conn
    BY <2>5, ChangedState DEF TcpStates
  <2> HIDE DEF d
  <2>7. answered = <<>> /\ dev.rcv = 1
    <3>1. DevNumbers BY <1>1, MineIsOpened
    <3> QED BY <1>1, <3>1 DEF DevNumbers
  <2>8. /\ \A i \in 1 .. Len(answered) : answered[i] = i
        /\ dev.rcv = Len(answered) + 1
    <3>1. Len(<<>>) = 0 /\ 1 .. 0 = {} /\ 1 = 0 + 1 OBVIOUS
    <3> QED BY <2>7, <3>1
  <2>9. ASSUME Plain, dev.conn = app.conn, "newdata" \in ev
        PROVE  Len(s.data) = 1 /\ s.data[1].n = dev.rcv /\ d.rcv = dev.rcv + 1
    <3>1. Len(s.data) = 1 /\ s.data[1].n = dev.rcv BY <1>1, <2>2, <2>9, LineTaken
    <3> QED BY <2>5, <2>6, <3>1
  <2>10. ASSUME "newdata" \notin ev PROVE d.rcv = dev.rcv
    <3>1. Len(<<>>) = 0 OBVIOUS
    <3>2. d.rcv = 1 + 0 BY <2>2, <2>5, <2>6, <2>7, <2>10, <3>1
    <3> QED BY <2>7, <3>2
  <2>11. StartsAt(ps, ev) = "read" BY <2>2 DEF StartsAt
  <2> QED BY <1>2, <2>1, <2>2, <2>5, <2>6, <2>8, <2>9, <2>10, <2>11, AnsweringTurns
<1> QED BY <1>3, <1>4

(* In ESTABLISHED the clock has taken all the lines it has answered, and no more. *)
LEMMA EstablishedLines ==
  ASSUME Ready, TurnInv, dev.state = "ESTABLISHED", Plain, dev.conn = app.conn
  PROVE  /\ ps.rest = <<>> /\ ~ps.dirty /\ dev.rcv = Len(answered) + 1
         /\ \A i \in 1 .. Len(answered) : answered[i] = i
BY DEF TurnInv, Turns, AnswersLines, On, Lives

LEMMA InEstablishedTurns ==
  ASSUME Ready, EndsInv', NetTypes', TurnInv, NEW s, Taken(s), InEstablished(s)
  PROVE  TurnInv'
<1>1. dev.state = "ESTABLISHED" /\ ~OutOfSequence(s) /\ Mine(s) /\ s.kind = "seg"
  BY DEF InEstablished, Expected
<1>2. CASE Events(s) = {} BY <1>1, <1>2, IdleTurns DEF InEstablished
<1>3. CASE Events(s) # {}
  <2> DEFINE d == Took(Acked(s), Len(s.data))
             ev == Events(s)
  <2>1. CallAndSend(d, ev, s.data) BY <1>3 DEF InEstablished
  <2>2. dev \in Devs /\ s \in Requests /\ s.data \in Seq(ALine) BY DEF Ready, DevSide, Taken, Requests
  <2>3. /\ Acked(s) \in Devs /\ Acked(s).state = "ESTABLISHED" /\ Acked(s).rcv = dev.rcv
        /\ Acked(s).conn = dev.conn
    BY <1>1, <2>2, AckedType
  <2>4. Len(s.data) \in Nat /\ dev.rcv \in Nat BY <2>2, DevFields
  <2>5. d \in Devs /\ d.state = "ESTABLISHED" /\ d.rcv = dev.rcv + Len(s.data) /\ d.conn = dev.conn
    BY <2>3, <2>4, TookType
  <2>6. ("newdata" \in ev <=> s.data # <<>>) /\ ("acked" \in ev <=> Acks(s)) BY DEF Events
  <2> HIDE DEF d, ev
  <2>7. ASSUME Plain, dev.conn = app.conn, "newdata" \in ev
        PROVE  /\ Len(s.data) = 1 /\ s.data[1].n = dev.rcv /\ d.rcv = dev.rcv + 1
               /\ StartsAt(ps, ev) = "read" \/ "acked" \in ev
    <3>1. Lives(dev) BY <1>1 DEF Lives
    <3>2. /\ Len(s.data) = 1 /\ s.data[1].n = dev.rcv
          /\ dev.rcv <= s.ack /\ s.ack <= dev.snd + dev.len
      BY <1>1, <2>6, <2>7, <3>1, LineTaken
    <3>3. PICK a \in Nat, l \in Nat, sn \in Nat, k \in Nat :
            a = Len(answered) /\ l = dev.len /\ sn = dev.snd /\ k = s.ack
      <4>1. Len(answered) \in Nat BY DEF Ready, DevSide
      <4>2. s.ack \in Nat BY <2>2 DEF Requests
      <4> QED BY <2>2, <4>1, <4>2, DevFields
    <3>4. dev.rcv = a + 1 BY <1>1, <2>7, <3>3, EstablishedLines
    <3>5. DevNumbers BY <1>1, MineIsOpened
    <3>6. sn + l = a + 1
      <4>1. NumberOf \in Nat /\ NumberOf = Len(answered) BY <1>1, <3>1, <3>5 DEF DevNumbers
      <4>2. sn + l - 1 = a BY <1>1, <3>3, <4>1 DEF NumberOf, FinSent
      <4> QED BY <4>2
    <3>7. k = sn + l BY <3>2, <3>3, <3>4, <3>6
    <3>8. l > 0 => Acks(s) BY <3>3, <3>7 DEF Acks, Outstanding
    <3>9. ps.at # "read" => l = 1 BY <1>1, <3>3, <3>5 DEF DevNumbers
    <3>10. ps.at = "read" \/ "acked" \in ev BY <2>6, <3>8, <3>9
    <3>11. d.rcv = dev.rcv + 1 BY <2>5, <3>2
    <3> QED BY <3>2, <3>10, <3>11 DEF StartsAt
  <2>8. ASSUME "newdata" \notin ev PROVE d.rcv = dev.rcv
    <3>1. Len(<<>>) = 0 OBVIOUS
    <3>2. d.rcv = dev.rcv + 0 BY <2>5, <2>6, <2>8, <3>1
    <3> QED BY <2>4, <3>2
  <2> QED BY <1>1, <2>1, <2>2, <2>5, <2>7, <2>8, EstablishedLines, AnsweringTurns
<1> QED BY <1>2, <1>3

LEMMA PollTurns ==
  ASSUME Ready, EndsInv', NetTypes', TurnInv, Poll
  PROVE  TurnInv'
<1>1. dev.state = "ESTABLISHED" /\ CallAndSend(dev, {}, <<>>) BY DEF Poll
<1>2. dev \in Devs /\ <<>> \in Seq(ALine) /\ "newdata" \notin {} BY EmptySeq DEF Ready, DevSide
<1> QED BY <1>1, <1>2, EstablishedLines, AnsweringTurns

LEMMA RetransmitTurns ==
  ASSUME Ready, EndsInv', NetTypes', TurnInv, Retransmit
  PROVE  TurnInv'
<1>1. /\ dev.state \notin {"CLOSED", "TIME_WAIT", "FIN_WAIT_2"} /\ dev.len > 0 /\ dev' = Counted
  BY DEF Retransmit, Outstanding
<1>2. dev \in Devs /\ dev.conn \in Conns /\ dev.rcv \in Nat /\ dev.len \in Nat /\ dev' \in Devs
  BY <1>1, DevFields DEF Ready, DevSide
<1>3. dev'.state = dev.state /\ dev'.conn = dev.conn /\ dev'.rcv = dev.rcv
  BY <1>1, <1>2 DEF Counted, Devs
<1>4. dev.rcv <= dev'.rcv BY <1>2, <1>3
<1>5. CASE dev.state # "ESTABLISHED"
  <2>1. NotCalled /\ (Reply(SynAck(dev)) \/ Reply(FinAck(dev))) BY <1>5 DEF Retransmit
  <2>2. dev.conn = dev'.conn /\ dev'.state # "CLOSED" BY <1>1, <1>3
  <2>3. SaysWord BY <1>2, <2>1, <2>2, AckSays
  <2> QED BY <1>3, <1>4, <1>5, <2>1, <2>3, StayTurns DEF NotCalled
<1>6. CASE dev.state = "ESTABLISHED"
  <2>1. PICK o \in AppCall(ps, {"rexmit"}, <<>>) :
          Called(o) /\ (IF o.sends THEN Reply(Answer(Counted, o.ps)) ELSE Silent)
    BY <1>6 DEF Retransmit
  <2>2. ps.at # "read"
    <3>1. DevNumbers BY <1>1, MineIsOpened
    <3> QED BY <1>1, <1>2, <1>6, <3>1 DEF DevNumbers
  <2>3. StartsAt(ps, {"rexmit"}) # "read" /\ "acked" \notin {"rexmit"} BY <2>2 DEF StartsAt
  <2>4. ps \in Psocks /\ answered \in Seq(Nat) BY DEF Ready, DevSide
  <2>5. o.ps = ps /\ o.says = <<>> BY <2>1, <2>3, <2>4, CallShape
  <2>6. answered' = answered /\ ps' = ps
    <3>1. answered \o <<>> = answered BY <2>4
    <3> QED BY <2>1, <2>5, <3>1 DEF Called
  <2>7. PICK e \in Devs : e = dev' BY <1>2
  <2>8. SaysWord
    <3>1. CASE Silent BY <1>2, <3>1, SilentSays
    <3>2. CASE Reply(Answer(Counted, o.ps))
      <4>1. PICK r : r = Answer(e, ps) OBVIOUS
      <4>2. Reply(r) BY <1>1, <2>5, <2>7, <3>2, <4>1
      <4>3. r.conn = e.conn /\ r.ack = e.rcv BY <4>1 DEF Answer, Segment
      <4>4. r \in Replies BY <1>2, <1>3, <2>4, <2>7, <4>1, AnswerIsReply
      <4>5. dev'.state # "CLOSED" BY <1>1, <1>3
      <4> QED BY <2>7, <4>2, <4>3, <4>4, <4>5 DEF SaysWord, Word, Says, Reply
    <3> QED BY <2>1, <3>1, <3>2
  <2> QED BY <1>3, <1>4, <1>6, <2>6, <2>8, StayTurns
<1> QED BY <1>5, <1>6

LEMMA TimerTurns ==
  ASSUME Ready, EndsInv', NetTypes', TurnInv, Retransmit \/ GiveUp \/ Poll \/ WaitEnds \/ StackInit
  PROVE  TurnInv'
<1>1. ASSUME GiveUp PROVE TurnInv' BY <1>1, OverTurns DEF GiveUp, CallOnly
<1>2. ASSUME WaitEnds \/ StackInit PROVE TurnInv' BY <1>2, OverTurns DEF WaitEnds, StackInit
<1> QED BY <1>1, <1>2, RetransmitTurns, PollTurns

LEMMA DevReceiveTurns ==
  ASSUME Ready, EndsInv', NetTypes', TurnInv, DevReceive
  PROVE  TurnInv'
<1>1. PICK s : Taken(s) /\ (\/ Accept(s) \/ Refuse(s) \/ ResetIn(s) \/ Repeated(s)
                            \/ InSynRcvd(s) \/ InEstablished(s) \/ FinIn(s) \/ InLastAck(s)
                            \/ InFinWait(s) \/ InClosing(s) \/ InTimeWait(s))
  <2>1. Head(toDev) \in Segs(toDev) /\ Head(toDev) \in Requests
    BY SegsOfTail, SegsTypes DEF DevReceive, Ready, NetTypes
  <2> QED BY <2>1 DEF DevReceive, Taken
<1>2. ASSUME ResetIn(s) PROVE TurnInv' BY <1>2, OverTurns DEF ResetIn, Mine, CallOnly
<1> QED BY <1>1, <1>2, AcceptTurns, RefuseTurns, RepeatedTurns, InSynRcvdTurns, InEstablishedTurns,
           FinInTurns, InLastAckTurns, InFinWaitTurns, InClosingTurns

-----------------------------------------------------------------------------
(* The socket of the client's connection is one it has not closed. *)
Held == app.conn # 0 => Mate.state \notin {"fin", "wait"}

LEMMA HeldSet ==
  ASSUME HostSide, HostSide', Held, NEW c \in Conns, NEW g, SetHost(c, g), app'.conn = app.conn,
         c = app.conn /\ host[c].state \notin {"fin", "wait"} => g.state \notin {"fin", "wait"}
  PROVE  Held'
<1> SUFFICES ASSUME app.conn # 0 PROVE host'[app.conn].state \notin {"fin", "wait"}
  BY DEF Held, Mate
<1>1. app.conn \in Conns /\ host[app.conn].state \notin {"fin", "wait"}
  BY MateType DEF Held, Mate
<1>2. host'[c] = g /\ \A d \in Conns : d # c => host'[d] = host[d] BY DEF HostSide, SetHost
<1> QED BY <1>1, <1>2

LEMMA NextHeld == IInv /\ IInv' /\ Held /\ [Next]_vars => Held'
<1> SUFFICES ASSUME IInv, IInv', Held, [Next]_vars PROVE Held'
  OBVIOUS
<1>1. HostSide /\ HostSide' /\ NetTypes BY DEF IInv
<1>2. ASSUME host' = host, app' = app PROVE Held' BY <1>2 DEF Held, Mate
<1>3. ASSUME app'.conn = 0 PROVE Held' BY <1>3 DEF Held
<1>4. CASE (DevReceive \/ Retransmit \/ GiveUp \/ Poll \/ WaitEnds \/ StackInit) /\ HostSteps
  BY <1>2, <1>4 DEF HostSteps
<1>5. CASE Lose \/ UNCHANGED vars BY <1>2, <1>5 DEF Lose, vars
<1>6. CASE HostCrash \/ CloseConnection \/ Reconnect
  BY <1>3, <1>6 DEF HostCrash, CloseConnection, Reconnect, Close, Idle
<1>7. CASE HostReceive
  <2>1. PICK s \in Replies : \E g :
          /\ SetHost(s.conn, g) /\ app' = app
          /\ \/ g.state \in {"reset", "none", "est"} \/ g.state = host[s.conn].state
             \/ g = AfterClose(AfterData(AfterAck(host[s.conn], s), s))
    <3>1. Head(toHost) \in Replies
      <4>1. Head(toHost) \in Segs(toHost) BY <1>1, <1>7, SegsOfTail DEF HostReceive, NetTypes
      <4> QED BY <1>1, <4>1, SegsTypes
    <3>2. PICK s \in Replies : s = Head(toHost) BY <3>1
    <3>3. PICK h \in Sockets : h = host[s.conn] BY <1>1, <3>2 DEF HostSide, Replies
    <3>4. \A k \in HostStates : [NoSocket EXCEPT !.state = k].state = k BY DEF NoSocket
    <3>5. NoSocket.state = "none" BY DEF NoSocket
    <3>6. /\ [h EXCEPT !.state = "est", !.una = 1, !.rcv = 1, !.due = TRUE].state = "est"
          /\ [h EXCEPT !.due = TRUE].state = h.state
      BY DEF Sockets, SocketTypes
    <3>7. app' = app BY <1>7 DEF HostReceive
    <3>8. \/ host' = host
          \/ \E g : /\ SetHost(s.conn, g)
                    /\ \/ g.state \in {"reset", "none", "est"} \/ g.state = h.state
                       \/ g = AfterClose(AfterData(AfterAck(h, s), s))
      BY <1>7, <3>2, <3>3, <3>4, <3>5, <3>6 DEF HostReceive, HostStates
    <3>9. host' = host => SetHost(s.conn, host[s.conn])
      BY <1>1 DEF SetHost, HostSide
    <3> QED BY <3>3, <3>7, <3>8, <3>9
  <2>2. s.conn \in Conns BY DEF Replies
  <2>5. PICK g :
          /\ SetHost(s.conn, g) /\ app' = app
          /\ \/ g.state \in {"reset", "none", "est"} \/ g.state = host[s.conn].state
             \/ g = AfterClose(AfterData(AfterAck(host[s.conn], s), s))
    BY <2>1
  <2>3. PICK h \in Sockets : h = host[s.conn] BY <1>1, <2>2 DEF HostSide
  <2>4. ASSUME h.state \notin {"fin", "wait"} PROVE g.state \notin {"fin", "wait"}
    <3>1. CASE g = AfterClose(AfterData(AfterAck(h, s), s))
      <4>1. AfterAck(h, s) \in Sockets /\ AfterAck(h, s).state = h.state
        BY AfterAckType DEF AfterAck, Sockets, SocketTypes
      <4>2. PICK a \in Sockets : a = AfterAck(h, s) /\ a.state = h.state BY <4>1
      <4>3. AfterData(a, s).state = a.state BY DEF AfterData, Sockets, SocketTypes
      <4>4. PICK b : b = AfterData(a, s) /\ b.state = h.state BY <4>2, <4>3
      <4>5. AfterClose(b) = b BY <2>4, <4>4 DEF AfterClose
      <4>6. g = b BY <2>3, <3>1, <4>2, <4>4, <4>5
      <4> QED BY <2>4, <4>4, <4>6
    <3> QED BY <2>3, <2>4, <2>5, <3>1
  <2> QED BY <1>1, <2>2, <2>3, <2>4, <2>5, HeldSet
<1>8. CASE \E c \in Conns : Transmit(c) \/ Resend(c) \/ HostAck(c) \/ HostForgets(c)
  <2>1. PICK c \in Conns : Transmit(c) \/ Resend(c) \/ HostAck(c) \/ HostForgets(c) BY <1>8
  <2>2. PICK h \in SocketTypes : h = host[c] BY <1>1 DEF HostSide, Sockets
  <2>3. /\ [h EXCEPT !.flying = Len(h.unacked), !.due = FALSE].state = h.state
        /\ [h EXCEPT !.due = FALSE].state = h.state /\ NoSocket.state = "none"
    BY DEF SocketTypes, NoSocket
  <2>4. app' = app /\ \E g : SetHost(c, g) /\ g.state \in {h.state, "none"}
    BY <2>1, <2>2, <2>3 DEF Transmit, Resend, HostAck, HostForgets
  <2> QED BY <1>1, <2>2, <2>4, HeldSet
<1>9. CASE Open
  <2>1. PICK c \in Conns : c = app.opened + 1 /\ app' = [Idle EXCEPT !.conn = c, !.opened = c]
                           /\ SetHost(c, [NoSocket EXCEPT !.state = "syn"])
    BY <1>9 DEF Open
  <2>2. app'.conn = c /\ [NoSocket EXCEPT !.state = "syn"].state = "syn" BY <2>1 DEF Idle, NoSocket
  <2>3. host'[c].state = "syn" BY <1>1, <2>1, <2>2 DEF SetHost, HostSide
  <2> QED BY <2>2, <2>3 DEF Held, Mate
<1>10. CASE TelnetCmd \/ PlayFrame \/ Quit \/ WaitFor
  <2>1. app.conn # 0 BY <1>10 DEF TelnetCmd, PlayFrame, Quit, Tell, WaitFor
  <2>2. app.conn \in Conns BY <1>1, <2>1, MateType
  <2>3. PICK h \in SocketTypes : h = host[app.conn] BY <1>1, <2>2 DEF HostSide, Sockets
  <2>4. Sock = h BY <2>1, <2>3 DEF Sock
  <2>5. \A q : [h EXCEPT !.unacked = q].state = h.state /\ [h EXCEPT !.inbox = q].state = h.state
    BY DEF SocketTypes
  <2>6. app'.conn = app.conn /\ \E g : SetHost(app.conn, g) /\ g.state = h.state
    <3>1. ASSUME NEW lines, Tell(lines)
          PROVE  app'.conn = app.conn /\ \E g : SetHost(app.conn, g) /\ g.state = h.state
      <4>1. app'.conn = app.conn BY <1>1, <3>1 DEF Tell, HostSide, Clients
      <4>2. SetHost(app.conn, [h EXCEPT !.unacked = @ \o lines]) BY <2>4, <3>1 DEF Tell
      <4> QED BY <2>5, <4>1, <4>2
    <3>2. ASSUME WaitFor
          PROVE  app'.conn = app.conn /\ \E g : SetHost(app.conn, g) /\ g.state = h.state
      <4>1. app'.conn = app.conn BY <1>1, <3>2 DEF WaitFor, HostSide, Clients
      <4>2. SetHost(app.conn, [h EXCEPT !.inbox = Tail(@)]) BY <2>4, <3>2 DEF WaitFor
      <4> QED BY <2>5, <4>1, <4>2
    <3> QED BY <1>10, <3>1, <3>2 DEF TelnetCmd, PlayFrame, Quit
  <2> QED BY <1>1, <2>2, <2>3, <2>6, HeldSet
<1> QED BY <1>4, <1>5, <1>6, <1>7, <1>8, <1>9, <1>10 DEF Next

-----------------------------------------------------------------------------
LEMMA InitTurnInv == Init => TurnInv /\ Held
BY DEF Init, HostInit, Idle, TurnInv, Opening, Turns, Plain, Held

LEMMA NextTurnInv ==
  IInv /\ IInv' /\ EndsInv /\ EndsInv' /\ TurnInv /\ [Next]_vars => TurnInv'
<1> SUFFICES ASSUME IInv, IInv', EndsInv, EndsInv', TurnInv, [Next]_vars PROVE TurnInv'
  OBVIOUS
<1>1. NetTypes /\ NetTypes' /\ HostSide /\ HostSide' /\ DevSide /\ DevSide' BY DEF IInv
<1>2. CASE DevReceive /\ HostSteps
  <2>1. Takes BY <1>2 DEF DevReceive, Takes
  <2> QED BY <1>1, <1>2, <2>1, DevReceiveTurns DEF Ready, ClockSteps
<1>3. CASE (Retransmit \/ GiveUp \/ Poll \/ WaitEnds \/ StackInit) /\ HostSteps
  <2>1. Takes BY <1>3 DEF Retransmit, GiveUp, Poll, WaitEnds, StackInit, Takes
  <2> QED BY <1>1, <1>3, <2>1, TimerTurns DEF Ready, ClockSteps
<1>4. CASE HostReceive BY <1>1, <1>4, ReceiveTurns
<1>5. CASE \E c \in Conns : Transmit(c) \/ Resend(c) \/ HostAck(c) \/ HostForgets(c)
  BY <1>1, <1>5, KernelTurns
<1>6. CASE \/ Lose \/ HostCrash \/ Open \/ TelnetCmd \/ PlayFrame \/ Quit \/ WaitFor
           \/ CloseConnection \/ Reconnect
  BY <1>1, <1>6, ClientTurns
<1>7. CASE UNCHANGED vars
  <2>1. UNCHANGED <<host, app, devVars>> /\ toDev' = toDev /\ toHost' = toHost BY <1>7 DEF vars, devVars
  <2>2. Mate' = Mate /\ (Plain' <=> Plain) BY <2>1 DEF Mate, Plain
  <2>3. Opening' BY <2>1, <2>2 DEF TurnInv, Opening
  <2>4. Turns'
    BY <2>1, <2>2 DEF TurnInv, Turns, InTurn, Told, On, AnswersLines, devVars
  <2> QED BY <2>3, <2>4 DEF TurnInv
<1> QED BY <1>2, <1>3, <1>4, <1>5, <1>6, <1>7 DEF Next

(* As long as no picture was sent on its connection, the client and the clock take turns:
   there is one line under way, or its answer, and every segment that is still on its way,
   the repeated ones included, holds one line or the answer to the line whose number it
   bears. *)
THEOREM TurnInvariant == Spec => [](TurnInv /\ Held)
<1>1. Init => TurnInv /\ Held BY InitTurnInv
<1>2. IInv /\ IInv' /\ EndsInv /\ EndsInv' /\ TurnInv /\ Held /\ [Next]_vars => (TurnInv /\ Held)'
  BY NextTurnInv, NextHeld
<1> QED BY <1>1, <1>2, StreamInvariant, EndsInvariant, PTL DEF Spec

LEMMA AnswerFits ==
  IInv /\ EndsInv /\ TurnInv /\ Held /\ [Next]_vars => [WaitFor /\ ~app.drew => Head(Sock.inbox) = app.asked]_vars
<1> SUFFICES ASSUME IInv, EndsInv, TurnInv, Held, WaitFor, ~app.drew PROVE Head(Sock.inbox) = app.asked
  OBVIOUS
<1>1. app.conn # 0 /\ app.asked # 0 /\ Sock = Mate /\ Mate.inbox # <<>> BY DEF WaitFor, Sock, Mate
<1>2. app.conn \in Conns /\ Mate \in Sockets BY <1>1, MateType DEF IInv
<1>3. Mate.state = "est"
  <2>1. Known(Mate)
    <3> SUFFICES ASSUME ~Known(Mate) PROVE FALSE
      OBVIOUS
    <3>1. Mate = [NoSocket EXCEPT !.state = Mate.state] BY <1>2 DEF EndsInv, Unused, Mate
    <3>2. Mate.inbox = <<>> BY <3>1 DEF NoSocket
    <3> QED BY <1>1, <3>2
  <2> QED BY <1>1, <2>1 DEF Held, Known
<1>4. InTurn(Mate) BY <1>1, <1>3 DEF TurnInv, Turns, Plain
<1>5. Mate.inbox = <<app.asked>> BY <1>1, <1>4 DEF InTurn
<1>6. Head(<<app.asked>>) = app.asked OBVIOUS
<1> QED BY <1>1, <1>5, <1>6

(* However segments are lost, delayed and repeated, and however often the client gives a
   command up and connects anew: as long as no picture was sent on the connection, the
   answer waitfor() returns is the one to the line telnetCmd() has just printed, and not
   one that is left of an earlier line. *)
THEOREM AnswersFitTheQuestions == Spec => AnswerIsToTheQuestion
<1>1. IInv /\ EndsInv /\ TurnInv /\ Held /\ [Next]_vars
        => [WaitFor /\ ~app.drew => Head(Sock.inbox) = app.asked]_vars
  BY AnswerFits
<1> QED BY <1>1, StreamInvariant, EndsInvariant, TurnInvariant, PTL DEF Spec, AnswerIsToTheQuestion
=============================================================================
