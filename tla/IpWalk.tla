------------------------------- MODULE IpWalk -------------------------------
(***************************************************************************)
(* The arithmetic of uip.c at work: a sequence number that grows, a packet *)
(* that may be damaged on its way, a ping that is answered.  The three are *)
(* independent; a behaviour is about one of them.                          *)
(***************************************************************************)
EXTENDS IpPacket

VARIABLES
  seq,      \* rcv_nxt: four bytes, most significant first
  total,    \* auxiliary: the same number as two words
  packet,   \* a checksum and three bytes of data
  intact,   \* auxiliary: whether the packet is as it was sent
  ping      \* the words of an ICMP message on its way

ipVars == <<seq, total, packet, intact, ping>>

\* Bytes and words at which something overflows, or nearly does.
EdgeBytes == {0, 1, 127, 128, 254, 255}
EdgeWords == {0, 1, 255, 256, 2047, 2048, 32768, 63487, 63488, 65279, 65534, 65535}

\* The addresses of a packet, which carry as well.
Addresses == <<192, 168, 255, 254, 192, 168, 1, 3>>

\* What other hosts send (external): a checksum that makes the sum 0xffff.
Sealed(data) ==
  LET sum == 65535 - TcpSum(Addresses, <<0, 0>> \o data)
  IN  << HighByte(sum), LowByte(sum) >> \o data
SumOf(ws) == RunningSum(0, ws)[Len(ws)]
Asked(code, rest) == Echo(code, 65535 - SumOf(Echo(code, 0, rest)), rest)

Nothing == <<0, 0, 0, 0>>
NoData  == Sealed(<<0, 0, 0>>)

IpInit ==
  /\ intact = TRUE
  /\ \/ seq \in [1 .. 4 -> EdgeBytes] /\ packet = NoData /\ ping = <<>>
     \/ seq = Nothing /\ packet \in {Sealed(d) : d \in [1 .. 3 -> EdgeBytes]} /\ ping = <<>>
     \/ seq = Nothing /\ packet = NoData
        /\ ping \in {Asked(c, r) : c \in {0, 1}, r \in [1 .. 2 -> EdgeWords]}
  /\ total = << Upper(seq), Lower(seq) >>

\* uip_add_rcv_nxt()
Grow(n) ==
  /\ seq' = Add32(seq, n)
  /\ total' = << (total[1] + ((total[2] + n) \div 65536)) % 65536, (total[2] + n) % 65536 >>
  /\ UNCHANGED <<packet, intact, ping>>

Damage(i, x) ==
  /\ intact /\ x # packet[i]
  /\ packet' = [packet EXCEPT ![i] = x]
  /\ intact' = FALSE
  /\ UNCHANGED <<seq, total, ping>>

Answer ==
  /\ ping # <<>> /\ HighByte(ping[1]) = 8
  /\ ping' = EchoReply(ping)
  /\ UNCHANGED <<seq, total, packet, intact>>

\* Bound: a number grows from one of the edges only.
IpNext ==
  \/ packet = NoData /\ ping = <<>> /\ seq \in [1 .. 4 -> EdgeBytes] /\ \E n \in EdgeWords : Grow(n)
  \/ seq = Nothing /\ ping = <<>> /\ \E i \in 1 .. 5, x \in EdgeBytes : Damage(i, x)
  \/ Answer

IpSpec == IpInit /\ [][IpNext]_ipVars

----------------------------------------------------------------------------
\* A sequence number grows as a number of 32 bits does, through every carry.
NumbersAddUp == << Upper(seq), Lower(seq) >> = total

\* A packet in which one byte was changed is not taken for a good one, be it the
\* last of an odd number; one that was not is.
DamageIsFound == SumIsGood(TcpSum(Addresses, packet)) <=> intact

\* The answer to a ping is one that its sender believes.  The one exception is an
\* echo without any content: the limit in the code is one too low, so that the
\* answer's checksum becomes 0 where it should be 0xffff.
EchoIsBelieved == ping # <<>> => SumOf(ping) = 65535 \/ \A i \in DOMAIN ping : ping[i] = 0

\* What uip.c computes byte by byte, with its carries written out, is arithmetic.
ArithmeticHolds == NumbersAddUp /\ DamageIsFound /\ EchoIsBelieved
=============================================================================
