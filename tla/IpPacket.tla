------------------------------ MODULE IpPacket ------------------------------
(***************************************************************************)
(* The arithmetic of uip.c and what uip_process() asks of an IP packet.    *)
(* Words have 16 bits and are in network order, except in EchoChksum(),    *)
(* which adds to the checksum as the processor reads it, low byte first.   *)
(***************************************************************************)
EXTENDS Integers, Sequences

Bytes == 0 .. 255
LastWord == 65535
Words == 0 .. LastWord

HighByte(w) == w \div 256
LowByte(w)  == w % 256
Htons(w)    == LowByte(w) * 256 + HighByte(w)

----------------------------------------------------------------------------
\* uip_add32(): a 16-bit number added to four bytes, most significant first.  A
\* byte has overflowed when it is less than what was added to it.
Inc(b) == (b + 1) % 256

CarryInto1(op, carry) ==            \* ++acc[1], and ++acc[0] if that overflows
  IF carry THEN << IF Inc(op[2]) = 0 THEN Inc(op[1]) ELSE op[1], Inc(op[2]) >>
           ELSE << op[1], op[2] >>

BadAdd32(op, n) ==                  \* a carry from the lowest byte goes one byte up only
  LET b3 == (op[4] + LowByte(n)) % 256
      b2 == (op[3] + HighByte(n)) % 256
  IN  CarryInto1(op, b2 < HighByte(n)) \o << IF b3 < LowByte(n) THEN Inc(b2) ELSE b2, b3 >>

Add32(op, n) ==
  LET b3   == (op[4] + LowByte(n)) % 256
      b2   == (op[3] + HighByte(n)) % 256
      top  == CarryInto1(op, b2 < HighByte(n))
      low  == b3 < LowByte(n)
      next == IF low THEN Inc(b2) ELSE b2
  IN  CarryInto1(top, low /\ next = 0) \o << next, b3 >>

\* The halves of such a number: TLC's own numbers have 32 bits.
Upper(op) == op[1] * 256 + op[2]
Lower(op) == op[3] * 256 + op[4]

----------------------------------------------------------------------------
\* One step of chksum(): the carry is added back in.
AddWord(sum, t) ==
  LET s == (sum + t) % 65536
  IN  IF s < t THEN (s + 1) % 65536 ELSE s

\* chksum(), with an odd last byte in the upper half of its word.
BadWordsOf(data) ==                 \* without the odd byte
  [i \in 1 .. Len(data) \div 2 |-> data[2 * i - 1] * 256 + data[2 * i]]

WordsOf(data) ==
  [i \in 1 .. (Len(data) + 1) \div 2 |->
     data[2 * i - 1] * 256 + (IF 2 * i <= Len(data) THEN data[2 * i] ELSE 0)]

\* The loop: what the sum is after n words.
RunningSum(sum, ws) ==
  LET s[n \in 0 .. Len(ws)] == IF n = 0 THEN sum ELSE AddWord(s[n - 1], ws[n]) IN s

Chksum(sum, data) == RunningSum(sum, WordsOf(data))[Len(WordsOf(data))]

\* uip_ipchksum(), uip_tcpchksum(): what they return for a sum.  The tests of
\* uip_process() want 0xffff.
Returned(sum) == IF sum = 0 THEN 65535 ELSE Htons(sum)
SumIsGood(sum) == Returned(sum) = 65535

\* upper_layer_chksum(): the sum of a segment begins with its length and protocol,
\* the addresses come before its bytes.
UpperLayerSum(proto, addresses, data) ==
  Chksum(Chksum((Len(data) + proto) % 65536, addresses), data)

\* uip_tcpchksum()
TcpSum(addresses, data) == UpperLayerSum(6, addresses, data)

BadEchoChksum(chksum) == (chksum + Htons(8 * 256)) % 65536

\* The answer to an ICMP echo: its type goes from 8 to 0, so 8 is added to the checksum.
EchoChksum(chksum) ==
  IF chksum >= Htons(65535 - 8 * 256)
  THEN (chksum + Htons(8 * 256) + 1) % 65536
  ELSE (chksum + Htons(8 * 256)) % 65536

\* An ICMP echo as words: type and code, checksum, the rest; and the answer to it.
Echo(code, chksum, rest) == << 8 * 256 + code, chksum >> \o rest
EchoReply(echo) ==
  << LowByte(echo[1]), Htons(EchoChksum(Htons(echo[2]))) >> \o SubSeq(echo, 3, Len(echo))

----------------------------------------------------------------------------
\* uip_process() with a packet: what becomes of it.  The checks need no order:
\* the packet that fails one is dropped without a trace.
Packet(hosts) ==
  [src : hosts, mine : BOOLEAN, whole : BOOLEAN, plain : BOOLEAN, sum : Words,
   proto : {"tcp", "icmp", "other"}, echo : BOOLEAN]

Believed(p) ==
  /\ p.plain                    \* vhl = 0x45 and not a fragment
  /\ p.whole                    \* as long as its header says, or padded
  /\ p.mine                     \* to the clock's own address
  /\ SumIsGood(p.sum)

IpInput(p) ==
  IF ~Believed(p) THEN "drop"
  ELSE IF p.proto = "tcp" THEN "tcp"
  ELSE IF p.proto = "icmp" /\ p.echo THEN "echo"
  ELSE "drop"
=============================================================================
