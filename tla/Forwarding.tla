----------------------------- MODULE Forwarding -----------------------------
(***************************************************************************)
(* uIP's forwarding between network interfaces, uip-fw.c, with the output  *)
(* of a large segment in two halves, uip-split.c.  What was sent lately is *)
(* kept in a small cache, so that a packet that comes back is not sent on  *)
(* again.  The clock's program has one interface and never calls this part *)
(* of the library.                                                         *)
(*                                                                         *)
(* A packet's header is its key - the fields the cache compares -, its TTL *)
(* and its checksum; "rest" stands for the sum of its other words.         *)
(***************************************************************************)
EXTENDS IpPacket, FiniteSets

CONSTANTS
  FwHosts,      \* the addresses packets come from and go to
  Us,           \* uip_hostaddr
  Nets,         \* the networks interfaces may be on: sets of addresses
  Arrivals,     \* packets that come: key, TTL and checksum as the processor reads it
  OwnIds,       \* the numbers, ipid, of the node's own segments
  CacheSize,    \* FWCACHE_SIZE
  FwTime,       \* FW_TIME
  MaxSegment,   \* a maximum sized segment: UIP_BUFSIZE - UIP_LLH_LEN - UIP_TCPIP_HLEN
  MaxNetifs,    \* bound: interfaces that are registered
  MaxSent       \* bound: packets sent within FwTime

Everyone == "all"           \* 255.255.255.255
FwKeys   == [id : Nat, src : FwHosts \cup {Us}, dest : FwHosts \cup {Us, Everyone}, proto : Bytes]

ASSUME ForwardingAssumption ==
  /\ CacheSize \in Nat \ {0} /\ FwTime \in Nat \ {0} /\ MaxSegment \in Words \ {0}
  /\ {Us, Everyone} \cap FwHosts = {} /\ Nets \subseteq SUBSET FwHosts
  /\ Arrivals \subseteq [key : FwKeys, ttl : Bytes, chksum : Words] /\ OwnIds \subseteq Nat

VARIABLES
  fwcache,       \* for each entry its timer and its key
  netifs,        \* the list of interfaces, the last one registered first
  defaultnetif,  \* whether there is one
  output,        \* auxiliary: what the last call gave to interfaces
  sent           \* auxiliary: the keys of what was sent within FwTime, and their ages

fwVars == <<fwcache, netifs, defaultnetif, output, sent>>

Entries  == 1 .. CacheSize
NoRoute  == {}
Icmp     == 1
Tcp      == 6
NoKey    == [id |-> 0, src |-> Us, dest |-> Us, proto |-> 0]

FwInit ==                           \* the cache is in .bss; uip_fw_init()
  /\ fwcache = [i \in Entries |-> [timer |-> 0, key |-> NoKey]]
  /\ netifs = <<>> /\ defaultnetif = FALSE
  /\ output = <<>> /\ sent = <<>>

----------------------------------------------------------------------------
\* The header's words as the processor reads them: TTL and protocol, the rest.
TtlWord(ttl, proto) == ttl + proto * 256
Others(p) == AddWord(TtlWord(p.ttl, p.key.proto), p.rest)
HeaderIsGood(p) == AddWord(Others(p), p.chksum) = 65535
Summed(p) == [p EXCEPT !.chksum = 65535 - Others(p)]       \* ~uip_ipchksum()

\* The entry fwcache_register() writes: the first free one, else the oldest, and
\* of those the last.
BadSlot(cache) == CacheSize         \* "oldest" starts at 0, and nothing is as old

Slot(cache) ==
  LET free == {i \in Entries : cache[i].timer = 0}
      old  == {i \in Entries : \A j \in Entries : cache[i].timer <= cache[j].timer}
  IN  IF free # {} THEN CHOOSE i \in free : \A j \in free : i <= j
                   ELSE CHOOSE i \in old : \A j \in old : j <= i

Registered(cache, key) == [cache EXCEPT ![Slot(cache)] = [timer |-> FwTime, key |-> key]]

Known(key) == \E i \in Entries : fwcache[i].timer # 0 /\ fwcache[i].key = key

\* ipaddr_maskcmp()
InNet(dest, net) == dest \in net

\* find_netif(): the first interface whose network the address is in, or the default.
RouteTo(dest) ==
  LET match == SelectSeq(netifs, LAMBDA net : InNet(dest, net))
  IN  IF match # <<>> THEN Head(match) ELSE IF defaultnetif THEN FwHosts ELSE NoRoute

\* uip_fw_output() for a packet, or for the two parts of a segment one after the
\* other, with uip_len > 0: each is registered, also one no interface takes.
FwOutput(packets, how) ==
  LET key  == packets[1].key
      once == Registered(fwcache, key)
  IN  /\ Len(sent) + Len(packets) <= MaxSent
      /\ fwcache' = IF Len(packets) = 1 THEN once ELSE Registered(once, key)
      /\ output' = IF RouteTo(key.dest) # NoRoute THEN packets ELSE <<>>
      /\ sent' = sent \o [i \in DOMAIN packets |-> [key |-> key, how |-> how, age |-> 0]]

----------------------------------------------------------------------------
\* uip_fw_forward(): the TTL is one less, and the checksum one more.
BadHop(p) == [p EXCEPT !.ttl = @ - 1, !.chksum = (@ + 1) % 65536]

Repaired(chksum) ==
  IF chksum >= Htons(65535 - 256) THEN (chksum + Htons(256) + 1) % 65536
                                  ELSE (chksum + Htons(256)) % 65536

Hop(p) == [p EXCEPT !.ttl = @ - 1, !.chksum = Repaired(@)]

\* time_exceeded(), for a packet that is not ICMP itself: the answer has its number.
TimeExceeded(p) ==
  Summed([p EXCEPT !.key = [id |-> @.id, src |-> Us, dest |-> @.src, proto |-> Icmp],
                   !.ttl = 64])

Nobody == UNCHANGED <<fwcache, sent>> /\ output' = <<>>

Forward(p) ==
  /\ CASE p.key.dest = Us                     -> Nobody        \* UIP_FW_LOCAL
       [] p.key.dest # Us /\ Known(p.key)     -> Nobody        \* a packet that came back
       [] OTHER ->
            IF p.ttl > 1 THEN FwOutput(<< Hop(p) >>, "on")
            ELSE IF p.key.proto = Icmp \/ p.key.dest = Everyone THEN Nobody
            ELSE FwOutput(<< Hop(TimeExceeded(p)) >>, "own")
  /\ UNCHANGED <<netifs, defaultnetif>>

\* The packets that come have a good checksum: the rest of the header is such.
Coming(a) ==
  [key |-> a.key, ttl |-> a.ttl, chksum |-> a.chksum,
   rest |-> 65535 - AddWord(TtlWord(a.ttl, a.key.proto), a.chksum),
   seqno |-> <<0, 0, 0, 0>>, data |-> <<>>]

\* uip_split_output(): a maximum sized segment goes out as two, the second a byte
\* longer if they cannot be equal; both bear the number of the segment.
BadHalves(p) ==                     \* the second half as long as the first
  LET len1 == Len(p.data) \div 2
  IN  << [p EXCEPT !.data = SubSeq(@, 1, len1)],
         [p EXCEPT !.data = SubSeq(@, len1 + 1, 2 * len1), !.seqno = Add32(@, len1)] >>

Halves(p) ==
  LET len1 == Len(p.data) \div 2
  IN  << [p EXCEPT !.data = SubSeq(@, 1, len1)],
         [p EXCEPT !.data = SubSeq(@, len1 + 1, Len(p.data)), !.seqno = Add32(@, len1)] >>

SplitOutput(p) ==
  /\ IF Len(p.data) = MaxSegment
     THEN FwOutput([i \in 1 .. 2 |-> Summed(Halves(p)[i])], "own")
     ELSE FwOutput(<< p >>, "own")
  /\ UNCHANGED <<netifs, defaultnetif>>

\* Segments of the node itself, their sequence number before a carry.
Own ==
  { Summed([key |-> [id |-> i, src |-> Us, dest |-> d, proto |-> Tcp], ttl |-> 64,
            chksum |-> 0, rest |-> 0, seqno |-> <<0, 0, 255, 254>>,
            data |-> [n \in 1 .. l |-> n]]) :
       i \in OwnIds, d \in FwHosts, l \in {1, MaxSegment} }

FwRegister(net) ==                     \* uip_fw_register()
  /\ Len(netifs) < MaxNetifs /\ netifs' = <<net>> \o netifs
  /\ UNCHANGED <<fwcache, defaultnetif, output, sent>>

FwDefault ==                           \* uip_fw_default()
  /\ ~defaultnetif /\ defaultnetif' = TRUE
  /\ UNCHANGED <<fwcache, netifs, output, sent>>

\* uip_fw_periodic(); of what was sent, the first n have become too old to be kept.
FwPeriodic ==
  /\ fwcache' = [i \in Entries |-> [fwcache[i] EXCEPT !.timer = IF @ > 0 THEN @ - 1 ELSE 0]]
  /\ \E n \in 0 .. Len(sent) :
       /\ \A i \in DOMAIN sent : i <= n <=> sent[i].age + 1 = FwTime
       /\ sent' = [i \in 1 .. Len(sent) - n |-> [sent[i + n] EXCEPT !.age = @ + 1]]
  /\ output' = <<>>
  /\ UNCHANGED <<netifs, defaultnetif>>

FwNext ==
  \/ \E a \in Arrivals : Forward(Coming(a))
  \/ \E p \in Own : SplitOutput(p)
  \/ \E net \in Nets : FwRegister(net)
  \/ FwDefault
  \/ FwPeriodic

FwSpec == FwInit /\ [][FwNext]_fwVars

----------------------------------------------------------------------------
\* A packet is not sent on within FwTime of its last time unless CacheSize others
\* were sent in the same tick or since: the cache forgets no younger packet before
\* an older one, whatever order the entries are in and although it looks at
\* the timers only.
SentOnOnce ==
  \A i, j \in DOMAIN sent :
    i < j /\ sent[j].how = "on" /\ sent[i].key = sent[j].key =>
      Cardinality({h \in 1 .. j - 1 : h # i /\ sent[h].age <= sent[i].age}) >= CacheSize

\* Whatever leaves has a good header: the sum that Forward() repairs without adding
\* up the header again, at both ends of its range, and those of the answers.
HeadersStayGood == \A i \in DOMAIN output : HeaderIsGood(output[i])

\* The parts a segment is sent in are the segment: no byte is left out, and each
\* has the number of its first byte, with the carry.
PartsAreWhole ==
  Len(output) = 2 =>
    /\ output[1].data \o output[2].data = [n \in 1 .. MaxSegment |-> n]
    /\ output[2].seqno = Add32(output[1].seqno, Len(output[1].data))
    /\ Lower(output[2].seqno) = (Lower(output[1].seqno) + Len(output[1].data)) % 65536
    /\ output[2].seqno[2] = IF Lower(output[2].seqno) < Lower(output[1].seqno) THEN 1 ELSE 0

\* What a node on the way owes those at both ends: it sends a packet on once, repairs
\* a header rightly, and a segment it cuts in two is still that segment.
ForwardsOnceAndWhole == SentOnOnce /\ HeadersStayGood /\ PartsAreWhole
=============================================================================
