--------------------------- MODULE LibraryProofs ---------------------------
(***************************************************************************)
(* The uIP and WiShield library: its ARP table, its arithmetic, forwarding *)
(* between interfaces, the web server's requests and what it sends, for    *)
(* any values of the constants.                                            *)
(***************************************************************************)
EXTENDS IpStack, IpWalk, Forwarding, WiServer, FiniteSetTheorems, SequenceTheorems, TLAPS

\* An entry of which no age is lost in the wrapping of arptime is as old as the
\* code computes it, and younger than the maximal age.
AgesKnown ==
  \A s \in Slots : Used(s) /\ table[s].time <= TimeMod - 1 - MaxAge
                     => age[s] < MaxAge /\ arptime = table[s].time + age[s]

MacsAreHeard == \A s \in Slots : Used(s) => table[s].mac = heard[table[s].ip]

\* What each step needs of the step before.
ArpIInv == ArpTypeOK /\ OneSlotPerHost /\ MacsAreHeard /\ AgesKnown

----------------------------------------------------------------------------
\* A set of slots that is not empty has a first one.
LEMMA FirstIsMember ==
  ASSUME NEW S, S \subseteq Slots, S # {}
  PROVE  First(S) \in S
<1>1. S \subseteq Nat
  BY ArpAssumption DEF Slots
<1>2. \E s \in S : \A r \in S : ~ (<<r, s>> \in OpToRel(<, Nat))
  BY <1>1, WFMin, NatLessThanWellFounded
<1>3. PICK s \in S : \A r \in S : ~ (<<r, s>> \in OpToRel(<, Nat))
  BY <1>2
<1>4. \A r \in S : s <= r
  <2> TAKE r \in S
  <2>1. ~ (<<r, s>> \in OpToRel(<, Nat))
    BY <1>3
  <2>2. r \in Nat /\ s \in Nat
    BY <1>1
  <2>3. ~ (r < s)
    BY <2>1, <2>2 DEF OpToRel
  <2> QED
    BY <2>2, <2>3
<1> QED
  BY <1>4 DEF First

\* An answer is written to one of the slots, and to the host's own if it has one.
LEMMA SlotForHost ==
  ASSUME ArpTypeOK, OneSlotPerHost, NEW h \in Hosts
  PROVE  /\ SlotFor(h) \in Slots
         /\ \A s \in Slots : table[s].ip = h => s = SlotFor(h)
<1> DEFINE known  == {s \in Slots : table[s].ip = h}
           free   == {s \in Slots : ~Used(s)}
           oldest == {s \in Slots : AgeOf(s) > 0 /\ \A r \in Slots : AgeOf(r) <= AgeOf(s)}
<1>0. 1 \in Slots
  BY ArpAssumption DEF Slots
<1>1. CASE known # {}
  <2>1. SlotFor(h) = First(known)
    BY <1>1 DEF SlotFor
  <2>2. First(known) \in known
    BY <1>1, FirstIsMember
  <2>3. \A s \in Slots : table[s].ip = h => s = First(known)
    BY <2>2, ArpAssumption DEF OneSlotPerHost, Used
  <2> QED
    BY <2>1, <2>2, <2>3
<1>2. CASE known = {}
  <2>1. \A s \in Slots : table[s].ip # h
    BY <1>2
  <2>2. SlotFor(h) = IF free # {} THEN First(free)
                     ELSE IF oldest # {} THEN First(oldest) ELSE 1
    BY <1>2 DEF SlotFor
  <2>3. free # {} => First(free) \in Slots
    BY FirstIsMember
  <2>4. oldest # {} => First(oldest) \in Slots
    BY FirstIsMember
  <2>5. SlotFor(h) \in Slots
    BY <1>0, <2>2, <2>3, <2>4
  <2> QED
    BY <2>1, <2>5
<1> QED
  BY <1>1, <1>2

----------------------------------------------------------------------------
LEMMA ArpInitIInv == ArpInit => ArpIInv
<1> SUFFICES ASSUME ArpInit PROVE ArpIInv
  OBVIOUS
<1>1. \A s \in Slots : table[s].ip = NoHost /\ table[s].time = 0 /\ table[s].mac \in Macs
  BY DEF ArpInit
<1>2. ArpTypeOK
  <2>1. table \in [Slots -> Unused \cup Entry]
    <3>1. 0 \in 0 .. TimeMod - 1
      BY ArpAssumption
    <3>2. [ip : {NoHost}, mac : Macs, time : {0}] \subseteq Unused
      BY <3>1 DEF Unused
    <3> QED
      BY <3>2 DEF ArpInit
  <2>2. arptime \in 0 .. TimeMod - 1 /\ age \in [Slots -> 0 .. TimeMod]
    BY ArpAssumption DEF ArpInit
  <2>3. out \in Frame /\ heard \in [Hosts -> Macs]
    BY DEF ArpInit, Frame
  <2> QED
    BY <2>1, <2>2, <2>3 DEF ArpTypeOK
<1> QED
  BY <1>1, <1>2 DEF ArpIInv, OneSlotPerHost, MacsAreHeard, AgesKnown, Used

----------------------------------------------------------------------------
LEMMA UpdateKeepsIInv ==
  ASSUME ArpIInv, NEW h \in Hosts, NEW m \in Macs, Update(h, m), out' \in Frame
  PROVE  ArpIInv'
<1> DEFINE w == SlotFor(h)
<1>1. w \in Slots /\ \A s \in Slots : table[s].ip = h => s = w
  BY SlotForHost DEF ArpIInv
<1> HIDE DEF w
<1>2. /\ table' = [table EXCEPT ![w] = [ip |-> h, mac |-> m, time |-> arptime]]
      /\ age' = [age EXCEPT ![w] = 0]
      /\ heard' = [heard EXCEPT ![h] = m]
      /\ arptime' = arptime
  BY DEF Update, w
<1>3. /\ table \in [Slots -> Unused \cup Entry]
      /\ arptime \in 0 .. TimeMod - 1
      /\ heard \in [Hosts -> Macs]
      /\ age \in [Slots -> 0 .. TimeMod]
  BY DEF ArpIInv, ArpTypeOK
<1>4. table'[w] = [ip |-> h, mac |-> m, time |-> arptime] /\ age'[w] = 0
  BY <1>1, <1>2, <1>3
<1>5. \A s \in Slots : s # w => table'[s] = table[s] /\ age'[s] = age[s] /\ table[s].ip # h
  BY <1>1, <1>2, <1>3
<1>6. ArpTypeOK'
  <2>1. [ip |-> h, mac |-> m, time |-> arptime] \in Entry
    BY <1>3 DEF Entry
  <2>2. table' \in [Slots -> Unused \cup Entry]
    BY <1>2, <1>3, <2>1
  <2>3. age' \in [Slots -> 0 .. TimeMod]
    <3>1. 0 \in 0 .. TimeMod
      BY ArpAssumption
    <3> QED
      BY <1>2, <1>3, <3>1
  <2> QED
    BY <1>2, <1>3, <2>2, <2>3 DEF ArpTypeOK, Frame
<1>7. OneSlotPerHost'
  BY <1>4, <1>5 DEF ArpIInv, OneSlotPerHost, Used
<1>8. MacsAreHeard'
  <2> SUFFICES ASSUME NEW s \in Slots, table'[s].ip # NoHost
               PROVE  table'[s].mac = heard'[table'[s].ip]
    BY DEF MacsAreHeard, Used
  <2>1. CASE s = w
    BY <1>2, <1>3, <1>4, <2>1
  <2>2. CASE s # w
    <3>1. table'[s] = table[s] /\ table[s].ip # h
      BY <1>5, <2>2
    <3>2. table[s].ip \in Hosts
      BY <1>3, <3>1 DEF Unused, Entry
    <3>3. heard'[table[s].ip] = heard[table[s].ip]
      BY <1>2, <1>3, <3>1, <3>2
    <3> QED
      BY <3>1, <3>3 DEF ArpIInv, MacsAreHeard, Used
  <2> QED
    BY <2>1, <2>2
<1>9. AgesKnown'
  <2> SUFFICES ASSUME NEW s \in Slots, table'[s].ip # NoHost,
                      table'[s].time <= TimeMod - 1 - MaxAge
               PROVE  age'[s] < MaxAge /\ arptime' = table'[s].time + age'[s]
    BY DEF AgesKnown, Used
  <2>1. CASE s = w
    BY <1>2, <1>3, <1>4, <2>1, ArpAssumption
  <2>2. CASE s # w
    BY <1>2, <1>5, <2>2 DEF ArpIInv, AgesKnown, Used
  <2> QED
    BY <2>1, <2>2
<1> QED
  BY <1>6, <1>7, <1>8, <1>9 DEF ArpIInv

LEMMA ArpTimerKeepsIInv ==
  ASSUME ArpIInv, ArpTimer
  PROVE  ArpIInv'
<1>1. /\ table \in [Slots -> Unused \cup Entry]
      /\ arptime \in 0 .. TimeMod - 1
      /\ age \in [Slots -> 0 .. TimeMod]
  BY DEF ArpIInv, ArpTypeOK
<1>2. arptime' = (arptime + 1) % TimeMod /\ out' = out /\ heard' = heard
  BY DEF ArpTimer
<1>3. /\ arptime < TimeMod - 1 => arptime' = arptime + 1
      /\ arptime = TimeMod - 1 => arptime' = 0
  BY <1>1, <1>2, ArpAssumption
<1>4. arptime' \in 0 .. TimeMod - 1
  BY <1>1, <1>3, ArpAssumption
<1>5. \A s \in Slots : table[s] \in Unused \cup Entry
  BY <1>1
<1>6. \A s \in Slots :
        /\ Expired(s) => table'[s] = [table[s] EXCEPT !.ip = NoHost]
        /\ ~Expired(s) => table'[s] = table[s]
  BY DEF ArpTimer
<1>7. \A s \in Slots : table'[s].ip # NoHost => table'[s] = table[s] /\ ~Expired(s)
  BY <1>5, <1>6 DEF Unused, Entry
<1>8. ArpTypeOK'
  <2>1. \A s \in Slots : table'[s] \in Unused \cup Entry
    BY <1>5, <1>6 DEF Unused, Entry
  <2>2. table' \in [Slots -> Unused \cup Entry]
    BY <2>1 DEF ArpTimer
  <2>3. \A s \in Slots : (IF age[s] < TimeMod THEN age[s] + 1 ELSE age[s]) \in 0 .. TimeMod
    BY <1>1, ArpAssumption
  <2>4. age' \in [Slots -> 0 .. TimeMod]
    BY <2>3 DEF ArpTimer
  <2> QED
    BY <1>2, <1>4, <2>2, <2>4 DEF ArpIInv, ArpTypeOK, Frame, Unused, Entry
<1>9. OneSlotPerHost'
  BY <1>7 DEF ArpIInv, OneSlotPerHost, Used
<1>10. MacsAreHeard'
  BY <1>2, <1>7 DEF ArpIInv, MacsAreHeard, Used
<1>11. AgesKnown'
  <2> SUFFICES ASSUME NEW s \in Slots, table'[s].ip # NoHost,
                      table'[s].time <= TimeMod - 1 - MaxAge
               PROVE  age'[s] < MaxAge /\ arptime' = table'[s].time + age'[s]
    BY DEF AgesKnown, Used
  <2>1. table'[s] = table[s] /\ ~Expired(s)
    BY <1>7
  <2>2. age[s] < MaxAge /\ arptime = table[s].time + age[s]
    BY <2>1 DEF ArpIInv, AgesKnown, Used
  <2>3. arptime' - table[s].time < MaxAge
    <3>1. table[s].time \in Int
      BY <1>5 DEF Unused, Entry
    <3>2. ~ (arptime' - table[s].time >= MaxAge)
      BY <1>2, <2>1 DEF Expired, Used
    <3> QED
      BY <1>4, <3>1, <3>2, ArpAssumption
  <2>4. age[s] \in 0 .. TimeMod /\ table[s].time \in 0 .. TimeMod - 1
    BY <1>1, <1>5 DEF Unused, Entry
  <2>5. age'[s] = IF age[s] < TimeMod THEN age[s] + 1 ELSE age[s]
    BY DEF ArpTimer
  <2>6. arptime < TimeMod - 1
    BY <1>1, <2>1, <2>2, <2>4, ArpAssumption
  <2> QED
    BY <1>1, <1>3, <2>1, <2>2, <2>3, <2>4, <2>5, <2>6, ArpAssumption
<1> QED
  BY <1>8, <1>9, <1>10, <1>11 DEF ArpIInv

\* A packet that is sent, or replaced by a request, leaves the table alone.
LEMMA SendingKeepsIInv ==
  ASSUME ArpIInv, UNCHANGED <<table, arptime, heard, age>>, out' \in Frame
  PROVE  ArpIInv'
BY DEF ArpIInv, ArpTypeOK, OneSlotPerHost, MacsAreHeard, AgesKnown, Used, Unused, Entry, Frame

\* A packet goes to an address some slot holds for the next hop.
LEMMA ArpOutIsFrame ==
  ASSUME ArpIInv, NEW dest \in Hosts \cup {Elsewhere}, ArpOut(dest)
  PROVE  out' \in Frame
<1> DEFINE hop   == NextHop(dest)
           known == {s \in Slots : table[s].ip = hop}
<1>1. hop \in Hosts
  BY ArpAssumption DEF NextHop
<1>2. CASE known # {}
  <2>1. First(known) \in known
    BY <1>2, FirstIsMember
  <2>2. table[First(known)].mac \in Macs
    BY <2>1 DEF ArpIInv, ArpTypeOK, Unused, Entry
  <2>3. out' = [kind |-> "ip", hop |-> hop, mac |-> table[First(known)].mac]
    BY <1>2 DEF ArpOut
  <2> QED
    BY <1>1, <2>2, <2>3 DEF Frame
<1>3. CASE known = {}
  <2>1. out' = [kind |-> "request", hop |-> hop, mac |-> "broadcast"]
    BY <1>3 DEF ArpOut
  <2> QED
    BY <1>1, <2>1 DEF Frame
<1> QED
  BY <1>2, <1>3

LEMMA ArpNextIInv == ArpIInv /\ [ArpNext]_arpVars => ArpIInv'
<1> SUFFICES ASSUME ArpIInv, [ArpNext]_arpVars PROVE ArpIInv'
  OBVIOUS
<1>1. CASE ArpTimer
  BY <1>1, ArpTimerKeepsIInv
<1>2. CASE SelfArpOut
  <2>1. out' \in Frame
    BY <1>2 DEF SelfArpOut, Frame
  <2> QED
    BY <1>2, <2>1, SendingKeepsIInv DEF SelfArpOut
<1>3. ASSUME NEW dest \in Hosts \cup {Elsewhere}, ArpOut(dest) PROVE ArpIInv'
  <2>1. out' \in Frame
    BY <1>3, ArpOutIsFrame
  <2> QED
    BY <1>3, <2>1, SendingKeepsIInv DEF ArpOut
<1>4. ASSUME NEW h \in Hosts, NEW m \in Macs, ArpRequestIn(h, m) PROVE ArpIInv'
  <2>1. out' \in Frame
    BY <1>4 DEF ArpRequestIn, Frame
  <2> QED
    BY <1>4, <2>1, UpdateKeepsIInv DEF ArpRequestIn
<1>5. ASSUME NEW h \in Hosts, NEW m \in Macs, ArpReplyIn(h, m) PROVE ArpIInv'
  <2>1. out' \in Frame
    BY <1>5 DEF ArpReplyIn, ArpIInv, ArpTypeOK
  <2> QED
    BY <1>5, <2>1, UpdateKeepsIInv DEF ArpReplyIn
<1>6. CASE UNCHANGED arpVars
  <2>1. out' \in Frame
    BY <1>6 DEF arpVars, ArpIInv, ArpTypeOK
  <2> QED
    BY <1>6, <2>1, SendingKeepsIInv DEF arpVars
<1> QED
  BY <1>1, <1>2, <1>3, <1>4, <1>5, <1>6 DEF ArpNext

----------------------------------------------------------------------------
\* Whatever was heard, sent, evicted and aged, in any order and for any time:
\* a host has one slot, its address is the one last heard, and only an entry
\* made just before arptime wrapped outlives its age (uip_arp.c).
THEOREM ArpTableIsRight == ArpSpec => []ArpTableHolds
<1>1. ArpIInv => ArpTableHolds
  <2> SUFFICES ASSUME ArpIInv PROVE OnlyWrappingOutlives
    BY DEF ArpIInv, MacsAreHeard, ArpTableHolds, ArpInv
  <2> SUFFICES ASSUME NEW s \in Slots, Used(s), age[s] >= MaxAge
               PROVE  table[s].time > TimeMod - 1 - MaxAge
    BY DEF OnlyWrappingOutlives
  <2>1. age[s] \in 0 .. TimeMod /\ table[s].time \in 0 .. TimeMod - 1
    BY DEF ArpIInv, ArpTypeOK, Unused, Entry
  <2>2. table[s].time <= TimeMod - 1 - MaxAge => age[s] < MaxAge
    BY DEF ArpIInv, AgesKnown
  <2> QED
    BY <2>1, <2>2, ArpAssumption
<1> QED
  BY <1>1, ArpInitIInv, ArpNextIInv, PTL DEF ArpSpec

\* A packet is sent to the address its next hop was last heard at (uip_arp_out()).
THEOREM SentWhereHeard == ArpSpec => SentToLastHeard
<1>1. ArpIInv /\ [ArpNext]_arpVars
        => [out'.kind = "ip" /\ out' # out => out'.mac = heard[out'.hop]]_arpVars
  <2> SUFFICES ASSUME ArpIInv, ArpNext, out'.kind = "ip", out' # out
               PROVE  out'.mac = heard[out'.hop]
    OBVIOUS
  <2>1. PICK dest \in Hosts \cup {Elsewhere} : ArpOut(dest)
    BY DEF ArpNext, ArpTimer, SelfArpOut, ArpRequestIn, ArpReplyIn
  <2> DEFINE hop   == NextHop(dest)
             known == {s \in Slots : table[s].ip = hop}
  <2>2. known # {} /\ out' = [kind |-> "ip", hop |-> hop, mac |-> table[First(known)].mac]
    BY <2>1 DEF ArpOut
  <2>3. First(known) \in Slots /\ table[First(known)].ip = hop
    BY <2>2, FirstIsMember
  <2>4. hop # NoHost
    BY ArpAssumption DEF NextHop
  <2> QED
    BY <2>2, <2>3, <2>4 DEF ArpIInv, MacsAreHeard, Used
<1> QED
  BY <1>1, ArpInitIInv, ArpNextIInv, PTL DEF ArpSpec, SentToLastHeard

----------------------------------------------------------------------------
\* What the stack does to a frame that comes, at a tick and for a connection is, to the
\* table, one step of uip_arp.c or none (stack_process()).
THEOREM StackUsesTheTable == StackSpec => ArpSpec
<1>1. ASSUME [StackNext]_arpVars PROVE [ArpNext]_arpVars
  <2>1. ASSUME NEW peer \in Hosts \cup {Elsewhere}, Periodic(peer) PROVE ArpNext
    BY <2>1 DEF Periodic, ArpNext
  <2>2. ASSUME NEW p \in Datagrams, IpIn(p) PROVE ArpNext \/ UNCHANGED arpVars
    <3>1. p.src \in Hosts \cup {Elsewhere}
      BY DEF Datagrams
    <3>2. ArpOut(p.src) \/ UNCHANGED arpVars
      <4>1. IpInput(p) = "echo" \/ IpInput(p) = "tcp" \/ IpInput(p) = "drop"
        BY DEF IpInput
      <4> QED
        BY <2>2, <4>1 DEF IpIn
    <3> QED
      BY <3>1, <3>2 DEF ArpNext
  <2> QED
    BY <1>1, <2>1, <2>2 DEF StackNext, ArpNext
<1> QED
  BY <1>1, PTL DEF StackSpec, ArpSpec

\* So the table is right however the stack uses it.
COROLLARY StackKeepsTable == StackSpec => []ArpTableHolds
BY StackUsesTheTable, ArpTableIsRight, PTL

----------------------------------------------------------------------------
\* Words and bytes by their bounds.
LEMMA WordRange == \A w : w \in Words <=> w \in Int /\ 0 <= w /\ w <= 65535
<1>1. LastWord \in Nat
  BY DEF LastWord
<1>2. \A w : w \in Words <=> w \in Int /\ 0 <= w /\ w <= LastWord
  BY <1>1 DEF Words
<1>3. LastWord = 65535
  BY DEF LastWord
<1> QED
  BY <1>2, <1>3

LEMMA IsWord ==
  ASSUME NEW w \in Int, 0 <= w, w <= 65535
  PROVE  w \in Words
BY WordRange

LEMMA ByteRange == \A b : b \in Bytes <=> b \in Int /\ 0 <= b /\ b <= 255
BY DEF Bytes

\* ++acc[1], and ++acc[0] if that overflows: one is added to the upper half.
LEMMA CarryCarries ==
  ASSUME NEW op, op[1] \in Bytes, op[2] \in Bytes, NEW carry \in BOOLEAN,
         NEW u, u = op[1] * 256 + op[2]
  PROVE  \E a, b \in Bytes :
           /\ CarryInto1(op, carry) = <<a, b>>
           /\ a * 256 + b = IF ~carry THEN u ELSE IF u = 65535 THEN 0 ELSE u + 1
<1>1. PICK h : h = op[1] /\ h \in Int /\ 0 <= h /\ h <= 255
  BY ByteRange
<1>2. PICK l : l = op[2] /\ l \in Int /\ 0 <= l /\ l <= 255
  BY ByteRange
<1>3. u = h * 256 + l
  BY <1>1, <1>2
<1>4. Inc(255) = 0
  BY DEF Inc
<1>5. \A b \in Int : 0 <= b /\ b < 255 => Inc(b) = b + 1
  BY DEF Inc
<1>6. CASE ~carry
  <2>1. CarryInto1(op, carry) = <<h, l>>
    BY <1>1, <1>2, <1>6 DEF CarryInto1
  <2>2. h \in Bytes /\ l \in Bytes
    BY <1>1, <1>2, ByteRange
  <2> QED
    BY <1>3, <1>6, <2>1, <2>2
<1>7. CASE carry /\ l < 255
  <2>1. CarryInto1(op, carry) = <<h, l + 1>>
    <3>1. Inc(l) = l + 1 /\ Inc(l) # 0
      BY <1>2, <1>5, <1>7
    <3> QED
      BY <1>1, <1>2, <1>7, <3>1 DEF CarryInto1
  <2>2. h \in Bytes
    BY <1>1, ByteRange
  <2>3. PICK m \in Bytes : m = l + 1
    BY <1>2, <1>7, ByteRange
  <2>4. h * 256 + m = IF ~carry THEN u ELSE IF u = 65535 THEN 0 ELSE u + 1
    BY <1>1, <1>2, <1>3, <1>7, <2>3
  <2>5. CarryInto1(op, carry) = <<h, m>>
    BY <2>1, <2>3
  <2> QED
    BY <2>2, <2>4, <2>5
<1>8. CASE carry /\ l = 255 /\ h < 255
  <2>1. CarryInto1(op, carry) = <<h + 1, 0>>
    <3>1. Inc(l) = 0 /\ Inc(h) = h + 1
      BY <1>1, <1>4, <1>5, <1>8
    <3> QED
      BY <1>1, <1>2, <1>8, <3>1 DEF CarryInto1
  <2>2. PICK m \in Bytes : m = h + 1
    BY <1>1, <1>8, ByteRange
  <2>3. PICK z \in Bytes : z = 0
    BY ByteRange
  <2>4. m * 256 + z = IF ~carry THEN u ELSE IF u = 65535 THEN 0 ELSE u + 1
    BY <1>1, <1>3, <1>8, <2>2, <2>3
  <2>5. CarryInto1(op, carry) = <<m, z>>
    BY <2>1, <2>2, <2>3
  <2> QED
    BY <2>4, <2>5
<1>9. CASE carry /\ l = 255 /\ h = 255
  <2>1. CarryInto1(op, carry) = <<0, 0>>
    <3>1. Inc(l) = 0 /\ Inc(h) = 0
      BY <1>4, <1>9
    <3> QED
      BY <1>1, <1>2, <1>9, <3>1 DEF CarryInto1
  <2>2. PICK z \in Bytes : z = 0
    BY ByteRange
  <2>3. z * 256 + z = IF ~carry THEN u ELSE IF u = 65535 THEN 0 ELSE u + 1
    BY <1>3, <1>9, <2>2
  <2>4. CarryInto1(op, carry) = <<z, z>>
    BY <2>1, <2>2
  <2> QED
    BY <2>3, <2>4
<1> QED
  BY <1>1, <1>2, <1>6, <1>7, <1>8, <1>9

\* A byte has overflowed when it is less than what was added to it.
LEMMA ByteOverflow ==
  ASSUME NEW a \in Bytes, NEW b \in Bytes
  PROVE  /\ (a + b) % 256 \in Bytes
         /\ (a + b) % 256 < b <=> a + b > 255
         /\ (a + b) % 256 = IF a + b > 255 THEN a + b - 256 ELSE a + b
<1>1. a \in Int /\ 0 <= a /\ a <= 255 /\ b \in Int /\ 0 <= b /\ b <= 255
  BY ByteRange
<1>2. (a + b) % 256 = IF a + b > 255 THEN a + b - 256 ELSE a + b
  BY <1>1
<1>3. PICK c : c = (a + b) % 256
  OBVIOUS
<1>4. c = IF a + b > 255 THEN a + b - 256 ELSE a + b
  BY <1>2, <1>3
<1>5. c \in Int /\ 0 <= c /\ c <= 255 /\ (c < b <=> a + b > 255)
  BY <1>1, <1>4
<1> QED
  BY <1>2, <1>3, <1>5, ByteRange

LEMMA WordSplits ==
  ASSUME NEW n \in Words
  PROVE  HighByte(n) \in Bytes /\ LowByte(n) \in Bytes /\ n = HighByte(n) * 256 + LowByte(n)
<1>1. n \in Int /\ 0 <= n /\ n <= 65535
  BY WordRange
<1>2. PICK h : h = n \div 256
  OBVIOUS
<1>3. PICK l : l = n % 256
  OBVIOUS
<1>4. /\ h \in Int /\ 0 <= h /\ h <= 255 /\ l \in Int /\ 0 <= l /\ l <= 255
      /\ n = h * 256 + l
  BY <1>1, <1>2, <1>3
<1> QED
  BY <1>2, <1>3, <1>4, ByteRange DEF HighByte, LowByte

\* uip_add32() is addition modulo 2^32, of any word to any four bytes.
LEMMA Add32Adds ==
  ASSUME NEW op \in [1 .. 4 -> Bytes], NEW n \in Words
  PROVE  /\ Add32(op, n) \in [1 .. 4 -> Bytes]
         /\ Lower(Add32(op, n)) = (Lower(op) + n) % 65536
         /\ Upper(Add32(op, n)) = (Upper(op) + (Lower(op) + n) \div 65536) % 65536
<1> DEFINE b3   == (op[4] + LowByte(n)) % 256
           b2   == (op[3] + HighByte(n)) % 256
           over == b2 < HighByte(n)
           top  == CarryInto1(op, over)
           low  == b3 < LowByte(n)
           next == IF low THEN Inc(b2) ELSE b2
           both == low /\ next = 0
           end  == CarryInto1(top, both)
<1>1. op[1] \in Bytes /\ op[2] \in Bytes /\ op[3] \in Bytes /\ op[4] \in Bytes
  OBVIOUS
<1>2. HighByte(n) \in Bytes /\ LowByte(n) \in Bytes /\ n = HighByte(n) * 256 + LowByte(n)
  BY WordSplits
<1>3. /\ b3 \in Bytes /\ b2 \in Bytes
      /\ low <=> op[4] + LowByte(n) > 255
      /\ b3 = IF op[4] + LowByte(n) > 255 THEN op[4] + LowByte(n) - 256 ELSE op[4] + LowByte(n)
      /\ over <=> op[3] + HighByte(n) > 255
      /\ b2 = IF op[3] + HighByte(n) > 255 THEN op[3] + HighByte(n) - 256
                                           ELSE op[3] + HighByte(n)
  BY <1>1, <1>2, ByteOverflow
<1>4. Add32(op, n) = end \o <<next, b3>>
  BY DEF Add32
<1>5. (low => next = Inc(b2)) /\ (~low => next = b2) /\ (both <=> low /\ next = 0)
  OBVIOUS
<1>6. over \in BOOLEAN /\ both \in BOOLEAN
  OBVIOUS
<1> HIDE DEF b3, b2, over, low, next, both
<1>7. PICK h : h = HighByte(n) /\ h \in Int /\ 0 <= h /\ h <= 255
  BY <1>2, ByteRange
<1>8. PICK l : l = LowByte(n) /\ l \in Int /\ 0 <= l /\ l <= 255
  BY <1>2, ByteRange
<1>9. PICK x : x = op[3] /\ x \in Int /\ 0 <= x /\ x <= 255
  BY <1>1, ByteRange
<1>10. PICK y : y = op[4] /\ y \in Int /\ 0 <= y /\ y <= 255
  BY <1>1, ByteRange
<1>11. PICK u : u = op[1] * 256 + op[2] /\ u \in Int /\ 0 <= u /\ u <= 65535
  BY <1>1, ByteRange
<1>12. PICK p : p = b2 /\ p \in Int /\ 0 <= p /\ p <= 255
  BY <1>3, ByteRange
<1>13. PICK q : q = b3 /\ q \in Int /\ 0 <= q /\ q <= 255
  BY <1>3, ByteRange
<1>14. /\ low <=> y + l > 255
       /\ q = IF y + l > 255 THEN y + l - 256 ELSE y + l
       /\ over <=> x + h > 255
       /\ p = IF x + h > 255 THEN x + h - 256 ELSE x + h
  BY <1>3, <1>7, <1>8, <1>9, <1>10, <1>12, <1>13
<1>15. PICK r : /\ r = next /\ r \in Int /\ 0 <= r /\ r <= 255
                /\ ~low => r = p
                /\ low => r = IF p = 255 THEN 0 ELSE p + 1
  <2>1. Inc(p) = IF p = 255 THEN 0 ELSE p + 1
    BY <1>12 DEF Inc
  <2>2. CASE low
    <3>1. next = Inc(p)
      BY <1>5, <1>12, <2>2
    <3> QED
      BY <1>12, <2>1, <2>2, <3>1
  <2>3. CASE ~low
    BY <1>5, <1>12, <2>3
  <2> QED
    BY <2>2, <2>3
<1>16. both <=> low /\ r = 0
  BY <1>5, <1>15
<1>17. \E c, d \in Bytes : /\ top = <<c, d>>
                           /\ c * 256 + d = IF ~over THEN u ELSE IF u = 65535 THEN 0 ELSE u + 1
  BY <1>1, <1>6, <1>11, CarryCarries
<1>18. PICK c, d \in Bytes :
         /\ top = <<c, d>>
         /\ c * 256 + d = IF ~over THEN u ELSE IF u = 65535 THEN 0 ELSE u + 1
  BY <1>17
<1>19. PICK t : t = c * 256 + d /\ t \in Int /\ 0 <= t /\ t <= 65535
  BY ByteRange
<1>20. top[1] = c /\ top[2] = d
  BY <1>18
<1> HIDE DEF top
<1>21. \E a, b \in Bytes : /\ end = <<a, b>>
                           /\ a * 256 + b = IF ~both THEN t ELSE IF t = 65535 THEN 0 ELSE t + 1
  BY <1>6, <1>19, <1>20, CarryCarries
<1>22. PICK a, b \in Bytes :
         /\ end = <<a, b>>
         /\ a * 256 + b = IF ~both THEN t ELSE IF t = 65535 THEN 0 ELSE t + 1
  BY <1>21
<1> HIDE DEF end
<1>23. PICK e : e = a * 256 + b /\ e \in Int /\ 0 <= e /\ e <= 65535
  BY ByteRange
<1>24. Add32(op, n) = <<a, b>> \o <<r, q>>
  BY <1>4, <1>13, <1>15, <1>22
<1>25. PICK s : s = x * 256 + y + (h * 256 + l)
  OBVIOUS
<1>26. PICK k : k = s \div 65536
  OBVIOUS
<1>27. /\ s % 65536 = r * 256 + q
       /\ k = IF over \/ both THEN 1 ELSE 0
       /\ ~(over /\ both)
  <2>1. CASE y + l > 255
    <3>1. low /\ q = y + l - 256 /\ r = IF p = 255 THEN 0 ELSE p + 1
      BY <1>14, <1>15, <2>1
    <3>2. CASE x + h > 255
      <4>1. over /\ p = x + h - 256 /\ p <= 254
        BY <1>7, <1>9, <1>14, <3>2
      <4>2. r = p + 1 /\ ~both
        BY <1>12, <1>16, <3>1, <4>1
      <4>3. s = 65536 + (r * 256 + q) /\ 0 <= r * 256 + q /\ r * 256 + q < 65536
        BY <1>7, <1>8, <1>9, <1>10, <1>13, <1>15, <1>25, <3>1, <4>1, <4>2
      <4>4. s % 65536 = r * 256 + q /\ k = 1
        BY <1>13, <1>15, <1>26, <4>3
      <4> QED
        BY <4>1, <4>2, <4>4
    <3>3. CASE x + h = 255
      <4>1. ~over /\ p = 255 /\ r = 0 /\ both
        BY <1>7, <1>9, <1>14, <1>16, <3>1, <3>3
      <4>2. s = 65536 + q
        BY <1>7, <1>8, <1>9, <1>10, <1>25, <3>1, <3>3
      <4>3. s % 65536 = q /\ k = 1
        BY <1>13, <1>26, <4>2
      <4> QED
        BY <1>13, <4>1, <4>3
    <3>4. CASE x + h < 255
      <4>1. ~over /\ p = x + h /\ r = p + 1 /\ ~both
        BY <1>7, <1>9, <1>12, <1>14, <1>16, <3>1, <3>4
      <4>2. s = r * 256 + q /\ 0 <= s /\ s < 65536
        BY <1>7, <1>8, <1>9, <1>10, <1>13, <1>15, <1>25, <3>1, <4>1
      <4>3. s % 65536 = s /\ k = 0
        BY <1>13, <1>15, <1>26, <4>2
      <4> QED
        BY <4>1, <4>2, <4>3
    <3> QED
      BY <1>7, <1>9, <3>2, <3>3, <3>4
  <2>2. CASE ~(y + l > 255)
    <3>1. ~low /\ q = y + l /\ r = p /\ ~both
      BY <1>14, <1>15, <1>16, <2>2
    <3>2. CASE x + h > 255
      <4>1. over /\ p = x + h - 256
        BY <1>14, <3>2
      <4>2. s = 65536 + (r * 256 + q) /\ 0 <= r * 256 + q /\ r * 256 + q < 65536
        BY <1>7, <1>8, <1>9, <1>10, <1>13, <1>15, <1>25, <3>1, <4>1
      <4>3. s % 65536 = r * 256 + q /\ k = 1
        BY <1>13, <1>15, <1>26, <4>2
      <4> QED
        BY <3>1, <4>1, <4>3
    <3>3. CASE ~(x + h > 255)
      <4>1. ~over /\ p = x + h
        BY <1>14, <3>3
      <4>2. s = r * 256 + q /\ 0 <= s /\ s < 65536
        BY <1>7, <1>8, <1>9, <1>10, <1>13, <1>15, <1>25, <3>1, <4>1
      <4>3. s % 65536 = s /\ k = 0
        BY <1>13, <1>15, <1>26, <4>2
      <4> QED
        BY <3>1, <4>1, <4>2, <4>3
    <3> QED
      BY <3>2, <3>3
  <2> QED
    BY <2>1, <2>2
<1>28. e = (u + k) % 65536
  <2>1. e = IF k = 0 THEN u ELSE IF u = 65535 THEN 0 ELSE u + 1
    <3>1. CASE over
      BY <1>18, <1>19, <1>22, <1>23, <1>27, <3>1
    <3>2. CASE ~over
      BY <1>18, <1>19, <1>22, <1>23, <1>27, <3>2
    <3> QED
      BY <3>1, <3>2
  <2>2. k = 0 \/ k = 1
    BY <1>27
  <2>3. k = 0 => (u + k) % 65536 = u
    BY <1>11
  <2>4. k = 1 /\ u < 65535 => (u + k) % 65536 = u + 1
    BY <1>11
  <2>5. k = 1 /\ u = 65535 => (u + k) % 65536 = 0
    OBVIOUS
  <2> QED
    BY <1>11, <2>1, <2>2, <2>3, <2>4, <2>5
<1>29. r \in Bytes /\ q \in Bytes
  BY <1>13, <1>15, ByteRange
<1>30. PICK z : z = Add32(op, n)
  OBVIOUS
<1>31. z \in [1 .. 4 -> Bytes] /\ z[1] = a /\ z[2] = b /\ z[3] = r /\ z[4] = q
  <2>1. PICK f : f = <<a, b>>
    OBVIOUS
  <2>2. PICK g : g = <<r, q>>
    OBVIOUS
  <2>3. f \in Seq(Bytes) /\ Len(f) = 2 /\ f[1] = a /\ f[2] = b
    BY <2>1
  <2>4. g \in Seq(Bytes) /\ Len(g) = 2 /\ g[1] = r /\ g[2] = q
    BY <1>29, <2>2
  <2>5. z = f \o g
    BY <1>24, <1>30, <2>1, <2>2
  <2>6. /\ z \in Seq(Bytes) /\ Len(z) = Len(f) + Len(g)
        /\ \A i \in 1 .. Len(f) + Len(g) : z[i] = IF i <= Len(f) THEN f[i] ELSE g[i - Len(f)]
    BY <2>3, <2>4, <2>5, ConcatProperties
  <2>7. z[1] = a /\ z[2] = b /\ z[3] = r /\ z[4] = q
    BY <2>3, <2>4, <2>6
  <2>8. Len(z) = 4
    BY <2>3, <2>4, <2>6
  <2> QED
    BY <2>6, <2>7, <2>8, LenProperties
<1>32. Lower(z) = r * 256 + q /\ Upper(z) = e
  BY <1>23, <1>31 DEF Lower, Upper
<1>33. Lower(op) = x * 256 + y /\ Upper(op) = u /\ n = h * 256 + l
  BY <1>2, <1>7, <1>8, <1>9, <1>10, <1>11 DEF Lower, Upper
<1>34. s = Lower(op) + n
  BY <1>25, <1>33
<1> QED
  BY <1>26, <1>27, <1>28, <1>30, <1>31, <1>32, <1>33, <1>34

\* A sequence number of four bytes grows as a number of 32 bits does, whatever is added
\* to it how often (uip_add_rcv_nxt(), uip_add32()).
THEOREM NumbersGrow == IpSpec => []NumbersAddUp
<1> DEFINE Known4 == seq \in [1 .. 4 -> Bytes] /\ NumbersAddUp
<1>1. EdgeBytes \subseteq Bytes /\ EdgeWords \subseteq Words
  BY ByteRange, WordRange DEF EdgeBytes, EdgeWords
<1>2. IpInit => Known4
  <2> SUFFICES ASSUME IpInit PROVE Known4
    OBVIOUS
  <2>1. total = << Upper(seq), Lower(seq) >>
    BY DEF IpInit
  <2>2. seq \in [1 .. 4 -> EdgeBytes] \/ seq = Nothing
    BY DEF IpInit
  <2>3. Nothing \in [1 .. 4 -> Bytes]
    <3>1. 0 \in Bytes
      BY ByteRange
    <3> QED
      BY <3>1 DEF Nothing
  <2>4. seq \in [1 .. 4 -> Bytes]
    BY <1>1, <2>2, <2>3
  <2> QED
    BY <2>1, <2>4 DEF NumbersAddUp
<1>3. Known4 /\ [IpNext]_ipVars => Known4'
  <2> SUFFICES ASSUME Known4, [IpNext]_ipVars PROVE Known4'
    OBVIOUS
  <2>1. ASSUME NEW n \in EdgeWords, Grow(n) PROVE Known4'
    <3>1. n \in Words
      BY <1>1
    <3>2. seq' = Add32(seq, n)
      BY <2>1 DEF Grow
    <3>3. total' = << (total[1] + ((total[2] + n) \div 65536)) % 65536,
                      (total[2] + n) % 65536 >>
      BY <2>1 DEF Grow
    <3>4. total[1] = Upper(seq) /\ total[2] = Lower(seq)
      BY DEF NumbersAddUp
    <3>5. /\ Add32(seq, n) \in [1 .. 4 -> Bytes]
          /\ Lower(Add32(seq, n)) = (Lower(seq) + n) % 65536
          /\ Upper(Add32(seq, n)) = (Upper(seq) + (Lower(seq) + n) \div 65536) % 65536
      BY <3>1, Add32Adds
    <3>6. total' = << Upper(seq'), Lower(seq') >>
      BY <3>2, <3>3, <3>4, <3>5
    <3> QED
      BY <3>2, <3>5, <3>6 DEF NumbersAddUp
  <2>2. CASE UNCHANGED <<seq, total>>
    <3>1. seq' = seq /\ total' = total
      BY <2>2
    <3> QED
      BY <3>1 DEF NumbersAddUp
  <2>3. (\E n \in EdgeWords : Grow(n)) \/ UNCHANGED <<seq, total>>
    BY DEF IpNext, Damage, Answer, ipVars
  <2> QED
    BY <2>1, <2>2, <2>3
<1>4. Known4 => NumbersAddUp
  OBVIOUS
<1> QED
  BY <1>2, <1>3, <1>4, PTL DEF IpSpec

----------------------------------------------------------------------------
\* One step of a sum is addition with the carry at the other end.
LEMMA AddWordAdds ==
  ASSUME NEW a \in Words, NEW b \in Words
  PROVE  /\ AddWord(a, b) \in Words
         /\ AddWord(a, b) = IF a + b <= 65535 THEN a + b ELSE a + b - 65535
<1>1. a \in Int /\ 0 <= a /\ a <= 65535 /\ b \in Int /\ 0 <= b /\ b <= 65535
  BY WordRange
<1>2. CASE a + b <= 65535
  <2>1. (a + b) % 65536 = a + b
    BY <1>1, <1>2
  <2> QED
    BY <1>1, <1>2, <2>1, WordRange DEF AddWord
<1>3. CASE a + b > 65535
  <2>1. (a + b) % 65536 = a + b - 65536
    BY <1>1, <1>3
  <2>2. (a + b - 65536 + 1) % 65536 = a + b - 65535
    BY <1>1, <1>3
  <2>3. a + b - 65536 < b
    BY <1>1
  <2> QED
    BY <1>1, <1>3, <2>1, <2>2, <2>3, WordRange DEF AddWord
<1> QED
  BY <1>1, <1>2, <1>3

\* A set of naturals that is not empty has a least member.
LEMMA FirstOfNaturals ==
  ASSUME NEW S, S \subseteq Nat, S # {}
  PROVE  \E s \in S : \A r \in S : s <= r
<1>1. \E s \in S : \A r \in S : ~ (<<r, s>> \in OpToRel(<, Nat))
  BY WFMin, NatLessThanWellFounded
<1>2. PICK s \in S : \A r \in S : ~ (<<r, s>> \in OpToRel(<, Nat))
  BY <1>1
<1>3. \A r \in S : ~ (r < s)
  BY <1>2 DEF OpToRel
<1>4. s \in S
  BY <1>2
<1>5. \A r \in S : s <= r
  BY <1>3, <1>4
<1> QED
  BY <1>4, <1>5

\* Induction over an interval: a set that has its first number, and the next one of
\* each it has, has them all.
LEMMA IntervalInduction ==
  ASSUME NEW a \in Nat, NEW b \in Nat, NEW S, a \in S,
         \A n \in a .. b : n \in S /\ n < b => n + 1 \in S
  PROVE  \A n \in a .. b : n \in S
<1> DEFINE Out == {n \in a .. b : n \notin S}
<1> SUFFICES ASSUME Out # {} PROVE FALSE
  OBVIOUS
<1>1. PICK m \in Out : \A r \in Out : m <= r
  <2>1. Out \subseteq Nat
    OBVIOUS
  <2> HIDE DEF Out
  <2> QED
    BY <2>1, FirstOfNaturals
<1>2. m \in Nat /\ a < m /\ m <= b /\ m \notin S
  <2>1. m \in a .. b /\ m \notin S
    OBVIOUS
  <2>2. m # a
    BY <2>1
  <2> QED
    BY <2>1, <2>2
<1>3. m - 1 \in a .. b /\ m - 1 < b /\ m - 1 < m
  BY <1>2
<1>4. m - 1 \notin Out
  <2>1. ~ (m <= m - 1)
    BY <1>2
  <2> QED
    BY <1>1, <2>1
<1>5. m - 1 \in S
  BY <1>3, <1>4
<1>6. (m - 1) + 1 = m
  BY <1>2
<1> QED
  BY <1>2, <1>3, <1>5, <1>6

\* The loop of chksum() computes what it says.
LEMMA RunningSumIs ==
  ASSUME NEW sum \in Words, NEW ws, Len(ws) \in Nat, \A n \in 1 .. Len(ws) : ws[n] \in Words
  PROVE  /\ RunningSum(sum, ws) \in [0 .. Len(ws) -> Words]
         /\ RunningSum(sum, ws)[0] = sum
         /\ \A n \in 1 .. Len(ws) :
              RunningSum(sum, ws)[n] = AddWord(RunningSum(sum, ws)[n - 1], ws[n])
<1> DEFINE Loops(m) == {g \in [0 .. m -> Words] :
                         g[0] = sum /\ \A n \in 1 .. m : g[n] = AddWord(g[n - 1], ws[n])}
           Done    == {m \in Nat : Loops(m) # {}}
<1>1. 0 \in Done
  <2>1. [n \in 0 .. 0 |-> sum] \in Loops(0)
    OBVIOUS
  <2> QED
    BY <2>1
<1>2. ASSUME NEW m \in 0 .. Len(ws), m \in Done, m < Len(ws) PROVE m + 1 \in Done
  <2>1. PICK g : g \in Loops(m)
    BY <1>2
  <2>2. g \in [0 .. m -> Words] /\ g[0] = sum
        /\ \A n \in 1 .. m : g[n] = AddWord(g[n - 1], ws[n])
    BY <2>1
  <2>3. m \in 0 .. m /\ m + 1 \in 1 .. Len(ws) /\ m \in Nat
    BY <1>2
  <2>4. PICK w \in Words : w = AddWord(g[m], ws[m + 1])
    BY <2>2, <2>3, AddWordAdds
  <2>5. PICK h : h = [n \in 0 .. m + 1 |-> IF n = m + 1 THEN w ELSE g[n]]
    OBVIOUS
  <2>6. \A n \in 0 .. m + 1 : n = m + 1 \/ n \in 0 .. m
    BY <2>3
  <2>7. h \in [0 .. m + 1 -> Words]
    BY <2>2, <2>5, <2>6
  <2>8. 0 \in 0 .. m + 1 /\ 0 # m + 1 /\ h[0] = sum
    BY <2>2, <2>3, <2>5
  <2>9. ASSUME NEW n \in 1 .. m + 1 PROVE h[n] = AddWord(h[n - 1], ws[n])
    <3>1. n \in 0 .. m + 1 /\ n - 1 \in 0 .. m + 1 /\ n - 1 # m + 1
      BY <2>3
    <3>2. h[n - 1] = g[n - 1]
      BY <2>5, <3>1
    <3>3. CASE n = m + 1
      <4>1. h[n] = w /\ n - 1 = m
        BY <2>3, <2>5, <3>1, <3>3
      <4> QED
        BY <2>4, <3>2, <3>3, <4>1
    <3>4. CASE n # m + 1
      <4>1. n \in 1 .. m /\ h[n] = g[n]
        BY <2>3, <2>5, <3>1, <3>4
      <4> QED
        BY <2>2, <3>2, <4>1
    <3> QED
      BY <3>3, <3>4
  <2>10. h \in Loops(m + 1)
    BY <2>7, <2>8, <2>9
  <2> QED
    BY <2>3, <2>10
<1>3. Len(ws) \in Done
  <2> HIDE DEF Done
  <2>1. \A n \in 0 .. Len(ws) : n \in Done
    BY <1>1, <1>2, IntervalInduction
  <2> QED
    BY <2>1
<1>4. PICK g : g \in Loops(Len(ws))
  BY <1>3
<1> DEFINE Loop(s) == s = [n \in 0 .. Len(ws) |-> IF n = 0 THEN sum ELSE AddWord(s[n - 1], ws[n])]
<1>5. Loop(g)
  <2>1. \A n \in 0 .. Len(ws) : n = 0 \/ n \in 1 .. Len(ws)
    OBVIOUS
  <2>2. DOMAIN g = 0 .. Len(ws)
        /\ \A n \in 0 .. Len(ws) : g[n] = IF n = 0 THEN sum ELSE AddWord(g[n - 1], ws[n])
    BY <1>4, <2>1
  <2>3. g = [n \in 0 .. Len(ws) |-> g[n]]
    BY <1>4
  <2> QED
    BY <2>2, <2>3
<1>6. PICK r : r = RunningSum(sum, ws)
  OBVIOUS
<1>7. Loop(r)
  <2>1. r = CHOOSE s : Loop(s)
    BY <1>6 DEF RunningSum
  <2> HIDE DEF Loop
  <2> QED
    BY <1>5, <2>1
<1>8. DOMAIN r = 0 .. Len(ws) /\ r[0] = sum
      /\ \A n \in 1 .. Len(ws) : r[n] = AddWord(r[n - 1], ws[n])
  <2>1. 0 \in 0 .. Len(ws)
    OBVIOUS
  <2>2. \A n \in 1 .. Len(ws) : n \in 0 .. Len(ws) /\ n # 0
    OBVIOUS
  <2>3. DOMAIN r = 0 .. Len(ws) /\ r[0] = sum
    BY <1>7, <2>1
  <2> QED
    BY <1>7, <2>2, <2>3
<1>9. \A n \in 0 .. Len(ws) : r[n] \in Words
  <2> DEFINE Good == {n \in 0 .. Len(ws) : r[n] \in Words}
  <2>1. 0 \in Good
    BY <1>8
  <2>2. ASSUME NEW n \in 0 .. Len(ws), n \in Good, n < Len(ws) PROVE n + 1 \in Good
    <3>1. n + 1 \in 1 .. Len(ws) /\ (n + 1) - 1 = n
      BY <2>2
    <3>2. r[n + 1] = AddWord(r[n], ws[n + 1])
      BY <1>8, <3>1
    <3>3. r[n + 1] \in Words
      BY <2>2, <3>1, <3>2, AddWordAdds
    <3> QED
      BY <3>1, <3>3
  <2> HIDE DEF Good
  <2>3. \A n \in 0 .. Len(ws) : n \in Good
    BY <2>1, <2>2, IntervalInduction
  <2> QED
    BY <2>3 DEF Good
<1>10. r = [n \in 0 .. Len(ws) |-> r[n]]
  BY <1>7
<1>11. r \in [0 .. Len(ws) -> Words]
  BY <1>9, <1>10
<1> QED
  BY <1>6, <1>8, <1>11

\* Two sums are d apart if both 0 and 65535 are taken for zero.
Apart(a, b, d) == a - b = d \/ a - b = d - 65535 \/ a - b = d + 65535

LEMMA AddWordKeepsApart ==
  ASSUME NEW a \in Words, NEW b \in Words, NEW w \in Words,
         NEW d \in Int, -65535 < d, d < 65535, Apart(a, b, d)
  PROVE  Apart(AddWord(a, w), AddWord(b, w), d)
<1>1. /\ a \in Int /\ 0 <= a /\ a <= 65535 /\ b \in Int /\ 0 <= b /\ b <= 65535
      /\ w \in Int /\ 0 <= w /\ w <= 65535
  BY WordRange
<1>2. PICK x \in Words : x = AddWord(a, w) /\ x = IF a + w <= 65535 THEN a + w ELSE a + w - 65535
  BY AddWordAdds
<1>3. PICK y \in Words : y = AddWord(b, w) /\ y = IF b + w <= 65535 THEN b + w ELSE b + w - 65535
  BY AddWordAdds
<1>4. x \in Int /\ 0 <= x /\ x <= 65535 /\ y \in Int /\ 0 <= y /\ y <= 65535
  BY WordRange
<1>5. Apart(x, y, d)
  BY <1>1, <1>2, <1>3, <1>4 DEF Apart
<1> QED
  BY <1>2, <1>3, <1>5

LEMMA WordsApart ==
  ASSUME NEW a \in Words, NEW w \in Words, NEW v \in Words
  PROVE  Apart(AddWord(a, w), AddWord(a, v), w - v)
<1>1. /\ a \in Int /\ 0 <= a /\ a <= 65535 /\ v \in Int /\ 0 <= v /\ v <= 65535
      /\ w \in Int /\ 0 <= w /\ w <= 65535
  BY WordRange
<1>2. PICK x : x = AddWord(a, w) /\ x = IF a + w <= 65535 THEN a + w ELSE a + w - 65535
  BY AddWordAdds
<1>3. PICK y : y = AddWord(a, v) /\ y = IF a + v <= 65535 THEN a + v ELSE a + v - 65535
  BY AddWordAdds
<1>4. Apart(x, y, w - v)
  BY <1>1, <1>2, <1>3 DEF Apart
<1> QED
  BY <1>2, <1>3, <1>4

LEMMA AddWordGrows ==
  ASSUME NEW a \in Words, NEW w \in Words
  PROVE  AddWord(a, w) = 0 <=> a = 0 /\ w = 0
<1>1. /\ a \in Int /\ 0 <= a /\ a <= 65535 /\ w \in Int /\ 0 <= w /\ w <= 65535
  BY WordRange
<1>2. PICK x : x = AddWord(a, w) /\ x = IF a + w <= 65535 THEN a + w ELSE a + w - 65535
  BY AddWordAdds
<1>3. x = 0 <=> a = 0 /\ w = 0
  BY <1>1, <1>2
<1> QED
  BY <1>2, <1>3

\* A list of N words, the sums of it that follow, and two lists of sums to which the
\* same is added from the k-th on.
WordList(ws, N) == ws \in [1 .. N -> Words] /\ Len(ws) = N

LoopOf(s, sum, ws, N) ==
  s \in [0 .. N -> Words] /\ s[0] = sum /\ \A n \in 1 .. N : s[n] = AddWord(s[n - 1], ws[n])

InStep(f, g, k, N) ==
  \A n \in k + 1 .. N :
    \E w \in Words : f[n] = AddWord(f[n - 1], w) /\ g[n] = AddWord(g[n - 1], w)

LEMMA SumLoops ==
  ASSUME NEW sum \in Words, NEW N \in Nat, NEW ws, WordList(ws, N)
  PROVE  LoopOf(RunningSum(sum, ws), sum, ws, N)
<1>1. Len(ws) = N /\ \A n \in 1 .. Len(ws) : ws[n] \in Words
  BY DEF WordList
<1>2. /\ RunningSum(sum, ws) \in [0 .. Len(ws) -> Words]
      /\ RunningSum(sum, ws)[0] = sum
      /\ \A n \in 1 .. Len(ws) :
           RunningSum(sum, ws)[n] = AddWord(RunningSum(sum, ws)[n - 1], ws[n])
  BY <1>1, RunningSumIs
<1> QED
  BY <1>1, <1>2 DEF LoopOf

\* What is apart after k words stays so, whatever words both add.
LEMMA SumsStayApart ==
  ASSUME NEW N \in Nat, NEW k \in 0 .. N,
         NEW f \in [0 .. N -> Words], NEW g \in [0 .. N -> Words],
         InStep(f, g, k, N),
         NEW d \in Int, -65535 < d, d < 65535, Apart(f[k], g[k], d)
  PROVE  Apart(f[N], g[N], d)
<1> DEFINE S == {n \in k .. N : Apart(f[n], g[n], d)}
<1>1. k \in Nat /\ k \in S /\ N \in k .. N
  OBVIOUS
<1>2. ASSUME NEW n \in k .. N, n \in S, n < N PROVE n + 1 \in S
  <2>1. n + 1 \in k + 1 .. N /\ (n + 1) - 1 = n /\ n \in 0 .. N /\ n + 1 \in k .. N
    BY <1>2
  <2>2. PICK w \in Words : f[n + 1] = AddWord(f[n], w) /\ g[n + 1] = AddWord(g[n], w)
    BY <2>1 DEF InStep
  <2>3. f[n] \in Words /\ g[n] \in Words /\ Apart(f[n], g[n], d)
    BY <1>2, <2>1
  <2>4. Apart(f[n + 1], g[n + 1], d)
    BY <2>2, <2>3, AddWordKeepsApart
  <2> QED
    BY <2>1, <2>4
<1> HIDE DEF S
<1>3. \A n \in k .. N : n \in S
  <2>1. k \in Nat /\ N \in Nat
    OBVIOUS
  <2> QED
    BY ONLY <1>1, <1>2, <2>1, IntervalInduction
<1> QED
  BY <1>1, <1>3 DEF S

\* A sum that is not zero never becomes zero again.
LEMMA SumsStayPositive ==
  ASSUME NEW N \in Nat, NEW k \in 0 .. N, NEW f \in [0 .. N -> Words],
         \A n \in k + 1 .. N : \E w \in Words : f[n] = AddWord(f[n - 1], w), f[k] # 0
  PROVE  f[N] # 0
<1> DEFINE S == {n \in k .. N : f[n] # 0}
<1>1. k \in Nat /\ k \in S /\ N \in k .. N
  OBVIOUS
<1>2. ASSUME NEW n \in k .. N, n \in S, n < N PROVE n + 1 \in S
  <2>1. n + 1 \in k + 1 .. N /\ (n + 1) - 1 = n /\ n \in 0 .. N /\ n + 1 \in k .. N
    BY <1>2
  <2>2. PICK w \in Words : f[n + 1] = AddWord(f[n], w)
    BY <2>1
  <2>3. f[n] \in Words /\ f[n] # 0
    BY <1>2, <2>1
  <2>4. f[n + 1] # 0
    BY <2>2, <2>3, AddWordGrows
  <2> QED
    BY <2>1, <2>4
<1> HIDE DEF S
<1>3. \A n \in k .. N : n \in S
  BY <1>1, <1>2, IntervalInduction, Zenon
<1> QED
  BY <1>1, <1>3 DEF S

\* Sequences that differ in one word have sums that are as far apart as the word.
LEMMA OneWordApart ==
  ASSUME NEW sum \in Words, NEW N \in Nat, NEW ws, NEW vs, WordList(ws, N), WordList(vs, N),
         NEW j \in 1 .. N, \A n \in 1 .. N : n # j => ws[n] = vs[n],
         NEW d \in Int, -65535 < d, d < 65535, d = ws[j] - vs[j]
  PROVE  Apart(RunningSum(sum, ws)[N], RunningSum(sum, vs)[N], d)
<1>1. PICK f : f = RunningSum(sum, ws)
  OBVIOUS
<1>2. PICK g : g = RunningSum(sum, vs)
  OBVIOUS
<1>3. f \in [0 .. N -> Words] /\ f[0] = sum /\ \A n \in 1 .. N : f[n] = AddWord(f[n - 1], ws[n])
  BY <1>1, SumLoops DEF LoopOf
<1>4. g \in [0 .. N -> Words] /\ g[0] = sum /\ \A n \in 1 .. N : g[n] = AddWord(g[n - 1], vs[n])
  BY <1>2, SumLoops DEF LoopOf
<1>5. f[j - 1] = g[j - 1]
  <2> DEFINE S == {n \in 0 .. j - 1 : f[n] = g[n]}
  <2>0. 0 \in Nat /\ j - 1 \in Nat
    OBVIOUS
  <2>1. 0 \in S /\ j - 1 \in 0 .. j - 1
    BY <1>3, <1>4
  <2>2. ASSUME NEW n \in 0 .. j - 1, n \in S, n < j - 1 PROVE n + 1 \in S
    <3>1. n + 1 \in 1 .. N /\ n + 1 # j /\ (n + 1) - 1 = n /\ n + 1 \in 0 .. j - 1
      BY <2>2
    <3>2. f[n + 1] = AddWord(f[n], ws[n + 1]) /\ g[n + 1] = AddWord(g[n], vs[n + 1])
      BY <1>3, <1>4, <3>1
    <3>3. ws[n + 1] = vs[n + 1] /\ f[n] = g[n]
      BY <2>2, <3>1
    <3> QED
      BY <3>1, <3>2, <3>3
  <2> HIDE DEF S
  <2>3. \A n \in 0 .. j - 1 : n \in S
    BY ONLY <2>0, <2>1, <2>2, IntervalInduction
  <2> QED
    BY <2>1, <2>3 DEF S
<1>6. Apart(f[j], g[j], d)
  <2>1. f[j] = AddWord(f[j - 1], ws[j]) /\ g[j] = AddWord(f[j - 1], vs[j])
    BY <1>3, <1>4, <1>5
  <2>2. f[j - 1] \in Words /\ ws[j] \in Words /\ vs[j] \in Words
    <3>1. j - 1 \in 0 .. N
      OBVIOUS
    <3> QED
      BY <1>3, <3>1 DEF WordList
  <2> QED
    BY <2>1, <2>2, WordsApart
<1>7. InStep(f, g, j, N)
  <2> SUFFICES ASSUME NEW n \in j + 1 .. N
               PROVE  \E w \in Words : f[n] = AddWord(f[n - 1], w) /\ g[n] = AddWord(g[n - 1], w)
    BY DEF InStep
  <2>1. n \in 1 .. N /\ n # j
    OBVIOUS
  <2>2. PICK w \in Words : w = ws[n] /\ w = vs[n]
    BY <2>1 DEF WordList
  <2>3. f[n] = AddWord(f[n - 1], w) /\ g[n] = AddWord(g[n - 1], w)
    BY <1>3, <1>4, <2>1, <2>2
  <2> QED
    BY <2>3
<1>8. j \in 0 .. N
  OBVIOUS
<1>9. f \in [0 .. N -> Words] /\ g \in [0 .. N -> Words]
  BY <1>3, <1>4
<1>10. Apart(f[N], g[N], d)
  BY <1>6, <1>7, <1>8, <1>9, SumsStayApart
<1> QED
  BY <1>1, <1>2, <1>10

----------------------------------------------------------------------------
LEMMA WordsOfBytes ==
  ASSUME NEW data \in Seq(Bytes)
  PROVE  /\ (Len(data) + 1) \div 2 \in Nat
         /\ WordList(WordsOf(data), (Len(data) + 1) \div 2)
<1>1. Len(data) \in Nat /\ \A i \in 1 .. Len(data) : data[i] \in Bytes
  BY LenProperties
<1>2. PICK m \in Nat : m = (Len(data) + 1) \div 2 /\ Len(data) <= 2 * m /\ 2 * m <= Len(data) + 1
  BY <1>1
<1>3. WordsOf(data) = [i \in 1 .. m |->
                         data[2 * i - 1] * 256 + (IF 2 * i <= Len(data) THEN data[2 * i] ELSE 0)]
  BY <1>2 DEF WordsOf
<1>4. ASSUME NEW i \in 1 .. m
      PROVE  data[2 * i - 1] * 256 + (IF 2 * i <= Len(data) THEN data[2 * i] ELSE 0) \in Words
  <2>1. 2 * i - 1 \in 1 .. Len(data)
    BY <1>1, <1>2
  <2>2. PICK h \in Bytes : h = data[2 * i - 1]
    BY <1>1, <2>1
  <2>3. PICK l \in Bytes : l = IF 2 * i <= Len(data) THEN data[2 * i] ELSE 0
    <3>1. 2 * i <= Len(data) => 2 * i \in 1 .. Len(data)
      BY <1>1
    <3>2. 0 \in Bytes
      BY ByteRange
    <3> QED
      BY <1>1, <3>1, <3>2
  <2>4. h \in Int /\ 0 <= h /\ h <= 255 /\ l \in Int /\ 0 <= l /\ l <= 255
    BY ByteRange
  <2>5. h * 256 + l \in Int /\ 0 <= h * 256 + l /\ h * 256 + l <= 65535
    BY <2>4
  <2>6. h * 256 + l \in Words
    BY <2>5, IsWord
  <2> QED
    BY <2>2, <2>3, <2>6
<1>5. WordsOf(data) \in [1 .. m -> Words]
  BY <1>3, <1>4
<1>6. Len(WordsOf(data)) = m
  BY <1>5
<1> QED
  BY <1>2, <1>5, <1>6 DEF WordList

LEMMA WordOfBytes ==
  ASSUME NEW data \in Seq(Bytes), NEW i \in 1 .. (Len(data) + 1) \div 2
  PROVE  WordsOf(data)[i]
           = data[2 * i - 1] * 256 + (IF 2 * i <= Len(data) THEN data[2 * i] ELSE 0)
BY DEF WordsOf

\* A checksum that begins with something never comes out as zero.
LEMMA ChksumIs ==
  ASSUME NEW s \in Words, NEW data, NEW m \in Nat, WordList(WordsOf(data), m)
  PROVE  /\ Chksum(s, data) = RunningSum(s, WordsOf(data))[m]
         /\ Chksum(s, data) \in Words
         /\ s # 0 => Chksum(s, data) # 0
<1>1. PICK ws : ws = WordsOf(data)
  OBVIOUS
<1>2. PICK f : f = RunningSum(s, ws)
  OBVIOUS
<1>3. WordList(ws, m) /\ LoopOf(f, s, ws, m)
  BY <1>1, <1>2, SumLoops
<1>4. Chksum(s, data) = f[m]
  BY <1>1, <1>2, <1>3 DEF Chksum, WordList
<1>5. f \in [0 .. m -> Words] /\ f[0] = s
  BY <1>3 DEF LoopOf
<1>6. f[m] \in Words
  BY <1>5
<1>7. s # 0 => f[m] # 0
  <2>1. \A n \in 0 + 1 .. m : \E w \in Words : f[n] = AddWord(f[n - 1], w)
    BY <1>3 DEF LoopOf, WordList
  <2>2. 0 \in 0 .. m
    OBVIOUS
  <2> QED
    BY <1>5, <2>1, <2>2, SumsStayPositive
<1> QED
  BY <1>1, <1>2, <1>4, <1>6, <1>7

\* The sum of a segment of n bytes before its bytes, which is not zero.
AddressSum(n) == Chksum((n + 6) % 65536, Addresses)

LEMMA AddressesSummed ==
  ASSUME NEW n \in Nat, n <= 65000
  PROVE  AddressSum(n) \in Words /\ AddressSum(n) # 0
<1>1. PICK a \in Seq(Bytes) : a = Addresses
  <2>1. 192 \in Bytes /\ 168 \in Bytes /\ 255 \in Bytes /\ 254 \in Bytes /\ 1 \in Bytes /\ 3 \in Bytes
    BY ByteRange
  <2>2. Addresses \in Seq(Bytes)
    BY <2>1 DEF Addresses
  <2> QED
    BY <2>2
<1>2. PICK b \in Words : b = (n + 6) % 65536 /\ b # 0
  <2>1. (n + 6) % 65536 = n + 6
    OBVIOUS
  <2>2. n + 6 \in Words
    BY IsWord
  <2> QED
    BY <2>1, <2>2
<1>3. PICK m \in Nat : WordList(WordsOf(a), m)
  BY WordsOfBytes
<1>4. Chksum(b, a) \in Words /\ Chksum(b, a) # 0
  BY ONLY <1>2, <1>3, ChksumIs
<1> QED
  BY <1>1, <1>2, <1>4 DEF AddressSum

LEMMA TcpSumIs ==
  ASSUME NEW data
  PROVE  TcpSum(Addresses, data) = Chksum(AddressSum(Len(data)), data)
BY DEF TcpSum, UpperLayerSum, AddressSum

\* Two segments that differ in one word.
LEMMA SegmentsApart ==
  ASSUME NEW s \in Words, NEW m \in Nat, NEW p, NEW q,
         WordList(WordsOf(p), m), WordList(WordsOf(q), m),
         NEW j \in 1 .. m, \A n \in 1 .. m : n # j => WordsOf(p)[n] = WordsOf(q)[n],
         NEW d \in Int, -65535 < d, d < 65535, d = WordsOf(p)[j] - WordsOf(q)[j]
  PROVE  Apart(Chksum(s, p), Chksum(s, q), d)
<1>1. Chksum(s, p) = RunningSum(s, WordsOf(p))[m] /\ Chksum(s, q) = RunningSum(s, WordsOf(q))[m]
  BY ChksumIs
<1>2. Apart(RunningSum(s, WordsOf(p))[m], RunningSum(s, WordsOf(q))[m], d)
  BY OneWordApart
<1> QED
  BY <1>1, <1>2

\* uip_process() takes a sum for a good one if it is zero in one's complement.
LEMMA GoodSums == \A sum \in Words : SumIsGood(sum) <=> sum = 0 \/ sum = 65535
<1> SUFFICES ASSUME NEW sum \in Words PROVE SumIsGood(sum) <=> sum = 0 \/ sum = 65535
  OBVIOUS
<1>1. PICK h \in Bytes, l \in Bytes : /\ h = HighByte(sum) /\ l = LowByte(sum)
                                      /\ sum = h * 256 + l
  BY WordSplits
<1>2. h \in Int /\ 0 <= h /\ h <= 255 /\ l \in Int /\ 0 <= l /\ l <= 255
  BY ByteRange
<1>3. Htons(sum) = l * 256 + h
  BY <1>1 DEF Htons
<1>4. l * 256 + h = 65535 <=> h * 256 + l = 65535
  BY <1>2
<1> QED
  BY <1>1, <1>3, <1>4 DEF SumIsGood, Returned

\* A segment, and another that differs from it in one byte.
Segment(p, n) == p \in [1 .. n -> Bytes] /\ Len(p) = n

DifferAt(p, q, i, n) == p[i] # q[i] /\ \A k \in 1 .. n : k # i => p[k] = q[k]

LEMMA SegmentWords ==
  ASSUME NEW n \in Nat, NEW p, Segment(p, n)
  PROVE  \E m \in Nat : /\ n <= 2 * m /\ 2 * m <= n + 1
                        /\ WordList(WordsOf(p), m)
                        /\ \A k \in 1 .. m :
                             WordsOf(p)[k] = p[2 * k - 1] * 256
                                             + (IF 2 * k <= n THEN p[2 * k] ELSE 0)
<1>1. p \in Seq(Bytes) /\ Len(p) = n
  BY DEF Segment
<1>2. PICK m \in Nat : m = (n + 1) \div 2 /\ n <= 2 * m /\ 2 * m <= n + 1
  OBVIOUS
<1>3. WordList(WordsOf(p), m)
  BY <1>1, <1>2, WordsOfBytes
<1>4. \A k \in 1 .. m :
        WordsOf(p)[k] = p[2 * k - 1] * 256 + (IF 2 * k <= n THEN p[2 * k] ELSE 0)
  BY <1>1, <1>2, WordOfBytes
<1> QED
  BY <1>2, <1>3, <1>4

\* One byte more or less is one word more or less, by less than 65535.
LEMMA DifferentWords ==
  ASSUME NEW n \in Nat, NEW p, NEW q, Segment(p, n), Segment(q, n),
         NEW i \in 1 .. n, DifferAt(p, q, i, n)
  PROVE  \E m \in Nat : \E j \in 1 .. m : \E d \in Int :
           /\ WordList(WordsOf(p), m) /\ WordList(WordsOf(q), m)
           /\ \A k \in 1 .. m : k # j => WordsOf(p)[k] = WordsOf(q)[k]
           /\ d # 0 /\ -65535 < d /\ d < 65535 /\ d = WordsOf(p)[j] - WordsOf(q)[j]
<1>1. PICK m \in Nat :
        /\ n <= 2 * m /\ 2 * m <= n + 1
        /\ WordList(WordsOf(p), m)
        /\ \A k \in 1 .. m :
             WordsOf(p)[k] = p[2 * k - 1] * 256 + (IF 2 * k <= n THEN p[2 * k] ELSE 0)
  BY SegmentWords
<1>2. PICK m2 \in Nat :
        /\ n <= 2 * m2 /\ 2 * m2 <= n + 1
        /\ WordList(WordsOf(q), m2)
        /\ \A k \in 1 .. m2 :
             WordsOf(q)[k] = q[2 * k - 1] * 256 + (IF 2 * k <= n THEN q[2 * k] ELSE 0)
  BY SegmentWords
<1>3. m2 = m
  BY <1>1, <1>2
<1>4. \A k \in 1 .. n : p[k] \in Int /\ 0 <= p[k] /\ p[k] <= 255
                        /\ q[k] \in Int /\ 0 <= q[k] /\ q[k] <= 255
  BY ByteRange DEF Segment
<1>5. p[i] # q[i] /\ \A k \in 1 .. n : k # i => p[k] = q[k]
  BY DEF DifferAt
<1>6. PICK j \in 1 .. m : i = 2 * j - 1 \/ i = 2 * j
  <2>1. PICK j : j = (i + 1) \div 2
    OBVIOUS
  <2>2. j \in 1 .. m /\ (i = 2 * j - 1 \/ i = 2 * j)
    BY <1>1, <2>1
  <2> QED
    BY <2>2
<1>7. ASSUME NEW k \in 1 .. m, k # j PROVE WordsOf(p)[k] = WordsOf(q)[k]
  <2>1. /\ 2 * k - 1 \in 1 .. n /\ 2 * k - 1 # i
        /\ 2 * k <= n => 2 * k \in 1 .. n /\ 2 * k # i
    BY <1>1, <1>6, <1>7
  <2>2. WordsOf(p)[k] = p[2 * k - 1] * 256 + (IF 2 * k <= n THEN p[2 * k] ELSE 0)
    BY <1>1
  <2>3. WordsOf(q)[k] = q[2 * k - 1] * 256 + (IF 2 * k <= n THEN q[2 * k] ELSE 0)
    BY <1>2, <1>3
  <2> QED
    BY <1>5, <2>1, <2>2, <2>3
<1>8. PICK d \in Int : d = WordsOf(p)[j] - WordsOf(q)[j] /\ d # 0 /\ -65535 < d /\ d < 65535
  <2>1. WordsOf(p)[j] = p[2 * j - 1] * 256 + (IF 2 * j <= n THEN p[2 * j] ELSE 0)
    BY <1>1
  <2>2. WordsOf(q)[j] = q[2 * j - 1] * 256 + (IF 2 * j <= n THEN q[2 * j] ELSE 0)
    BY <1>2, <1>3
  <2>3. 2 * j - 1 \in 1 .. n /\ (2 * j <= n => 2 * j \in 1 .. n)
    BY <1>1
  <2>4. PICK a \in Int : a = p[2 * j - 1] /\ 0 <= a /\ a <= 255
    BY <1>4, <2>3
  <2>5. PICK b \in Int : b = q[2 * j - 1] /\ 0 <= b /\ b <= 255
    BY <1>4, <2>3
  <2>6. PICK e \in Int : e = (IF 2 * j <= n THEN p[2 * j] ELSE 0) /\ 0 <= e /\ e <= 255
    BY <1>4, <2>3
  <2>7. PICK f \in Int : f = (IF 2 * j <= n THEN q[2 * j] ELSE 0) /\ 0 <= f /\ f <= 255
    BY <1>4, <2>3
  <2>8. a # b \/ e # f
    <3>1. i = 2 * j => 2 * j <= n
      OBVIOUS
    <3> QED
      BY <1>5, <1>6, <2>4, <2>5, <2>6, <2>7, <3>1
  <2>9. a = b \/ e = f
    <3>1. CASE i = 2 * j - 1
      <4>1. 2 * j <= n => 2 * j \in 1 .. n /\ 2 * j # i
        BY <3>1
      <4> QED
        BY <1>5, <2>6, <2>7, <4>1
    <3>2. CASE i = 2 * j
      <4>1. 2 * j - 1 \in 1 .. n /\ 2 * j - 1 # i
        BY <2>3, <3>2
      <4> QED
        BY <1>5, <2>4, <2>5, <4>1
    <3> QED
      BY <1>6, <3>1, <3>2
  <2>10. PICK w \in Int : w = WordsOf(p)[j] /\ w = a * 256 + e
    BY <2>1, <2>4, <2>6
  <2>11. PICK v \in Int : v = WordsOf(q)[j] /\ v = b * 256 + f
    BY <2>2, <2>5, <2>7
  <2>12. w - v \in Int /\ w - v # 0 /\ -65535 < w - v /\ w - v < 65535
    <3>1. /\ a \in Int /\ 0 <= a /\ a <= 255 /\ b \in Int /\ 0 <= b /\ b <= 255
          /\ e \in Int /\ 0 <= e /\ e <= 255 /\ f \in Int /\ 0 <= f /\ f <= 255
          /\ w = a * 256 + e /\ v = b * 256 + f
      BY <2>4, <2>5, <2>6, <2>7, <2>10, <2>11
    <3>2. CASE a = b
      BY ONLY <2>8, <3>1, <3>2
    <3>3. CASE e = f
      BY ONLY <2>8, <3>1, <3>3
    <3> QED
      BY <2>9, <3>2, <3>3
  <2> QED
    BY <2>10, <2>11, <2>12
<1> QED
  BY <1>1, <1>2, <1>3, <1>7, <1>8

\* One byte changed is always found.
THEOREM DamageIsBad ==
  ASSUME NEW n \in Nat, n <= 65000, NEW p, NEW q, Segment(p, n), Segment(q, n),
         NEW i \in 1 .. n, DifferAt(p, q, i, n), TcpSum(Addresses, p) = 65535
  PROVE  ~ SumIsGood(TcpSum(Addresses, q))
<1>1. PICK s \in Words : s = AddressSum(n) /\ s # 0
  BY AddressesSummed
<1>2. TcpSum(Addresses, p) = Chksum(s, p) /\ TcpSum(Addresses, q) = Chksum(s, q)
  BY <1>1, TcpSumIs DEF Segment
<1>3. PICK m \in Nat : \E j \in 1 .. m : \E d \in Int :
           /\ WordList(WordsOf(p), m) /\ WordList(WordsOf(q), m)
           /\ \A k \in 1 .. m : k # j => WordsOf(p)[k] = WordsOf(q)[k]
           /\ d # 0 /\ -65535 < d /\ d < 65535 /\ d = WordsOf(p)[j] - WordsOf(q)[j]
  BY DifferentWords
<1>4. PICK j \in 1 .. m : \E d \in Int :
           /\ WordList(WordsOf(p), m) /\ WordList(WordsOf(q), m)
           /\ \A k \in 1 .. m : k # j => WordsOf(p)[k] = WordsOf(q)[k]
           /\ d # 0 /\ -65535 < d /\ d < 65535 /\ d = WordsOf(p)[j] - WordsOf(q)[j]
  BY <1>3
<1>5. PICK d \in Int :
           /\ WordList(WordsOf(p), m) /\ WordList(WordsOf(q), m)
           /\ \A k \in 1 .. m : k # j => WordsOf(p)[k] = WordsOf(q)[k]
           /\ d # 0 /\ -65535 < d /\ d < 65535 /\ d = WordsOf(p)[j] - WordsOf(q)[j]
  BY <1>4
<1>6. Apart(Chksum(s, p), Chksum(s, q), d)
  BY <1>1, <1>5, SegmentsApart
<1>7. PICK y \in Words : y = Chksum(s, q) /\ y # 0
  BY <1>1, <1>5, ChksumIs
<1>8. Apart(65535, y, d)
  BY <1>2, <1>6, <1>7
<1>9. y # 65535
  BY <1>5, <1>8 DEF Apart
<1> QED
  BY <1>2, <1>7, <1>9, GoodSums

\* Two entries before the others, as a checksum and what comes with it stands there.
Ahead(h, l, data) == <<h, l>> \o data

LEMMA TwoAhead ==
  ASSUME NEW S, NEW h \in S, NEW l \in S, NEW n \in Nat, NEW data \in [1 .. n -> S], Len(data) = n
  PROVE  /\ Ahead(h, l, data) \in [1 .. n + 2 -> S] /\ Len(Ahead(h, l, data)) = n + 2
         /\ Ahead(h, l, data)[1] = h /\ Ahead(h, l, data)[2] = l
         /\ \A k \in 3 .. n + 2 : Ahead(h, l, data)[k] = data[k - 2]
<1>1. data \in Seq(S) /\ Len(data) = n
  OBVIOUS
<1>2. PICK pair : pair = <<h, l>>
  OBVIOUS
<1>3. pair \in Seq(S) /\ Len(pair) = 2 /\ pair[1] = h /\ pair[2] = l
  BY <1>2
<1>4. PICK w : w = pair \o data
  OBVIOUS
<1>5. w \in Seq(S) /\ Len(w) = n + 2
  <2>1. w \in Seq(S) /\ Len(w) = Len(pair) + Len(data)
    BY ONLY <1>1, <1>3, <1>4, ConcatProperties
  <2>2. Len(pair) + Len(data) = n + 2
    BY ONLY <1>1, <1>3, LenProperties
  <2> QED
    BY <2>1, <2>2
<1>6. \A i \in 1 .. n + 2 : w[i] = IF i <= 2 THEN pair[i] ELSE data[i - 2]
  <2>1. \A i \in 1 .. Len(pair) + Len(data) :
          (pair \o data)[i] = IF i <= Len(pair) THEN pair[i] ELSE data[i - Len(pair)]
    BY ONLY <1>1, <1>3, ConcatProperties
  <2>2. Len(pair) = 2 /\ Len(data) = n /\ 2 + n = n + 2
    BY <1>1, <1>3
  <2> QED
    BY ONLY <1>4, <2>1, <2>2
<1>7. 1 \in 1 .. n + 2 /\ 2 \in 1 .. n + 2 /\ \A i \in 3 .. n + 2 : i \in 1 .. n + 2 /\ ~ (i <= 2)
  OBVIOUS
<1>8. w[1] = h /\ w[2] = l /\ \A i \in 3 .. n + 2 : w[i] = data[i - 2]
  BY <1>3, <1>6, <1>7
<1>9. w \in [1 .. n + 2 -> S]
  BY <1>5
<1> QED
  BY <1>2, <1>4, <1>5, <1>8, <1>9 DEF Ahead

LEMMA TwoBytesAhead ==
  ASSUME NEW h \in Bytes, NEW l \in Bytes, NEW n \in Nat, NEW data, Segment(data, n)
  PROVE  /\ Segment(Ahead(h, l, data), n + 2)
         /\ Ahead(h, l, data)[1] = h /\ Ahead(h, l, data)[2] = l
         /\ \A k \in 3 .. n + 2 : Ahead(h, l, data)[k] = data[k - 2]
BY TwoAhead DEF Segment

LEMMA TwoWordsAhead ==
  ASSUME NEW h \in Words, NEW l \in Words, NEW n \in Nat, NEW ws, WordList(ws, n)
  PROVE  /\ WordList(Ahead(h, l, ws), n + 2)
         /\ Ahead(h, l, ws)[1] = h /\ Ahead(h, l, ws)[2] = l
         /\ \A k \in 3 .. n + 2 : Ahead(h, l, ws)[k] = ws[k - 2]
BY TwoAhead DEF WordList

LEMMA OnlyTheFirstWord ==
  ASSUME NEW n \in Nat, n >= 2, NEW p, NEW q, Segment(p, n), Segment(q, n),
         \A k \in 3 .. n : p[k] = q[k]
  PROVE  \E m \in Nat : /\ 1 \in 1 .. m /\ WordList(WordsOf(p), m) /\ WordList(WordsOf(q), m)
                        /\ \A k \in 1 .. m : k # 1 => WordsOf(p)[k] = WordsOf(q)[k]
                        /\ WordsOf(p)[1] = p[1] * 256 + p[2]
                        /\ WordsOf(q)[1] = q[1] * 256 + q[2]
<1>1. PICK m \in Nat :
        /\ n <= 2 * m /\ 2 * m <= n + 1
        /\ WordList(WordsOf(p), m)
        /\ \A k \in 1 .. m :
             WordsOf(p)[k] = p[2 * k - 1] * 256 + (IF 2 * k <= n THEN p[2 * k] ELSE 0)
  BY SegmentWords
<1>2. PICK m2 \in Nat :
        /\ n <= 2 * m2 /\ 2 * m2 <= n + 1
        /\ WordList(WordsOf(q), m2)
        /\ \A k \in 1 .. m2 :
             WordsOf(q)[k] = q[2 * k - 1] * 256 + (IF 2 * k <= n THEN q[2 * k] ELSE 0)
  BY SegmentWords
<1>3. m2 = m
  BY <1>1, <1>2
<1>4. 1 \in 1 .. m
  BY <1>1
<1>5. WordsOf(p)[1] = p[1] * 256 + p[2] /\ WordsOf(q)[1] = q[1] * 256 + q[2]
  <2>1. 2 * 1 - 1 = 1 /\ 2 * 1 = 2 /\ 2 * 1 <= n
    OBVIOUS
  <2>2. WordsOf(p)[1] = p[2 * 1 - 1] * 256 + (IF 2 * 1 <= n THEN p[2 * 1] ELSE 0)
    BY ONLY <1>1, <1>4
  <2>3. WordsOf(q)[1] = q[2 * 1 - 1] * 256 + (IF 2 * 1 <= n THEN q[2 * 1] ELSE 0)
    BY ONLY <1>2, <1>3, <1>4
  <2> QED
    BY ONLY <2>1, <2>2, <2>3
<1>6. ASSUME NEW k \in 1 .. m, k # 1 PROVE WordsOf(p)[k] = WordsOf(q)[k]
  <2>1. 2 * k - 1 \in 3 .. n /\ (2 * k <= n => 2 * k \in 3 .. n)
    BY <1>1, <1>6
  <2>2. WordsOf(p)[k] = p[2 * k - 1] * 256 + (IF 2 * k <= n THEN p[2 * k] ELSE 0)
    BY <1>1
  <2>3. WordsOf(q)[k] = q[2 * k - 1] * 256 + (IF 2 * k <= n THEN q[2 * k] ELSE 0)
    BY <1>2, <1>3
  <2> QED
    BY <2>1, <2>2, <2>3
<1> QED
  BY <1>1, <1>2, <1>3, <1>4, <1>5, <1>6

\* What a host sends has the sum 65535, so that uip_process() takes it.
LEMMA SealedIsGood ==
  ASSUME NEW n \in Nat, n <= 60000, NEW data, Segment(data, n)
  PROVE  /\ Segment(Sealed(data), n + 2)
         /\ TcpSum(Addresses, Sealed(data)) = 65535
<1>1. PICK q : q = Ahead(0, 0, data)
  OBVIOUS
<1>2. 0 \in Bytes
  BY ByteRange
<1>3. Segment(q, n + 2) /\ q[1] = 0 /\ q[2] = 0 /\ \A k \in 3 .. n + 2 : q[k] = data[k - 2]
  BY <1>1, <1>2, TwoBytesAhead
<1>4. PICK N \in Nat : N = n + 2 /\ N <= 65000 /\ N >= 2
  OBVIOUS
<1>5. PICK s \in Words : s = AddressSum(N) /\ s # 0
  BY <1>4, AddressesSummed
<1>6. PICK mq \in Nat : WordList(WordsOf(q), mq)
  BY <1>3, <1>4, SegmentWords
<1>7. PICK t \in Words : t = Chksum(s, q) /\ t # 0
  BY <1>5, <1>6, ChksumIs
<1>8. TcpSum(Addresses, q) = t
  BY <1>3, <1>4, <1>5, <1>7, TcpSumIs DEF Segment
<1>9. PICK c \in Words : c = 65535 - t /\ 0 <= c /\ c < 65535
  <2>1. t \in Int /\ 0 < t /\ t <= 65535
    BY <1>7, WordRange
  <2>2. 65535 - t \in Words
    BY <2>1, IsWord
  <2> QED
    BY <2>1, <2>2
<1>10. PICK h \in Bytes : h = HighByte(c)
  BY WordSplits
<1>11. PICK l \in Bytes : l = LowByte(c)
  BY WordSplits
<1>12. c = h * 256 + l
  BY <1>10, <1>11, WordSplits
<1>13. PICK p : p = Ahead(h, l, data)
  OBVIOUS
<1>14. Sealed(data) = p
  BY <1>1, <1>8, <1>9, <1>10, <1>11, <1>13 DEF Sealed, Ahead
<1>15. Segment(p, n + 2) /\ p[1] = h /\ p[2] = l /\ \A k \in 3 .. n + 2 : p[k] = data[k - 2]
  BY <1>13, TwoBytesAhead
<1>16. PICK m \in Nat : /\ 1 \in 1 .. m /\ WordList(WordsOf(p), m) /\ WordList(WordsOf(q), m)
                        /\ \A k \in 1 .. m : k # 1 => WordsOf(p)[k] = WordsOf(q)[k]
                        /\ WordsOf(p)[1] = p[1] * 256 + p[2]
                        /\ WordsOf(q)[1] = q[1] * 256 + q[2]
  <2>1. \A k \in 3 .. N : p[k] = q[k]
    BY <1>3, <1>4, <1>15
  <2>2. Segment(p, N) /\ Segment(q, N)
    BY <1>3, <1>4, <1>15
  <2> QED
    BY <1>4, <2>1, <2>2, OnlyTheFirstWord
<1>17. c \in Int /\ -65535 < c /\ c < 65535 /\ c = WordsOf(p)[1] - WordsOf(q)[1]
  <2>1. WordsOf(p)[1] = c
    BY <1>12, <1>15, <1>16
  <2>2. WordsOf(q)[1] = 0
    BY <1>3, <1>16
  <2>3. c \in Int
    BY WordRange
  <2> QED
    BY <1>9, <2>1, <2>2, <2>3
<1>18. Apart(Chksum(s, p), Chksum(s, q), c)
  BY ONLY <1>5, <1>16, <1>17, SegmentsApart
<1>19. PICK x \in Words : x = Chksum(s, p) /\ x # 0
  BY <1>5, <1>16, ChksumIs
<1>20. x = 65535
  <2>1. x \in Int /\ 0 <= x /\ x <= 65535 /\ t \in Int /\ 0 <= t /\ t <= 65535
    BY WordRange
  <2>2. x - t = c \/ x - t = c - 65535 \/ x - t = c + 65535
    BY <1>7, <1>18, <1>19 DEF Apart
  <2> QED
    BY <1>9, <1>19, <1>7, <2>1, <2>2
<1>21. TcpSum(Addresses, p) = 65535
  BY <1>4, <1>5, <1>15, <1>19, <1>20, TcpSumIs DEF Segment
<1> QED
  BY <1>14, <1>15, <1>21

----------------------------------------------------------------------------
LEMMA SumOfIs ==
  ASSUME NEW N \in Nat, NEW ws, WordList(ws, N)
  PROVE  /\ SumOf(ws) = RunningSum(0, ws)[N] /\ SumOf(ws) \in Words
         /\ SumOf(ws) = 0 => \A k \in 1 .. N : ws[k] = 0
<1>0. 0 \in Words
  BY WordRange
<1>1. PICK f : f = RunningSum(0, ws)
  OBVIOUS
<1>2. LoopOf(f, 0, ws, N)
  BY <1>0, <1>1, SumLoops
<1>3. SumOf(ws) = f[N]
  BY <1>1 DEF SumOf, WordList
<1>4. f \in [0 .. N -> Words]
  BY <1>2 DEF LoopOf
<1>5. f[N] \in Words
  BY <1>4
<1>6. ASSUME NEW k \in 1 .. N, ws[k] # 0 PROVE f[N] # 0
  <2>1. k \in 0 .. N /\ k - 1 \in 0 .. N
    OBVIOUS
  <2>2. ws[k] \in Words /\ f[k - 1] \in Words /\ f[k] = AddWord(f[k - 1], ws[k])
    BY <1>2, <2>1 DEF LoopOf, WordList
  <2>3. f[k] # 0
    BY ONLY <1>6, <2>2, AddWordGrows
  <2>4. \A n \in k + 1 .. N : \E w \in Words : f[n] = AddWord(f[n - 1], w)
    BY <1>2 DEF LoopOf, WordList
  <2> QED
    BY <1>4, <2>1, <2>3, <2>4, SumsStayPositive
<1> QED
  BY <1>1, <1>3, <1>5, <1>6

\* What is sent has a sum of 65535: the checksum is chosen so.
LEMMA AskedIsGood ==
  ASSUME NEW N \in Nat, NEW r, WordList(r, N), NEW c \in Bytes
  PROVE  /\ WordList(Asked(c, r), N + 2)
         /\ SumOf(Asked(c, r)) = 65535
         /\ Asked(c, r)[1] = 2048 + c
<1>0. 0 \in Words /\ c \in Int /\ 0 <= c /\ c <= 255 /\ 8 * 256 + c = 2048 + c
  BY WordRange, ByteRange
<1>1. PICK a \in Words : a = 2048 + c /\ a # 0
  <2>1. 2048 + c \in Words
    BY <1>0, IsWord
  <2> QED
    BY <1>0, <2>1
<1>2. \A k : Echo(c, k, r) = Ahead(a, k, r)
  BY <1>0, <1>1 DEF Echo, Ahead
<1>3. PICK vs : vs = Ahead(a, 0, r)
  OBVIOUS
<1>4. PICK M \in Nat : M = N + 2 /\ 2 \in 1 .. M /\ 1 \in 1 .. M
  OBVIOUS
<1>5. /\ WordList(vs, M) /\ vs[1] = a /\ vs[2] = 0
      /\ \A k \in 3 .. M : vs[k] = r[k - 2]
  BY <1>0, <1>3, <1>4, TwoWordsAhead
<1>6. PICK t \in Words : t = SumOf(vs) /\ t # 0
  <2>1. SumOf(vs) \in Words /\ (SumOf(vs) = 0 => \A n \in 1 .. M : vs[n] = 0)
    BY ONLY <1>4, <1>5, SumOfIs
  <2>2. SumOf(vs) # 0
    BY ONLY <1>1, <1>4, <1>5, <2>1
  <2> QED
    BY <2>1, <2>2
<1>7. PICK k \in Words : k = 65535 - t /\ 0 <= k /\ k < 65535
  <2>1. t \in Int /\ 0 < t /\ t <= 65535
    BY <1>6, WordRange
  <2>2. 65535 - t \in Words
    BY <2>1, IsWord
  <2> QED
    BY <2>1, <2>2
<1>8. PICK ws : ws = Ahead(a, k, r)
  OBVIOUS
<1>9. /\ WordList(ws, M) /\ ws[1] = a /\ ws[2] = k
      /\ \A n \in 3 .. M : ws[n] = r[n - 2]
  <2>1. /\ WordList(Ahead(a, k, r), N + 2)
        /\ Ahead(a, k, r)[1] = a /\ Ahead(a, k, r)[2] = k
        /\ \A n \in 3 .. N + 2 : Ahead(a, k, r)[n] = r[n - 2]
    BY TwoWordsAhead
  <2> QED
    BY ONLY <1>4, <1>8, <2>1
<1>10. Asked(c, r) = ws
  BY <1>2, <1>3, <1>6, <1>7, <1>8 DEF Asked
<1>11. ASSUME NEW n \in 1 .. M, n # 2 PROVE ws[n] = vs[n]
  <2>1. n = 1 \/ n \in 3 .. M
    BY <1>11
  <2> QED
    BY <1>5, <1>9, <2>1
<1>12. k \in Int /\ -65535 < k /\ k < 65535 /\ k = ws[2] - vs[2]
  BY <1>5, <1>7, <1>9, WordRange
<1>13. Apart(RunningSum(0, ws)[M], RunningSum(0, vs)[M], k)
  BY ONLY <1>0, <1>4, <1>5, <1>9, <1>11, <1>12, OneWordApart
<1>14. PICK x \in Words : x = SumOf(ws) /\ x = RunningSum(0, ws)[M] /\ x # 0
  <2>1. /\ SumOf(ws) = RunningSum(0, ws)[M] /\ SumOf(ws) \in Words
        /\ SumOf(ws) = 0 => \A n \in 1 .. M : ws[n] = 0
    BY ONLY <1>4, <1>9, SumOfIs
  <2>2. SumOf(ws) # 0
    BY ONLY <1>1, <1>4, <1>9, <2>1
  <2> QED
    BY <2>1, <2>2
<1>15. Apart(x, t, k)
  BY <1>4, <1>5, <1>6, <1>13, <1>14, SumOfIs
<1>16. x = 65535
  <2>1. x \in Int /\ 0 <= x /\ x <= 65535 /\ t \in Int /\ 0 <= t /\ t <= 65535
    BY WordRange
  <2>2. x - t = k \/ x - t = k - 65535 \/ x - t = k + 65535
    BY <1>15 DEF Apart
  <2> QED
    BY <1>6, <1>7, <1>14, <2>1, <2>2
<1> QED
  BY <1>1, <1>4, <1>9, <1>10, <1>14, <1>16

\* Eight more in the type is eight less in the checksum, with the carry brought round.
LEMMA EchoChksumAdds ==
  ASSUME NEW chksum \in Words
  PROVE  /\ Htons(EchoChksum(Htons(chksum))) \in Words
         /\ \/ Htons(EchoChksum(Htons(chksum))) = chksum + 2048
            \/ Htons(EchoChksum(Htons(chksum))) = chksum + 2048 - 65535
<1>1. PICK h \in Bytes : h = HighByte(chksum)
  BY WordSplits
<1>2. PICK l \in Bytes : l = LowByte(chksum)
  BY WordSplits
<1>3. chksum = h * 256 + l /\ Htons(chksum) = l * 256 + h
  BY <1>1, <1>2, WordSplits DEF Htons
<1>4. h \in Int /\ 0 <= h /\ h <= 255 /\ l \in Int /\ 0 <= l /\ l <= 255
  BY ByteRange
<1>5. PICK w \in Int : w = l * 256 + h /\ 0 <= w /\ w <= 65535
  BY ONLY <1>4
<1>6. Htons(8 * 256) = 8 /\ Htons(65535 - 8 * 256) = 65527
  <2>1. /\ 8 * 256 = 2048 /\ 2048 \div 256 = 8 /\ 2048 % 256 = 0 /\ 0 * 256 + 8 = 8
        /\ 65535 - 2048 = 63487 /\ 63487 \div 256 = 247 /\ 63487 % 256 = 255
        /\ 255 * 256 + 247 = 65527
    OBVIOUS
  <2> QED
    BY <2>1 DEF Htons, HighByte, LowByte
<1>7. EchoChksum(w) = IF w >= 65527 THEN (w + 9) % 65536 ELSE (w + 8) % 65536
  <2>1. (w + 8) + 1 = w + 9
    BY ONLY <1>5
  <2> QED
    BY <1>6, <2>1 DEF EchoChksum
<1>8. \E a \in Bytes : \E b \in Bytes :
        /\ EchoChksum(w) = a * 256 + b
        /\ b * 256 + a = chksum + 2048 \/ b * 256 + a = chksum + 2048 - 65535
  <2>1. CASE w >= 65527
    <3>1. l = 255 /\ h >= 247
      BY ONLY <1>4, <1>5, <2>1
    <3>2. (w + 9) % 65536 = w + 9 - 65536
      BY ONLY <1>5, <2>1
    <3>3. 0 \in Bytes /\ h - 247 \in Bytes
      BY ONLY <1>4, <3>1, ByteRange
    <3>4. w + 9 - 65536 = 0 * 256 + (h - 247)
      BY ONLY <1>4, <1>5, <3>1
    <3>5. (h - 247) * 256 + 0 = chksum + 2048 - 65535
      BY ONLY <1>3, <1>4, <3>1
    <3> QED
      BY <1>7, <2>1, <3>2, <3>3, <3>4, <3>5
  <2>2. CASE w < 65527 /\ h + 8 <= 255
    <3>1. (w + 8) % 65536 = w + 8
      BY ONLY <1>5, <2>2
    <3>2. h + 8 \in Bytes
      BY ONLY <1>4, <2>2, ByteRange
    <3>3. w + 8 = l * 256 + (h + 8) /\ (h + 8) * 256 + l = chksum + 2048 /\ ~ (w >= 65527)
      BY ONLY <1>3, <1>4, <1>5, <2>2
    <3> QED
      BY <1>7, <3>1, <3>2, <3>3
  <2>3. CASE w < 65527 /\ h + 8 > 255
    <3>1. (w + 8) % 65536 = w + 8
      BY ONLY <1>5, <2>3
    <3>2. l < 255
      BY ONLY <1>4, <1>5, <2>3
    <3>3. l + 1 \in Bytes /\ h - 248 \in Bytes
      BY ONLY <1>4, <2>3, <3>2, ByteRange
    <3>4. /\ w + 8 = (l + 1) * 256 + (h - 248)
          /\ (h - 248) * 256 + (l + 1) = chksum + 2048 - 65535 /\ ~ (w >= 65527)
      BY ONLY <1>3, <1>4, <1>5, <2>3
    <3> QED
      BY <1>7, <3>1, <3>3, <3>4
  <2> QED
    BY ONLY <1>4, <1>5, <2>1, <2>2, <2>3
<1>9. PICK a \in Bytes : \E b \in Bytes :
        /\ EchoChksum(w) = a * 256 + b
        /\ b * 256 + a = chksum + 2048 \/ b * 256 + a = chksum + 2048 - 65535
  BY <1>8
<1>10. PICK b \in Bytes :
        /\ EchoChksum(w) = a * 256 + b
        /\ b * 256 + a = chksum + 2048 \/ b * 256 + a = chksum + 2048 - 65535
  BY <1>9
<1>11. a \in Int /\ 0 <= a /\ a <= 255 /\ b \in Int /\ 0 <= b /\ b <= 255
  BY ByteRange
<1>12. HighByte(a * 256 + b) = a /\ LowByte(a * 256 + b) = b
  <2>1. (a * 256 + b) \div 256 = a /\ (a * 256 + b) % 256 = b
    BY ONLY <1>11
  <2> QED
    BY <2>1 DEF HighByte, LowByte
<1>13. Htons(EchoChksum(Htons(chksum))) = b * 256 + a
  BY <1>3, <1>5, <1>10, <1>12 DEF Htons
<1>14. b * 256 + a \in Words
  BY ONLY <1>11, IsWord
<1> QED
  BY <1>10, <1>13, <1>14

\* The first two words of the answer add what the first two of the question did.
LEMMA EchoWordsApart ==
  ASSUME NEW c \in Bytes, NEW a \in Words, a = 2048 + c, NEW k \in Words, NEW k2 \in Words,
         k2 = k + 2048 \/ k2 = k + 2048 - 65535,
         NEW f0, NEW f1, NEW f2, f0 = 0, f1 = AddWord(f0, a), f2 = AddWord(f1, k),
         NEW g0, NEW g1, NEW g2, g0 = 0, g1 = AddWord(g0, c), g2 = AddWord(g1, k2)
  PROVE  Apart(f2, g2, 0)
<1>1. /\ c \in Int /\ 0 <= c /\ c <= 255 /\ a \in Int /\ 0 <= a /\ a <= 65535
      /\ k \in Int /\ 0 <= k /\ k <= 65535 /\ k2 \in Int /\ 0 <= k2 /\ k2 <= 65535
  BY WordRange, ByteRange
<1>2. f0 \in Words /\ g0 \in Words /\ c \in Words
  BY <1>1, WordRange
<1>3. f1 = a /\ g1 = c
  BY <1>1, <1>2, AddWordAdds
<1>4. f2 = IF a + k <= 65535 THEN a + k ELSE a + k - 65535
  BY <1>3, AddWordAdds
<1>5. g2 = IF c + k2 <= 65535 THEN c + k2 ELSE c + k2 - 65535
  BY <1>2, <1>3, AddWordAdds
<1> QED
  BY <1>1, <1>4, <1>5 DEF Apart

\* The answer to a ping has the sum the ping had; all that can come out as zero is zero.
THEOREM ReplyIsGood ==
  ASSUME NEW N \in Nat, N >= 2, NEW ws, WordList(ws, N), SumOf(ws) = 65535,
         NEW c \in Bytes, ws[1] = 2048 + c
  PROVE  /\ WordList(EchoReply(ws), N) /\ EchoReply(ws)[1] = c
         /\ SumOf(EchoReply(ws)) = 65535 \/ \A i \in 1 .. N : EchoReply(ws)[i] = 0
<1>0. /\ 0 \in Words /\ c \in Words /\ 1 \in 1 .. N /\ 2 \in 1 .. N /\ 2 \in 0 .. N
      /\ c \in Int /\ 0 <= c /\ c <= 255
  BY WordRange, ByteRange
<1>1. ws \in [1 .. N -> Words] /\ Len(ws) = N /\ ws \in Seq(Words)
  BY DEF WordList
<1>2. PICK a \in Words : a = ws[1] /\ a = 2048 + c
  BY <1>0, <1>1
<1>3. PICK k \in Words : k = ws[2]
  <2>1. ws[2] \in Words
    BY ONLY <1>0, <1>1
  <2> QED
    BY ONLY <2>1, Zenon
<1>4. PICK k2 \in Words : /\ k2 = Htons(EchoChksum(Htons(k)))
                          /\ k2 = k + 2048 \/ k2 = k + 2048 - 65535
  BY EchoChksumAdds
<1>5. LowByte(ws[1]) = c
  <2>1. (2048 + c) % 256 = c
    BY ONLY <1>0
  <2> QED
    BY <2>1 DEF LowByte
<1>6. PICK M \in Nat : M = N - 2
  OBVIOUS
<1>7. PICK r : r = SubSeq(ws, 3, Len(ws))
  BY ONLY <1>6, Zenon
<1>8. WordList(r, M) /\ \A i \in 1 .. M : r[i] = ws[i + 2]
  <2>1. \A i \in 3 .. N : ws[i] \in Words
    BY <1>1
  <2>2. Len(r) = M /\ r \in Seq(Words) /\ \A i \in 1 .. M : r[i] = ws[i + 2]
    BY <1>1, <1>6, <1>7, <2>1, SubSeqProperties
  <2> QED
    BY <2>2 DEF WordList
<1>9. PICK vs : vs = Ahead(c, k2, r)
  OBVIOUS
<1>10. EchoReply(ws) = vs
  BY <1>3, <1>4, <1>5, <1>7, <1>9 DEF EchoReply, Ahead
<1>11. /\ WordList(vs, N) /\ vs[1] = c /\ vs[2] = k2
       /\ \A i \in 3 .. N : vs[i] = ws[i]
  <2>1. /\ WordList(vs, M + 2) /\ vs[1] = c /\ vs[2] = k2
        /\ \A i \in 3 .. M + 2 : vs[i] = r[i - 2]
    <3>1. c \in Words /\ k2 \in Words /\ M \in Nat /\ WordList(r, M)
      BY ONLY <1>0, <1>4, <1>6, <1>8
    <3>2. /\ WordList(Ahead(c, k2, r), M + 2)
          /\ Ahead(c, k2, r)[1] = c /\ Ahead(c, k2, r)[2] = k2
          /\ \A i \in 3 .. M + 2 : Ahead(c, k2, r)[i] = r[i - 2]
      BY ONLY <3>1, TwoWordsAhead
    <3> QED
      BY ONLY <1>9, <3>2
  <2>2. M + 2 = N /\ \A i \in 3 .. N : i - 2 \in 1 .. M /\ (i - 2) + 2 = i
    BY <1>6
  <2> QED
    BY <1>8, <2>1, <2>2
<1>12. PICK f : f = RunningSum(0, ws)
  OBVIOUS
<1>13. PICK g : g = RunningSum(0, vs)
  OBVIOUS
<1>14. f \in [0 .. N -> Words] /\ f[0] = 0 /\ \A n \in 1 .. N : f[n] = AddWord(f[n - 1], ws[n])
  BY <1>0, <1>12, SumLoops DEF LoopOf
<1>15. g \in [0 .. N -> Words] /\ g[0] = 0 /\ \A n \in 1 .. N : g[n] = AddWord(g[n - 1], vs[n])
  BY <1>0, <1>11, <1>13, SumLoops DEF LoopOf
<1>16. /\ f[2] = AddWord(f[1], k) /\ f[1] = AddWord(f[0], a) /\ f[0] = 0
       /\ g[2] = AddWord(g[1], k2) /\ g[1] = AddWord(g[0], c) /\ g[0] = 0
  <2>1. 2 - 1 = 1 /\ 1 - 1 = 0
    OBVIOUS
  <2>2. f[2] = AddWord(f[1], k) /\ f[1] = AddWord(f[0], a)
    BY <1>0, <1>2, <1>3, <1>14, <2>1
  <2>3. g[2] = AddWord(g[1], k2) /\ g[1] = AddWord(g[0], c)
    BY <1>0, <1>11, <1>15, <2>1
  <2> QED
    BY <1>14, <1>15, <2>2, <2>3
<1>17. Apart(f[2], g[2], 0)
  BY ONLY <1>2, <1>3, <1>4, <1>16, EchoWordsApart
<1>18. InStep(f, g, 2, N)
  <2> SUFFICES ASSUME NEW n \in 2 + 1 .. N
               PROVE  \E w \in Words : f[n] = AddWord(f[n - 1], w) /\ g[n] = AddWord(g[n - 1], w)
    BY DEF InStep
  <2>1. n \in 1 .. N /\ n \in 3 .. N
    OBVIOUS
  <2>2. PICK w \in Words : w = ws[n] /\ w = vs[n]
    BY <1>1, <1>11, <2>1
  <2>3. f[n] = AddWord(f[n - 1], w) /\ g[n] = AddWord(g[n - 1], w)
    BY ONLY <1>14, <1>15, <2>1, <2>2
  <2> QED
    BY <2>3
<1>19. Apart(f[N], g[N], 0)
  <2>1. 0 \in Int /\ -65535 < 0 /\ 0 < 65535
    OBVIOUS
  <2>2. f \in [0 .. N -> Words] /\ g \in [0 .. N -> Words] /\ 2 \in 0 .. N /\ N \in Nat
    BY <1>0, <1>14, <1>15
  <2> QED
    BY ONLY <1>17, <1>18, <2>1, <2>2, SumsStayApart
<1>20. SumOf(ws) = f[N]
  BY <1>12, SumOfIs
<1>21. PICK y \in Words : y = SumOf(vs) /\ y = g[N] /\ (y = 0 => \A i \in 1 .. N : vs[i] = 0)
  BY <1>11, <1>13, SumOfIs
<1>22. y = 65535 \/ y = 0
  <2>1. Apart(65535, y, 0)
    BY <1>19, <1>20, <1>21
  <2>2. y \in Int /\ 0 <= y /\ y <= 65535
    BY WordRange
  <2> QED
    BY <2>1, <2>2 DEF Apart
<1> QED
  BY <1>10, <1>11, <1>21, <1>22

----------------------------------------------------------------------------
\* A packet that is as it was sent adds up; one that is not does not.
AddsUp(p) == Segment(p, 5) /\ TcpSum(Addresses, p) = 65535

PacketInv ==
  /\ intact \in BOOLEAN
  /\ intact => AddsUp(packet)
  /\ ~ intact => ~ SumIsGood(TcpSum(Addresses, packet))

\* A packet is taken if it is as it was sent, and refused if one byte of it is not
\* (uip_process(), uip_tcpchksum(), chksum()).
LEMMA PacketsAreJudged == IpSpec => []DamageIsFound
<1>0. EdgeBytes \subseteq Bytes
  BY ByteRange DEF EdgeBytes
<1>1. IpInit => PacketInv
  <2> SUFFICES ASSUME IpInit PROVE PacketInv
    OBVIOUS
  <2>1. \E d \in [1 .. 3 -> Bytes] : packet = Sealed(d)
    <3>1. packet = NoData \/ \E d \in [1 .. 3 -> EdgeBytes] : packet = Sealed(d)
      BY DEF IpInit
    <3>2. <<0, 0, 0>> \in [1 .. 3 -> Bytes]
      <4>1. 0 \in Bytes
        BY ByteRange
      <4> QED
        BY <4>1
    <3>3. [1 .. 3 -> EdgeBytes] \subseteq [1 .. 3 -> Bytes]
      BY <1>0
    <3> QED
      BY ONLY <3>1, <3>2, <3>3 DEF NoData
  <2>2. PICK d \in [1 .. 3 -> Bytes] : packet = Sealed(d)
    BY <2>1
  <2>3. Segment(d, 3)
    BY DEF Segment
  <2>4. Segment(packet, 5) /\ TcpSum(Addresses, packet) = 65535
    <3>1. 3 \in Nat /\ 3 <= 60000 /\ 3 + 2 = 5
      OBVIOUS
    <3>2. Segment(Sealed(d), 3 + 2) /\ TcpSum(Addresses, Sealed(d)) = 65535
      BY ONLY <2>3, <3>1, SealedIsGood
    <3> QED
      BY ONLY <2>2, <3>1, <3>2
  <2>5. intact = TRUE
    BY DEF IpInit
  <2> QED
    BY ONLY <2>4, <2>5 DEF PacketInv, AddsUp
<1>2. PacketInv /\ [IpNext]_ipVars => PacketInv'
  <2> SUFFICES ASSUME PacketInv, [IpNext]_ipVars PROVE PacketInv'
    OBVIOUS
  <2>1. ASSUME NEW i \in 1 .. 5, NEW x \in EdgeBytes, Damage(i, x) PROVE PacketInv'
    <3>1. intact /\ x # packet[i] /\ packet' = [packet EXCEPT ![i] = x] /\ intact' = FALSE
      BY <2>1 DEF Damage
    <3>2. Segment(packet, 5) /\ TcpSum(Addresses, packet) = 65535
      BY <3>1 DEF PacketInv, AddsUp
    <3>3. x \in Bytes /\ i \in 1 .. 5 /\ packet \in [1 .. 5 -> Bytes]
      BY <1>0, <3>2 DEF Segment
    <3>4. packet' \in [1 .. 5 -> Bytes] /\ packet'[i] = x
          /\ \A k \in 1 .. 5 : k # i => packet[k] = packet'[k]
      BY ONLY <3>1, <3>3
    <3>5. Segment(packet', 5) /\ DifferAt(packet, packet', i, 5)
      BY ONLY <3>1, <3>3, <3>4 DEF Segment, DifferAt
    <3>6. 5 \in Nat /\ 5 <= 65000
      OBVIOUS
    <3>7. ~ SumIsGood(TcpSum(Addresses, packet'))
      BY ONLY <3>2, <3>3, <3>5, <3>6, DamageIsBad
    <3>8. intact' \in BOOLEAN /\ ~ intact'
      BY ONLY <3>1
    <3> QED
      BY ONLY <3>7, <3>8, Zenon DEF PacketInv
  <2>2. CASE UNCHANGED <<packet, intact>>
    <3>1. packet' = packet /\ intact' = intact
      BY <2>2
    <3> QED
      BY <3>1 DEF PacketInv
  <2>3. (\E i \in 1 .. 5, x \in EdgeBytes : Damage(i, x)) \/ UNCHANGED <<packet, intact>>
    BY DEF IpNext, Grow, Answer, ipVars
  <2> QED
    BY ONLY <2>1, <2>2, <2>3
<1>3. PacketInv => DamageIsFound
  <2>1. 65535 \in Words
    BY WordRange
  <2>2. SumIsGood(65535)
    BY <2>1, GoodSums
  <2> QED
    BY <2>2 DEF PacketInv, AddsUp, DamageIsFound
<1> QED
  BY <1>1, <1>2, <1>3, PTL DEF IpSpec

\* A ping, and the answer to it: four words, of which the first is the type and the code.
PingInv ==
  \/ ping = <<>>
  \/ /\ WordList(ping, 4)
     /\ \E c \in {0, 1} : \/ ping[1] = 2048 + c /\ SumOf(ping) = 65535
                          \/ /\ ping[1] = c
                             /\ SumOf(ping) = 65535 \/ \A i \in 1 .. 4 : ping[i] = 0

\* The sender of a ping believes the answer (uip_process(), its ICMP part).
LEMMA EchoesAreBelieved == IpSpec => []EchoIsBelieved
<1>0. {0, 1} \subseteq Bytes /\ EdgeWords \subseteq Words
  BY ByteRange, WordRange DEF EdgeWords
<1>1. IpInit => PingInv
  <2> SUFFICES ASSUME IpInit, ping # <<>> PROVE PingInv
    BY DEF PingInv
  <2>1. PICK c \in {0, 1}, r \in [1 .. 2 -> EdgeWords] : ping = Asked(c, r)
    BY DEF IpInit
  <2>2. c \in Bytes /\ WordList(r, 2)
    BY <1>0 DEF WordList
  <2>3. 2 \in Nat /\ 2 + 2 = 4
    OBVIOUS
  <2>4. WordList(Asked(c, r), 2 + 2) /\ SumOf(Asked(c, r)) = 65535 /\ Asked(c, r)[1] = 2048 + c
    BY ONLY <2>2, <2>3, AskedIsGood
  <2> QED
    BY ONLY <2>1, <2>3, <2>4 DEF PingInv
<1>2. PingInv /\ [IpNext]_ipVars => PingInv'
  <2> SUFFICES ASSUME PingInv, [IpNext]_ipVars PROVE PingInv'
    OBVIOUS
  <2>1. CASE Answer
    <3>1. ping # <<>> /\ HighByte(ping[1]) = 8 /\ ping' = EchoReply(ping)
      BY <2>1 DEF Answer
    <3>2. WordList(ping, 4)
      BY ONLY <3>1, PingInv DEF PingInv
    <3>3. PICK c \in {0, 1} : \/ ping[1] = 2048 + c /\ SumOf(ping) = 65535
                              \/ ping[1] = c
      BY ONLY <3>1, PingInv DEF PingInv
    <3>4. ping[1] # c
      <4>1. c \div 256 = 0
        OBVIOUS
      <4> QED
        BY ONLY <3>1, <4>1 DEF HighByte
    <3>5. 4 \in Nat /\ 4 >= 2 /\ c \in Bytes
      BY <1>0
    <3>6. /\ WordList(EchoReply(ping), 4) /\ EchoReply(ping)[1] = c
          /\ SumOf(EchoReply(ping)) = 65535 \/ \A i \in 1 .. 4 : EchoReply(ping)[i] = 0
      BY ONLY <3>2, <3>3, <3>4, <3>5, ReplyIsGood
    <3> QED
      BY ONLY <3>1, <3>3, <3>6 DEF PingInv
  <2>2. CASE UNCHANGED ping
    BY ONLY <2>2, PingInv DEF PingInv
  <2>3. Answer \/ UNCHANGED ping
    BY DEF IpNext, Grow, Damage, ipVars
  <2> QED
    BY ONLY <2>1, <2>2, <2>3
<1>3. PingInv => EchoIsBelieved
  <2> SUFFICES ASSUME PingInv, ping # <<>>
               PROVE  SumOf(ping) = 65535 \/ \A i \in DOMAIN ping : ping[i] = 0
    BY DEF EchoIsBelieved
  <2>1. WordList(ping, 4) /\ (SumOf(ping) = 65535 \/ \A i \in 1 .. 4 : ping[i] = 0)
    BY DEF PingInv
  <2>2. DOMAIN ping = 1 .. 4
    BY <2>1 DEF WordList
  <2> QED
    BY ONLY <2>1, <2>2
<1> QED
  BY <1>1, <1>2, <1>3, PTL DEF IpSpec

\* The arithmetic of uip.c is what it should be: numbers add up, damage is found,
\* answers to pings are believed.
THEOREM ArithmeticIsRight == IpSpec => []ArithmeticHolds
<1>1. NumbersAddUp /\ DamageIsFound /\ EchoIsBelieved <=> ArithmeticHolds
  BY DEF ArithmeticHolds
<1> QED
  BY <1>1, NumbersGrow, PacketsAreJudged, EchoesAreBelieved, PTL

----------------------------------------------------------------------------
\* What a header is made of, its checksum apart.
FwHeaders ==
  [key : FwKeys, ttl : Bytes, chksum : Words, rest : Words,
   seqno : [1 .. 4 -> Bytes], data : Seq(Nat)]

LEMMA HeaderWords ==
  ASSUME NEW ttl \in Bytes, NEW proto \in Bytes
  PROVE  TtlWord(ttl, proto) \in Words /\ TtlWord(ttl, proto) >= ttl
BY WordRange DEF TtlWord, Bytes

\* A sum that is calculated makes a good header, whatever is in it.
LEMMA SummedIsGood ==
  ASSUME NEW p \in FwHeaders
  PROVE  /\ Summed(p) \in FwHeaders /\ HeaderIsGood(Summed(p))
         /\ Summed(p).key = p.key /\ Summed(p).data = p.data /\ Summed(p).seqno = p.seqno
         /\ Summed(p).ttl = p.ttl
<1>1. p.ttl \in Bytes /\ p.key \in FwKeys /\ p.rest \in Words
  BY DEF FwHeaders
<1>2. p.key.proto \in Bytes
  BY <1>1 DEF FwKeys
<1>3. Others(p) \in Words
  BY <1>1, <1>2, HeaderWords, AddWordAdds DEF Others
<1>4. PICK w \in Words : w = 65535 - Others(p)
  BY <1>3, WordRange
<1>5. Summed(p) = [p EXCEPT !.chksum = w]
  BY <1>4 DEF Summed
<1>6. /\ Summed(p) \in FwHeaders /\ Summed(p).chksum = w
      /\ Summed(p).ttl = p.ttl /\ Summed(p).key = p.key /\ Summed(p).rest = p.rest
      /\ Summed(p).data = p.data /\ Summed(p).seqno = p.seqno
  BY <1>5 DEF FwHeaders
<1>7. Others(Summed(p)) = Others(p)
  BY <1>6 DEF Others
<1>8. PICK a \in Words : a = Others(p)
  BY <1>3
<1>9. AddWord(a, w) = IF a + w <= 65535 THEN a + w ELSE a + w - 65535
  BY AddWordAdds
<1>10. AddWord(a, w) = 65535
  BY <1>4, <1>8, <1>9, WordRange
<1> QED
  BY <1>6, <1>7, <1>8, <1>10 DEF HeaderIsGood

\* What other nodes send has a good header.
LEMMA ComingIsGood ==
  ASSUME NEW a \in Arrivals
  PROVE  Coming(a) \in FwHeaders /\ HeaderIsGood(Coming(a))
<1>1. a.key \in FwKeys /\ a.ttl \in Bytes /\ a.chksum \in Words
  BY ForwardingAssumption
<1>2. a.key.proto \in Bytes
  BY <1>1 DEF FwKeys
<1>3. PICK t \in Words : t = TtlWord(a.ttl, a.key.proto)
  BY <1>1, <1>2, HeaderWords
<1>4. PICK c \in Words : c = a.chksum
  BY <1>1
<1>5. PICK s \in Words : /\ s = AddWord(t, c)
                         /\ s = IF t + c <= 65535 THEN t + c ELSE t + c - 65535
  BY AddWordAdds
<1>6. PICK r \in Words : r = 65535 - s
  BY WordRange
<1>7. PICK o \in Words : /\ o = AddWord(t, r)
                         /\ o = IF t + r <= 65535 THEN t + r ELSE t + r - 65535
  BY AddWordAdds
<1>8. AddWord(o, c) = IF o + c <= 65535 THEN o + c ELSE o + c - 65535
  BY AddWordAdds
<1>9. AddWord(o, c) = 65535
  BY <1>5, <1>6, <1>7, <1>8, WordRange
<1>10. Coming(a) = [key |-> a.key, ttl |-> a.ttl, chksum |-> c, rest |-> r,
                    seqno |-> <<0, 0, 0, 0>>, data |-> <<>>]
  BY <1>3, <1>4, <1>5, <1>6 DEF Coming
<1>11. <<0, 0, 0, 0>> \in [1 .. 4 -> Bytes]
  BY DEF Bytes
<1>12. Coming(a) \in FwHeaders
  BY <1>1, <1>10, <1>11 DEF FwHeaders
<1>13. /\ Coming(a).ttl = a.ttl /\ Coming(a).key = a.key /\ Coming(a).rest = r
       /\ Coming(a).chksum = c
  BY <1>10
<1>14. Others(Coming(a)) = o
  <2>1. PICK p : p = Coming(a)
    OBVIOUS
  <2>2. p.ttl = a.ttl /\ p.key = a.key /\ p.rest = r
    BY <1>13, <2>1
  <2>3. Others(p) = AddWord(TtlWord(a.ttl, a.key.proto), r)
    BY <2>2 DEF Others
  <2>4. o = AddWord(t, r)
    BY <1>7
  <2> QED
    BY <1>3, <2>1, <2>3, <2>4, Zenon
<1> QED
  BY <1>9, <1>12, <1>13, <1>14 DEF HeaderIsGood

\* The header is repaired by adding to the checksum what the TTL loses: at both ends
\* of its range it is right as well, since a header with a TTL has a sum of its own.
LEMMA HopIsGood ==
  ASSUME NEW p \in FwHeaders, HeaderIsGood(p), p.ttl > 1
  PROVE  Hop(p) \in FwHeaders /\ HeaderIsGood(Hop(p)) /\ Hop(p).key = p.key
<1>1. p.ttl \in Bytes /\ p.key \in FwKeys /\ p.rest \in Words /\ p.chksum \in Words
  BY DEF FwHeaders
<1>2. p.key.proto \in Bytes
  BY <1>1 DEF FwKeys
<1>3. p.ttl - 1 \in Bytes
  BY <1>1 DEF Bytes
<1>4. PICK t \in Words : t = TtlWord(p.ttl, p.key.proto)
  BY <1>1, <1>2, HeaderWords
<1>5. PICK u \in Words : u = TtlWord(p.ttl - 1, p.key.proto)
  BY <1>2, <1>3, HeaderWords
<1>6. u = t - 1 /\ t >= 2
  <2>1. PICK l \in 2 .. 255 : l = p.ttl
    BY <1>1 DEF Bytes
  <2>2. PICK h \in 0 .. 255 : h = p.key.proto
    BY <1>2 DEF Bytes
  <2> QED
    BY <1>4, <1>5, <2>1, <2>2 DEF TtlWord
<1>7. PICK r \in Words : r = p.rest
  BY <1>1
<1>8. PICK o \in Words : /\ o = AddWord(t, r)
                         /\ o = IF t + r <= 65535 THEN t + r ELSE t + r - 65535
  BY AddWordAdds
<1>9. PICK q \in Words : /\ q = AddWord(u, r)
                         /\ q = IF u + r <= 65535 THEN u + r ELSE u + r - 65535
  BY AddWordAdds
<1>10. PICK c \in Words : c = p.chksum
  BY <1>1
<1>11. (IF o + c <= 65535 THEN o + c ELSE o + c - 65535) = 65535
  <2>1. Others(p) = o
    BY <1>4, <1>7, <1>8 DEF Others
  <2>2. AddWord(o, c) = 65535
    BY <1>10, <2>1 DEF HeaderIsGood
  <2> QED
    BY <2>2, AddWordAdds
<1>12. Htons(65535 - 256) = 65534 /\ Htons(256) = 1
  BY DEF Htons, LowByte, HighByte
<1>13. PICK d \in Words : /\ d = IF c >= 65534 THEN (c + 1 + 1) % 65536 ELSE (c + 1) % 65536
                          /\ d = IF c >= 65534 THEN c + 2 - 65536 ELSE c + 1
  <2>1. c \in Int /\ 0 <= c /\ c <= 65535
    BY WordRange
  <2>2. CASE c >= 65534
    <3>1. (c + 1 + 1) % 65536 = c + 2 - 65536
      BY <2>1, <2>2
    <3>2. c + 2 - 65536 \in Words
      BY <2>1, <2>2, WordRange
    <3> QED
      BY <2>2, <3>1, <3>2
  <2>3. CASE ~ (c >= 65534)
    <3>1. (c + 1) % 65536 = c + 1
      BY <2>1, <2>3
    <3>2. c + 1 \in Words
      BY <2>1, <2>3, WordRange
    <3> QED
      BY <2>3, <3>1, <3>2
  <2> QED
    BY <2>2, <2>3
<1>14. Repaired(c) = d
  BY <1>12, <1>13 DEF Repaired
<1>15. Hop(p) = [p EXCEPT !.ttl = p.ttl - 1, !.chksum = d]
  BY <1>10, <1>14 DEF Hop
<1>16. /\ Hop(p) \in FwHeaders
       /\ Hop(p).ttl = p.ttl - 1 /\ Hop(p).key = p.key /\ Hop(p).rest = r
       /\ Hop(p).chksum = d
  BY <1>3, <1>7, <1>15 DEF FwHeaders
<1>17. Others(Hop(p)) = q
  BY <1>5, <1>9, <1>16 DEF Others
<1>18. (IF q + d <= 65535 THEN q + d ELSE q + d - 65535) = 65535
  BY <1>6, <1>8, <1>9, <1>11, <1>13, WordRange
<1>19. AddWord(q, d) = 65535
  BY <1>18, AddWordAdds
<1> QED
  BY <1>16, <1>17, <1>19 DEF HeaderIsGood

\* The answer that a packet's time is over.
LEMMA TimeExceededIsGood ==
  ASSUME NEW p \in FwHeaders, p.key.src \in FwHosts \cup {Us}
  PROVE  /\ TimeExceeded(p) \in FwHeaders /\ HeaderIsGood(TimeExceeded(p))
         /\ TimeExceeded(p).ttl = 64
<1> DEFINE key == [id |-> p.key.id, src |-> Us, dest |-> p.key.src, proto |-> Icmp]
           q   == [p EXCEPT !.key = key, !.ttl = 64]
<1>1. key \in FwKeys
  <2>1. p.key \in FwKeys
    BY DEF FwHeaders
  <2> QED
    BY <2>1 DEF FwKeys, Icmp, Bytes
<1>2. q \in FwHeaders /\ q.ttl = 64
  <2>1. 64 \in Bytes
    BY DEF Bytes
  <2> HIDE DEF key
  <2> QED
    BY <1>1, <2>1 DEF FwHeaders
<1>3. TimeExceeded(p) = Summed(q)
  BY DEF TimeExceeded, FwHeaders
<1> HIDE DEF q
<1> QED
  BY <1>2, <1>3, SummedIsGood

----------------------------------------------------------------------------
\* As many packets as the cache has entries, and none of them the i-th, were sent
\* when the i-th was or since, the first n of the list being looked at.
Displaced(list, i, n) ==
  \E f \in [Entries -> 1 .. n] :
    /\ \A d, e \in Entries : f[d] = f[e] => d = e
    /\ \A e \in Entries : f[e] # i /\ list[f[e]].age <= list[i].age

\* m names for each entry in use the packet it was made for.
Names(m, cache, list) ==
  /\ \A e \in Entries :
       cache[e].timer > 0 =>
         /\ m[e] \in DOMAIN list
         /\ list[m[e]].key = cache[e].key
         /\ cache[e].timer + list[m[e]].age = FwTime
  /\ \A d, e \in Entries :
       cache[d].timer > 0 /\ cache[e].timer > 0 /\ m[d] = m[e] => d = e

\* The cache holds each packet sent that has not been displaced.
Follows(cache, list) ==
  \E m \in [Entries -> Nat] :
    /\ Names(m, cache, list)
    /\ \A i \in DOMAIN list :
         \/ \E e \in Entries : cache[e].timer > 0 /\ m[e] = i
         \/ Displaced(list, i, Len(list))

\* What SentOnOnce says, without counting.
OncePerCache(list) ==
  \A i, j \in DOMAIN list :
    i < j /\ list[j].how = "on" /\ list[i].key = list[j].key => Displaced(list, i, j - 1)

SentPackets == [key : FwKeys, how : {"on", "own"}, age : 0 .. FwTime - 1]
Caches      == [Entries -> [timer : 0 .. FwTime, key : FwKeys]]

CacheInv ==
  /\ fwcache \in Caches /\ sent \in Seq(SentPackets)
  /\ Follows(fwcache, sent) /\ OncePerCache(sent)

----------------------------------------------------------------------------
\* The entry that is written is one of the cache, and in a full one none is older.
LEMMA SlotIsOldest ==
  ASSUME NEW cache \in Caches
  PROVE  /\ Slot(cache) \in Entries
         /\ cache[Slot(cache)].timer > 0 =>
              \A e \in Entries : 0 < cache[Slot(cache)].timer
                                 /\ cache[Slot(cache)].timer <= cache[e].timer
<1> DEFINE free == {i \in Entries : cache[i].timer = 0}
           old  == {i \in Entries : \A j \in Entries : cache[i].timer <= cache[j].timer}
<1>0. CacheSize \in Nat /\ CacheSize > 0
  BY ForwardingAssumption
<1>1. Entries \subseteq Nat /\ Entries # {} /\ \A i \in Entries : CacheSize - i \in Nat
  BY <1>0 DEF Entries
<1>2. \A i \in Entries : cache[i].timer \in Nat
  BY DEF Caches
<1>3. CASE free # {}
  <2>1. \E i \in free : \A j \in free : i <= j
    BY <1>1, <1>3, FirstOfNaturals
  <2>2. Slot(cache) = CHOOSE i \in free : \A j \in free : i <= j
    BY <1>3 DEF Slot
  <2>3. Slot(cache) \in free
    BY <2>1, <2>2
  <2> QED
    BY <2>3
<1>4. CASE free = {}
  <2>1. old # {}
    <3> DEFINE timers == {cache[i].timer : i \in Entries}
    <3>1. timers # {} /\ timers \subseteq Nat
      BY <1>1, <1>2
    <3>2. PICK t \in timers : \A u \in timers : t <= u
      BY <3>1, FirstOfNaturals
    <3>3. PICK i \in Entries : cache[i].timer = t
      BY <3>2
    <3>4. \A j \in Entries : cache[i].timer <= cache[j].timer
      BY <3>2, <3>3
    <3> QED
      BY <3>3, <3>4
  <2>2. \E i \in old : \A j \in old : j <= i
    <3> DEFINE back == {CacheSize - i : i \in old}
    <3>1. back # {} /\ back \subseteq Nat
      BY <1>1, <2>1
    <3>2. PICK b \in back : \A c \in back : b <= c
      BY <3>1, FirstOfNaturals
    <3>3. PICK i \in old : b = CacheSize - i
      BY <3>2
    <3>4. \A j \in old : CacheSize - i <= CacheSize - j
      BY <3>2, <3>3
    <3>5. \A j \in old : j <= i
      BY <1>0, <1>1, <3>4
    <3> QED
      BY <3>5
  <2>3. Slot(cache) = CHOOSE i \in old : \A j \in old : j <= i
    BY <1>4 DEF Slot
  <2>4. Slot(cache) \in old
    BY <2>2, <2>3
  <2>5. Slot(cache) \in Entries /\ \A j \in Entries : cache[Slot(cache)].timer <= cache[j].timer
    BY <2>4
  <2> QED
    BY <2>5, <1>2
<1> QED
  BY <1>3, <1>4

\* uip_fw_output() of a packet: it is the last of the list, and it displaces the
\* packet whose entry it takes, if there is one.
LEMMA RegisteredFollows ==
  ASSUME NEW cache \in Caches, NEW list \in Seq(SentPackets), Follows(cache, list),
         NEW key \in FwKeys, NEW how \in {"on", "own"}
  PROVE  LET next == Append(list, [key |-> key, how |-> how, age |-> 0])
         IN  /\ Registered(cache, key) \in Caches /\ next \in Seq(SentPackets)
             /\ Follows(Registered(cache, key), next)
<1> DEFINE new  == [key |-> key, how |-> how, age |-> 0]
           next == Append(list, new)
           n    == Len(list)
           into == Registered(cache, key)
<1>1. FwTime \in Nat /\ FwTime > 0
  BY ForwardingAssumption
<1>2. PICK x \in Entries : x = Slot(cache)
  BY SlotIsOldest
<1>3. cache[x].timer > 0 => \A e \in Entries : 0 < cache[x].timer
                                               /\ cache[x].timer <= cache[e].timer
  BY <1>2, SlotIsOldest
<1>4. new \in SentPackets /\ next \in Seq(SentPackets)
  BY <1>1 DEF SentPackets
<1>5. /\ n \in Nat /\ DOMAIN list = 1 .. n /\ DOMAIN next = 1 .. (n + 1)
      /\ \A i \in 1 .. n : next[i] = list[i]
      /\ next[n + 1] = new
  OBVIOUS
<1>6. [timer |-> FwTime, key |-> key] \in [timer : 0 .. FwTime, key : FwKeys]
  BY <1>1
<1>7. into = [cache EXCEPT ![x] = [timer |-> FwTime, key |-> key]]
  BY <1>2 DEF Registered
<1>8. into \in Caches
  BY <1>6, <1>7 DEF Caches
<1>9. /\ into[x] = [timer |-> FwTime, key |-> key]
      /\ \A e \in Entries : e # x => into[e] = cache[e]
      /\ \A e \in Entries : cache[e].timer \in 0 .. FwTime
  BY <1>7 DEF Caches
<1>10. \A i \in 1 .. n : list[i].age \in 0 .. FwTime - 1
  <2>1. \A i \in 1 .. n : list[i] \in SentPackets
    BY <1>5
  <2> QED
    BY <2>1 DEF SentPackets
<1>11. PICK m \in [Entries -> Nat] :
         /\ Names(m, cache, list)
         /\ \A i \in DOMAIN list :
              \/ \E e \in Entries : cache[e].timer > 0 /\ m[e] = i
              \/ Displaced(list, i, Len(list))
  BY DEF Follows
<1> DEFINE to == [m EXCEPT ![x] = n + 1]
<1>12. /\ to \in [Entries -> Nat]
       /\ to[x] = n + 1
       /\ \A e \in Entries : e # x => to[e] = m[e]
  BY <1>5
<1>13. /\ \A e \in Entries :
            cache[e].timer > 0 =>
              /\ m[e] \in 1 .. n
              /\ list[m[e]].key = cache[e].key
              /\ cache[e].timer + list[m[e]].age = FwTime
       /\ \A d, e \in Entries :
            cache[d].timer > 0 /\ cache[e].timer > 0 /\ m[d] = m[e] => d = e
  BY <1>5, <1>11 DEF Names
<1> HIDE DEF new, next, n, into, to
<1>14. Names(to, into, next)
  <2>1. ASSUME NEW e \in Entries, into[e].timer > 0
        PROVE  /\ to[e] \in DOMAIN next
               /\ next[to[e]].key = into[e].key
               /\ into[e].timer + next[to[e]].age = FwTime
    <3>1. CASE e = x
      BY <1>1, <1>5, <1>9, <1>12, <3>1 DEF new
    <3>2. CASE e # x
      BY <1>5, <1>9, <1>12, <1>13, <2>1, <3>2
    <3> QED
      BY <3>1, <3>2
  <2>2. ASSUME NEW d \in Entries, NEW e \in Entries,
               into[d].timer > 0, into[e].timer > 0, to[d] = to[e]
        PROVE  d = e
    <3>1. \A a \in Entries : a # x /\ into[a].timer > 0 => to[a] \in 1 .. n /\ to[a] = m[a]
                                                          /\ cache[a].timer > 0
      BY <1>9, <1>12, <1>13
    <3>2. n + 1 \notin 1 .. n
      BY <1>5
    <3> QED
      BY <1>12, <1>13, <2>2, <3>1, <3>2
  <2> QED
    BY <2>1, <2>2 DEF Names
<1>15. ASSUME NEW i \in 1 .. n, Displaced(list, i, n)
       PROVE  Displaced(next, i, n + 1)
  <2>1. PICK f \in [Entries -> 1 .. n] :
          /\ \A d, e \in Entries : f[d] = f[e] => d = e
          /\ \A e \in Entries : f[e] # i /\ list[f[e]].age <= list[i].age
    BY <1>15 DEF Displaced
  <2>2. f \in [Entries -> 1 .. (n + 1)]
    BY <1>5
  <2>3. \A e \in Entries : f[e] # i /\ next[f[e]].age <= next[i].age
    BY <1>5, <2>1
  <2> QED
    BY <2>1, <2>2, <2>3 DEF Displaced
<1>16. ASSUME NEW i \in 1 .. n, cache[x].timer > 0, m[x] = i
       PROVE  Displaced(next, i, n + 1)
  <2>1. \A e \in Entries : cache[e].timer > 0 /\ cache[x].timer <= cache[e].timer
    BY <1>3, <1>9, <1>16
  <2>2. \A e \in Entries : e # x => to[e] \in 1 .. n /\ to[e] # i /\ list[to[e]].age <= list[i].age
    <3> TAKE e \in Entries
    <3> HAVE e # x
    <3>1. to[e] = m[e] /\ m[e] \in 1 .. n /\ m[e] # i
      BY <1>12, <1>13, <1>16, <2>1
    <3>2. cache[e].timer + list[m[e]].age = FwTime /\ cache[x].timer + list[i].age = FwTime
      BY <1>13, <1>16, <2>1
    <3>3. list[m[e]].age \in Int /\ list[i].age \in Int
      BY <1>10, <3>1
    <3>4. cache[e].timer \in Int /\ cache[x].timer \in Int /\ cache[x].timer <= cache[e].timer
      BY <1>9, <2>1
    <3>5. list[m[e]].age <= list[i].age
      BY <1>1, <3>2, <3>3, <3>4
    <3> QED
      BY <3>1, <3>5
  <2>3. to \in [Entries -> 1 .. (n + 1)]
    <3>1. \A e \in Entries : to[e] \in 1 .. (n + 1)
      BY <1>5, <1>12, <2>2
    <3> QED
      BY <1>12, <3>1
  <2>4. \A d, e \in Entries : to[d] = to[e] => d = e
    <3>1. \A d, e \in Entries : m[d] = m[e] => d = e
      BY <1>13, <2>1
    <3>2. \A e \in Entries : e # x => to[e] # n + 1
      BY <1>5, <2>2
    <3> QED
      BY <1>12, <3>1, <3>2
  <2>5. \A e \in Entries : to[e] # i /\ next[to[e]].age <= next[i].age
    <3>1. list[i].age \in 0 .. FwTime - 1 /\ next[i] = list[i] /\ i # n + 1
      BY <1>5, <1>10
    <3>2. next[to[x]].age = 0
      BY <1>5, <1>12 DEF new
    <3>3. \A e \in Entries : e # x => next[to[e]] = list[to[e]]
      BY <1>5, <2>2
    <3>4. 0 <= next[i].age
      BY <1>1, <3>1
    <3>5. \A e \in Entries : e # x => to[e] # i /\ next[to[e]].age <= next[i].age
      BY <2>2, <3>1, <3>3
    <3>6. to[x] # i /\ next[to[x]].age <= next[i].age
      BY <1>12, <3>1, <3>2, <3>4
    <3> QED
      BY <3>5, <3>6
  <2> QED
    BY <2>3, <2>4, <2>5 DEF Displaced
<1>17. ASSUME NEW i \in DOMAIN next
       PROVE  \/ \E e \in Entries : into[e].timer > 0 /\ to[e] = i
              \/ Displaced(next, i, Len(next))
  <2>1. Len(next) = n + 1
    BY DEF next, n
  <2>2. CASE i = n + 1
    BY <1>1, <1>9, <1>12, <2>2
  <2>3. CASE i # n + 1
    <3>1. i \in 1 .. n
      BY <1>5, <2>3
    <3>2. CASE Displaced(list, i, n)
      BY <1>15, <2>1, <3>1, <3>2
    <3>3. ASSUME NEW e \in Entries, cache[e].timer > 0, m[e] = i
          PROVE  \/ \E d \in Entries : into[d].timer > 0 /\ to[d] = i
                 \/ Displaced(next, i, Len(next))
      <4>1. CASE e = x
        BY <1>16, <2>1, <3>1, <3>3, <4>1
      <4>2. CASE e # x
        BY <1>9, <1>12, <3>3, <4>2
      <4> QED
        BY <4>1, <4>2
    <3>4. Len(list) = n /\ DOMAIN list = 1 .. n
      BY <1>5 DEF n
    <3> QED
      BY <1>11, <3>1, <3>2, <3>3, <3>4
  <2> QED
    BY <2>2, <2>3
<1>18. Follows(into, next)
  BY <1>12, <1>14, <1>17 DEF Follows
<1> QED
  BY <1>4, <1>8, <1>18 DEF next, new, into

----------------------------------------------------------------------------
\* What a list becomes when its first n are too old.
Aged(list, n) == [i \in 1 .. Len(list) - n |-> [list[i + n] EXCEPT !.age = @ + 1]]

\* Those that displace a packet stay as long as it does.
LEMMA AgedDisplaced ==
  ASSUME NEW list \in Seq(SentPackets), NEW n \in 0 .. Len(list),
         \A i \in DOMAIN list : i <= n <=> list[i].age + 1 = FwTime,
         NEW i \in 1 .. Len(list) - n, NEW k \in n .. Len(list), Displaced(list, i + n, k)
  PROVE  Displaced(Aged(list, n), i, k - n)
<1>1. FwTime \in Nat /\ FwTime > 0
  BY ForwardingAssumption
<1>2. /\ Len(list) \in Nat /\ DOMAIN list = 1 .. Len(list) /\ k \in Nat /\ n \in Nat
      /\ i + n \in DOMAIN list /\ i + n > n
      /\ \A h \in DOMAIN list : list[h].age \in 0 .. FwTime - 1
  <2>1. \A h \in DOMAIN list : list[h] \in SentPackets
    OBVIOUS
  <2>2. \A h \in DOMAIN list : list[h].age \in 0 .. FwTime - 1
    BY <2>1 DEF SentPackets
  <2>3. Len(list) \in Nat /\ DOMAIN list = 1 .. Len(list) /\ k \in Nat /\ n \in Nat
    OBVIOUS
  <2> QED
    BY <2>2, <2>3
<1>3. PICK f \in [Entries -> 1 .. k] :
        /\ \A d, e \in Entries : f[d] = f[e] => d = e
        /\ \A e \in Entries : f[e] # i + n /\ list[f[e]].age <= list[i + n].age
  BY DEF Displaced
<1>4. \A e \in Entries : f[e] \in DOMAIN list /\ f[e] \in 1 .. k
  BY <1>2, <1>3
<1>5. \A e \in Entries : f[e] > n
  <2> TAKE e \in Entries
  <2>1. list[i + n].age < FwTime - 1
    BY <1>1, <1>2
  <2>2. list[f[e]].age <= list[i + n].age /\ list[f[e]].age \in Int /\ list[i + n].age \in Int
    BY <1>2, <1>3, <1>4
  <2>3. list[f[e]].age + 1 # FwTime
    BY <1>1, <2>1, <2>2
  <2> QED
    BY <1>2, <1>4, <2>3
<1>6. \A h \in 1 .. Len(list) - n :
        /\ h + n \in DOMAIN list
        /\ Aged(list, n)[h].age = list[h + n].age + 1
  <2> TAKE h \in 1 .. Len(list) - n
  <2>1. h + n \in DOMAIN list /\ list[h + n] \in SentPackets
    BY <1>2
  <2>2. Aged(list, n)[h] = [list[h + n] EXCEPT !.age = @ + 1]
    BY DEF Aged
  <2> QED
    BY <2>1, <2>2 DEF SentPackets
<1> DEFINE g == [e \in Entries |-> f[e] - n]
<1>7. \A e \in Entries : g[e] \in 1 .. (k - n) /\ g[e] \in 1 .. Len(list) - n /\ g[e] + n = f[e]
  BY <1>2, <1>4, <1>5
<1> HIDE DEF g
<1>8. g \in [Entries -> 1 .. (k - n)]
  BY <1>7 DEF g
<1>9. \A d, e \in Entries : g[d] = g[e] => d = e
  BY <1>3, <1>7
<1>10. \A e \in Entries : g[e] # i /\ Aged(list, n)[g[e]].age <= Aged(list, n)[i].age
  <2> TAKE e \in Entries
  <2>1. g[e] # i
    BY <1>3, <1>7
  <2>2. Aged(list, n)[g[e]].age = list[f[e]].age + 1
    BY <1>6, <1>7
  <2>3. Aged(list, n)[i].age = list[i + n].age + 1
    BY <1>6
  <2>4. list[f[e]].age <= list[i + n].age /\ list[f[e]].age \in Int /\ list[i + n].age \in Int
    BY <1>2, <1>3, <1>4
  <2> QED
    BY <2>1, <2>2, <2>3, <2>4
<1> QED
  BY <1>8, <1>9, <1>10 DEF Displaced

\* uip_fw_periodic(): what is no longer in the list has no entry any more.
LEMMA AgedFollows ==
  ASSUME NEW cache \in Caches, NEW list \in Seq(SentPackets), Follows(cache, list),
         NEW n \in 0 .. Len(list),
         \A i \in DOMAIN list : i <= n <=> list[i].age + 1 = FwTime,
         NEW older,
         older = [e \in Entries |->
                    [cache[e] EXCEPT !.timer = IF @ > 0 THEN @ - 1 ELSE 0]]
  PROVE  older \in Caches /\ Aged(list, n) \in Seq(SentPackets) /\ Follows(older, Aged(list, n))
<1>1. FwTime \in Nat /\ FwTime > 0
  BY ForwardingAssumption
<1>2. \A e \in Entries :
        /\ older[e] \in [timer : 0 .. FwTime, key : FwKeys]
        /\ older[e].key = cache[e].key
        /\ cache[e].timer \in 0 .. FwTime
        /\ older[e].timer = IF cache[e].timer > 0 THEN cache[e].timer - 1 ELSE 0
  <2> TAKE e \in Entries
  <2>1. cache[e] \in [timer : 0 .. FwTime, key : FwKeys]
    BY DEF Caches
  <2>2. older[e] = [cache[e] EXCEPT !.timer = IF @ > 0 THEN @ - 1 ELSE 0]
    OBVIOUS
  <2> QED
    BY <1>1, <2>1, <2>2
<1>3. older \in Caches
  BY <1>2 DEF Caches
<1>4. Len(list) \in Nat /\ DOMAIN list = 1 .. Len(list) /\ n \in Nat
  OBVIOUS
<1>5. \A h \in DOMAIN list : list[h] \in SentPackets /\ list[h].age \in 0 .. FwTime - 1
  <2>1. \A h \in DOMAIN list : list[h] \in SentPackets
    OBVIOUS
  <2> QED
    BY <2>1 DEF SentPackets
<1>6. \A h \in 1 .. Len(list) - n :
        /\ h + n \in DOMAIN list
        /\ Aged(list, n)[h].age = list[h + n].age + 1
        /\ Aged(list, n)[h].key = list[h + n].key
        /\ Aged(list, n)[h] \in SentPackets
        /\ list[h + n].age + 1 # FwTime
  <2> TAKE h \in 1 .. Len(list) - n
  <2>1. h + n \in DOMAIN list /\ list[h + n] \in SentPackets /\ ~(h + n <= n)
    BY <1>4
  <2>2. Aged(list, n)[h] = [list[h + n] EXCEPT !.age = @ + 1]
    BY DEF Aged
  <2>3. list[h + n].age \in 0 .. FwTime - 1 /\ list[h + n].age + 1 # FwTime
    BY <1>5, <2>1
  <2>4. list[h + n].age + 1 \in 0 .. FwTime - 1
    BY <1>1, <2>3
  <2> QED
    BY <2>1, <2>2, <2>3, <2>4 DEF SentPackets
<1>7. /\ Aged(list, n) \in Seq(SentPackets)
      /\ Len(Aged(list, n)) = Len(list) - n
      /\ DOMAIN Aged(list, n) = 1 .. Len(list) - n
  <2>1. Aged(list, n) \in [1 .. Len(list) - n -> SentPackets]
    BY <1>6 DEF Aged
  <2> QED
    BY <1>4, <2>1
<1>8. PICK m \in [Entries -> Nat] :
        /\ Names(m, cache, list)
        /\ \A i \in DOMAIN list :
             \/ \E e \in Entries : cache[e].timer > 0 /\ m[e] = i
             \/ Displaced(list, i, Len(list))
  BY DEF Follows
<1> DEFINE to == [e \in Entries |-> IF m[e] > n THEN m[e] - n ELSE 0]
<1>9. to \in [Entries -> Nat] /\ \A e \in Entries : m[e] > n => to[e] + n = m[e]
  BY <1>4, <1>8
<1> HIDE DEF to
<1>10. ASSUME NEW e \in Entries, older[e].timer > 0
       PROVE  /\ cache[e].timer > 0 /\ m[e] \in DOMAIN list /\ m[e] > n /\ to[e] + n = m[e]
              /\ to[e] \in 1 .. Len(list) - n
              /\ list[m[e]].key = older[e].key
              /\ older[e].timer + list[m[e]].age + 1 = FwTime
  <2>1. cache[e].timer > 0 /\ older[e].timer = cache[e].timer - 1
    BY <1>2, <1>10
  <2>2. /\ m[e] \in DOMAIN list /\ list[m[e]].key = cache[e].key
        /\ cache[e].timer + list[m[e]].age = FwTime
    BY <1>8, <2>1 DEF Names
  <2>3. list[m[e]].age \in Int /\ cache[e].timer \in Int
    BY <1>2, <1>5, <2>2
  <2>4. older[e].timer + list[m[e]].age + 1 = FwTime /\ list[m[e]].age + 1 # FwTime
    BY <1>1, <1>10, <2>1, <2>2, <2>3
  <2>5. m[e] > n
    BY <1>4, <2>2, <2>4
  <2>6. to[e] + n = m[e] /\ to[e] \in Nat
    BY <1>9, <2>5
  <2>7. to[e] \in 1 .. Len(list) - n
    BY <1>4, <2>2, <2>5, <2>6
  <2> QED
    BY <1>2, <2>1, <2>2, <2>4, <2>5, <2>6, <2>7
<1>11. Names(to, older, Aged(list, n))
  <2>1. ASSUME NEW e \in Entries, older[e].timer > 0
        PROVE  /\ to[e] \in DOMAIN Aged(list, n)
               /\ Aged(list, n)[to[e]].key = older[e].key
               /\ older[e].timer + Aged(list, n)[to[e]].age = FwTime
    <3>1. /\ to[e] \in 1 .. Len(list) - n /\ to[e] + n = m[e] /\ m[e] \in DOMAIN list
          /\ list[m[e]].key = older[e].key /\ older[e].timer + list[m[e]].age + 1 = FwTime
      BY <1>10, <2>1
    <3>2. Aged(list, n)[to[e]].age = list[m[e]].age + 1
          /\ Aged(list, n)[to[e]].key = list[m[e]].key
      BY <1>6, <3>1
    <3>3. list[m[e]].age \in Int /\ older[e].timer \in Int
      BY <1>2, <1>5, <3>1
    <3> QED
      BY <1>1, <1>7, <3>1, <3>2, <3>3
  <2>2. ASSUME NEW d \in Entries, NEW e \in Entries,
               older[d].timer > 0, older[e].timer > 0, to[d] = to[e]
        PROVE  d = e
    <3>1. cache[d].timer > 0 /\ cache[e].timer > 0 /\ m[d] = to[d] + n /\ m[e] = to[e] + n
      BY <1>10, <2>2
    <3> QED
      BY <1>8, <2>2, <3>1 DEF Names
  <2> QED
    BY <2>1, <2>2 DEF Names
<1>12. ASSUME NEW i \in 1 .. Len(list) - n
       PROVE  \/ \E e \in Entries : older[e].timer > 0 /\ to[e] = i
              \/ Displaced(Aged(list, n), i, Len(list) - n)
  <2>1. i + n \in DOMAIN list /\ i + n > n /\ list[i + n].age + 1 # FwTime
    BY <1>4, <1>6
  <2>2. CASE Displaced(list, i + n, Len(list))
    <3>1. Len(list) \in n .. Len(list)
      BY <1>4
    <3> QED
      BY <2>2, <3>1, AgedDisplaced
  <2>3. ASSUME NEW e \in Entries, cache[e].timer > 0, m[e] = i + n
        PROVE  older[e].timer > 0 /\ to[e] = i
    <3>1. cache[e].timer + list[i + n].age = FwTime
      BY <1>8, <2>3 DEF Names
    <3>2. list[i + n].age \in 0 .. FwTime - 1 /\ cache[e].timer \in 0 .. FwTime
      BY <1>2, <1>5, <2>1
    <3>3. cache[e].timer > 1
      BY <1>1, <2>1, <3>1, <3>2
    <3>4. older[e].timer = cache[e].timer - 1
      BY <1>2, <2>3
    <3>5. to[e] + n = i + n /\ to[e] \in Nat
      BY <1>9, <2>1, <2>3
    <3> QED
      BY <1>4, <3>2, <3>3, <3>4, <3>5
  <2> QED
    BY <1>8, <2>1, <2>2, <2>3
<1>13. Follows(older, Aged(list, n))
  BY <1>7, <1>9, <1>11, <1>12 DEF Follows
<1> QED
  BY <1>3, <1>7, <1>13

----------------------------------------------------------------------------
\* What displaces a packet does so in a list that has grown.
LEMMA DisplacedInLonger ==
  ASSUME NEW list \in Seq(SentPackets), NEW new, NEW i \in DOMAIN list,
         NEW k \in 0 .. Len(list), Displaced(list, i, k)
  PROVE  Displaced(Append(list, new), i, k)
<1>1. PICK f \in [Entries -> 1 .. k] :
        /\ \A d, e \in Entries : f[d] = f[e] => d = e
        /\ \A e \in Entries : f[e] # i /\ list[f[e]].age <= list[i].age
  BY DEF Displaced
<1>2. \A h \in 1 .. k : Append(list, new)[h] = list[h]
  OBVIOUS
<1>3. Append(list, new)[i] = list[i]
  OBVIOUS
<1>4. \A e \in Entries :
        f[e] # i /\ Append(list, new)[f[e]].age <= Append(list, new)[i].age
  BY <1>1, <1>2, <1>3
<1> QED
  BY <1>1, <1>4 DEF Displaced

LEMMA AppendOnce ==
  ASSUME NEW list \in Seq(SentPackets), OncePerCache(list), NEW new,
         new.how = "on" => \A i \in DOMAIN list : list[i].key = new.key
                                                    => Displaced(list, i, Len(list))
  PROVE  OncePerCache(Append(list, new))
<1> DEFINE next == Append(list, new)
<1>1. /\ Len(list) \in Nat /\ DOMAIN list = 1 .. Len(list)
      /\ DOMAIN next = 1 .. (Len(list) + 1)
      /\ \A i \in 1 .. Len(list) : next[i] = list[i]
      /\ next[Len(list) + 1] = new
  OBVIOUS
<1> SUFFICES ASSUME NEW i \in DOMAIN next, NEW j \in DOMAIN next, i < j,
                    next[j].how = "on", next[i].key = next[j].key
             PROVE  Displaced(next, i, j - 1)
  BY DEF OncePerCache
<1> HIDE DEF next
<1>2. i \in DOMAIN list /\ j - 1 \in 0 .. Len(list) /\ next[i] = list[i]
  BY <1>1
<1>3. Displaced(list, i, j - 1)
  <2>1. CASE j = Len(list) + 1
    BY <1>1, <1>2, <2>1
  <2>2. CASE j # Len(list) + 1
    <3>1. j \in DOMAIN list /\ next[j] = list[j]
      BY <1>1, <2>2
    <3> QED
      BY <1>2, <3>1 DEF OncePerCache
  <2> QED
    BY <2>1, <2>2
<1> QED
  BY <1>2, <1>3, DisplacedInLonger DEF next

\* A packet the cache does not know, though it was sent, has been displaced.
LEMMA UnknownIsDisplaced ==
  ASSUME NEW list, NEW cache, Follows(cache, list), NEW i \in DOMAIN list,
         ~ \E e \in Entries : cache[e].timer # 0 /\ cache[e].key = list[i].key
  PROVE  Displaced(list, i, Len(list))
<1>1. PICK m \in [Entries -> Nat] :
        /\ Names(m, cache, list)
        /\ \A h \in DOMAIN list :
             \/ \E e \in Entries : cache[e].timer > 0 /\ m[e] = h
             \/ Displaced(list, h, Len(list))
  BY DEF Follows
<1>2. ASSUME NEW e \in Entries, cache[e].timer > 0, m[e] = i PROVE FALSE
  <2>1. cache[e].key = list[i].key
    BY <1>1, <1>2 DEF Names
  <2>2. cache[e].timer # 0
    BY <1>2
  <2> QED
    BY <2>1, <2>2
<1> QED
  BY <1>1, <1>2

LEMMA OneMore ==
  ASSUME NEW S, NEW s \in Seq(S), NEW r \in S, NEW one, one = [i \in 1 .. 1 |-> r]
  PROVE  s \o one = Append(s, r)
<1>1. one \in Seq(S) /\ Len(one) = 1 /\ one[1] = r
  OBVIOUS
<1>2. s \o one \in Seq(S) /\ Append(s, r) \in Seq(S)
  BY <1>1
<1>3. Len(s \o one) = Len(Append(s, r))
  BY <1>1
<1>4. \A i \in 1 .. Len(s \o one) : (s \o one)[i] = Append(s, r)[i]
  BY <1>1
<1> QED
  BY <1>2, <1>3, <1>4, SeqEqual

LEMMA TwoMore ==
  ASSUME NEW S, NEW s \in Seq(S), NEW r \in S, NEW two, two = [i \in 1 .. 2 |-> r]
  PROVE  s \o two = Append(Append(s, r), r)
<1>1. two \in Seq(S) /\ Len(two) = 2 /\ two[1] = r /\ two[2] = r
  OBVIOUS
<1>2. s \o two \in Seq(S) /\ Append(Append(s, r), r) \in Seq(S)
  BY <1>1
<1>3. Len(s \o two) = Len(Append(Append(s, r), r))
  BY <1>1
<1>4. \A i \in 1 .. Len(s \o two) : (s \o two)[i] = Append(Append(s, r), r)[i]
  BY <1>1
<1> QED
  BY <1>2, <1>3, <1>4, SeqEqual

\* One packet or the two parts of a segment; one that is sent on is not in the cache.
LEMMA FwOutputKeepsCache ==
  ASSUME CacheInv, NEW packets, NEW how \in {"on", "own"}, FwOutput(packets, how),
         packets[1].key \in FwKeys,
         DOMAIN packets = 1 .. Len(packets), Len(packets) \in {1, 2},
         how = "on" => Len(packets) = 1 /\ ~Known(packets[1].key)
  PROVE  CacheInv'
<1> DEFINE key  == packets[1].key
           new  == [key |-> key, how |-> how, age |-> 0]
           once == Registered(fwcache, key)
           list == Append(sent, new)
<1>1. fwcache \in Caches /\ sent \in Seq(SentPackets) /\ Follows(fwcache, sent)
      /\ OncePerCache(sent)
  BY DEF CacheInv
<1>2. once \in Caches /\ list \in Seq(SentPackets) /\ Follows(once, list)
  BY <1>1, RegisteredFollows
<1>3. Registered(once, key) \in Caches /\ Append(list, new) \in Seq(SentPackets)
      /\ Follows(Registered(once, key), Append(list, new))
  BY <1>2, RegisteredFollows
<1>4. new \in SentPackets
  BY ForwardingAssumption DEF SentPackets
<1>5. /\ fwcache' = IF Len(packets) = 1 THEN once ELSE Registered(once, key)
      /\ sent' = sent \o [i \in DOMAIN packets |-> new]
  BY DEF FwOutput
<1>6. new.how = how /\ new.key = key
  OBVIOUS
<1>7. OncePerCache(list)
  <2>1. ASSUME how = "on", NEW i \in DOMAIN sent, sent[i].key = key
        PROVE  Displaced(sent, i, Len(sent))
    <3>1. ~ \E e \in Entries : fwcache[e].timer # 0 /\ fwcache[e].key = sent[i].key
      BY <2>1 DEF Known
    <3> QED
      BY <1>1, <3>1, UnknownIsDisplaced
  <2> HIDE DEF new, key
  <2> QED
    BY <1>1, <1>6, <2>1, AppendOnce
<1> HIDE DEF new, once, key
<1>8. CASE Len(packets) = 1
  <2>1. sent' = list
    BY <1>1, <1>4, <1>5, <1>8, OneMore
  <2> QED
    BY <1>2, <1>5, <1>7, <1>8, <2>1 DEF CacheInv
<1>9. CASE Len(packets) = 2
  <2>1. sent' = Append(list, new)
    BY <1>1, <1>4, <1>5, <1>9, TwoMore
  <2>2. how = "own"
    BY <1>9
  <2>3. OncePerCache(Append(list, new))
    <3>1. new.how # "on"
      BY <1>6, <2>2
    <3> QED
      BY <1>2, <1>7, <3>1, AppendOnce
  <2>4. fwcache' = Registered(once, key)
    BY <1>5, <1>9
  <2> HIDE DEF list
  <2> QED
    BY <1>3, <2>1, <2>3, <2>4 DEF CacheInv
<1> QED
  BY <1>8, <1>9

LEMMA FwPeriodicKeepsCache == CacheInv /\ FwPeriodic => CacheInv'
<1> SUFFICES ASSUME CacheInv, FwPeriodic PROVE CacheInv'
  OBVIOUS
<1>1. fwcache \in Caches /\ sent \in Seq(SentPackets) /\ Follows(fwcache, sent)
      /\ OncePerCache(sent)
  BY DEF CacheInv
<1>2. PICK n \in 0 .. Len(sent) :
        /\ \A i \in DOMAIN sent : i <= n <=> sent[i].age + 1 = FwTime
        /\ sent' = Aged(sent, n)
  BY DEF FwPeriodic, Aged
<1>3. fwcache' \in Caches /\ sent' \in Seq(SentPackets) /\ Follows(fwcache', sent')
  BY <1>1, <1>2, AgedFollows DEF FwPeriodic
<1>4. ASSUME NEW i \in DOMAIN sent', NEW j \in DOMAIN sent', i < j,
             sent'[j].how = "on", sent'[i].key = sent'[j].key
      PROVE  Displaced(sent', i, j - 1)
  <2>1. Len(sent) \in Nat /\ DOMAIN sent = 1 .. Len(sent) /\ n \in Nat
    BY <1>1
  <2>2. DOMAIN sent' = 1 .. Len(sent) - n
    BY <1>2 DEF Aged
  <2>3. \A h \in DOMAIN sent' : h + n \in DOMAIN sent /\ sent[h + n] \in SentPackets
                                /\ sent'[h] = [sent[h + n] EXCEPT !.age = @ + 1]
    <3>1. \A h \in DOMAIN sent : sent[h] \in SentPackets
      BY <1>1
    <3>2. \A h \in DOMAIN sent' : h + n \in DOMAIN sent
      BY <2>1, <2>2
    <3>3. \A h \in DOMAIN sent' : sent'[h] = [sent[h + n] EXCEPT !.age = @ + 1]
      BY <1>2, <2>2 DEF Aged
    <3> QED
      BY <3>1, <3>2, <3>3
  <2>4. \A h \in DOMAIN sent' : sent'[h].how = sent[h + n].how /\ sent'[h].key = sent[h + n].key
    <3> TAKE h \in DOMAIN sent'
    <3>1. sent[h + n] \in SentPackets /\ sent'[h] = [sent[h + n] EXCEPT !.age = @ + 1]
      BY <2>3
    <3> QED
      BY <3>1 DEF SentPackets
  <2>5. i + n \in DOMAIN sent /\ j + n \in DOMAIN sent /\ i + n < j + n
    BY <1>4, <2>1, <2>2
  <2>6. Displaced(sent, i + n, (j + n) - 1)
    BY <1>1, <1>4, <2>4, <2>5 DEF OncePerCache
  <2>7. (j + n) - 1 \in n .. Len(sent) /\ ((j + n) - 1) - n = j - 1
    BY <2>1, <2>2
  <2> QED
    BY <1>1, <1>2, <2>2, <2>6, <2>7, AgedDisplaced
<1>5. OncePerCache(sent')
  BY <1>4 DEF OncePerCache
<1> QED
  BY <1>3, <1>5 DEF CacheInv

----------------------------------------------------------------------------
\* The segments of the node itself.
LEMMA OwnIsGood ==
  ASSUME NEW p \in Own
  PROVE  /\ p \in FwHeaders /\ HeaderIsGood(p)
         /\ p.seqno = <<0, 0, 255, 254>>
         /\ Len(p.data) = MaxSegment => p.data = [n \in 1 .. MaxSegment |-> n]
<1> DEFINE Bare(i, d, l) ==
      [key |-> [id |-> i, src |-> Us, dest |-> d, proto |-> Tcp], ttl |-> 64,
       chksum |-> 0, rest |-> 0, seqno |-> <<0, 0, 255, 254>>,
       data |-> [n \in 1 .. l |-> n]]
<1>0. Own = {Summed(Bare(i, d, l)) : i \in OwnIds, d \in FwHosts, l \in {1, MaxSegment}}
  BY DEF Own
<1>1. PICK i \in OwnIds, d \in FwHosts, l \in {1, MaxSegment} : p = Summed(Bare(i, d, l))
  <2> HIDE DEF Bare
  <2> QED
    BY <1>0
<1>2. PICK key \in FwKeys : key = [id |-> i, src |-> Us, dest |-> d, proto |-> Tcp]
  <2>1. i \in Nat /\ 6 \in Bytes
    BY ForwardingAssumption, ByteRange
  <2> QED
    BY <2>1 DEF FwKeys, Tcp
<1>3. PICK seqno \in [1 .. 4 -> Bytes] : seqno = <<0, 0, 255, 254>>
  <2>1. 0 \in Bytes /\ 254 \in Bytes /\ 255 \in Bytes
    BY ByteRange
  <2>2. PICK s : s = [n \in 1 .. 4 |-> IF n <= 2 THEN 0 ELSE IF n = 3 THEN 255 ELSE 254]
    OBVIOUS
  <2>3. s \in [1 .. 4 -> Bytes]
    BY <2>1, <2>2
  <2>4. s = <<0, 0, 255, 254>>
    BY <2>2
  <2> QED
    BY <2>3, <2>4
<1>4. l \in Nat
  BY ForwardingAssumption, WordRange
<1>5. PICK data \in Seq(Nat) : data = [n \in 1 .. l |-> n] /\ Len(data) = l
  <2>1. PICK data : data = [n \in 1 .. l |-> n]
    OBVIOUS
  <2>2. data \in [1 .. l -> Nat]
    BY <1>4, <2>1
  <2>3. data \in Seq(Nat)
    BY <1>4, <2>2
  <2>4. Len(data) = l
    BY <1>4, <2>2
  <2> QED
    BY <2>1, <2>3, <2>4
<1>6. PICK q : q = [key |-> key, ttl |-> 64, chksum |-> 0, rest |-> 0, seqno |-> seqno,
                    data |-> data]
  OBVIOUS
<1>7. 64 \in Bytes /\ 0 \in Words
  BY ByteRange, WordRange
<1>8. q \in FwHeaders /\ q.seqno = seqno /\ q.data = data
  BY <1>6, <1>7 DEF FwHeaders
<1>9. p = Summed(q)
  BY <1>1, <1>2, <1>3, <1>5, <1>6
<1>10. p \in FwHeaders /\ HeaderIsGood(p) /\ p.seqno = seqno /\ p.data = data
  BY <1>8, <1>9, SummedIsGood
<1>11. Len(p.data) = MaxSegment => p.data = [n \in 1 .. MaxSegment |-> n]
  BY <1>5, <1>10
<1> QED
  BY <1>3, <1>10, <1>11

\* uip_split_output(): the parts put together are the segment, and the number of the
\* second is that of its first byte.
LEMMA HalvesAreWhole ==
  ASSUME NEW p \in FwHeaders, p.seqno = <<0, 0, 255, 254>>,
         p.data = [n \in 1 .. MaxSegment |-> n]
  PROVE  LET one == Halves(p)[1]
             two == Halves(p)[2]
         IN  /\ one \in FwHeaders /\ two \in FwHeaders
             /\ one.key = p.key /\ two.key = p.key
             /\ one.data \o two.data = [n \in 1 .. MaxSegment |-> n]
             /\ one.seqno = p.seqno
             /\ two.seqno = Add32(p.seqno, Len(one.data))
             /\ Len(one.data) \in Words
<1>1. MaxSegment \in Int /\ 0 <= MaxSegment /\ MaxSegment <= 65535
  BY ForwardingAssumption, WordRange
<1>2. PICK s \in Seq(Nat) : s = p.data /\ Len(s) = MaxSegment
                            /\ \A n \in 1 .. MaxSegment : s[n] = n
  BY <1>1 DEF FwHeaders
<1>3. PICK k : k = MaxSegment \div 2
  OBVIOUS
<1>4. k \in Nat /\ k <= MaxSegment /\ k <= 65535
  BY <1>1, <1>3
<1>5. PICK a \in Seq(Nat) : a = SubSeq(s, 1, k) /\ Len(a) = k /\ \A n \in 1 .. k : a[n] = n
  <2>1. \A n \in 1 .. k : s[n] \in Nat
    BY <1>1, <1>2, <1>4
  <2>2. PICK x : x = SubSeq(s, 1, k)
    OBVIOUS
  <2>3. /\ x \in Seq(Nat)
        /\ Len(x) = IF 1 <= k THEN k - 1 + 1 ELSE 0
        /\ \A n \in 1 .. k - 1 + 1 : x[n] = s[1 + n - 1]
    BY <1>4, <2>1, <2>2, SubSeqProperties
  <2>4. Len(x) = k
    BY <1>4, <2>3
  <2>5. ASSUME NEW n \in 1 .. k PROVE x[n] = n
    <3>1. n \in 1 .. k - 1 + 1 /\ 1 + n - 1 = n /\ n \in 1 .. MaxSegment
      BY <1>1, <1>4
    <3> QED
      BY <1>2, <2>3, <3>1
  <2> QED
    BY <2>2, <2>3, <2>4, <2>5
<1>6. PICK b \in Seq(Nat) : b = SubSeq(s, k + 1, MaxSegment) /\ Len(b) = MaxSegment - k
                            /\ \A n \in 1 .. MaxSegment - k : b[n] = k + n
  <2>1. \A n \in k + 1 .. MaxSegment : s[n] \in Nat
    BY <1>1, <1>2, <1>4
  <2>2. PICK x : x = SubSeq(s, k + 1, MaxSegment)
    OBVIOUS
  <2>3. /\ x \in Seq(Nat)
        /\ Len(x) = IF k + 1 <= MaxSegment THEN MaxSegment - (k + 1) + 1 ELSE 0
        /\ \A n \in 1 .. MaxSegment - (k + 1) + 1 : x[n] = s[(k + 1) + n - 1]
    BY <1>1, <1>4, <2>1, <2>2, SubSeqProperties
  <2>4. Len(x) = MaxSegment - k
    <3>1. PICK y : y = Len(x) /\ y = IF k + 1 <= MaxSegment THEN MaxSegment - (k + 1) + 1 ELSE 0
      BY <2>3
    <3>2. y = MaxSegment - k
      BY <1>1, <1>4, <3>1
    <3> QED
      BY <3>1, <3>2
  <2>5. ASSUME NEW n \in 1 .. MaxSegment - k PROVE x[n] = k + n
    <3>1. /\ n \in 1 .. MaxSegment - (k + 1) + 1 /\ (k + 1) + n - 1 = k + n
          /\ k + n \in 1 .. MaxSegment
      BY <1>1, <1>4
    <3> QED
      BY <1>2, <2>3, <3>1
  <2> QED
    BY <2>2, <2>3, <2>4, <2>5
<1>7. a \o b = s
  <2>1. a \o b \in Seq(Nat) /\ Len(a \o b) = Len(s)
    BY <1>1, <1>2, <1>4, <1>5, <1>6
  <2>2. \A n \in 1 .. Len(s) : (a \o b)[n] = s[n]
    BY <1>1, <1>2, <1>4, <1>5, <1>6
  <2> QED
    BY <2>1, <2>2, SeqEqual
<1>8. k \in Words
  <2>1. k \in Int /\ 0 <= k /\ k <= 65535
    BY <1>4
  <2> QED
    BY <2>1, IsWord
<1>9. PICK number \in [1 .. 4 -> Bytes] : number = Add32(p.seqno, k)
  <2>1. p.seqno \in [1 .. 4 -> Bytes]
    BY DEF FwHeaders
  <2> QED
    BY <1>8, <2>1, Add32Adds
<1>10. Halves(p) = << [p EXCEPT !.data = a], [p EXCEPT !.data = b, !.seqno = number] >>
  BY <1>2, <1>3, <1>5, <1>6, <1>9 DEF Halves
<1>11. PICK one : one = [p EXCEPT !.data = a]
  OBVIOUS
<1>12. PICK two : two = [p EXCEPT !.data = b, !.seqno = number]
  OBVIOUS
<1>13. Halves(p)[1] = one /\ Halves(p)[2] = two
  BY <1>10, <1>11, <1>12
<1>14. one \in FwHeaders /\ one.key = p.key /\ one.data = a /\ one.seqno = p.seqno
  BY <1>11 DEF FwHeaders
<1>15. two \in FwHeaders /\ two.key = p.key /\ two.data = b /\ two.seqno = number
  BY <1>12 DEF FwHeaders
<1>16. one.data \o two.data = [n \in 1 .. MaxSegment |-> n]
  BY <1>2, <1>7, <1>14, <1>15
<1>17. two.seqno = Add32(p.seqno, Len(one.data)) /\ Len(one.data) \in Words
  BY <1>5, <1>8, <1>9, <1>14, <1>15
<1> QED
  BY <1>13, <1>14, <1>15, <1>16, <1>17

----------------------------------------------------------------------------
FwInv == CacheInv /\ HeadersStayGood /\ PartsAreWhole

LEMMA FwInitInv == FwInit => FwInv
<1> SUFFICES ASSUME FwInit PROVE FwInv
  OBVIOUS
<1>1. CacheSize \in Nat /\ FwTime \in Nat
  BY ForwardingAssumption
<1>2. \A e \in Entries : fwcache[e].timer = 0
  BY DEF FwInit
<1>3. fwcache \in Caches
  <2>1. NoKey \in FwKeys
    <3>1. 0 \in Bytes
      BY ByteRange
    <3> QED
      BY <3>1 DEF NoKey, FwKeys
  <2>2. [timer |-> 0, key |-> NoKey] \in [timer : 0 .. FwTime, key : FwKeys]
    BY <1>1, <2>1
  <2> QED
    BY <2>2 DEF FwInit, Caches
<1>4. sent = <<>> /\ output = <<>>
  BY DEF FwInit
<1>5. sent \in Seq(SentPackets) /\ DOMAIN sent = {}
  BY <1>4
<1>6. Follows(fwcache, sent)
  <2>1. [e \in Entries |-> 0] \in [Entries -> Nat]
    OBVIOUS
  <2>2. Names([e \in Entries |-> 0], fwcache, sent)
    BY <1>2 DEF Names
  <2> QED
    BY <1>5, <2>1, <2>2 DEF Follows
<1>7. OncePerCache(sent)
  BY <1>5 DEF OncePerCache
<1>8. HeadersStayGood /\ PartsAreWhole
  BY <1>4 DEF HeadersStayGood, PartsAreWhole
<1> QED
  BY <1>3, <1>5, <1>6, <1>7, <1>8 DEF CacheInv, FwInv

\* PartsAreWhole as a fact of any packets.
WholeParts(o) ==
  Len(o) = 2 =>
    /\ o[1].data \o o[2].data = [n \in 1 .. MaxSegment |-> n]
    /\ o[2].seqno = Add32(o[1].seqno, Len(o[1].data))
    /\ Lower(o[2].seqno) = (Lower(o[1].seqno) + Len(o[1].data)) % 65536
    /\ o[2].seqno[2] = IF Lower(o[2].seqno) < Lower(o[1].seqno) THEN 1 ELSE 0

LEMMA PartsOfOutput ==
  (PartsAreWhole <=> WholeParts(output)) /\ (PartsAreWhole' <=> WholeParts(output'))
<1>1. PartsAreWhole <=> WholeParts(output)
  BY DEF PartsAreWhole, WholeParts
<1>2. PartsAreWhole' <=> WholeParts(output')
  BY DEF PartsAreWhole, WholeParts
<1> QED
  BY <1>1, <1>2

\* A packet of its own that is given to an interface.
LEMMA OnePacketOut ==
  ASSUME FwInv, NEW p \in FwHeaders, HeaderIsGood(p), NEW how \in {"on", "own"},
         FwOutput(<<p>>, how), how = "on" => ~Known(p.key)
  PROVE  FwInv'
<1>1. PICK packets : packets = <<p>>
  OBVIOUS
<1>2. DOMAIN packets = 1 .. Len(packets) /\ Len(packets) = 1 /\ packets[1] = p
  BY <1>1
<1>3. p.key \in FwKeys
  BY DEF FwHeaders
<1>4. CacheInv'
  <2>1. FwOutput(packets, how)
    BY <1>1
  <2> QED
    BY <1>2, <1>3, <2>1, FwOutputKeepsCache DEF FwInv
<1>5. output' = packets \/ output' = <<>>
  BY <1>1 DEF FwOutput
<1>6. HeadersStayGood' /\ PartsAreWhole'
  <2>1. \A i \in DOMAIN packets : HeaderIsGood(packets[i])
    BY <1>2
  <2>2. Len(output') # 2
    BY <1>2, <1>5
  <2>3. \A i \in DOMAIN output' : HeaderIsGood(output'[i])
    BY <1>5, <2>1
  <2>4. HeadersStayGood'
    BY <2>3 DEF HeadersStayGood
  <2>5. PartsAreWhole'
    BY <2>2 DEF PartsAreWhole
  <2> QED
    BY <2>4, <2>5
<1> QED
  BY <1>4, <1>6 DEF FwInv

LEMMA NobodyKeepsInv ==
  ASSUME FwInv, Nobody
  PROVE  FwInv'
<1>1. fwcache' = fwcache /\ sent' = sent /\ output' = <<>>
  BY DEF Nobody
<1>2. CacheInv'
  BY <1>1 DEF FwInv, CacheInv
<1> QED
  BY <1>1, <1>2 DEF FwInv, HeadersStayGood, PartsAreWhole

LEMMA ForwardKeepsInv ==
  ASSUME FwInv, NEW a \in Arrivals, Forward(Coming(a))
  PROVE  FwInv'
<1>1. PICK p : p = Coming(a)
  OBVIOUS
<1>2. p \in FwHeaders /\ HeaderIsGood(p)
  BY <1>1, ComingIsGood
<1>3. p.key \in FwKeys /\ p.ttl \in Int
  BY <1>2, ByteRange DEF FwHeaders
<1>4. Forward(p)
  BY <1>1
<1>5. CASE p.key.dest = Us \/ Known(p.key)
  <2>1. Nobody
    BY <1>4, <1>5 DEF Forward
  <2> QED
    BY <2>1, NobodyKeepsInv
<1>6. CASE p.key.dest # Us /\ ~Known(p.key) /\ p.ttl > 1
  <2>1. FwOutput(<< Hop(p) >>, "on")
    BY <1>4, <1>6 DEF Forward
  <2>2. Hop(p) \in FwHeaders /\ HeaderIsGood(Hop(p)) /\ Hop(p).key = p.key
    BY <1>2, <1>6, HopIsGood
  <2>3. ~Known(Hop(p).key)
    BY <1>6, <2>2
  <2> QED
    BY <2>1, <2>2, <2>3, OnePacketOut
<1>7. CASE p.key.dest # Us /\ ~Known(p.key) /\ ~(p.ttl > 1)
  <2>1. Nobody \/ FwOutput(<< Hop(TimeExceeded(p)) >>, "own")
    BY <1>4, <1>7 DEF Forward
  <2>2. PICK q : q = TimeExceeded(p)
    OBVIOUS
  <2>3. q \in FwHeaders /\ HeaderIsGood(q) /\ q.ttl = 64
    <3>1. p.key.src \in FwHosts \cup {Us}
      BY <1>3 DEF FwKeys
    <3> QED
      BY <1>2, <2>2, <3>1, TimeExceededIsGood
  <2>4. q.ttl > 1
    BY <2>3
  <2>5. Hop(q) \in FwHeaders /\ HeaderIsGood(Hop(q))
    BY <2>3, <2>4, HopIsGood
  <2> QED
    BY <2>1, <2>2, <2>5, NobodyKeepsInv, OnePacketOut
<1> QED
  BY <1>5, <1>6, <1>7

LEMMA SplitKeepsInv ==
  ASSUME FwInv, NEW p \in Own, SplitOutput(p)
  PROVE  FwInv'
<1>1. /\ p \in FwHeaders /\ HeaderIsGood(p) /\ p.seqno = <<0, 0, 255, 254>>
      /\ Len(p.data) = MaxSegment => p.data = [n \in 1 .. MaxSegment |-> n]
  BY OwnIsGood
<1>2. CASE Len(p.data) # MaxSegment
  <2>1. FwOutput(<<p>>, "own")
    BY <1>2 DEF SplitOutput
  <2> QED
    BY <1>1, <2>1, OnePacketOut
<1>3. CASE Len(p.data) = MaxSegment
  <2>1. PICK one : one = Halves(p)[1]
    OBVIOUS
  <2>2. PICK two : two = Halves(p)[2]
    OBVIOUS
  <2>3. /\ one \in FwHeaders /\ two \in FwHeaders
        /\ one.key = p.key /\ two.key = p.key
        /\ one.data \o two.data = [n \in 1 .. MaxSegment |-> n]
        /\ one.seqno = p.seqno
        /\ two.seqno = Add32(p.seqno, Len(one.data))
        /\ Len(one.data) \in Words
    BY <1>1, <1>3, <2>1, <2>2, HalvesAreWhole
  <2>4. PICK packets : packets = [i \in 1 .. 2 |-> Summed(Halves(p)[i])]
    OBVIOUS
  <2>5. FwOutput(packets, "own")
    BY <1>3, <2>4 DEF SplitOutput
  <2>6. /\ DOMAIN packets = 1 .. Len(packets) /\ Len(packets) = 2
        /\ packets[1] = Summed(one) /\ packets[2] = Summed(two)
    BY <2>1, <2>2, <2>4
  <2>7. /\ HeaderIsGood(packets[1]) /\ packets[1].key = p.key
        /\ packets[1].data = one.data /\ packets[1].seqno = one.seqno
    BY <2>3, <2>6, SummedIsGood
  <2>8. /\ HeaderIsGood(packets[2])
        /\ packets[2].data = two.data /\ packets[2].seqno = two.seqno
    BY <2>3, <2>6, SummedIsGood
  <2>9. CacheInv'
    <3>1. p.key \in FwKeys
      BY <1>1 DEF FwHeaders
    <3> QED
      BY <2>5, <2>6, <2>7, <3>1, FwOutputKeepsCache DEF FwInv
  <2>10. output' = packets \/ output' = <<>>
    BY <2>5 DEF FwOutput
  <2>11. HeadersStayGood'
    <3>1. \A i \in DOMAIN packets : HeaderIsGood(packets[i])
      BY <2>6, <2>7, <2>8
    <3>2. \A i \in DOMAIN output' : HeaderIsGood(output'[i])
      BY <2>10, <3>1
    <3> QED
      BY <3>2 DEF HeadersStayGood
  <2>12. PartsAreWhole'
    <3>1. PICK k \in Words : k = Len(one.data)
      BY <2>3
    <3>2. PICK s \in [1 .. 4 -> Bytes] : s = p.seqno
      BY <1>1 DEF FwHeaders
    <3>3. PICK t : t = two.seqno
      OBVIOUS
    <3>4. t = Add32(s, k)
      BY <2>3, <3>1, <3>2, <3>3
    <3>5. s[1] = 0 /\ s[2] = 0 /\ s[3] = 255 /\ s[4] = 254
      BY <1>1, <3>2
    <3>6. Lower(s) = 65534 /\ Upper(s) = 0
      BY <3>5 DEF Lower, Upper
    <3>7. /\ t \in [1 .. 4 -> Bytes]
          /\ Lower(t) = (65534 + k) % 65536
          /\ Upper(t) = (0 + (65534 + k) \div 65536) % 65536
      BY <3>4, <3>6, Add32Adds
    <3>8. t[1] * 256 + t[2] = (0 + (65534 + k) \div 65536) % 65536
      BY <3>7 DEF Upper
    <3>9. t[2] = IF Lower(t) < 65534 THEN 1 ELSE 0
      <4>1. k \in Int /\ 0 <= k /\ k <= 65535
        BY WordRange
      <4>2. PICK x : x = t[1] /\ x \in Int /\ 0 <= x /\ x <= 255
        BY <3>7, ByteRange
      <4>3. PICK y : y = t[2] /\ y \in Int /\ 0 <= y /\ y <= 255
        BY <3>7, ByteRange
      <4>4. CASE k >= 2
        <5>1. (65534 + k) % 65536 = k - 2
          BY <4>1, <4>4
        <5>2. (65534 + k) \div 65536 = 1
          BY <4>1, <4>4
        <5>3. x * 256 + y = 1
          BY <3>8, <4>2, <4>3, <5>2
        <5> QED
          BY <3>7, <4>1, <4>2, <4>3, <4>4, <5>1, <5>3
      <4>5. CASE k < 2
        <5>1. (65534 + k) % 65536 = 65534 + k
          BY <4>1, <4>5
        <5>2. (65534 + k) \div 65536 = 0
          BY <4>1, <4>5
        <5>3. x * 256 + y = 0
          BY <3>8, <4>2, <4>3, <5>2
        <5> QED
          BY <3>7, <4>1, <4>2, <4>3, <4>5, <5>1, <5>3
      <4> QED
        BY <4>1, <4>4, <4>5
    <3>10. packets[1].seqno = s /\ packets[2].seqno = t /\ Len(packets[1].data) = k
      BY <2>3, <2>7, <2>8, <3>1, <3>2, <3>3
    <3>11. packets[1].data \o packets[2].data = [n \in 1 .. MaxSegment |-> n]
      BY <2>3, <2>7, <2>8
    <3>12. Lower(packets[2].seqno) = (Lower(packets[1].seqno) + Len(packets[1].data)) % 65536
      BY <3>6, <3>7, <3>10
    <3>13. packets[2].seqno[2] = IF Lower(packets[2].seqno)
                                     < Lower(packets[1].seqno) THEN 1 ELSE 0
      BY <3>6, <3>9, <3>10
    <3>14. packets[2].seqno = Add32(packets[1].seqno, Len(packets[1].data))
      BY <3>4, <3>10
    <3> QED
      <4>1. WholeParts(packets)
        BY <3>11, <3>12, <3>13, <3>14 DEF WholeParts
      <4>2. WholeParts(<<>>)
        BY DEF WholeParts
      <4>3. WholeParts(output')
        BY <2>10, <4>1, <4>2
      <4> QED
        BY <4>3, PartsOfOutput
  <2> QED
    BY <2>9, <2>11, <2>12 DEF FwInv
<1> QED
  BY <1>2, <1>3

LEMMA FwNextInv == FwInv /\ [FwNext]_fwVars => FwInv'
<1> SUFFICES ASSUME FwInv, [FwNext]_fwVars PROVE FwInv'
  OBVIOUS
<1>1. ASSUME NEW a \in Arrivals, Forward(Coming(a)) PROVE FwInv'
  BY <1>1, ForwardKeepsInv
<1>2. ASSUME NEW p \in Own, SplitOutput(p) PROVE FwInv'
  BY <1>2, SplitKeepsInv
<1>3. CASE (\E net \in Nets : FwRegister(net)) \/ FwDefault \/ UNCHANGED fwVars
  <2>1. fwcache' = fwcache /\ sent' = sent /\ output' = output
    BY <1>3 DEF FwRegister, FwDefault, fwVars
  <2>2. CacheInv'
    BY <2>1 DEF FwInv, CacheInv
  <2>3. HeadersStayGood'
    BY <2>1 DEF FwInv, HeadersStayGood
  <2>4. PartsAreWhole'
    <3>1. WholeParts(output') = WholeParts(output)
      BY <2>1
    <3> QED
      BY <3>1, PartsOfOutput DEF FwInv
  <2> QED
    BY <2>2, <2>3, <2>4 DEF FwInv
<1>4. CASE FwPeriodic
  <2>1. output' = <<>>
    BY <1>4 DEF FwPeriodic
  <2>2. HeadersStayGood' /\ PartsAreWhole'
    BY <2>1 DEF HeadersStayGood, PartsAreWhole
  <2> QED
    BY <1>4, <2>2, FwPeriodicKeepsCache DEF FwInv
<1> QED
  BY <1>1, <1>2, <1>3, <1>4 DEF FwNext

\* As many as the cache has entries, counted.
LEMMA OnceMeansSentOnOnce == CacheInv => SentOnOnce
<1> SUFFICES ASSUME CacheInv, NEW i \in DOMAIN sent, NEW j \in DOMAIN sent, i < j,
                    sent[j].how = "on", sent[i].key = sent[j].key
             PROVE  Cardinality({h \in 1 .. j - 1 : h # i /\ sent[h].age <= sent[i].age})
                      >= CacheSize
  BY DEF SentOnOnce
<1> DEFINE H == {h \in 1 .. j - 1 : h # i /\ sent[h].age <= sent[i].age}
<1>1. PICK f \in [Entries -> 1 .. j - 1] :
        /\ \A d, e \in Entries : f[d] = f[e] => d = e
        /\ \A e \in Entries : f[e] # i /\ sent[f[e]].age <= sent[i].age
  BY DEF CacheInv, OncePerCache, Displaced
<1>2. f \in Injection(Entries, H)
  BY <1>1 DEF Injection, IsInjective
<1>3. j \in Nat /\ CacheSize \in Nat /\ CacheSize > 0
  BY ForwardingAssumption DEF CacheInv
<1>4. IsFiniteSet(1 .. j - 1)
  BY <1>3, FS_Interval
<1>5. IsFiniteSet(H) /\ Cardinality(H) \in Nat
  BY <1>4, FS_Subset, FS_CardinalityType
<1>6. Cardinality(Entries) <= Cardinality(H)
  BY <1>2, <1>5, FS_Injection
<1>7. Cardinality(Entries) = CacheSize
  <2>1. 1 \in Int /\ CacheSize \in Int /\ ~(1 > CacheSize)
    BY <1>3
  <2>2. Cardinality(1 .. CacheSize) = IF 1 > CacheSize THEN 0 ELSE CacheSize - 1 + 1
    BY <2>1, FS_Interval
  <2> QED
    BY <1>3, <2>2 DEF Entries
<1> QED
  BY <1>3, <1>5, <1>6, <1>7

\* For any hosts, routes and packets that come, any size of the cache and any time it
\* keeps them: no packet is sent on again while the cache has room for it, whatever
\* leaves has a good header, and the parts of a segment are the segment (uip-fw.c,
\* uip-split.c).
THEOREM ForwardingIsRight == FwSpec => []ForwardsOnceAndWhole
<1>1. FwInv => ForwardsOnceAndWhole
  BY OnceMeansSentOnOnce DEF FwInv, ForwardsOnceAndWhole
<1> QED
  BY <1>1, FwInitInv, FwNextInv, PTL DEF FwSpec

----------------------------------------------------------------------------
\* The fields the proof is about, of the record the application keeps.
Fields(a) == "request" \in DOMAIN a /\ "closes" \in DOMAIN a

LEMMA SentKeeps ==
  ASSUME NEW a, Fields(a)
  PROVE  Fields(Sent(a)) /\ Sent(a).request = a.request /\ Sent(a).closes = a.closes
<1>1. PICK c, n, b : Sent(a) = [a EXCEPT !.cursor = c, !.sent = n, !.buffer = b, !.slen = n]
  BY DEF Sent
<1> QED
  BY <1>1 DEF Fields

LEMMA NewCallKeeps ==
  ASSUME NEW a, Fields(a)
  PROVE  Fields(NewCall(a)) /\ NewCall(a).request = a.request /\ NewCall(a).closes = FALSE
<1>1. PICK b : NewCall(a) = [a EXCEPT !.slen = 0, !.closes = FALSE, !.buffer = b]
  BY DEF NewCall
<1> QED
  BY <1>1 DEF Fields

LEMMA ConfirmedKeeps ==
  ASSUME NEW a, Fields(a)
  PROVE  /\ Fields(Confirmed(a))
         /\ Confirmed(a).request = a.request /\ Confirmed(a).closes = a.closes
<1>1. PICK n : Confirmed(a) = [a EXCEPT !.acked = n, !.sent = 0]
  BY DEF Confirmed
<1> QED
  BY <1>1 DEF Fields

LEMMA NamedKeeps ==
  ASSUME NEW a, NEW lines, Fields(a)
  PROVE  Fields(Named(a, lines))
<1>1. PICK r : Named(a, lines) = a \/ Named(a, lines) = [a EXCEPT !.request = r]
  BY DEF Named
<1> QED
  BY <1>1 DEF Fields

LEMMA ForgottenKeeps ==
  ASSUME NEW a, Fields(a)
  PROVE  Fields(Forgotten(a)) /\ Forgotten(a).request = None
BY DEF Forgotten, Fields

\* server_task_impl() gives a URL back when its connection ends.
LEMMA ServerTaskFrees ==
  ASSUME NEW events, NEW lines, Fields(app)
  PROVE  /\ Fields(ServerTask(events, lines))
         /\ "ended" \in events => ServerTask(events, lines).request = None
<1> DEFINE start == IF "connected" \in events
                    THEN [NewCall(app) EXCEPT !.acked = 0, !.request = None] ELSE NewCall(app)
           read  == IF "newdata" \in events THEN Named(start, lines) ELSE start
           first == IF "newdata" \in events /\ Blanks(lines) # {} /\ read.request # None
                    THEN Sent(read) ELSE read
           next  == IF "acked" \notin events THEN first
                    ELSE IF Confirmed(first).acked = first.cursor
                    THEN [Confirmed(first) EXCEPT !.closes = TRUE]
                    ELSE Sent(Confirmed(first))
           again == IF "rexmit" \in events THEN Sent(next) ELSE next
<1>1. Fields(start)
  BY NewCallKeeps DEF Fields
<1>2. Fields(read)
  <2> HIDE DEF start
  <2> QED
    BY <1>1, NamedKeeps
<1>3. Fields(first)
  <2> HIDE DEF read
  <2> QED
    BY <1>2, SentKeeps
<1>4. Fields(next)
  <2> HIDE DEF first
  <2>1. Fields(Confirmed(first)) /\ Fields(Sent(Confirmed(first)))
    BY <1>3, ConfirmedKeeps, SentKeeps
  <2>2. Fields([Confirmed(first) EXCEPT !.closes = TRUE])
    BY <2>1 DEF Fields
  <2> QED
    BY <1>3, <2>1, <2>2
<1>5. Fields(again)
  <2> HIDE DEF next
  <2> QED
    BY <1>4, SentKeeps
<1>6. ServerTask(events, lines) = IF "ended" \in events THEN Forgotten(again) ELSE again
  BY DEF ServerTask
<1> HIDE DEF again
<1> QED
  BY <1>5, <1>6, ForgottenKeeps

\* client_task_impl() does not close, and it lets go of its request when it ends only.
LEMMA ClientTaskHolds ==
  ASSUME NEW events, Fields(app)
  PROVE  /\ Fields(ClientTask(events)) /\ ClientTask(events).closes = FALSE
         /\ ClientTask(events).request = IF "ended" \in events THEN None ELSE app.request
<1> DEFINE start == IF "connected" \in events THEN Sent([NewCall(app) EXCEPT !.acked = 0])
                                              ELSE NewCall(app)
           next  == IF "acked" \notin events THEN start
                    ELSE IF Confirmed(start).acked = start.cursor THEN Confirmed(start)
                    ELSE Sent(Confirmed(start))
           again == IF "rexmit" \in events THEN Sent(next) ELSE next
           Same(a) == Fields(a) /\ a.closes = FALSE /\ a.request = app.request
<1>1. Same(start)
  <2>1. Same(NewCall(app))
    BY NewCallKeeps
  <2>2. Same([NewCall(app) EXCEPT !.acked = 0])
    BY <2>1 DEF Fields
  <2>3. Same(Sent([NewCall(app) EXCEPT !.acked = 0]))
    BY <2>2, SentKeeps
  <2> QED
    BY <2>1, <2>3
<1>2. Same(next)
  <2> HIDE DEF start
  <2>1. Same(Confirmed(start))
    BY <1>1, ConfirmedKeeps
  <2>2. Same(Sent(Confirmed(start)))
    BY <2>1, SentKeeps
  <2> QED
    BY <1>1, <2>1, <2>2
<1>3. Same(again)
  <2> HIDE DEF next
  <2> QED
    BY <1>2, SentKeeps
<1>4. ClientTask(events) = IF "ended" \in events THEN [again EXCEPT !.request = None] ELSE again
  BY DEF ClientTask
<1> HIDE DEF again
<1> QED
  BY <1>3, <1>4 DEF Fields

----------------------------------------------------------------------------
\* The request that has the connection.
Held == IF state \notin {"CLOSED", "TIME_WAIT"} /\ ~serving THEN {app.request} ELSE {}

\* No request waits twice.
QueuedOnce == /\ queue \in Seq(Requests)
              /\ \A i, j \in 1 .. Len(queue) : queue[i] = queue[j] => i = j

\* A request is active exactly while it waits or has the connection, never both; the
\* client does not close; and a URL outlives its connection only if it expired.
WsInv ==
  /\ Fields(app) /\ serving \in BOOLEAN
  /\ QueuedOnce
  /\ ToSet(queue) \cap Held = {} /\ active = ToSet(queue) \cup Held
  /\ state = "SYN_SENT" => ~serving
  /\ state \in {"FIN_WAIT_1", "FIN_WAIT_2"} => serving
  /\ state = "TIME_WAIT" => app.request = None
  /\ state = "CLOSED" /\ app.request # None => expired

LEMMA InitWs == Init => WsInv
<1> SUFFICES ASSUME Init PROVE WsInv
  OBVIOUS
<1>1. Fields(app) /\ app.request = None
  BY DEF Init, Fields
<1>2. state = "CLOSED" /\ serving = TRUE /\ queue = <<>> /\ active = {}
  BY DEF Init
<1>3. QueuedOnce /\ ToSet(queue) = {}
  BY <1>2 DEF QueuedOnce, ToSet
<1> QED
  BY <1>1, <1>2, <1>3 DEF WsInv, Held

\* A call of the application while the connection lasts.
LEMMA CallKeeps ==
  ASSUME WsInv, NEW port80 \in BOOLEAN, NEW events, NEW lines, NEW n,
         "ended" \notin events, AppCall(port80, events, lines), AppSend(n),
         queue' = queue, serving' = port80,
         port80 \/ (state \notin {"CLOSED", "TIME_WAIT"} /\ ~serving),
         port80 => serving \/ state \in {"CLOSED", "TIME_WAIT"}
  PROVE  WsInv'
<1>1. Fields(app)
  BY DEF WsInv
<1>2. Fields(app') /\ active' = active
  BY <1>1, ServerTaskFrees, ClientTaskHolds DEF AppCall
<1>3. state' \in {"FIN_WAIT_1", "ESTABLISHED"} /\ (state' = "FIN_WAIT_1" => app'.closes)
  BY DEF AppSend
<1>4. QueuedOnce'
  BY DEF WsInv, QueuedOnce
<1>5. ToSet(queue') = ToSet(queue)
  OBVIOUS
<1>6. CASE port80
  <2>1. Held = {} /\ Held' = {}
    BY <1>6 DEF Held
  <2> QED
    BY <1>2, <1>3, <1>4, <1>5, <1>6, <2>1 DEF WsInv
<1>7. CASE ~port80
  <2>1. app'.closes = FALSE /\ app'.request = app.request
    BY <1>1, <1>7, ClientTaskHolds DEF AppCall
  <2>2. Held = {app.request} /\ Held' = {app.request}
    BY <1>3, <1>7, <2>1 DEF Held
  <2> QED
    BY <1>2, <1>3, <1>4, <1>5, <1>7, <2>1, <2>2 DEF WsInv
<1> QED
  BY <1>6, <1>7

\* A connection that ends.
LEMMA EndKeeps ==
  ASSUME WsInv, state \notin {"CLOSED", "TIME_WAIT"}, NEW after \in {"CLOSED", "TIME_WAIT"},
         End(after)
  PROVE  WsInv'
<1>1. Fields(app)
  BY DEF WsInv
<1>2. AppCall(serving, {"ended"}, <<>>) /\ state' = after /\ queue' = queue /\ serving' = serving
  BY DEF End, Sketch
<1>3. Fields(app') /\ app'.request = None
  BY <1>1, <1>2, ServerTaskFrees, ClientTaskHolds DEF AppCall
<1>4. active' = active \ Held
  <2>1. CASE serving
    BY <1>2, <2>1 DEF AppCall, Held
  <2>2. CASE ~serving
    BY <1>2, <2>2 DEF AppCall, Held
  <2> QED
    BY <2>1, <2>2
<1>5. Held' = {}
  BY <1>2 DEF Held
<1>6. QueuedOnce' /\ ToSet(queue') = ToSet(queue)
  BY <1>2 DEF WsInv, QueuedOnce
<1> QED
  BY <1>2, <1>3, <1>4, <1>5, <1>6 DEF WsInv

\* What leaves the connection and the list alone.
LEMMA AsideKeeps ==
  ASSUME WsInv, UNCHANGED <<state, serving, app, queue, active, expired>>
  PROVE  WsInv'
BY DEF WsInv, QueuedOnce, Held, Fields, ToSet

LEMMA ConnectKeeps ==
  ASSUME WsInv, Connect
  PROVE  WsInv'
<1>1. /\ queue # <<>> /\ state \in {"CLOSED", "TIME_WAIT"}
      /\ state' = "SYN_SENT" /\ serving' = FALSE
      /\ queue' = Tail(queue) /\ active' = active
      /\ app' = [app EXCEPT !.request = Head(queue)]
  BY DEF Connect, UipConnect
<1>2. Fields(app') /\ app'.request = Head(queue)
  BY <1>1 DEF WsInv, Fields
<1>3. PICK q \in Seq(Requests) : q = queue /\ \A i, j \in 1 .. Len(q) : q[i] = q[j] => i = j
  BY DEF WsInv, QueuedOnce
<1>4. PICK t \in Seq(Requests) : /\ t = Tail(q) /\ Len(t) = Len(q) - 1 /\ Len(q) > 0
                                 /\ \A i \in 1 .. Len(t) : t[i] = q[i + 1]
  <2>1. q # <<>>
    BY <1>1, <1>3
  <2>2. PICK t : t = Tail(q)
    OBVIOUS
  <2>3. t \in Seq(Requests) /\ Len(t) = Len(q) - 1 /\ \A i \in 1 .. Len(t) : t[i] = q[i + 1]
    BY <2>1, <2>2, HeadTailProperties
  <2>4. Len(q) > 0
    BY <2>1, EmptySeq, LenProperties
  <2> QED
    BY <2>2, <2>3, <2>4
<1>5. QueuedOnce'
  <2>1. ASSUME NEW i \in 1 .. Len(t), NEW j \in 1 .. Len(t), t[i] = t[j] PROVE i = j
    <3>1. i + 1 \in 1 .. Len(q) /\ j + 1 \in 1 .. Len(q)
      BY <1>4
    <3>2. i + 1 = j + 1
      BY <1>3, <1>4, <2>1, <3>1
    <3> QED
      BY <3>2
  <2> QED
    BY <1>1, <1>3, <1>4, <2>1 DEF QueuedOnce
<1>6. ToSet(q) = ToSet(t) \cup {q[1]}
  <2>1. DOMAIN q = 1 .. Len(q) /\ DOMAIN t = 1 .. Len(t)
    BY <1>3, <1>4
  <2>2. \A n \in 1 .. Len(q) : n = 1 \/ (n - 1 \in 1 .. Len(t) /\ t[n - 1] = q[n])
    BY <1>4
  <2>3. 1 \in 1 .. Len(q) /\ \A n \in 1 .. Len(t) : n + 1 \in 1 .. Len(q)
    BY <1>4
  <2>4. \A n \in 1 .. Len(q) : q[n] \in ToSet(t) \cup {q[1]}
    BY <2>1, <2>2 DEF ToSet
  <2>5. \A n \in 1 .. Len(t) : t[n] \in ToSet(q)
    BY <1>4, <2>1, <2>3 DEF ToSet
  <2>6. q[1] \in ToSet(q)
    BY <2>1, <2>3 DEF ToSet
  <2>7. ToSet(q) = {q[n] : n \in 1 .. Len(q)} /\ ToSet(t) = {t[n] : n \in 1 .. Len(t)}
    BY <2>1 DEF ToSet
  <2> QED
    BY <2>4, <2>5, <2>6, <2>7
<1>7. q[1] \notin ToSet(t)
  <2>1. ASSUME NEW n \in 1 .. Len(t) PROVE t[n] # q[1]
    <3>1. n + 1 \in 1 .. Len(q) /\ 1 \in 1 .. Len(q) /\ n + 1 # 1
      BY <1>4
    <3> QED
      BY <1>3, <1>4, <3>1
  <2> QED
    BY <2>1 DEF ToSet
<1>8. Held = {} /\ Held' = {q[1]}
  BY <1>1, <1>2, <1>3 DEF Held
<1>9. ToSet(queue') \cap Held' = {} /\ active' = ToSet(queue') \cup Held'
  BY <1>1, <1>3, <1>4, <1>6, <1>7, <1>8 DEF WsInv
<1> QED
  BY <1>1, <1>2, <1>5, <1>9 DEF WsInv

LEMMA SubmitKeeps ==
  ASSUME WsInv, NEW r \in Requests, Submit(r)
  PROVE  WsInv'
<1>1. /\ r \notin active /\ queue' = Append(queue, r) /\ active' = active \cup {r}
      /\ UNCHANGED <<state, serving, app, expired>>
  BY DEF Submit, MaySubmit, tcpVars, auxVars
<1>2. PICK q \in Seq(Requests) : q = queue /\ \A i, j \in 1 .. Len(q) : q[i] = q[j] => i = j
  BY DEF WsInv, QueuedOnce
<1>3. PICK t \in Seq(Requests) : /\ t = Append(q, r) /\ Len(t) = Len(q) + 1
                                 /\ t[Len(t)] = r /\ \A i \in 1 .. Len(q) : t[i] = q[i]
  <2>1. PICK t : t = Append(q, r)
    OBVIOUS
  <2>2. t \in Seq(Requests) /\ Len(t) = Len(q) + 1
    BY <2>1
  <2>3. t[Len(q) + 1] = r /\ \A i \in 1 .. Len(q) : t[i] = q[i]
    BY <2>1
  <2> QED
    BY <2>1, <2>2, <2>3
<1>4. \A i \in 1 .. Len(q) : q[i] # r
  BY <1>1, <1>2 DEF WsInv, ToSet
<1>5. \A i \in 1 .. Len(t) : i = Len(t) \/ i \in 1 .. Len(q)
  BY <1>3
<1>6. QueuedOnce'
  <2>1. ASSUME NEW i \in 1 .. Len(t), NEW j \in 1 .. Len(t), t[i] = t[j] PROVE i = j
    BY <1>2, <1>3, <1>4, <1>5, <2>1
  <2> QED
    BY <1>1, <1>2, <1>3, <2>1 DEF QueuedOnce
<1>7. ToSet(t) = ToSet(q) \cup {r}
  <2>1. DOMAIN q = 1 .. Len(q) /\ DOMAIN t = 1 .. Len(t)
    BY <1>2, <1>3
  <2>2. Len(t) \in 1 .. Len(t) /\ \A n \in 1 .. Len(q) : n \in 1 .. Len(t)
    BY <1>3
  <2> QED
    BY <1>3, <1>5, <2>1, <2>2 DEF ToSet
<1>8. Held' = Held /\ r \notin Held
  BY <1>1 DEF Held, WsInv
<1>9. ToSet(queue') \cap Held' = {} /\ active' = ToSet(queue') \cup Held'
  BY <1>1, <1>2, <1>3, <1>7, <1>8 DEF WsInv
<1> QED
  BY <1>1, <1>6, <1>9 DEF WsInv, Fields

LEMMA RetransmitKeeps ==
  ASSUME WsInv, Retransmit
  PROVE  WsInv'
<1>1. /\ state \in {"SYN_SENT", "ESTABLISHED", "FIN_WAIT_1"}
      /\ UNCHANGED <<state, serving, queue, expired>>
  BY DEF Retransmit, Sketch, auxVars
<1>2. CASE Open
  <2>1. AppCall(serving, {"rexmit"}, <<>>)
    BY <1>2 DEF Retransmit
  <2>2. Fields(app) /\ "ended" \notin {"rexmit"}
    BY DEF WsInv
  <2>3. Fields(app') /\ active' = active
    BY <2>1, <2>2, ServerTaskFrees, ClientTaskHolds DEF AppCall
  <2>4. Held' = Held
    <3>1. ~serving => app'.request = app.request
      BY <2>1, <2>2, ClientTaskHolds DEF AppCall
    <3> QED
      BY <1>1, <3>1 DEF Held
  <2>5. QueuedOnce' /\ ToSet(queue') = ToSet(queue)
    BY <1>1 DEF WsInv, QueuedOnce
  <2> QED
    BY <1>1, <2>3, <2>4, <2>5 DEF WsInv
<1>3. CASE ~Open
  <2>1. UNCHANGED <<app, active>>
    BY <1>3 DEF Retransmit
  <2> QED
    BY <1>1, <2>1, AsideKeeps
<1> QED
  BY <1>2, <1>3

LEMMA PeerKeeps ==
  ASSUME WsInv, Peer
  PROVE  WsInv'
<1>1. CASE PeerConnects
  <2>1. /\ AppCall(TRUE, {"connected"}, <<>>) /\ AppSend(0)
        /\ queue' = queue /\ serving' = TRUE /\ state \in {"CLOSED", "TIME_WAIT"}
    BY <1>1 DEF PeerConnects, Sketch
  <2>2. "ended" \notin {"connected"}
    OBVIOUS
  <2> QED
    BY <2>1, <2>2, CallKeeps
<1>2. CASE PeerAccepts
  <2>1. /\ AppCall(FALSE, {"connected", "newdata"}, <<>>) /\ AppSend(0)
        /\ queue' = queue /\ serving' = serving /\ state = "SYN_SENT"
    BY <1>2 DEF PeerAccepts, Sketch
  <2>2. "ended" \notin {"connected", "newdata"}
    OBVIOUS
  <2>3. serving = FALSE /\ state \notin {"CLOSED", "TIME_WAIT"} /\ FALSE \in BOOLEAN
    BY <2>1 DEF WsInv
  <2> QED
    BY <2>1, <2>2, <2>3, CallKeeps
<1>3. CASE PeerAcks
  <2>1. /\ AppCall(serving, {"acked"}, <<>>) /\ AppSend(0)
        /\ queue' = queue /\ serving' = serving /\ state = "ESTABLISHED"
    BY <1>3 DEF PeerAcks, Sketch, Open
  <2>2. "ended" \notin {"acked"} /\ serving \in BOOLEAN
    BY DEF WsInv
  <2> QED
    BY <2>1, <2>2, CallKeeps
<1>4. CASE PeerResets
  <2>1. End("CLOSED") /\ state \notin {"CLOSED", "TIME_WAIT"}
    BY <1>4 DEF PeerResets
  <2> QED
    BY <2>1, EndKeeps
<1>5. CASE PeerCloses
  <2>1. /\ End("CLOSED") \/ End("TIME_WAIT")
        /\ state \in {"ESTABLISHED", "FIN_WAIT_1", "FIN_WAIT_2"}
    BY <1>5 DEF PeerCloses, Open
  <2> QED
    BY <2>1, EndKeeps
<1>6. CASE PeerAcksFin
  <2>1. /\ state = "FIN_WAIT_1" /\ state' = "FIN_WAIT_2"
        /\ UNCHANGED <<serving, app, queue, active, expired>>
    BY <1>6 DEF PeerAcksFin, Sketch, auxVars
  <2>2. Held' = Held
    BY <2>1 DEF Held
  <2> QED
    BY <2>1, <2>2 DEF WsInv, QueuedOnce, Fields, ToSet
<1>7. CASE PeerTalks
  <2>1. PICK lines \in Packets, acks \in BOOLEAN : PeerSends(lines, acks)
    BY <1>7 DEF PeerTalks
  <2>2. PICK events : events = {"newdata"} \cup (IF acks THEN {"acked"} ELSE {})
    OBVIOUS
  <2>3. /\ AppCall(serving, events, lines) /\ AppSend(IF acks THEN 0 ELSE len)
        /\ queue' = queue /\ serving' = serving /\ state = "ESTABLISHED"
    BY <2>1, <2>2 DEF PeerSends, Sketch, Open
  <2>4. "ended" \notin events /\ serving \in BOOLEAN
    BY <2>2 DEF WsInv
  <2> QED
    BY <2>3, <2>4, CallKeeps
<1> QED
  BY <1>1, <1>2, <1>3, <1>4, <1>5, <1>6, <1>7 DEF Peer

LEMMA TimerKeeps ==
  ASSUME WsInv, Timer
  PROVE  WsInv'
<1>1. CASE Retransmit
  BY <1>1, RetransmitKeeps
<1>2. CASE GiveUp
  <2>1. End("CLOSED") /\ state \notin {"CLOSED", "TIME_WAIT"}
    BY <1>2 DEF GiveUp
  <2> QED
    BY <2>1, EndKeeps
<1>3. CASE WaitEnds
  <2>1. /\ state \in {"FIN_WAIT_2", "TIME_WAIT"} /\ state' = "CLOSED"
        /\ expired' = (state = "FIN_WAIT_2") /\ UNCHANGED <<serving, app, queue, active>>
    BY <1>3 DEF WaitEnds, Sketch
  <2>2. Held = {} /\ Held' = {}
    BY <2>1 DEF Held, WsInv
  <2> QED
    BY <2>1, <2>2 DEF WsInv, QueuedOnce, Fields, ToSet
<1> QED
  BY <1>1, <1>2, <1>3 DEF Timer

LEMMA NextWs == WsInv /\ [Next]_vars => WsInv'
<1> SUFFICES ASSUME WsInv, [Next]_vars PROVE WsInv'
  OBVIOUS
<1>1. CASE Deliver \/ Lose \/ PageChanges \/ UNCHANGED vars
  <2>1. UNCHANGED <<state, serving, app, queue, active, expired>>
    BY <1>1 DEF Deliver, Lose, PageChanges, Sketch, vars, tcpVars, auxVars
  <2> QED
    BY <2>1, AsideKeeps
<1>2. CASE \E r \in Requests : Submit(r)
  BY <1>2, SubmitKeeps
<1> QED
  BY <1>1, <1>2, PeerKeeps, TimerKeeps, ConnectKeeps DEF Next

\* A list in which nothing is twice has as many members as places.
LEMMA InjectiveLength ==
  ASSUME QueuedOnce
  PROVE  Cardinality(ToSet(queue)) = Len(queue)
<1>1. Len(queue) \in Nat /\ DOMAIN queue = 1 .. Len(queue)
  BY DEF QueuedOnce
<1>2. queue \in Bijection(1 .. Len(queue), ToSet(queue))
  <2>1. queue \in [1 .. Len(queue) -> ToSet(queue)]
    BY <1>1 DEF QueuedOnce, ToSet
  <2> QED
    BY <1>1, <2>1 DEF QueuedOnce, ToSet, Bijection, Injection, Surjection, IsInjective
<1>3. IsFiniteSet(1 .. Len(queue))
      /\ Cardinality(1 .. Len(queue)) = IF 1 > Len(queue) THEN 0 ELSE Len(queue) - 1 + 1
  BY <1>1, FS_Interval
<1>4. Cardinality(1 .. Len(queue)) = Cardinality(ToSet(queue))
  <2>1. ExistsBijection(1 .. Len(queue), ToSet(queue))
    BY <1>2 DEF ExistsBijection
  <2> QED
    BY <1>3, <2>1, FS_Bijection
<1> QED
  BY <1>1, <1>3, <1>4

\* For any pages, requests and packets, any size of a segment: a request of the sketch's
\* waits or has the connection, in one place, as long as it is active, and a URL the
\* server keeps a copy of is given back with its connection (WiServer.cpp).
THEOREM NothingHeldTwice == Spec => []NothingIsHeldTwice
<1>1. WsInv => NothingIsHeldTwice
  <2> SUFFICES ASSUME WsInv PROVE NothingIsHeldTwice
    OBVIOUS
  <2>1. UrlIsFreed
    BY DEF WsInv, UrlIsFreed
  <2>2. ActiveIsQueued
    BY InjectiveLength DEF WsInv, ActiveIsQueued, Held
  <2> QED
    BY <2>1, <2>2 DEF NothingIsHeldTwice
<1> QED
  BY <1>1, InitWs, NextWs, PTL DEF Spec

----------------------------------------------------------------------------
\* A function defined by what it is at n, from what it is at n - 1.
Recurs(g, N, first, step) == g[0] = first /\ \A n \in 1 .. N : g[n] = step[n][g[n - 1]]

LEMMA FiniteRecursion ==
  ASSUME NEW N \in Nat, NEW S, NEW first \in S, NEW step \in [1 .. N -> [S -> S]]
  PROVE  \E g \in [0 .. N -> S] : Recurs(g, N, first, step)
<1> DEFINE Loops(m) == {g \in [0 .. m -> S] :
                         g[0] = first /\ \A n \in 1 .. m : g[n] = step[n][g[n - 1]]}
           Done    == {m \in Nat : Loops(m) # {}}
<1>1. 0 \in Done
  <2>1. [n \in 0 .. 0 |-> first] \in Loops(0)
    OBVIOUS
  <2> QED
    BY <2>1
<1>2. ASSUME NEW m \in 0 .. N, m \in Done, m < N PROVE m + 1 \in Done
  <2>1. PICK g : g \in Loops(m)
    BY <1>2
  <2>2. g \in [0 .. m -> S] /\ g[0] = first
        /\ \A n \in 1 .. m : g[n] = step[n][g[n - 1]]
    BY <2>1
  <2>3. m \in 0 .. m /\ m + 1 \in 1 .. N /\ m \in Nat
    BY <1>2
  <2>4. PICK w \in S : w = step[m + 1][g[m]]
    <3>1. step[m + 1] \in [S -> S] /\ g[m] \in S
      BY <2>2, <2>3
    <3> QED
      BY <3>1
  <2>5. PICK h : h = [n \in 0 .. m + 1 |-> IF n = m + 1 THEN w ELSE g[n]]
    OBVIOUS
  <2>6. \A n \in 0 .. m + 1 : n = m + 1 \/ n \in 0 .. m
    BY <2>3
  <2>7. h \in [0 .. m + 1 -> S]
    BY <2>2, <2>5, <2>6
  <2>8. 0 \in 0 .. m + 1 /\ 0 # m + 1 /\ h[0] = first
    BY <2>2, <2>3, <2>5
  <2>9. ASSUME NEW n \in 1 .. m + 1 PROVE h[n] = step[n][h[n - 1]]
    <3>1. n \in 0 .. m + 1 /\ n - 1 \in 0 .. m + 1 /\ n - 1 # m + 1
      BY <2>3
    <3>2. h[n - 1] = g[n - 1]
      BY <2>5, <3>1
    <3>3. CASE n = m + 1
      <4>1. h[n] = w /\ n - 1 = m
        BY <2>3, <2>5, <3>1, <3>3
      <4> QED
        BY <2>4, <3>2, <3>3, <4>1
    <3>4. CASE n # m + 1
      <4>1. n \in 1 .. m /\ h[n] = g[n]
        BY <2>3, <2>5, <3>1, <3>4
      <4> QED
        BY <2>2, <3>2, <4>1
    <3> QED
      BY <3>3, <3>4
  <2>10. h \in Loops(m + 1)
    BY <2>7, <2>8, <2>9
  <2> QED
    BY <2>3, <2>10
<1>3. N \in Done
  <2> HIDE DEF Done
  <2>1. \A n \in 0 .. N : n \in Done
    BY <1>1, <1>2, IntervalInduction
  <2> QED
    BY <2>1
<1>4. PICK g : g \in Loops(N)
  BY <1>3
<1> QED
  BY <1>4 DEF Recurs

----------------------------------------------------------------------------
\* The pieces of a request, which leave nothing out of the c bytes there are.
Complete(pieces, c) ==
  /\ c \in Nat /\ Len(pieces) \in Nat /\ DOMAIN pieces = 1 .. Len(pieces)
  /\ \A i \in 1 .. c : \E p \in 1 .. Len(pieces) : Covers(pieces[p], i)

LEMMA PagesAreComplete ==
  ASSUME edition \in {1, 2}, NEW r
  PROVE  Complete(PiecesOf(r), CursorOf(r))
<1>1. CASE r \in Requests
  <2>1. PiecesOf(r) = Writes[r] /\ CursorOf(r) = Ends[r]
    BY <1>1 DEF PiecesOf, CursorOf
  <2>2. /\ Writes[r] \in Seq(Range(Writes[r])) /\ Ends[r] \in Nat
        /\ \A i \in 1 .. Ends[r] : \E p \in DOMAIN Writes[r] :
             Covers(Writes[r][p], i)
    BY <1>1, ServerAssumption DEF IsSequence
  <2>3. DOMAIN Writes[r] = 1 .. Len(Writes[r]) /\ Len(Writes[r]) \in Nat
    BY <2>2, LenProperties
  <2> QED
    BY <2>1, <2>2, <2>3 DEF Complete
<1>2. CASE r \notin Requests /\ r \in Urls
  <2>1. PICK h \in Nat : h = Len(Header) /\ DOMAIN Header = 1 .. h
    BY ServerAssumption, LenProperties DEF IsSequence
  <2>2. PICK text : text = Pages[r][edition]
    OBVIOUS
  <2>3. PICK n \in Nat : n = Len(text) /\ DOMAIN text = 1 .. n
    <3>1. text \in Seq(Range(text))
      BY <1>2, <2>2, ServerAssumption DEF IsSequence
    <3> QED
      BY <3>1, LenProperties
  <2>4. PICK ps : ps = << Piece(0, Header), Piece(h, text) >>
    OBVIOUS
  <2>5. PiecesOf(r) = ps /\ CursorOf(r) = h + n
    BY <1>2, <2>1, <2>2, <2>3, <2>4 DEF PiecesOf, CursorOf, PageWrites
  <2>6. /\ Len(ps) = 2 /\ DOMAIN ps = 1 .. 2 /\ ps[1].at = 0 /\ ps[1].bytes = Header
        /\ ps[2].at = h /\ ps[2].bytes = text
    BY <2>4 DEF Piece
  <2>7. ASSUME NEW i \in 1 .. h + n
        PROVE  \E p \in 1 .. 2 : Covers(ps[p], i)
    <3>1. i - 0 \in 1 .. h \/ i - h \in 1 .. n
      OBVIOUS
    <3>2. 1 \in 1 .. 2 /\ 2 \in 1 .. 2
      OBVIOUS
    <3> QED
      BY <2>1, <2>3, <2>6, <3>1, <3>2 DEF Covers
  <2> QED
    BY <2>5, <2>6, <2>7 DEF Complete
<1>3. CASE r \notin Requests /\ r \notin Urls
  <2>1. PICK n \in Nat : n = Len(Missing) /\ DOMAIN Missing = 1 .. n
    BY ServerAssumption, LenProperties DEF IsSequence
  <2>2. PICK ps : ps = << Piece(0, Header), Piece(0, Missing) >>
    OBVIOUS
  <2>3. PiecesOf(r) = ps /\ CursorOf(r) = n
    BY <1>3, <2>1, <2>2 DEF PiecesOf, CursorOf, PageWrites
  <2>4. Len(ps) = 2 /\ DOMAIN ps = 1 .. 2 /\ ps[2].at = 0 /\ ps[2].bytes = Missing
    BY <2>2 DEF Piece
  <2>5. \A i \in 1 .. n : i - 0 \in 1 .. n /\ 2 \in 1 .. 2
    OBVIOUS
  <2> QED
    BY <2>1, <2>3, <2>4, <2>5 DEF Complete, Covers
<1> QED
  BY <1>1, <1>2, <1>3

\* What writes at place i: the pieces of the first n that have a byte there, and the
\* last of them, which is the one that is seen.
Writers(pieces, n, i) == {p \in 1 .. n : Covers(pieces[p], i)}
IsLast(p, over) == p \in over /\ \A q \in over : q <= p

Blank == [o \in 1 .. Mss |-> Rubbish]

\* Each piece is written over what the ones before it have written.
LEMMA LayersAre ==
  ASSUME NEW acked \in Nat, NEW pieces, Len(pieces) \in Nat
  PROVE  /\ Layers(acked, pieces)[0] = Blank
         /\ \A n \in 1 .. Len(pieces) :
              Layers(acked, pieces)[n] = Let(Layers(acked, pieces)[n - 1], acked, pieces[n])
<1>1. PICK N \in Nat : N = Len(pieces)
  OBVIOUS
<1> DEFINE B == {Rubbish} \cup UNION {Range(pieces[p].bytes) : p \in 1 .. N}
           S == [1 .. Mss -> B]
           step == [n \in 1 .. N |-> [b \in S |-> Let(b, acked, pieces[n])]]
<1>2. Blank \in S
  BY DEF Blank
<1>3. step \in [1 .. N -> [S -> S]]
  <2>1. ASSUME NEW n \in 1 .. N, NEW b \in S PROVE Let(b, acked, pieces[n]) \in S
    <3>1. ASSUME NEW i, Covers(pieces[n], i) PROVE ByteAt(pieces[n], i) \in B
      <4>1. ByteAt(pieces[n], i) \in Range(pieces[n].bytes)
        BY <3>1 DEF Range, Covers, ByteAt
      <4> QED
        BY <4>1
    <3>2. ASSUME NEW o \in 1 .. Mss PROVE b[o] \in B
      OBVIOUS
    <3> HIDE DEF B
    <3> QED
      BY <3>1, <3>2 DEF Let
  <2> HIDE DEF S
  <2> QED
    BY <2>1
<1>4. PICK g \in [0 .. N -> S] : Recurs(g, N, Blank, step)
  <2> HIDE DEF S, step
  <2> QED
    BY ONLY <1>1, <1>2, <1>3, FiniteRecursion
<1> DEFINE Loop(l) == l = [n \in 0 .. N |-> IF n = 0 THEN Blank ELSE Let(l[n - 1], acked, pieces[n])]
<1>5. Loop(g)
  <2>1. ASSUME NEW n \in 0 .. N
        PROVE  g[n] = IF n = 0 THEN Blank ELSE Let(g[n - 1], acked, pieces[n])
    <3>1. CASE n = 0
      BY <1>4, <3>1 DEF Recurs
    <3>2. CASE n # 0
      <4>1. n \in 1 .. N /\ n - 1 \in 0 .. N
        BY <3>2
      <4>2. g[n - 1] \in S
        <5> HIDE DEF S
        <5> QED
          BY <1>4, <4>1
      <4>3. g[n] = step[n][g[n - 1]]
        BY <1>4, <4>1 DEF Recurs
      <4> HIDE DEF S
      <4>4. step[n][g[n - 1]] = Let(g[n - 1], acked, pieces[n])
        BY <4>1, <4>2
      <4> QED
        BY <3>2, <4>3, <4>4
    <3> QED
      BY <3>1, <3>2
  <2>2. g = [n \in 0 .. N |-> g[n]]
    <3> HIDE DEF S
    <3> QED
      BY <1>4
  <2> QED
    BY <2>1, <2>2
<1>6. PICK l : l = Layers(acked, pieces)
  OBVIOUS
<1>7. Loop(l)
  <2>1. l = CHOOSE k : Loop(k)
    BY <1>1, <1>6 DEF Layers, Blank
  <2> HIDE DEF Loop
  <2> QED
    BY <1>5, <2>1
<1>8. l[0] = Blank
  <2>1. 0 \in 0 .. N
    OBVIOUS
  <2> QED
    BY <1>7, <2>1
<1>9. ASSUME NEW n \in 1 .. N PROVE l[n] = Let(l[n - 1], acked, pieces[n])
  <2>1. n \in 0 .. N /\ n # 0
    OBVIOUS
  <2> QED
    BY <1>7, <2>1
<1> QED
  BY <1>1, <1>6, <1>8, <1>9

\* What is seen at the o-th place of the segment is what the last piece has there.
LEMMA LastIsSeen ==
  ASSUME NEW acked \in Nat, NEW pieces, Len(pieces) \in Nat, NEW o \in 1 .. Mss
  PROVE  \A n \in 0 .. Len(pieces) : \A p \in 1 .. n :
           IsLast(p, Writers(pieces, n, acked + o)) =>
             Layers(acked, pieces)[n][o] = ByteAt(pieces[p], acked + o)
<1>1. PICK N \in Nat : N = Len(pieces)
  OBVIOUS
<1>2. PICK l : l = Layers(acked, pieces)
  OBVIOUS
<1>3. \A n \in 1 .. N : l[n] = Let(l[n - 1], acked, pieces[n])
  BY <1>1, <1>2, LayersAre
<1> DEFINE Seen(n) == \A p \in 1 .. n : IsLast(p, Writers(pieces, n, acked + o)) =>
                        l[n][o] = ByteAt(pieces[p], acked + o)
           S == {n \in 0 .. N : Seen(n)}
<1>5. 0 \in S
  OBVIOUS
<1>6. ASSUME NEW n \in 0 .. N, n \in S, n < N PROVE n + 1 \in S
  <2>1. n + 1 \in 1 .. N /\ n + 1 \in 0 .. N /\ (n + 1) - 1 = n
    BY <1>6
  <2>2. l[n + 1] = Let(l[n], acked, pieces[n + 1])
    BY <1>3, <2>1
  <2>3. l[n + 1][o] = IF Covers(pieces[n + 1], acked + o)
                      THEN ByteAt(pieces[n + 1], acked + o) ELSE l[n][o]
    <3>1. PICK piece : piece = pieces[n + 1]
      OBVIOUS
    <3>2. PICK below : below = l[n]
      OBVIOUS
    <3>3. Let(below, acked, piece)[o] = IF Covers(piece, acked + o)
                                        THEN ByteAt(piece, acked + o) ELSE below[o]
      BY DEF Let
    <3> QED
      BY <2>2, <3>1, <3>2, <3>3
  <2>4. ASSUME NEW p \in 1 .. n + 1, IsLast(p, Writers(pieces, n + 1, acked + o))
        PROVE  l[n + 1][o] = ByteAt(pieces[p], acked + o)
    <3>1. CASE n + 1 \in Writers(pieces, n + 1, acked + o)
      <4>1. p = n + 1
        <5>1. n + 1 <= p
          BY <2>4, <3>1 DEF IsLast
        <5> QED
          BY <5>1
      <4>2. Covers(pieces[n + 1], acked + o)
        BY <3>1 DEF Writers
      <4> QED
        BY <2>3, <4>1, <4>2
    <3>2. CASE n + 1 \notin Writers(pieces, n + 1, acked + o)
      <4>1. n + 1 \in 1 .. n + 1
        BY <2>1
      <4>2. ~ (Covers(pieces[n + 1], acked + o))
        BY <3>2, <4>1 DEF Writers
      <4>3. \A q \in 1 .. n + 1 : q # n + 1 => q \in 1 .. n
        OBVIOUS
      <4>4. Writers(pieces, n + 1, acked + o) = Writers(pieces, n, acked + o)
        BY <3>2, <4>3 DEF Writers
      <4>5. p \in 1 .. n /\ IsLast(p, Writers(pieces, n, acked + o))
        BY <2>4, <3>2, <4>3, <4>4 DEF IsLast
      <4>6. l[n][o] = ByteAt(pieces[p], acked + o)
        BY <1>6, <4>5
      <4> QED
        BY <2>3, <4>2, <4>6
    <3> QED
      BY <3>1, <3>2
  <2> QED
    BY <2>1, <2>4
<1> HIDE DEF S
<1>7. \A n \in 0 .. N : n \in S
  <2>1. 0 \in Nat /\ N \in Nat
    OBVIOUS
  <2> QED
    BY ONLY <1>5, <1>6, <2>1, IntervalInduction
<1>8. ASSUME NEW n \in 0 .. N, NEW p \in 1 .. n, IsLast(p, Writers(pieces, n, acked + o))
      PROVE  l[n][o] = ByteAt(pieces[p], acked + o)
  BY <1>7, <1>8 DEF S
<1> QED
  BY <1>1, <1>2, <1>8

LEMMA LastOfInterval ==
  ASSUME NEW N \in Nat, NEW over, over \subseteq 1 .. N, over # {}
  PROVE  \E p \in over : \A q \in over : q <= p
<1> DEFINE S == {m \in Nat : \A q \in over : q <= m}
<1>1. N \in S
  OBVIOUS
<1>2. PICK m \in S : \A k \in S : m <= k
  <2>1. S \subseteq Nat /\ S # {}
    BY <1>1
  <2> HIDE DEF S
  <2> QED
    BY <2>1, FirstOfNaturals
<1>3. m \in over
  <2> SUFFICES ASSUME m \notin over PROVE FALSE
    OBVIOUS
  <2>1. PICK q : q \in over /\ q \in Nat /\ q >= 1
    <3>1. PICK q : q \in over
      OBVIOUS
    <3> QED
      BY <3>1
  <2>2. m \in Nat /\ m >= 1
    BY <2>1
  <2>3. \A p \in over : p <= m - 1
    <3>1. \A p \in over : p \in Int /\ p <= m /\ p # m
      OBVIOUS
    <3> QED
      BY <2>2, <3>1
  <2>4. m - 1 \in S
    BY <2>2, <2>3
  <2>5. m <= m - 1
    BY <1>2, <2>4
  <2> QED
    BY <2>2, <2>5
<1>4. \A q \in over : q <= m
  OBVIOUS
<1> QED
  BY <1>3, <1>4

\* What is written into a segment is a part of what is to be sent as a whole.
LEMMA WrittenIsWhole ==
  ASSUME edition \in {1, 2}, NEW a, a.acked \in Nat, NEW o \in 1 .. Mss,
         a.acked + o <= CursorOf(a.request)
  PROVE  Written(a)[o] = Whole(a.request)[a.acked + o]
<1>1. PICK r : r = a.request
  OBVIOUS
<1>2. PICK k \in Nat : k = a.acked
  OBVIOUS
<1>3. PICK ps : ps = PiecesOf(r)
  OBVIOUS
<1>4. PICK c : c = CursorOf(r)
  OBVIOUS
<1>5. Complete(ps, c)
  BY <1>3, <1>4, PagesAreComplete
<1>6. PICK N \in Nat : N = Len(ps) /\ DOMAIN ps = 1 .. N
  BY <1>5 DEF Complete
<1>7. k + o \in 1 .. c
  <2>1. c \in Nat /\ k + o <= c /\ k + o \in Nat /\ k + o >= 1
    BY <1>1, <1>2, <1>4, <1>5, ServerAssumption DEF Complete
  <2> QED
    BY <2>1
<1>8. PICK over : over = Writers(ps, N, k + o)
  OBVIOUS
<1>9. over \subseteq 1 .. N /\ over # {}
  <2>1. PICK p \in 1 .. N : Covers(ps[p], k + o)
    BY <1>5, <1>6, <1>7 DEF Complete
  <2> QED
    BY <1>8, <2>1 DEF Writers
<1>10. PICK last : IsLast(last, over)
  BY <1>9, LastOfInterval DEF IsLast
<1>11. \A q : IsLast(q, over) => q = last
  <2> SUFFICES ASSUME NEW q, IsLast(q, over) PROVE q = last
    OBVIOUS
  <2>1. q \in Int /\ last \in Int /\ q <= last /\ last <= q
    BY <1>9, <1>10 DEF IsLast
  <2> QED
    BY <2>1
<1>12. last \in 1 .. N /\ N \in 0 .. N
  BY <1>9, <1>10 DEF IsLast
<1>13. Written(a)[o] = ByteAt(ps[last], k + o)
  <2>1. Layers(k, ps)[N][o] = ByteAt(ps[last], k + o)
    BY <1>6, <1>8, <1>10, <1>12, LastIsSeen
  <2>2. Written(a) = Layers(k, ps)[N]
    BY <1>1, <1>2, <1>3, <1>6 DEF Written
  <2> QED
    BY <2>1, <2>2
<1>14. Whole(r)[k + o] = ByteAt(ps[last], k + o)
  <2>1. {p \in DOMAIN ps : Covers(ps[p], k + o)} = over
    BY <1>6, <1>8 DEF Writers
  <2>2. (CHOOSE p \in over : \A q \in over : q <= p) = last
    BY <1>10, <1>11 DEF IsLast
  <2>3. Whole(r)[k + o]
          = LET over1 == {p \in DOMAIN ps : Covers(ps[p], k + o)}
                last1 == CHOOSE p \in over1 : \A q \in over1 : q <= p
            IN  ByteAt(ps[last1], k + o)
    BY <1>3, <1>4, <1>7, Zenon DEF Whole
  <2> QED
    BY <2>1, <2>2, <2>3, Zenon
<1> QED
  BY <1>1, <1>2, <1>13, <1>14

\* A sequence of anything; and one that stands in w behind a place of it.
Text(s) == \E S : s \in Seq(S)
Stands(s, w, at) == \A k \in 1 .. Len(s) : s[k] = w[at + k]

LEMMA TextHasLength ==
  ASSUME NEW s, Text(s)
  PROVE  Len(s) \in Nat /\ DOMAIN s = 1 .. Len(s)
<1>1. PICK S : s \in Seq(S)
  BY DEF Text
<1> QED
  BY <1>1, LenProperties

\* Of c bytes of w the other side has g, uIP knows of b, and l more were sent; what is
\* on its way is a part of them that leaves no gap.
Transfer(b, l, g, y, w, c) ==
  /\ Text(g) /\ Stands(g, w, 0) /\ Len(g) <= c
  /\ b <= Len(g) /\ Len(g) <= b + l /\ b + l <= c
  /\ y.from \in Nat /\ y.from <= Len(g)
  /\ Text(y.bytes) /\ Stands(y.bytes, w, y.from) /\ y.from + Len(y.bytes) <= b + l

\* The fields of the record the application keeps, and those that are numbers.
AppShape(a) ==
  /\ {"acked", "sent", "cursor", "request", "slen", "closes", "buffer"} \subseteq DOMAIN a
  /\ a.acked \in Nat /\ a.sent \in Nat /\ a.cursor \in Nat /\ a.slen \in Nat

\* The application agrees with uIP on the transfer.
Carried(a, b, l, g, y, w, c) ==
  /\ c \in Nat /\ Transfer(b, l, g, y, w, c)
  /\ a.acked = b
  /\ a.request = None => b = 0 /\ l = 0 /\ g = <<>> /\ y = NoSegment
  /\ l > 0 => a.cursor = c /\ a.sent = l /\ l = SendLength(a, c)

\* What AppSend() makes of uip_conn->len and of what is on its way.
Grown(a, l)   == IF a.slen > 0 /\ l = 0 THEN a.slen ELSE l
Onto(a, l, y) == IF a.slen > 0
                 THEN [from |-> a.acked, bytes |-> SubSeq(a.buffer, 1, Grown(a, l))] ELSE y

\* send() gives out no more than is left and than a segment holds, and that if anything.
LEMMA SendLengthIs ==
  ASSUME NEW a, NEW c \in Nat, a.acked \in Nat
  PROVE  /\ SendLength(a, c) \in Nat /\ SendLength(a, c) <= Mss
         /\ a.acked <= c => a.acked + SendLength(a, c) <= c
         /\ a.acked < c => SendLength(a, c) > 0
<1>1. PICK k \in Nat : k = a.acked
  OBVIOUS
<1>2. Mss \in Nat /\ Mss > 0
  BY ServerAssumption
<1>3. PICK m \in Nat : m = IF c < k THEN 0 ELSE c - k
  <2>1. 0 \in Nat /\ (~(c < k) => c - k \in Nat)
    OBVIOUS
  <2> QED
    BY <2>1
<1>4. SendLength(a, c) = IF m > Mss THEN Mss ELSE m
  BY <1>1, <1>3 DEF SendLength
<1> QED
  BY <1>1, <1>2, <1>3, <1>4

LEMMA SentIs ==
  ASSUME edition \in {1, 2}, NEW a, AppShape(a)
  PROVE  /\ AppShape(Sent(a)) /\ CursorOf(a.request) \in Nat
         /\ Sent(a).acked = a.acked /\ Sent(a).request = a.request
         /\ Sent(a).closes = a.closes
         /\ Sent(a).cursor = CursorOf(a.request) /\ Sent(a).buffer = Written(a)
         /\ Sent(a).sent = SendLength(a, CursorOf(a.request))
         /\ Sent(a).slen = SendLength(a, CursorOf(a.request))
<1>1. PICK c \in Nat : c = CursorOf(a.request)
  BY PagesAreComplete DEF Complete
<1>2. PICK n \in Nat : n = SendLength(a, c)
  BY <1>1, SendLengthIs DEF AppShape
<1>3. PICK b : b = Written(a)
  OBVIOUS
<1>4. Sent(a) = [a EXCEPT !.cursor = c, !.sent = n, !.buffer = b, !.slen = n]
  BY <1>1, <1>2, <1>3 DEF Sent
<1> QED
  BY <1>1, <1>2, <1>3, <1>4 DEF AppShape

\* A segment of n bytes, written for what comes next, stands in the whole.
LEMMA SegmentStands ==
  ASSUME edition \in {1, 2}, NEW a, a.acked \in Nat, NEW n \in Nat, n <= Mss,
         a.acked + n <= CursorOf(a.request)
  PROVE  LET s == SubSeq(Written(a), 1, n)
         IN  Text(s) /\ Len(s) = n /\ Stands(s, Whole(a.request), a.acked)
<1>1. PICK k \in Nat : k = a.acked
  OBVIOUS
<1>2. PICK c \in Nat : c = CursorOf(a.request)
  BY PagesAreComplete DEF Complete
<1>3. PICK w : w = Whole(a.request)
  OBVIOUS
<1>4. PICK v : v = Written(a)
  OBVIOUS
<1>5. \A o \in 1 .. n : v[o] = w[k + o]
  <2>1. ASSUME NEW o \in 1 .. n PROVE v[o] = w[k + o]
    <3>1. o \in 1 .. Mss /\ k + o <= c
      BY <1>1, <1>2, ServerAssumption
    <3> QED
      BY <1>1, <1>2, <1>3, <1>4, <3>1, WrittenIsWhole
  <2> QED
    BY <2>1
<1>6. PICK S : S = {v[o] : o \in 1 .. n}
  OBVIOUS
<1>7. \A o \in 1 .. n : v[o] \in S
  BY <1>6
<1>8. PICK s : s = SubSeq(v, 1, n)
  OBVIOUS
<1>9. /\ s \in Seq(S) /\ Len(s) = IF 1 <= n THEN n - 1 + 1 ELSE 0
      /\ \A i \in 1 .. n - 1 + 1 : s[i] = v[1 + i - 1]
  BY <1>7, <1>8, SubSeqProperties
<1>10. Len(s) = n
  BY <1>9
<1>11. \A i \in 1 .. n : s[i] = v[i]
  <2>1. \A i \in 1 .. n : i \in 1 .. n - 1 + 1 /\ 1 + i - 1 = i
    OBVIOUS
  <2> QED
    BY <1>9, <2>1
<1>12. Text(s) /\ Stands(s, w, k)
  BY <1>5, <1>9, <1>10, <1>11 DEF Text, Stands
<1> QED
  BY <1>1, <1>3, <1>4, <1>8, <1>10, <1>12

\* A transfer that sends anew, and one that has nothing to send.
LEMMA SentCarries ==
  ASSUME edition \in {1, 2}, NEW a, AppShape(a), a.request # None,
         NEW l \in Nat, NEW g, NEW y, NEW w, NEW c,
         w = Whole(a.request), c = CursorOf(a.request),
         Transfer(a.acked, l, g, y, w, c), l > 0 => l = SendLength(a, c)
  PROVE  Carried(Sent(a), a.acked, Grown(Sent(a), l), g, Onto(Sent(a), l, y), w, c)
<1>1. PICK k \in Nat : k = a.acked
  BY DEF AppShape
<1>2. c \in Nat /\ AppShape(Sent(a))
  BY SentIs
<1>3. PICK n \in Nat : n = SendLength(a, c) /\ n <= Mss /\ (k <= c => k + n <= c)
  BY <1>1, <1>2, SendLengthIs
<1>4. PICK f : f = Sent(a)
  OBVIOUS
<1>5. /\ f.acked = k /\ f.request = a.request /\ f.cursor = c /\ f.buffer = Written(a)
      /\ f.sent = n /\ f.slen = n
  BY <1>1, <1>3, <1>4, SentIs
<1>6. SendLength(f, c) = n
  BY <1>1, <1>3, <1>5 DEF SendLength
<1>7. PICK h \in Nat : h = Len(g)
  BY TextHasLength DEF Transfer
<1>8. h <= c /\ k <= h /\ h <= k + l /\ k + l <= c
  BY <1>1, <1>7 DEF Transfer
<1>9. CASE n = 0
  <2>1. l = 0
    BY <1>3, <1>9
  <2>2. Grown(f, l) = 0 /\ Onto(f, l, y) = y
    BY <1>5, <1>9, <2>1 DEF Grown, Onto
  <2>3. Transfer(k, 0, g, y, w, c)
    BY <1>1, <2>1
  <2> QED
    BY <1>1, <1>2, <1>4, <1>5, <2>2, <2>3 DEF Carried
<1>10. CASE n > 0
  <2>1. Grown(f, l) = n
    BY <1>3, <1>5, <1>10 DEF Grown
  <2>2. PICK s : s = SubSeq(Written(a), 1, n)
    OBVIOUS
  <2>3. k + n <= c
    BY <1>1, <1>3, <1>8
  <2>4. Text(s) /\ Len(s) = n /\ Stands(s, w, k)
    BY <1>1, <1>3, <2>2, <2>3, SegmentStands
  <2>5. PICK z : z = [from |-> k, bytes |-> s]
    OBVIOUS
  <2>6. Onto(f, l, y) = z
    BY <1>5, <1>10, <2>1, <2>2, <2>5 DEF Onto
  <2>7. z.from = k /\ z.bytes = s
    BY <2>5
  <2>8. h <= k + n
    BY <1>3, <1>8
  <2>9. Transfer(k, n, g, z, w, c)
    <3>1. Text(g) /\ Stands(g, w, 0)
      BY DEF Transfer
    <3> QED
      BY <1>7, <1>8, <2>3, <2>4, <2>7, <2>8, <3>1 DEF Transfer
  <2> QED
    BY <1>1, <1>2, <1>3, <1>4, <1>5, <1>6, <2>1, <2>6, <2>9 DEF Carried
<1> QED
  BY <1>3, <1>9, <1>10

LEMMA IdleCarries ==
  ASSUME NEW a, a.slen = 0, NEW l, NEW y
  PROVE  Grown(a, l) = l /\ Onto(a, l, y) = y
BY DEF Grown, Onto

\* The state of the application after NewCall(): it goes on from before, except that it
\* may have learned what is asked for.
GoesOn(a) ==
  /\ AppShape(a) /\ a.slen = 0 /\ a.closes = FALSE
  /\ a.acked = app.acked /\ a.sent = app.sent /\ a.cursor = app.cursor
  /\ app.request # None => a.request = app.request

LEMMA NewCallGoesOn ==
  ASSUME AppShape(app)
  PROVE  GoesOn(NewCall(app)) /\ NewCall(app).request = app.request
<1>1. PICK b : NewCall(app) = [app EXCEPT !.slen = 0, !.closes = FALSE, !.buffer = b]
  BY DEF NewCall
<1>2. PICK a : a = NewCall(app)
  OBVIOUS
<1>3. a.slen = 0 /\ a.closes = FALSE /\ a.acked = app.acked /\ a.sent = app.sent
      /\ a.cursor = app.cursor /\ a.request = app.request /\ DOMAIN a = DOMAIN app
  BY <1>1, <1>2 DEF AppShape
<1> QED
  BY <1>2, <1>3 DEF GoesOn, AppShape

LEMMA NamedGoesOn ==
  ASSUME NEW a, NEW lines, GoesOn(a), a.request = app.request
  PROVE  GoesOn(Named(a, lines))
<1>1. PICK r : /\ Named(a, lines) = a \/ Named(a, lines) = [a EXCEPT !.request = r]
               /\ a.request # None => Named(a, lines) = a
  BY DEF Named
<1> QED
  BY <1>1 DEF GoesOn, AppShape

\* What the application's call does with a packet, which may acknowledge.
Answered(a, f) == f = a \/ (a.request # None /\ f = Sent(a))

LEMMA ServerHears ==
  ASSUME NEW events, NEW lines, AppShape(app),
         "connected" \notin events, "rexmit" \notin events, "ended" \notin events
  PROVE  \E a, f : /\ GoesOn(a) /\ Answered(a, f)
                   /\ ServerTask(events, lines) =
                        IF "acked" \notin events THEN f
                        ELSE IF Confirmed(f).acked = f.cursor
                        THEN [Confirmed(f) EXCEPT !.closes = TRUE] ELSE Sent(Confirmed(f))
<1>1. PICK start : start = NewCall(app)
  OBVIOUS
<1>2. PICK a : a = IF "newdata" \in events THEN Named(start, lines) ELSE start
  OBVIOUS
<1>3. GoesOn(a)
  BY <1>1, <1>2, NewCallGoesOn, NamedGoesOn
<1>4. PICK f : f = IF "newdata" \in events /\ Blanks(lines) # {} /\ a.request # None
                   THEN Sent(a) ELSE a
  OBVIOUS
<1>5. Answered(a, f)
  BY <1>4 DEF Answered
<1>6. ServerTask(events, lines) =
                        IF "acked" \notin events THEN f
                        ELSE IF Confirmed(f).acked = f.cursor
                        THEN [Confirmed(f) EXCEPT !.closes = TRUE] ELSE Sent(Confirmed(f))
  BY <1>1, <1>2, <1>4, Zenon DEF ServerTask
<1> QED
  BY <1>3, <1>5, <1>6

LEMMA ClientHears ==
  ASSUME NEW events, "connected" \notin events, "rexmit" \notin events, "ended" \notin events
  PROVE  ClientTask(events) =
           IF "acked" \notin events THEN NewCall(app)
           ELSE IF Confirmed(NewCall(app)).acked = NewCall(app).cursor
           THEN Confirmed(NewCall(app)) ELSE Sent(Confirmed(NewCall(app)))
BY DEF ClientTask

LEMMA TaskRepeats ==
  ASSUME NEW lines
  PROVE  /\ ServerTask({"rexmit"}, lines) = Sent(NewCall(app))
         /\ ClientTask({"rexmit"}) = Sent(NewCall(app))
<1>1. "rexmit" \in {"rexmit"} /\ "acked" \notin {"rexmit"} /\ "newdata" \notin {"rexmit"}
      /\ "connected" \notin {"rexmit"} /\ "ended" \notin {"rexmit"}
  OBVIOUS
<1>2. PICK events : events = {"rexmit"}
  OBVIOUS
<1>3. ServerTask(events, lines) = Sent(NewCall(app))
  BY <1>1, <1>2 DEF ServerTask
<1>4. ClientTask(events) = Sent(NewCall(app))
  BY <1>1, <1>2 DEF ClientTask
<1> QED
  BY <1>2, <1>3, <1>4

\* The transfer goes on with the call: what was asked for is known, or nothing was sent.
LEMMA GoingOnCarries ==
  ASSUME edition \in {1, 2}, NEW b, NEW l, NEW g, NEW y,
         Carried(app, b, l, g, y, Whole(app.request), CursorOf(app.request)),
         NEW a, GoesOn(a)
  PROVE  Carried(a, b, l, g, y, Whole(a.request), CursorOf(a.request))
<1>1. CASE app.request # None
  <2>1. PICK w, c : w = Whole(app.request) /\ c = CursorOf(app.request)
    OBVIOUS
  <2>2. a.request = app.request /\ SendLength(a, c) = SendLength(app, c)
    BY <1>1 DEF GoesOn, SendLength
  <2> QED
    BY <1>1, <2>1, <2>2 DEF Carried, GoesOn
<1>2. CASE app.request = None
  <2>1. PICK w, c : w = Whole(a.request) /\ c = CursorOf(a.request)
    OBVIOUS
  <2>2. c \in Nat
    BY <2>1, PagesAreComplete DEF Complete
  <2>3. b = 0 /\ l = 0 /\ g = <<>> /\ y = NoSegment /\ a.acked = 0
    BY <1>2 DEF Carried, GoesOn
  <2>4. PICK e : e = <<>> /\ Text(e) /\ Len(e) = 0
    <3>1. << >> \in Seq({}) /\ Len(<< >>) = 0
      OBVIOUS
    <3> QED
      BY <3>1 DEF Text
  <2>5. y.from = 0 /\ y.bytes = e
    BY <2>3, <2>4 DEF NoSegment
  <2>6. \A at : Stands(e, w, at)
    BY <2>4 DEF Stands
  <2>7. Transfer(b, l, g, y, w, c)
    BY <2>2, <2>3, <2>4, <2>5, <2>6 DEF Transfer
  <2> QED
    BY <2>1, <2>2, <2>3, <2>7 DEF Carried
<1> QED
  BY <1>1, <1>2

\* What a call leaves when nothing was acknowledged.
LEMMA AnswerCarries ==
  ASSUME edition \in {1, 2}, NEW b, NEW l \in Nat, NEW g, NEW y,
         NEW a, GoesOn(a), NEW f, Answered(a, f),
         Carried(a, b, l, g, y, Whole(a.request), CursorOf(a.request))
  PROVE  Carried(f, b, Grown(f, l), g, Onto(f, l, y), Whole(f.request), CursorOf(f.request))
<1>1. CASE f = a
  BY <1>1, IdleCarries DEF GoesOn
<1>2. CASE a.request # None /\ f = Sent(a)
  <2>1. f.request = a.request /\ a.acked = b /\ AppShape(a)
    BY <1>2, SentIs DEF GoesOn, Carried
  <2>2. PICK w, c : w = Whole(a.request) /\ c = CursorOf(a.request)
    OBVIOUS
  <2>3. Transfer(b, l, g, y, w, c) /\ (l > 0 => l = SendLength(a, c))
    BY <2>2 DEF Carried
  <2> QED
    BY <1>2, <2>1, <2>2, <2>3, SentCarries
<1> QED
  BY <1>1, <1>2 DEF Answered

LEMMA AnsweredShape ==
  ASSUME edition \in {1, 2}, NEW a, GoesOn(a), NEW f, Answered(a, f)
  PROVE  /\ AppShape(f) /\ f.closes = FALSE /\ f.acked = a.acked
         /\ f.request = a.request
BY SentIs DEF Answered, GoesOn

LEMMA ConfirmedIs ==
  ASSUME NEW f, AppShape(f)
  PROVE  /\ AppShape(Confirmed(f)) /\ Confirmed(f).acked = f.acked + f.sent
         /\ Confirmed(f).request = f.request /\ Confirmed(f).closes = f.closes
         /\ Confirmed(f).slen = f.slen /\ Confirmed(f).cursor = f.cursor
<1>1. PICK n \in Nat : n = f.acked + f.sent
  BY DEF AppShape
<1>2. Confirmed(f) = [f EXCEPT !.acked = n, !.sent = 0]
  <2>1. Confirmed(f) = [f EXCEPT !.acked = f.acked + f.sent, !.sent = 0]
    BY DEF Confirmed, AppShape
  <2> QED
    BY <1>1, <2>1
<1>3. PICK k : k = Confirmed(f)
  OBVIOUS
<1>4. /\ DOMAIN k = DOMAIN f /\ k.acked = n /\ k.sent = 0 /\ k.request = f.request
      /\ k.closes = f.closes /\ k.slen = f.slen /\ k.cursor = f.cursor
  BY <1>2, <1>3 DEF AppShape
<1> QED
  BY <1>1, <1>3, <1>4 DEF AppShape

\* All that was sent is acknowledged: the other side has everything, or there is more.
LEMMA AckCarries ==
  ASSUME edition \in {1, 2}, NEW b \in Nat, NEW l \in Nat, NEW g, NEW y, NEW w, NEW c,
         NEW a, GoesOn(a), NEW f, Answered(a, f),
         w = Whole(a.request), c = CursorOf(a.request), Carried(a, b, l, g, y, w, c),
         l > 0, Len(g) = b + l
  PROVE  /\ Confirmed(f).acked = b + l /\ f.cursor = c /\ a.request # None
         /\ Transfer(b + l, 0, g, y, w, c)
<1>1. a.request # None /\ a.acked = b /\ a.cursor = c /\ a.sent = l /\ l = SendLength(a, c)
      /\ Transfer(b, l, g, y, w, c)
  BY DEF Carried
<1>2. f.acked = b /\ f.cursor = c /\ f.sent = l /\ AppShape(f)
  <2>1. AppShape(a)
    BY DEF GoesOn
  <2>2. CASE f = a
    BY <1>1, <2>1, <2>2
  <2>3. CASE f = Sent(a)
    BY <1>1, <2>1, <2>3, SentIs
  <2> QED
    BY <2>2, <2>3 DEF Answered
<1>3. Confirmed(f).acked = b + l
  BY <1>2, ConfirmedIs
<1>4. Transfer(b + l, 0, g, y, w, c)
  <2>1. PICK h \in Nat : h = Len(g)
    BY <1>1, TextHasLength DEF Transfer
  <2>2. PICK n \in Nat : n = b + l
    OBVIOUS
  <2>3. PICK m \in Nat : m = Len(y.bytes)
    BY <1>1, TextHasLength DEF Transfer
  <2>4. PICK at \in Nat : at = y.from /\ at <= h /\ at + m <= n
    BY <1>1, <2>1, <2>2, <2>3 DEF Transfer
  <2>5. n <= h /\ h <= n + 0 /\ n + 0 <= c /\ at + m <= n + 0
    <3>1. n <= c
      BY <1>1, <2>2 DEF Transfer
    <3> QED
      BY <2>1, <2>2, <2>4, <3>1
  <2>6. Text(g) /\ Stands(g, w, 0) /\ Len(g) <= c /\ Text(y.bytes) /\ Stands(y.bytes, w, y.from)
    BY <1>1 DEF Transfer
  <2>7. Transfer(n, 0, g, y, w, c)
    BY <2>1, <2>2, <2>3, <2>4, <2>5, <2>6 DEF Transfer
  <2> QED
    BY <2>2, <2>7
<1> QED
  BY <1>1, <1>2, <1>3, <1>4

LEMMA WholeIsSequence ==
  ASSUME edition \in {1, 2}, NEW r
  PROVE  /\ CursorOf(r) \in Nat /\ Len(Whole(r)) = CursorOf(r)
         /\ Whole(r) \in Seq(Range(Whole(r)))
<1>1. PICK c \in Nat : c = CursorOf(r)
  BY PagesAreComplete DEF Complete
<1>2. PICK w : w = Whole(r)
  OBVIOUS
<1>3. DOMAIN w = 1 .. c /\ w = [i \in 1 .. c |-> w[i]]
  <2>1. w = [i \in 1 .. c |->
           LET over == {p \in DOMAIN PiecesOf(r) : Covers(PiecesOf(r)[p], i)}
               last == CHOOSE p \in over : \A q \in over : q <= p
           IN  ByteAt(PiecesOf(r)[last], i)]
    BY <1>1, <1>2, Zenon DEF Whole
  <2> QED
    BY <2>1
<1>4. w \in [1 .. c -> Range(w)]
  BY <1>3 DEF Range
<1> QED
  BY <1>1, <1>2, <1>4, LenProperties

\* A text of c bytes that stands in the whole from the start on is the whole.
LEMMA AllHasArrived ==
  ASSUME edition \in {1, 2}, NEW r, NEW g, Text(g), Len(g) = CursorOf(r),
         Stands(g, Whole(r), 0)
  PROVE  g = Whole(r)
<1>1. PICK c \in Nat : c = CursorOf(r)
  BY WholeIsSequence
<1>2. PICK w : w = Whole(r)
  OBVIOUS
<1>3. w \in Seq(Range(w)) /\ Len(w) = c
  BY <1>1, <1>2, WholeIsSequence
<1>4. PICK S : g \in Seq(S)
  BY DEF Text
<1>5. \A i \in 1 .. c : g[i] = w[i]
  <2>1. \A i \in 1 .. c : 0 + i = i
    OBVIOUS
  <2> QED
    BY <1>1, <1>2, <2>1 DEF Stands
<1>6. g = [i \in 1 .. c |-> g[i]] /\ w = [i \in 1 .. c |-> w[i]]
  BY <1>1, <1>3, <1>4
<1> QED
  BY <1>2, <1>5, <1>6

----------------------------------------------------------------------------
\* uIP and the application agree on what is sent, as long as the page does not change.
Agreed ==
  \A r, w, c : r = app.request /\ w = Whole(r) /\ c = CursorOf(r) =>
    Carried(app, base, len, got, way, w, c)

AllArrived ==
  \A r, w : r = app.request /\ w = Whole(r) => r # None /\ got = w

SendInv ==
  /\ AppShape(app) /\ base \in Nat /\ len \in Nat /\ edition \in {1, 2}
  /\ ~Open => way = NoSegment
  /\ state = "SYN_SENT" => ~serving /\ got = <<>>
  /\ (state = "SYN_SENT" \/ Open) /\ ~serving => app.request \in Requests
  /\ Open /\ ~changed => Agreed
  /\ state \in {"FIN_WAIT_1", "FIN_WAIT_2"} /\ ~changed => AllArrived

LEMMA SameEdition ==
  ASSUME edition' = edition
  PROVE  \A r : Whole(r)' = Whole(r) /\ CursorOf(r)' = CursorOf(r)
<1>1. \A r : PiecesOf(r)' = PiecesOf(r)
  BY DEF PiecesOf, PageWrites
<1>2. \A r : CursorOf(r)' = CursorOf(r)
  BY DEF CursorOf
<1> DEFINE Seen(pieces, c) ==
             [i \in 1 .. c |->
                LET over == {p \in DOMAIN pieces : Covers(pieces[p], i)}
                    last == CHOOSE p \in over : \A q \in over : q <= p
                IN  ByteAt(pieces[last], i)]
<1>3. ASSUME NEW r PROVE Whole(r)' = Whole(r)
  <2>1. PiecesOf(r)' = PiecesOf(r) /\ CursorOf(r)' = CursorOf(r)
    BY <1>1, <1>2
  <2>2. Whole(r) = Seen(PiecesOf(r), CursorOf(r))
    BY Zenon DEF Whole
  <2>3. Whole(r)' = Seen(PiecesOf(r)', CursorOf(r)')
    BY Zenon DEF Whole
  <2> HIDE DEF Seen
  <2> QED
    BY <2>1, <2>2, <2>3
<1> QED
  BY <1>2, <1>3

LEMMA AgreedNext ==
  ASSUME edition' = edition,
         Carried(app', base', len', got', way', Whole(app'.request), CursorOf(app'.request))
  PROVE  Agreed'
<1> SUFFICES ASSUME NEW r, NEW w, NEW c,
                    r = app'.request, w = Whole(r)', c = CursorOf(r)'
             PROVE  Carried(app', base', len', got', way', w, c)
  BY DEF Agreed
<1>1. w = Whole(r) /\ c = CursorOf(r)
  BY SameEdition
<1> QED
  BY <1>1

LEMMA AgreedNow ==
  ASSUME Agreed
  PROVE  Carried(app, base, len, got, way, Whole(app.request), CursorOf(app.request))
BY DEF Agreed

LEMMA CompleteNext ==
  ASSUME edition' = edition, app'.request # None, got' = Whole(app'.request)
  PROVE  AllArrived'
<1> SUFFICES ASSUME NEW r, NEW w, r = app'.request, w = Whole(r)'
             PROVE  r # None /\ got' = w
  BY DEF AllArrived
<1> QED
  BY SameEdition

\* The application does not close: what it gave out is on its way.
LEMMA SegmentGoes ==
  ASSUME edition \in {1, 2}, edition' = edition, NEW n \in Nat, AppSend(n),
         AppShape(app'), app'.closes = FALSE, base' \in Nat,
         ~serving' => app'.request \in Requests,
         ~changed' => Carried(app', base', Grown(app', n), got', Onto(app', n, way),
                              Whole(app'.request), CursorOf(app'.request))
  PROVE  SendInv'
<1>1. PICK a : a = app'
  OBVIOUS
<1>2. /\ state' = "ESTABLISHED"
      /\ len' = IF a.slen > 0 /\ n = 0 THEN a.slen ELSE n
      /\ way' = IF a.slen > 0
                THEN [from |-> base', bytes |-> SubSeq(a.buffer, 1, len')] ELSE way
  BY <1>1 DEF AppSend
<1>3. len' = Grown(a, n) /\ len' \in Nat
  BY <1>1, <1>2 DEF Grown, AppShape
<1>4. ASSUME ~changed' PROVE Agreed'
  <2>1. a.acked = base'
    BY <1>1, <1>4 DEF Carried
  <2>2. way' = Onto(a, n, way)
    BY <1>2, <1>3, <2>1 DEF Onto
  <2> QED
    BY <1>1, <1>3, <1>4, <2>2, AgreedNext
<1> QED
  BY <1>2, <1>3, <1>4 DEF SendInv, Open

\* The server closes when everything has arrived.
LEMMA ServerCloses ==
  ASSUME edition \in {1, 2}, edition' = edition, NEW n, AppSend(n),
         AppShape(app'), app'.closes = TRUE, base' \in Nat,
         ~changed' => app'.request # None /\ got' = Whole(app'.request)
  PROVE  SendInv'
<1>1. state' = "FIN_WAIT_1" /\ len' = 1 /\ way' = NoSegment
  BY DEF AppSend
<1>2. ASSUME ~changed' PROVE AllArrived'
  BY <1>2, CompleteNext
<1> QED
  BY <1>1, <1>2 DEF SendInv, Open

\* A call of the application with what has come: data, an acknowledgement, or both.
LEMMA HearingArrives ==
  ASSUME SendInv, Open, serving \in BOOLEAN, NEW events, NEW lines, NEW acks \in BOOLEAN,
         "connected" \notin events, "rexmit" \notin events, "ended" \notin events,
         acks <=> "acked" \in events, acks => Acknowledgeable,
         base' = IF acks THEN base + len ELSE base,
         AppCall(serving, events, lines), AppSend(IF acks THEN 0 ELSE len),
         UNCHANGED <<serving, edition, got, changed>>
  PROVE  SendInv'
<1>1. PICK n \in Nat : n = IF acks THEN 0 ELSE len
  BY DEF SendInv
<1>2. AppSend(n)
  BY <1>1
<1>3. base' \in Nat /\ edition \in {1, 2} /\ AppShape(app) /\ base \in Nat /\ len \in Nat
  BY DEF SendInv
<1>4. PICK a, f : /\ GoesOn(a) /\ Answered(a, f)
                  /\ ~serving => f = a /\ a.request = app.request
                  /\ app' = IF ~acks THEN f
                            ELSE IF Confirmed(f).acked = f.cursor
                            THEN IF serving THEN [Confirmed(f) EXCEPT !.closes = TRUE]
                                            ELSE Confirmed(f)
                            ELSE Sent(Confirmed(f))
  <2>1. CASE serving
    <3>1. app' = ServerTask(events, lines)
      BY <2>1 DEF AppCall
    <3> QED
      BY <1>3, <2>1, <3>1, ServerHears
  <2>2. CASE ~serving
    <3>1. app' = ClientTask(events)
      BY <2>2 DEF AppCall
    <3>2. PICK a : a = NewCall(app)
      OBVIOUS
    <3>3. GoesOn(a) /\ Answered(a, a) /\ a.request = app.request
      BY <1>3, <3>2, NewCallGoesOn DEF Answered
    <3> QED
      BY <2>2, <3>1, <3>2, <3>3, ClientHears
  <2> QED
    BY <2>1, <2>2
<1>5. ~serving => app.request \in Requests
  BY DEF SendInv
<1>6. /\ AppShape(f) /\ f.closes = FALSE /\ f.acked = a.acked /\ f.request = a.request
  BY <1>3, <1>4, AnsweredShape
<1>7. ASSUME ~changed
      PROVE  Carried(a, base, len, got, way, Whole(a.request), CursorOf(a.request))
  <2>1. Agreed
    BY <1>7 DEF SendInv
  <2> QED
    BY <1>3, <1>4, <2>1, AgreedNow, GoingOnCarries
<1>8. CASE ~acks
  <2>1. app' = f /\ n = len /\ base' = base /\ got' = got
    BY <1>1, <1>4, <1>8
  <2>2. ASSUME ~changed'
        PROVE  Carried(f, base, Grown(f, len), got, Onto(f, len, way),
                       Whole(f.request), CursorOf(f.request))
    BY <1>3, <1>4, <1>7, <2>2, AnswerCarries
  <2>3. ~serving' => f.request \in Requests
    BY <1>4, <1>5, <1>6
  <2> QED
    BY <1>2, <1>3, <1>6, <2>1, <2>2, <2>3, SegmentGoes
<1>9. CASE acks
  <2>1. n = 0 /\ base' = base + len /\ got' = got /\ len > 0 /\ Len(got) = base + len
    BY <1>1, <1>9 DEF Acknowledgeable
  <2>2. PICK k : k = Confirmed(f)
    OBVIOUS
  <2>3. /\ AppShape(k) /\ k.acked = f.acked + f.sent /\ k.closes = FALSE
        /\ k.request = a.request /\ k.slen = f.slen /\ k.cursor = f.cursor
    BY <1>6, <2>2, ConfirmedIs
  <2>4. ASSUME ~changed
        PROVE  /\ k.acked = base + len /\ f.cursor = CursorOf(a.request) /\ a.request # None
               /\ Transfer(base + len, 0, got, way, Whole(a.request), CursorOf(a.request))
    BY <1>3, <1>4, <1>7, <2>1, <2>2, <2>4, AckCarries
  <2>5. CASE k.acked = f.cursor /\ serving
    <3>1. app' = [k EXCEPT !.closes = TRUE]
      BY <1>4, <1>9, <2>2, <2>5
    <3>2. AppShape(app') /\ app'.closes = TRUE /\ app'.request = a.request
      BY <2>3, <3>1 DEF AppShape
    <3>3. ASSUME ~changed' PROVE a.request # None /\ got = Whole(a.request)
      <4>1. Text(got) /\ Stands(got, Whole(a.request), 0) /\ Len(got) = CursorOf(a.request)
        BY <2>1, <2>4, <2>5, <3>3 DEF Transfer
      <4> QED
        BY <1>3, <2>4, <3>3, <4>1, AllHasArrived
    <3> QED
      BY <1>2, <1>3, <2>1, <3>2, <3>3, ServerCloses
  <2>6. CASE k.acked = f.cursor /\ ~serving
    <3>1. app' = k /\ f = a /\ k.slen = 0
      BY <1>4, <1>9, <2>2, <2>3, <2>6 DEF GoesOn
    <3>2. ~serving' => k.request \in Requests
      BY <1>4, <1>5, <2>3
    <3>3. ASSUME ~changed'
          PROVE  Carried(k, base', Grown(k, 0), got', Onto(k, 0, way),
                         Whole(k.request), CursorOf(k.request))
      <4>1. Grown(k, 0) = 0 /\ Onto(k, 0, way) = way
        BY <3>1, IdleCarries
      <4>2. CursorOf(a.request) \in Nat
        BY <1>3, PagesAreComplete DEF Complete
      <4> QED
        BY <2>1, <2>3, <2>4, <3>3, <4>1, <4>2 DEF Carried
    <3> QED
      BY <1>2, <1>3, <2>1, <2>3, <3>1, <3>2, <3>3, SegmentGoes
  <2>7. CASE k.acked # f.cursor
    <3>1. app' = Sent(k)
      BY <1>4, <1>9, <2>2, <2>7
    <3>2. /\ AppShape(app') /\ app'.closes = FALSE /\ app'.request = a.request
          /\ app'.acked = k.acked
      BY <1>3, <2>3, <3>1, SentIs
    <3>3. ~serving' => app'.request \in Requests
      BY <1>4, <1>5, <3>2
    <3>4. ASSUME ~changed'
          PROVE  Carried(app', base', Grown(app', 0), got', Onto(app', 0, way),
                         Whole(app'.request), CursorOf(app'.request))
      <4>1. k.request # None /\ Transfer(k.acked, 0, got, way, Whole(k.request), CursorOf(k.request))
        BY <2>3, <2>4, <3>4
      <4>2. Carried(Sent(k), k.acked, Grown(Sent(k), 0), got, Onto(Sent(k), 0, way),
                    Whole(k.request), CursorOf(k.request))
        BY <1>3, <2>3, <4>1, SentCarries
      <4> QED
        BY <2>1, <2>3, <2>4, <3>1, <3>2, <3>4, <4>2
    <3> QED
      BY <1>2, <1>3, <2>1, <3>2, <3>3, <3>4, SegmentGoes
  <2> QED
    BY <2>5, <2>6, <2>7
<1> QED
  BY <1>8, <1>9

\* What the transfer and the application's part in it have nothing to do with.
LEMMA AsideArrives ==
  ASSUME SendInv, UNCHANGED <<state, serving, len, base, app, edition, way, got, changed>>
  PROVE  SendInv'
<1>1. Agreed => Agreed'
  BY AgreedNow, AgreedNext
<1>2. AllArrived => AllArrived'
  <2> SUFFICES ASSUME AllArrived PROVE AllArrived'
    OBVIOUS
  <2>1. app.request # None /\ got = Whole(app.request)
    BY DEF AllArrived
  <2> QED
    BY <2>1, CompleteNext
<1>3. AppShape(app') /\ base' \in Nat /\ len' \in Nat /\ edition' \in {1, 2}
  BY DEF SendInv
<1> QED
  BY <1>1, <1>2, <1>3 DEF SendInv, Open

LEMMA ConnectedArrives ==
  ASSUME SendInv, PeerConnects
  PROVE  SendInv'
<1>1. /\ state \in {"CLOSED", "TIME_WAIT"} /\ serving' = TRUE /\ base' = 0
      /\ got' = <<>> /\ edition' = edition
      /\ AppCall(TRUE, {"connected"}, <<>>) /\ AppSend(0)
  BY DEF PeerConnects, Fresh, Sketch
<1>2. way = NoSegment /\ AppShape(app) /\ edition \in {1, 2}
  BY <1>1 DEF SendInv, Open
<1>3. PICK k : k = NewCall(app)
  OBVIOUS
<1>4. app' = [k EXCEPT !.acked = 0, !.request = None]
  <2>1. PICK events : events = {"connected"}
    OBVIOUS
  <2>2. /\ "connected" \in events /\ "newdata" \notin events /\ "acked" \notin events
        /\ "rexmit" \notin events /\ "ended" \notin events
    BY <2>1
  <2>3. app' = ServerTask(events, <<>>)
    BY <1>1, <2>1 DEF AppCall
  <2> QED
    BY <1>3, <2>2, <2>3 DEF ServerTask
<1>5. AppShape(k) /\ k.slen = 0 /\ k.closes = FALSE
  BY <1>2, <1>3, NewCallGoesOn DEF GoesOn
<1>6. PICK a : a = app'
  OBVIOUS
<1>7. /\ AppShape(a) /\ a.slen = 0 /\ a.closes = FALSE /\ a.acked = 0 /\ a.request = None
  BY <1>4, <1>5, <1>6 DEF AppShape
<1>8. Carried(a, 0, 0, <<>>, NoSegment, Whole(a.request), CursorOf(a.request))
  <2>1. PICK w, c : w = Whole(a.request) /\ c = CursorOf(a.request)
    OBVIOUS
  <2>2. c \in Nat
    BY <1>2, <2>1, PagesAreComplete DEF Complete
  <2>3. PICK e : e = <<>> /\ Text(e) /\ Len(e) = 0
    <3>1. << >> \in Seq({}) /\ Len(<< >>) = 0
      OBVIOUS
    <3> QED
      BY <3>1 DEF Text
  <2>4. NoSegment.from = 0 /\ NoSegment.bytes = e
    BY <2>3 DEF NoSegment
  <2>5. \A at : Stands(e, w, at)
    BY <2>3 DEF Stands
  <2>6. Transfer(0, 0, e, NoSegment, w, c)
    BY <2>2, <2>3, <2>4, <2>5 DEF Transfer
  <2> QED
    BY <1>7, <2>1, <2>2, <2>3, <2>6 DEF Carried
<1>9. Grown(a, 0) = 0 /\ Onto(a, 0, way) = NoSegment
  BY <1>2, <1>7, IdleCarries
<1> QED
  BY <1>1, <1>2, <1>6, <1>7, <1>8, <1>9, SegmentGoes

LEMMA AcceptedArrives ==
  ASSUME SendInv, PeerAccepts
  PROVE  SendInv'
<1>1. /\ state = "SYN_SENT" /\ base' = 0 /\ AppSend(0)
      /\ AppCall(FALSE, {"connected", "newdata"}, <<>>)
      /\ UNCHANGED <<serving, edition, got, changed>>
  BY DEF PeerAccepts, Sketch, auxVars
<1>2. /\ way = NoSegment /\ AppShape(app) /\ edition \in {1, 2} /\ ~serving /\ got = <<>>
      /\ app.request \in Requests
  BY <1>1 DEF SendInv, Open
<1>3. PICK k : k = [NewCall(app) EXCEPT !.acked = 0]
  OBVIOUS
<1>4. app' = Sent(k)
  <2>1. PICK events : events = {"connected", "newdata"}
    OBVIOUS
  <2>2. "connected" \in events /\ "acked" \notin events /\ "rexmit" \notin events
        /\ "ended" \notin events
    BY <2>1
  <2>3. app' = ClientTask(events)
    BY <1>1, <2>1 DEF AppCall
  <2> QED
    BY <1>3, <2>2, <2>3 DEF ClientTask
<1>5. AppShape(k) /\ k.closes = FALSE /\ k.acked = 0 /\ k.request = app.request
  <2>1. PICK n : n = NewCall(app)
    OBVIOUS
  <2>2. AppShape(n) /\ n.closes = FALSE /\ n.request = app.request
    BY <1>2, <2>1, NewCallGoesOn DEF GoesOn
  <2> QED
    BY <1>3, <2>1, <2>2 DEF AppShape
<1>6. k.request # None
  BY <1>2, <1>5, ServerAssumption
<1>7. PICK w, c : w = Whole(k.request) /\ c = CursorOf(k.request)
  OBVIOUS
<1>8. Transfer(0, 0, got, way, w, c)
  <2>1. c \in Nat
    BY <1>2, <1>7, PagesAreComplete DEF Complete
  <2>2. PICK e : e = <<>> /\ Text(e) /\ Len(e) = 0
    <3>1. << >> \in Seq({}) /\ Len(<< >>) = 0
      OBVIOUS
    <3> QED
      BY <3>1 DEF Text
  <2>3. way.from = 0 /\ way.bytes = e
    BY <1>2, <2>2 DEF NoSegment
  <2>4. \A at : Stands(e, w, at)
    BY <2>2 DEF Stands
  <2> QED
    BY <1>2, <2>1, <2>2, <2>3, <2>4 DEF Transfer
<1>9. PICK a : a = app'
  OBVIOUS
<1>10. Carried(a, 0, Grown(a, 0), got, Onto(a, 0, way), w, c)
  BY <1>2, <1>4, <1>5, <1>6, <1>7, <1>8, <1>9, SentCarries
<1>11. AppShape(a) /\ a.closes = FALSE /\ a.request = app.request
  BY <1>2, <1>4, <1>5, <1>9, SentIs
<1>12. Carried(a, 0, Grown(a, 0), got, Onto(a, 0, way), Whole(a.request), CursorOf(a.request))
  BY <1>5, <1>7, <1>10, <1>11
<1>13. ~serving' => a.request \in Requests
  BY <1>2, <1>11
<1>14. base' \in Nat /\ 0 \in Nat
  BY <1>1
<1> QED
  BY <1>1, <1>2, <1>9, <1>11, <1>12, <1>13, <1>14, SegmentGoes

LEMMA EndArrives ==
  ASSUME SendInv, NEW after \in {"CLOSED", "TIME_WAIT"}, End(after)
  PROVE  SendInv'
<1>1. /\ AppCall(serving, {"ended"}, <<>>) /\ state' = after /\ len' = 0 /\ way' = NoSegment
      /\ UNCHANGED <<base, edition>>
  BY DEF End, Sketch
<1>2. AppShape(NewCall(app))
  BY NewCallGoesOn DEF GoesOn, SendInv
<1>3. app' = [NewCall(app) EXCEPT !.request = None]
  <2>1. PICK events : events = {"ended"}
    OBVIOUS
  <2>2. /\ "connected" \notin events /\ "newdata" \notin events /\ "acked" \notin events
        /\ "rexmit" \notin events /\ "ended" \in events
    BY <2>1
  <2>3. app' = ServerTask(events, <<>>) \/ app' = ClientTask(events)
    BY <1>1, <2>1 DEF AppCall
  <2> QED
    BY <2>2, <2>3 DEF ServerTask, ClientTask, Forgotten
<1>4. AppShape(app')
  BY <1>2, <1>3 DEF AppShape
<1> QED
  BY <1>1, <1>4 DEF SendInv, Open

LEMMA RetransmitArrives ==
  ASSUME SendInv, Retransmit
  PROVE  SendInv'
<1>1. UNCHANGED <<state, serving, len, base, edition, got, changed>> /\ len > 0
  BY DEF Retransmit, Sketch, auxVars
<1>2. CASE ~Open
  <2>1. UNCHANGED <<app, way>>
    BY <1>2 DEF Retransmit
  <2> QED
    BY <1>1, <2>1, AsideArrives
<1>3. CASE Open
  <2>1. AppCall(serving, {"rexmit"}, <<>>)
    BY <1>3 DEF Retransmit
  <2>2. PICK k : k = NewCall(app)
    OBVIOUS
  <2>3. app' = Sent(k)
    BY <2>1, <2>2, TaskRepeats DEF AppCall
  <2>4. GoesOn(k) /\ k.request = app.request /\ AppShape(k)
        /\ edition \in {1, 2} /\ len \in Nat /\ base \in Nat
    BY <2>2, NewCallGoesOn DEF SendInv, GoesOn
  <2>5. PICK a : a = app'
    OBVIOUS
  <2>6. AppShape(a) /\ a.request = app.request
    BY <2>3, <2>4, <2>5, SentIs
  <2>7. way' = IF a.slen > 0
               THEN [from |-> base, bytes |-> SubSeq(a.buffer, 1, len)] ELSE way
    BY <1>3, <2>5 DEF Retransmit
  <2>8. ASSUME ~changed PROVE Agreed'
    <3>1. Carried(app, base, len, got, way, Whole(app.request), CursorOf(app.request))
      BY <1>3, <2>8, AgreedNow DEF SendInv
    <3>2. Carried(k, base, len, got, way, Whole(k.request), CursorOf(k.request))
      BY <2>4, <3>1, GoingOnCarries
    <3>3. Answered(k, a)
      BY <1>1, <2>3, <2>5, <3>2 DEF Answered, Carried
    <3>4. Carried(a, base, Grown(a, len), got, Onto(a, len, way),
                  Whole(a.request), CursorOf(a.request))
      BY <2>4, <3>2, <3>3, AnswerCarries
    <3>5. Grown(a, len) = len /\ a.acked = base
      BY <1>1, <3>4 DEF Grown, Carried
    <3>6. Onto(a, len, way) = way'
      BY <2>7, <3>5 DEF Onto
    <3> QED
      BY <1>1, <2>5, <3>4, <3>5, <3>6, AgreedNext
  <2>9. ~serving => app'.request \in Requests
    BY <1>3, <2>5, <2>6 DEF SendInv
  <2> QED
    BY <1>1, <1>3, <2>4, <2>5, <2>6, <2>8, <2>9 DEF SendInv, Open
<1> QED
  BY <1>2, <1>3

\* The other side takes what it does not have yet.
LEMMA TakenCarries ==
  ASSUME NEW a, NEW b \in Nat, NEW l \in Nat, NEW g, NEW y, NEW w, NEW c,
         Carried(a, b, l, g, y, w, c), y # NoSegment
  PROVE  Carried(a, b, l, g \o SubSeq(y.bytes, Len(g) - y.from + 1, Len(y.bytes)),
                 NoSegment, w, c)
<1>1. Transfer(b, l, g, y, w, c) /\ c \in Nat /\ a.request # None
  BY DEF Carried
<1>2. PICK h \in Nat : h = Len(g)
  BY <1>1, TextHasLength DEF Transfer
<1>3. PICK t : t = y.bytes
  OBVIOUS
<1>4. PICK m \in Nat : m = Len(t)
  BY <1>1, <1>3, TextHasLength DEF Transfer
<1>5. PICK at \in Nat : at = y.from /\ at <= h /\ at + m <= b + l
  BY <1>1, <1>2, <1>3, <1>4 DEF Transfer
<1>6. PICK T : t \in Seq(T)
  BY <1>1, <1>3 DEF Transfer, Text
<1>7. PICK G : g \in Seq(G)
  BY <1>1 DEF Transfer, Text
<1>8. PICK from \in Nat : from = h - at + 1 /\ from >= 1
  BY <1>5
<1>9. PICK s : s = SubSeq(t, from, m)
  OBVIOUS
<1>10. /\ s \in Seq(T) /\ Len(s) = IF from <= m THEN m - from + 1 ELSE 0
       /\ \A i \in 1 .. m - from + 1 : s[i] = t[from + i - 1]
  <2>1. \A i \in from .. m : t[i] \in T
    <3>1. \A i \in from .. m : i \in 1 .. Len(t)
      BY <1>4, <1>8
    <3> QED
      BY <1>6, <3>1
  <2> QED
    BY <1>9, <2>1, SubSeqProperties
<1>11. PICK n \in Nat : n = Len(s)
  BY <1>10, LenProperties
<1>12. n = IF at + m > h THEN at + m - h ELSE 0
  BY <1>8, <1>10, <1>11
<1>13. \A i \in 1 .. n : s[i] = w[h + i]
  <2>1. ASSUME NEW i \in 1 .. n PROVE s[i] = w[h + i]
    <3>1. i \in 1 .. m - from + 1
      BY <1>8, <1>12
    <3>2. PICK j \in 1 .. m : j = from + i - 1 /\ at + j = h + i
      BY <1>8, <3>1
    <3>3. t[j] = w[at + j]
      BY <1>1, <1>3, <1>4, <1>5 DEF Transfer, Stands
    <3> QED
      BY <1>10, <3>1, <3>2, <3>3
  <2> QED
    BY <2>1
<1>14. PICK S : S = G \cup T
  OBVIOUS
<1>15. PICK u : u = g \o s
  OBVIOUS
<1>16. g \in Seq(S) /\ s \in Seq(S)
  BY <1>7, <1>10, <1>14
<1>17. /\ u \in Seq(S) /\ Len(u) = h + n
       /\ \A i \in 1 .. h + n : u[i] = IF i <= h THEN g[i] ELSE s[i - h]
  BY <1>2, <1>11, <1>15, <1>16, ConcatProperties
<1>18. \A i \in 1 .. h + n : u[i] = w[i]
  <2>1. ASSUME NEW i \in 1 .. h + n PROVE u[i] = w[i]
    <3>1. CASE i <= h
      <4>1. i \in 1 .. h /\ 0 + i = i
        BY <3>1
      <4>2. g[i] = w[i]
        BY <1>1, <1>2, <4>1 DEF Transfer, Stands
      <4> QED
        BY <1>17, <3>1, <4>2
    <3>2. CASE ~(i <= h)
      <4>1. PICK j \in 1 .. n : j = i - h /\ h + j = i
        BY <3>2
      <4> QED
        BY <1>13, <1>17, <3>2, <4>1
    <3> QED
      BY <3>1, <3>2
  <2> QED
    BY <2>1
<1>19. Text(u) /\ Stands(u, w, 0)
  <2>1. \A i \in 1 .. h + n : 0 + i = i
    OBVIOUS
  <2> QED
    BY <1>17, <1>18, <2>1 DEF Text, Stands
<1>20. b <= h /\ h <= b + l /\ b + l <= c
  BY <1>1, <1>2 DEF Transfer
<1>21. b <= h + n /\ h + n <= b + l /\ h + n <= c
  BY <1>1, <1>5, <1>12, <1>20
<1>22. Transfer(b, l, u, NoSegment, w, c)
  <2>1. PICK e : e = <<>> /\ Text(e) /\ Len(e) = 0
    <3>1. << >> \in Seq({}) /\ Len(<< >>) = 0
      OBVIOUS
    <3> QED
      BY <3>1 DEF Text
  <2>2. NoSegment.from = 0 /\ NoSegment.bytes = e
    BY <2>1 DEF NoSegment
  <2>3. Stands(e, w, 0)
    BY <2>1 DEF Stands
  <2>4. 0 <= h + n /\ 0 + 0 <= b + l
    OBVIOUS
  <2> QED
    BY <1>17, <1>19, <1>20, <1>21, <2>1, <2>2, <2>3, <2>4 DEF Transfer
<1>23. u = g \o SubSeq(y.bytes, Len(g) - y.from + 1, Len(y.bytes))
  BY <1>2, <1>3, <1>4, <1>5, <1>8, <1>9, <1>15
<1>24. Carried(a, b, l, u, NoSegment, w, c)
  BY <1>1, <1>22 DEF Carried
<1> QED
  BY <1>23, <1>24

LEMMA DeliverArrives ==
  ASSUME SendInv, Deliver \/ Lose
  PROVE  SendInv'
<1>1. /\ way # NoSegment /\ way' = NoSegment
      /\ UNCHANGED <<state, serving, len, base, app, edition, changed>>
      /\ got' = got \/ got' = got \o SubSeq(way.bytes, Len(got) - way.from + 1, Len(way.bytes))
  BY DEF Deliver, Lose, Sketch, auxVars
<1>2. Open
  BY <1>1 DEF SendInv
<1>3. AppShape(app') /\ base' \in Nat /\ len' \in Nat /\ edition' \in {1, 2}
      /\ base \in Nat /\ len \in Nat /\ edition \in {1, 2}
  BY <1>1 DEF SendInv
<1>4. ASSUME ~changed PROVE Agreed'
  <2>1. PICK w, c : w = Whole(app.request) /\ c = CursorOf(app.request)
    OBVIOUS
  <2>2. Carried(app, base, len, got, way, w, c)
    BY <1>2, <1>4, <2>1, AgreedNow DEF SendInv
  <2>3. Carried(app, base, len, got', NoSegment, w, c)
    <3>1. CASE got' = got
      <4>1. Transfer(base, len, got, NoSegment, w, c)
        <5>1. PICK h \in Nat : h = Len(got)
          BY <2>2, TextHasLength DEF Carried, Transfer
        <5>2. PICK e : e = <<>> /\ Text(e) /\ Len(e) = 0
          <6>1. << >> \in Seq({}) /\ Len(<< >>) = 0
            OBVIOUS
          <6> QED
            BY <6>1 DEF Text
        <5>3. NoSegment.from = 0 /\ NoSegment.bytes = e
          BY <5>2 DEF NoSegment
        <5>4. Stands(e, w, 0)
          BY <5>2 DEF Stands
        <5>5. 0 <= h /\ 0 + 0 <= base + len
          BY <1>3
        <5> QED
          BY <2>2, <5>1, <5>2, <5>3, <5>4, <5>5 DEF Carried, Transfer
      <4>2. app.request # None
        BY <1>1, <2>2 DEF Carried
      <4> QED
        BY <2>2, <3>1, <4>1, <4>2 DEF Carried
    <3>2. CASE got' = got \o SubSeq(way.bytes, Len(got) - way.from + 1, Len(way.bytes))
      BY <1>1, <1>3, <2>2, <3>2, TakenCarries
    <3> QED
      BY <1>1, <3>1, <3>2
  <2> QED
    BY <1>1, <2>1, <2>3, AgreedNext
<1> QED
  BY <1>1, <1>2, <1>3, <1>4 DEF SendInv, Open

LEMMA ConnectArrives ==
  ASSUME SendInv, queue \in Seq(Requests), Connect
  PROVE  SendInv'
<1>1. /\ queue # <<>> /\ state' = "SYN_SENT" /\ serving' = FALSE /\ len' = 1 /\ base' = 0
      /\ app' = [app EXCEPT !.request = Head(queue)]
      /\ way' = NoSegment /\ got' = <<>> /\ edition' = edition
  BY DEF Connect, UipConnect, Fresh
<1>2. Head(queue) \in Requests
  BY <1>1, HeadTailProperties
<1>3. AppShape(app') /\ app'.request = Head(queue)
  BY <1>1 DEF SendInv, AppShape
<1> QED
  BY <1>1, <1>2, <1>3 DEF SendInv, Open

LEMMA PeerArrives ==
  ASSUME SendInv, serving \in BOOLEAN, Peer
  PROVE  SendInv'
<1>1. CASE PeerAcks
  <2>1. /\ Open /\ Acknowledgeable /\ base' = base + len
        /\ AppCall(serving, {"acked"}, <<>>) /\ AppSend(0)
        /\ UNCHANGED <<serving, edition, got, changed>>
    BY <1>1 DEF PeerAcks, Sketch, auxVars
  <2>2. PICK events : events = {"acked"}
    OBVIOUS
  <2>3. /\ "connected" \notin events /\ "rexmit" \notin events /\ "ended" \notin events
        /\ (TRUE <=> "acked" \in events) /\ TRUE \in BOOLEAN
    BY <2>2
  <2>4. /\ AppCall(serving, events, <<>>) /\ AppSend(IF TRUE THEN 0 ELSE len)
        /\ base' = IF TRUE THEN base + len ELSE base
    BY <2>1, <2>2
  <2> QED
    BY <2>1, <2>3, <2>4, HearingArrives
<1>2. CASE PeerTalks
  <2>1. PICK lines \in Packets, acks \in BOOLEAN : PeerSends(lines, acks)
    BY <1>2 DEF PeerTalks
  <2>2. PICK events : events = {"newdata"} \cup (IF acks THEN {"acked"} ELSE {})
    OBVIOUS
  <2>3. /\ Open /\ (acks => Acknowledgeable) /\ base' = IF acks THEN base + len ELSE base
        /\ AppCall(serving, events, lines) /\ AppSend(IF acks THEN 0 ELSE len)
        /\ UNCHANGED <<serving, edition, got, changed>>
    BY <2>1, <2>2 DEF PeerSends, Sketch, auxVars
  <2>4. /\ "connected" \notin events /\ "rexmit" \notin events /\ "ended" \notin events
        /\ (acks <=> "acked" \in events)
    BY <2>2
  <2> QED
    BY <2>3, <2>4, HearingArrives
<1>3. CASE PeerResets \/ PeerCloses
  <2>1. End("CLOSED") \/ End("TIME_WAIT")
    BY <1>3 DEF PeerResets, PeerCloses
  <2> QED
    BY <2>1, EndArrives
<1>4. CASE PeerAcksFin
  <2>1. /\ state = "FIN_WAIT_1" /\ state' = "FIN_WAIT_2" /\ len' = 0
        /\ UNCHANGED <<serving, base, app, edition, way, got, changed>>
    BY <1>4 DEF PeerAcksFin, Sketch, auxVars
  <2>2. AllArrived => AllArrived'
    <3>1. AllArrived => app.request # None /\ got = Whole(app.request)
      BY DEF AllArrived
    <3> QED
      BY <2>1, <3>1, CompleteNext
  <2>3. AppShape(app') /\ base' \in Nat /\ edition' \in {1, 2}
    BY <2>1 DEF SendInv
  <2> QED
    BY <2>1, <2>2, <2>3 DEF SendInv, Open
<1> QED
  BY <1>1, <1>2, <1>3, <1>4, ConnectedArrives, AcceptedArrives DEF Peer

LEMMA TimerArrives ==
  ASSUME SendInv, Timer
  PROVE  SendInv'
<1>1. CASE GiveUp
  BY <1>1, EndArrives DEF GiveUp
<1>2. CASE WaitEnds
  <2>1. /\ state \in {"FIN_WAIT_2", "TIME_WAIT"} /\ state' = "CLOSED"
        /\ UNCHANGED <<len, base, way, app, edition>>
    BY <1>2 DEF WaitEnds, Sketch
  <2>2. AppShape(app') /\ base' \in Nat /\ len' \in Nat /\ edition' \in {1, 2}
    BY <2>1 DEF SendInv
  <2> QED
    BY <2>1, <2>2 DEF SendInv, Open
<1> QED
  BY <1>1, <1>2, RetransmitArrives DEF Timer

LEMMA InitArrives == Init => SendInv
<1> SUFFICES ASSUME Init PROVE SendInv
  OBVIOUS
<1>1. PICK b : app = [acked |-> 0, sent |-> 0, cursor |-> 0, request |-> None, slen |-> 0,
                      closes |-> FALSE, buffer |-> b]
  BY DEF Init
<1>2. AppShape(app)
  BY <1>1 DEF AppShape
<1>3. state = "CLOSED" /\ len = 0 /\ base = 0 /\ edition = 1 /\ way = NoSegment
  BY DEF Init
<1> QED
  BY <1>2, <1>3 DEF SendInv, Open

LEMMA NextArrives == SendInv /\ WsInv /\ [Next]_vars => SendInv'
<1> SUFFICES ASSUME SendInv, WsInv, [Next]_vars PROVE SendInv'
  OBVIOUS
<1>1. CASE UNCHANGED vars \/ \E r \in Requests : Submit(r)
  <2>1. UNCHANGED <<state, serving, len, base, app, edition, way, got, changed>>
    BY <1>1 DEF Submit, vars, tcpVars, auxVars
  <2> QED
    BY <2>1, AsideArrives
<1>2. CASE PageChanges
  <2>1. /\ edition' = 3 - edition /\ changed'
        /\ UNCHANGED <<state, serving, len, base, app, way, got>>
    BY <1>2 DEF PageChanges, tcpVars
  <2>2. edition' \in {1, 2} /\ AppShape(app') /\ base' \in Nat /\ len' \in Nat
    BY <2>1 DEF SendInv
  <2> QED
    BY <2>1, <2>2 DEF SendInv, Open
<1>3. queue \in Seq(Requests) /\ serving \in BOOLEAN
  BY DEF WsInv, QueuedOnce
<1> QED
  BY <1>1, <1>2, <1>3, PeerArrives, TimerArrives, ConnectArrives, DeliverArrives DEF Next

\* For any pages, requests, packets and losses, and segments of any size: what the other
\* side has is the beginning of what was to be sent, byte for byte, and the server does
\* not close before it is all of it, unless the page changes (WiServer.cpp).
THEOREM ResponseArrives == Spec => []WholeArrives
<1>1. SendInv => WholeArrives
  <2> SUFFICES ASSUME SendInv, state \in {"ESTABLISHED", "FIN_WAIT_1", "FIN_WAIT_2"},
                      app.request # None, ~changed
               PROVE  /\ IsPrefix(got, Whole(app.request))
                      /\ state # "ESTABLISHED" => got = Whole(app.request)
    BY DEF WholeArrives
  <2>1. PICK w, c : w = Whole(app.request) /\ c = CursorOf(app.request)
    OBVIOUS
  <2>2. c \in Nat /\ w \in Seq(Range(w)) /\ Len(w) = c
    BY <2>1, WholeIsSequence DEF SendInv
  <2>3. CASE state = "ESTABLISHED"
    <3>1. Carried(app, base, len, got, way, w, c)
      BY <2>1, <2>3, AgreedNow DEF SendInv, Open
    <3>2. PICK h \in Nat : h = Len(got) /\ h <= c
      BY <3>1, TextHasLength DEF Carried, Transfer
    <3>3. \A i \in 1 .. h : got[i] = w[i]
      <4>1. \A i \in 1 .. h : 0 + i = i
        OBVIOUS
      <4> QED
        BY <3>1, <3>2, <4>1 DEF Carried, Transfer, Stands
    <3>4. PICK S : got \in Seq(S)
      BY <3>1 DEF Carried, Transfer, Text
    <3>5. IsPrefix(got, w)
      BY <2>2, <3>2, <3>3, <3>4 DEF IsPrefix
    <3> QED
      BY <2>1, <2>3, <3>5
  <2>4. CASE state # "ESTABLISHED"
    <3>1. got = w
      BY <2>1, <2>4 DEF SendInv, AllArrived
    <3>2. IsPrefix(w, w)
      BY <2>2 DEF IsPrefix
    <3> QED
      BY <2>1, <3>1, <3>2
  <2> QED
    BY <2>3, <2>4
<1> QED
  BY <1>1, InitArrives, NextArrives, InitWs, NextWs, PTL DEF Spec
=============================================================================
