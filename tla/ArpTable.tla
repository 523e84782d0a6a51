------------------------------ MODULE ArpTable ------------------------------
(***************************************************************************)
(* uip_arp.c: the table that turns the addresses of the local network into *)
(* link addresses, as stack_process() uses it.  A packet the clock sends   *)
(* goes to the slot of its next hop, or is replaced by a request when      *)
(* there is none.  The table learns from requests for the clock's own      *)
(* address and from replies; uip_arp_ipin() is an empty macro, so IP       *)
(* packets teach it nothing.                                               *)
(*                                                                         *)
(* Ages are kept in eight bits (TimeMod = 256) that wrap, while the        *)
(* subtractions of the code are done on ints and may be negative.          *)
(***************************************************************************)
EXTENDS Integers, FiniteSets

CONSTANTS
  Hosts,       \* addresses of the local network, the router's among them
  Router,      \* uip_draddr
  Macs,        \* link addresses
  TableSize,   \* UIP_ARPTAB_SIZE
  MaxAge,      \* UIP_ARP_MAXAGE
  TimeMod,     \* the width of arptime: 256
  NoHost,      \* the address 0.0.0.0 of an unused slot
  Elsewhere    \* a destination that is not on the local network

ASSUME ArpAssumption ==
  /\ Router \in Hosts /\ NoHost \notin Hosts /\ Elsewhere \notin Hosts
  /\ TableSize \in Nat /\ TableSize > 0
  /\ MaxAge \in Nat /\ MaxAge > 0
  /\ TimeMod \in Nat /\ MaxAge < TimeMod

Slots == 1 .. TableSize

VARIABLES
  table,     \* arp_table: what each slot holds
  arptime,   \* the ticks of uip_arp_timer(), one every ten seconds
  out,       \* the last frame the clock made: what it is, for whom, to which MAC
  heard,     \* auxiliary: the link address a host last told the clock
  age        \* auxiliary: the ticks since a slot was filled, up to TimeMod

arpVars == <<table, arptime, out, heard, age>>

Used(s)   == table[s].ip # NoHost
Unused    == [ip : {NoHost}, mac : Macs, time : 0 .. TimeMod - 1]
Entry     == [ip : Hosts, mac : Macs, time : 0 .. TimeMod - 1]
Frame     == [kind : {"none", "ip", "request", "reply", "self"}, hop : Hosts \cup {NoHost},
              mac : Macs \cup {"broadcast", "none"}]

ArpTypeOK ==
  /\ table \in [Slots -> Unused \cup Entry]
  /\ arptime \in 0 .. TimeMod - 1
  /\ out \in Frame
  /\ heard \in [Hosts -> Macs]
  /\ age \in [Slots -> 0 .. TimeMod]

ArpInit ==
  /\ table \in [Slots -> [ip : {NoHost}, mac : Macs, time : {0}]]
  /\ \A s, r \in Slots : table[s] = table[r]      \* the memory is all zeros
  /\ arptime = 0
  /\ out = [kind |-> "none", hop |-> NoHost, mac |-> "none"]
  /\ heard \in [Hosts -> Macs]
  /\ age = [s \in Slots |-> 0]

----------------------------------------------------------------------------
\* The int the code calls an age.
AgeOf(s) == arptime - table[s].time

\* uip_arp_timer()
BadExpired(s) == Used(s) /\ ((arptime + 1) % TimeMod) - table[s].time > MaxAge
Expired(s) == Used(s) /\ ((arptime + 1) % TimeMod) - table[s].time >= MaxAge

ArpTimer ==
  /\ arptime' = (arptime + 1) % TimeMod
  /\ table' = [s \in Slots |-> IF Expired(s) THEN [table[s] EXCEPT !.ip = NoHost]
                                             ELSE table[s]]
  /\ age' = [s \in Slots |-> IF age[s] < TimeMod THEN age[s] + 1 ELSE age[s]]
  /\ UNCHANGED <<out, heard>>

----------------------------------------------------------------------------
\* The slot uip_arp_update() writes: that of the host, else the last of a
\* scan that stops at the first unused one, else the first of the oldest,
\* or slot 1 when none is older than zero.
First(S) == CHOOSE s \in S : \A r \in S : s <= r

BadSlotFor(h) ==           \* stops looking at the first unused slot
  LET free == {s \in Slots : ~Used(s) \/ table[s].ip = h}
  IN  IF free # {} THEN First(free) ELSE 1

SlotFor(h) ==
  LET known  == {s \in Slots : table[s].ip = h}
      free   == {s \in Slots : ~Used(s)}
      oldest == {s \in Slots : AgeOf(s) > 0 /\ \A r \in Slots : AgeOf(r) <= AgeOf(s)}
  IN  IF known # {} THEN First(known)
      ELSE IF free # {} THEN First(free)
      ELSE IF oldest # {} THEN First(oldest)
      ELSE 1

BadUpdate(h, m) ==         \* keeps the address of a host it knows
  LET known == table[SlotFor(h)].ip = h
  IN  /\ table' = [table EXCEPT ![SlotFor(h)] =
                    [ip |-> h, time |-> arptime, mac |-> IF known THEN @.mac ELSE m]]
      /\ age' = [age EXCEPT ![SlotFor(h)] = 0]
      /\ heard' = [heard EXCEPT ![h] = m]
      /\ UNCHANGED arptime

Update(h, m) ==
  /\ table' = [table EXCEPT ![SlotFor(h)] = [ip |-> h, mac |-> m, time |-> arptime]]
  /\ age' = [age EXCEPT ![SlotFor(h)] = 0]
  /\ heard' = [heard EXCEPT ![h] = m]
  /\ UNCHANGED arptime

\* uip_arp_arpin(): a request for the clock's address is learnt and answered, a
\* reply to the clock is learnt.  Packets for others have no effect at all.
ArpRequestIn(h, m) ==
  /\ Update(h, m)
  /\ out' = [kind |-> "reply", hop |-> h, mac |-> m]

ArpReplyIn(h, m) ==
  /\ Update(h, m)
  /\ UNCHANGED out

----------------------------------------------------------------------------
\* uip_arp_out(): the frame of a packet for dest, or the request that takes its place.
NextHop(dest) == IF dest \in Hosts THEN dest ELSE Router

ArpOut(dest) ==
  LET hop   == NextHop(dest)
      known == {s \in Slots : table[s].ip = hop}
  IN  /\ out' = IF known # {}
                THEN [kind |-> "ip", hop |-> hop, mac |-> table[First(known)].mac]
                ELSE [kind |-> "request", hop |-> hop, mac |-> "broadcast"]
      /\ UNCHANGED <<table, arptime, heard, age>>

\* uip_self_arp_out(): the broadcast that keeps the access point from dropping the clock.
SelfArpOut ==
  /\ out' = [kind |-> "self", hop |-> NoHost, mac |-> "broadcast"]
  /\ UNCHANGED <<table, arptime, heard, age>>

ArpNext ==
  \/ ArpTimer
  \/ SelfArpOut
  \/ \E dest \in Hosts \cup {Elsewhere} : ArpOut(dest)
  \/ \E h \in Hosts, m \in Macs : ArpRequestIn(h, m) \/ ArpReplyIn(h, m)

ArpSpec == ArpInit /\ [][ArpNext]_arpVars

----------------------------------------------------------------------------
\* No host has two slots: an answer that updated one of them would leave the
\* other to be found later.
OneSlotPerHost ==
  \A s, r \in Slots : Used(s) /\ table[s].ip = table[r].ip => s = r

\* A slot that has survived its maximal age was filled so late that arptime
\* wrapped before that age was reached: every other one is gone by then.
OnlyWrappingOutlives ==
  \A s \in Slots :
    Used(s) /\ age[s] >= MaxAge => table[s].time > TimeMod - 1 - MaxAge

\* A packet is never sent to a link address its next hop has given up since:
\* it goes to the one last heard.
SentToLastHeard ==
  [][out'.kind = "ip" /\ out' # out => out'.mac = heard[out'.hop]]_arpVars

\* What uipopt.h:390 promises: no slot is older than UIP_ARP_MAXAGE.
EntriesExpire == \A s \in Slots : Used(s) => age[s] < MaxAge

ArpInv == ArpTypeOK /\ OneSlotPerHost
          /\ \A s \in Slots : Used(s) => table[s].mac = heard[table[s].ip]

\* The table is right whatever was heard, evicted and aged: one slot per host, with the
\* address last heard, and none too old but for the wrapping of arptime.
ArpTableHolds == ArpInv /\ OnlyWrappingOutlives
=============================================================================
