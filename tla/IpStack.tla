------------------------------ MODULE IpStack ------------------------------
(***************************************************************************)
(* stack_process() below TCP: frames are taken apart by their type, an IP  *)
(* packet's answer is addressed by uip_arp_out(), and the ARP table ages.  *)
(* Whether TCP has something to say to a packet or at a tick is left open: *)
(* TcpConnection is about that.                                            *)
(***************************************************************************)
EXTENDS ArpTable, IpPacket

\* The sums that stand for a good packet and for one damaged on its way.
Sums == {65535, 65279}

Datagrams ==
  {p \in [src : Hosts \cup {Elsewhere}, mine : BOOLEAN, whole : {TRUE}, plain : {TRUE},
          sum : Sums, proto : {"tcp", "icmp"}, echo : BOOLEAN] : p.proto = "tcp" => ~p.echo}

\* An IP frame: uip_arp_ipin() does nothing, uip_input() may leave an answer.
IpIn(p) ==
  CASE IpInput(p) = "echo" -> ArpOut(p.src)
    [] IpInput(p) = "tcp"  -> ArpOut(p.src) \/ UNCHANGED arpVars
    [] IpInput(p) = "drop" -> UNCHANGED arpVars

\* uip_periodic() of the connection, which may leave a packet for its peer.
Periodic(peer) == ArpOut(peer)

StackNext ==
  \/ ArpTimer \/ SelfArpOut
  \/ \E peer \in Hosts \cup {Elsewhere} : Periodic(peer)
  \/ \E p \in Datagrams : IpIn(p)
  \/ \E h \in Hosts, m \in Macs : ArpRequestIn(h, m) \/ ArpReplyIn(h, m)

StackSpec == ArpInit /\ [][StackNext]_arpVars
=============================================================================
