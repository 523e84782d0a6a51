----------------------------- MODULE MCIpStack -----------------------------
(* The ARP table in use and, apart from it, the arithmetic of uip.c: the    *)
(* two share no state, and a behaviour is about one of them.                *)
EXTENDS IpStack, IpWalk

\* One start of the table is enough for the arithmetic.
Untouched == ArpInit /\ \A h \in Hosts : heard[h] = table[1].mac
AtRest    == seq = Nothing /\ packet = NoData /\ ping = <<>>

MCInit == ArpInit /\ IpInit /\ (AtRest \/ Untouched)
MCNext == \/ AtRest /\ StackNext /\ UNCHANGED ipVars
          \/ Untouched /\ IpNext /\ UNCHANGED arpVars

MCSpec == MCInit /\ [][MCNext]_<<arpVars, ipVars>>
=============================================================================
