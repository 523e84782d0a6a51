----------------------------- MODULE MCWiServer -----------------------------
(* Segments of two bytes; a page that grows, one that is not known, a GET    *)
(* and a POST whose length is filled in when its body is known.  And, apart *)
(* from it, forwarding: each takes steps while the other is at its start.   *)
EXTENDS WiServer, Forwarding

MCBytes(of, n) == [i \in 1 .. n |-> <<of, i>>]

MCHeader  == MCBytes("ok", 2)
MCMissing == MCBytes("404", 3)
MCPages   == [time |-> << MCBytes("t", 3), MCBytes("T", 6) >>]
MCPackets == { <<"time">>, <<"time", "other", "blank">>, <<"where", "blank">>,
               <<"other", "blank">>, <<"other", "time">> }
MCRequests == {"get", "post"}
MCWrites == [get  |-> << Piece(0, MCBytes("get", 3)) >>,
             post |-> << Piece(0, MCBytes("post", 4)), Piece(4, MCBytes("body", 3)),
                         Piece(2, MCBytes("length", 1)) >>]
MCEnds == [get |-> 3, post |-> 7]

MCNets == {{"a"}}
FwPacket(id, src, dest, proto, ttl, chksum) ==
  [key |-> [id |-> id, src |-> src, dest |-> dest, proto |-> proto],
   ttl |-> ttl, chksum |-> chksum]
MCArrivals ==                           \* with the checksums next to a carry
  { FwPacket(1, "a", "b", Tcp, 2, 65535), FwPacket(1, "a", "b", Tcp, 2, 65534),
    FwPacket(2, "a", "b", Tcp, 2, 0), FwPacket(1, "b", "a", Icmp, 2, 4660),
    FwPacket(2, "b", "a", Tcp, 1, 1), FwPacket(2, "b", "a", Icmp, 1, 1),
    FwPacket(1, "a", "us", Tcp, 2, 1), FwPacket(2, "a", Everyone, Tcp, 1, 1) }

MCInit == Init /\ FwInit
MCNext == \/ FwInit /\ Next /\ UNCHANGED fwVars
          \/ Init /\ FwNext /\ UNCHANGED vars

MCSpec == MCInit /\ [][MCNext]_<<vars, fwVars>> /\ WF_vars(Timer)
=============================================================================
