---------------------------- MODULE ProtoSocket ----------------------------
(***************************************************************************)
(* The application of the connection: socketapp.c over the protosockets of *)
(* psock.c.  uIP calls it for every event; it goes on where it waited:     *)
(* inside PSOCK_READTO for the end of a line, or inside PSOCK_SEND until   *)
(* the answer is acknowledged.  One call handles at most one line, since   *)
(* every line is answered and every answer is waited for.                  *)
(*                                                                         *)
(* A line is a record with its number n in the stream; its answer is n.    *)
(* The client sends whole lines, which are shorter than a segment.         *)
(***************************************************************************)
EXTENDS Naturals, Sequences

Junk == [n |-> 0, kind |-> "junk"]     \* a line made of bytes that were no line of this client

\* The protosocket.  at: where the two protothreads wait; rest: the readlen
\* bytes after readptr, in lines, which stay in the packet buffer; dirty: the
\* line buffer holds bytes of no line; answer: what sendptr points to.
Psock(at, rest, dirty, answer) ==
  [at |-> at, rest |-> rest, dirty |-> dirty, answer |-> answer]

PsockAt == {"read", "send", "sendlast"}

\* psock_init()
Fresh == Psock("read", <<>>, FALSE, 0)

\* What a call leaves: the protosocket, whether it called uip_send() and
\* uip_close(), the lines it passed to handleCommand() and the answers it started.
Outcome(p, sends, closes, lines, says) ==
  [ps |-> p, sends |-> sends, closes |-> closes, lines |-> lines, says |-> says]

Goes(p, sends, closes) == Outcome(p, sends, closes, <<>>, <<>>)

\* handle_connection(): the line is answered, q with an empty line.  psock_send()
\* sends at once, since the state it starts from is STATE_NONE.
HandleLine(p, line) ==
  IF line.kind = "quit"
  THEN Outcome(Psock("sendlast", p.rest, FALSE, line.n), TRUE, FALSE, <<>>, <<line.n>>)
  ELSE Outcome(Psock("send", p.rest, FALSE, line.n), TRUE, FALSE, <<line>>, <<line.n>>)

\* psock_newdata() and the line that ends in the new segment.  Bytes of no line
\* before it spoil it.
ReadNew(p, newdata, data) ==
  IF newdata
  THEN {HandleLine([p EXCEPT !.rest = Tail(data)], IF p.dirty THEN Junk ELSE Head(data))}
  ELSE {Goes(p, FALSE, FALSE)}

\* psock_readto().  What is left of an earlier segment is read first, from where
\* the segment was: by now the packet buffer may hold other frames there, with
\* or without an end of line.
ReadTo(p, newdata, data) ==
  IF p.rest = <<>> THEN ReadNew(p, newdata, data)
  ELSE LET after == [p EXCEPT !.rest = Tail(p.rest)]
       IN  {HandleLine(after, Head(p.rest)), HandleLine(after, Junk)}
           \cup ReadNew([p EXCEPT !.rest = <<>>, !.dirty = TRUE], newdata, data)

\* psock_send() blocks until data_acked(), and repeats the answer on uip_rexmit().
\* After the last answer the connection is closed and the protothread starts over.
GoesOn(p, ev, data) ==
  IF "acked" \in ev
  THEN IF p.at = "sendlast"
       THEN {Goes([p EXCEPT !.at = "read"], FALSE, TRUE)}
       ELSE ReadTo([p EXCEPT !.at = "read"], "newdata" \in ev, data)
  ELSE {Goes(p, "rexmit" \in ev, FALSE)}

\* socket_app_appcall(): the outcomes of a call for the events of uip_flags.
AppCall(ps, ev, data) ==
  LET p == IF "connected" \in ev THEN Fresh ELSE ps
  IN  IF p.at = "read" THEN ReadTo(p, "newdata" \in ev, data)
      ELSE GoesOn(p, ev, data)
=============================================================================
