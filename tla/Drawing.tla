------------------------------ MODULE Drawing ------------------------------
(***************************************************************************)
(* What display.cpp puts into the buffer: texts, durations and bars.  The  *)
(* eight rows are drawn alike, so one of them is followed; its 16 bytes,   *)
(* eight of red and eight of green, are a set of lit places 0 .. 127.      *)
(*                                                                         *)
(* A character is drawn by one of two ways, byte by byte where it is well  *)
(* inside the borders and dot by dot elsewhere.                            *)
(***************************************************************************)
EXTENDS Integers, Sequences, FiniteSetsExt

CONSTANTS
  XRES,       \* 64
  Columns,    \* of each character: the columns lit in any row, 0 .. 4
  InRow       \* those of them lit in the row that is followed

Chars == DOMAIN Columns

\* Characters beyond the font.  A text ends with the first below 32; one above 127
\* ends drawString() only.
Umlaut == "umlaut"

ASSUME FontAssumption ==
  /\ XRES \in Nat /\ XRES % 8 = 0 /\ XRES > 16
  /\ Umlaut \notin Chars /\ DOMAIN InRow = Chars
  /\ \A c \in Chars : Columns[c] \subseteq 0 .. 4 /\ InRow[c] \subseteq Columns[c]

Red == 0
Green == XRES
Yellow == {Red, Green}          \* a colour is the set of the halves it is drawn in

----------------------------------------------------------------------------
\* charConv.pl: the last lit column, at least one, and one to keep apart.
CharSize(c) == IF Columns[c] = {} THEN 2 ELSE Max(Columns[c]) + 2

CharWidth(c) == IF c \in Chars THEN CharSize(c) ELSE 6

\* getStringSize(): where each character ends, and so the whole text.
Reach(s) ==
  LET reach[n \in 0 .. Len(s)] == IF n = 0 THEN 0 ELSE reach[n - 1] + CharWidth(s[n])
  IN  reach

StringSize(s) == Reach(s)[Len(s)]

----------------------------------------------------------------------------
\* plot(), as far as the row is concerned.
Plot(x, colour) == IF x \in 0 .. XRES - 1 THEN {half + x : half \in colour} ELSE {}

\* The two bytes the eight bits of a character's row are shifted into; the second is
\* left alone in the last byte of a half.
Bytes(c, x, colour) ==
  LET first  == {x + k : k \in {k \in InRow[c] : (x % 8) + k < 8}}
      second == {x + k : k \in {k \in InRow[c] : (x % 8) + k >= 8}}
      both   == IF x < XRES - 8 THEN first \cup second ELSE first
  IN  {half + p : half \in colour, p \in both}

Dots(c, x, colour, left, right) ==
  UNION {Plot(x + k, colour) : k \in {k \in InRow[c] : k < CharSize(c) /\ x + k \in left .. right}}

\* Whether the first way is taken.
BadInside(c, x, left, right) == x > left - CharSize(c) /\ x < right - CharSize(c)
Inside(c, x, left, right)    == x > left /\ x < right - CharSize(c)

DrawChar(c, x, colour, left, right) ==
  IF x > right \/ x < left - CharSize(c) THEN {}
  ELSE IF Inside(c, x, left, right) THEN Bytes(c, x, colour)
  ELSE Dots(c, x, colour, left, right)

\* An aligned 1 is drawn dot by dot, and not in the last row.
DrawFigure(c, x, colour, lastRow) ==
  IF c # "bar" THEN DrawChar(c, x, colour, 0, XRES - 1)
  ELSE IF lastRow THEN {} ELSE Plot(x, colour)

----------------------------------------------------------------------------
\* drawNumber(): the characters of a number below a hundred; a 1 that is aligned is
\* a bar of its own, two columns wide.
Digit  == <<"0", "1", "2", "3", "4", "5", "6", "7", "8", "9">>
Figure(n, align) == IF align /\ n = 1 THEN "bar" ELSE Digit[n + 1]

BadNumber(n, leadingZero, align) ==      \* forgets the zero in front
  IF n >= 10 THEN << Figure(n \div 10, align), Figure(n % 10, align) >>
             ELSE << Figure(n, align) >>

Number(n, leadingZero, align) ==
  IF n >= 100 THEN <<>>
  ELSE (IF n >= 10 THEN << Figure(n \div 10, align) >>
        ELSE IF leadingZero THEN << "0" >> ELSE <<>>)
       \o << Figure(n % 10, align) >>

\* getDays() has eight bits.
Days(t)    == (t \div 86400) % 256
Hours(t)   == (t \div 3600) % 24
Minutes(t) == (t \div 60) % 60

\* printDuration(), printDate()
Duration(t) ==
  LET d == Days(t) h == Hours(t) m == Minutes(t)
  IN  (IF d > 0 THEN Number(d, FALSE, TRUE) \o <<"T">> ELSE <<>>)
      \o (IF d > 0 \/ h > 0 THEN Number(h, TRUE, TRUE) \o <<":">> ELSE <<>>)
      \o (IF d > 0 \/ h > 0 \/ m > 0 THEN Number(m, TRUE, TRUE) \o <<":">> ELSE <<>>)
      \o Number(t % 60, TRUE, FALSE)

TimeOfDay(t) ==
  Number(Hours(t), TRUE, FALSE) \o <<":">> \o Number(Minutes(t), TRUE, FALSE)
  \o <<":">> \o Number(t % 60, TRUE, FALSE)

----------------------------------------------------------------------------
\* blink(): every second column from the tenth on, in red.
Background == UNION {Plot(10 + 2 * k, {Red}) : k \in 0 .. (XRES - 11) \div 2}

\* showProgressBar(): dots, whole bytes, and dots again, all in green.
Progress(passed, whole) == (XRES * passed) \div whole

Bar(progress) ==
  IF progress \notin 1 .. XRES - 1 THEN {}
  ELSE (UNION {Plot(x, {Green}) : x \in 0 .. progress - 1})
       \cup {Green + x : x \in 0 .. 8 * (progress \div 8) - 1}
       \cup (UNION {Plot(8 * (progress \div 8) + x, {Green}) : x \in 0 .. (progress % 8) - 1})
=============================================================================
