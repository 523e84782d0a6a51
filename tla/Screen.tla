------------------------------- MODULE Screen -------------------------------
(***************************************************************************)
(* One round after the other of showEvents(): the buffer is cleared and an *)
(* event, a message, a video or the time is drawn into it, character by    *)
(* character.  What is chosen, and when, is in EventTable and Messages;    *)
(* here the choice is fixed and the text scrolls.                          *)
(*                                                                         *)
(* Before the first round the frame of a video makes its way: videotest.pl *)
(* packs dots into bytes, playMovie() makes a line of them, and the clock  *)
(* keeps what it reads up to the end of the line.                          *)
(***************************************************************************)
EXTENDS Drawing, SequencesExt

CONSTANTS
  Strings,      \* titles and messages
  Durations,    \* seconds to the start or the end of an event
  Frames,       \* the bytes of a row of videos
  Length,       \* seconds a running event takes
  DatePos       \* where the time of day starts: 15

ASSUME ScreenAssumption ==
  /\ Durations \subseteq Nat /\ Length \in Nat /\ Length > 0 /\ DatePos \in 0 .. XRES - 1
  /\ \A f \in Frames : f \in [1 .. XRES \div 4 -> 0 .. 255]
  /\ \A s \in Strings : s \in Seq(Chars \cup {Umlaut})

\* The font has what numbers are made of; a bar is one column, and a duration and the
\* gap behind it leave room for a title.
ASSUME FigureAssumption ==
  /\ {Digit[i] : i \in 1 .. 10} \cup {"T", ":", "bar"} \subseteq Chars
  /\ InRow["bar"] = {0}
  /\ \A t \in Durations : StringSize(Duration(t)) + 2 < XRES

VARIABLES
  show,       \* what is drawn: running, next, scrolled, centred, video or time
  string,     \* the title or the message
  seconds,    \* the duration, or the time of day
  lastRow,    \* whether the row that is followed is the last
  redOnly,    \* $red_video_channel_only
  picture,    \* the bytes of a frame, wherever it is
  dots,       \* auxiliary: the places lit in it when it was made
  turn,       \* cycles, as far as scrolling is concerned
  stage,      \* file, line, ready, number, string or done
  rest,       \* the characters still to be drawn
  pos,        \* where the next is drawn
  left, right, colour,
  lit,        \* drawBuffer
  begun,      \* auxiliary: where the number and the string began
  shown       \* auxiliary: the columns that were at the left border so far

given == <<show, string, seconds, lastRow, redOnly, dots>>
brush == <<rest, pos, left, right, colour, begun>>
vars  == <<given, brush, picture, turn, stage, lit, shown>>

Events == {"running", "next"}
BlinkTime == 10

----------------------------------------------------------------------------
\* The dots of a byte, its first bit on the left; the red bytes of a row come first.
Weight == <<128, 64, 32, 16, 8, 4, 2, 1>>
IsLit(byte, k) == (byte \div Weight[k + 1]) % 2 = 1
DotsOf(bytes)  == {p \in 0 .. 2 * XRES - 1 : IsLit(bytes[(p \div 8) + 1], p % 8)}

NewLine == 10

\* playMovie(): what ends a line must not be in it.
BadLine(bytes) == bytes
Line(bytes) ==
  LET half == XRES \div 8
      kept == [i \in DOMAIN bytes |-> IF bytes[i] = NewLine THEN 0 ELSE bytes[i]]
  IN  IF redOnly THEN [i \in DOMAIN kept |-> IF i > half THEN 0 ELSE kept[i]] ELSE kept

\* The protosocket stops at the first end of a line; the buffer was cleared before.
Received(bytes) ==
  [i \in DOMAIN bytes |-> IF \E k \in 1 .. i : bytes[k] = NewLine THEN 0 ELSE bytes[i]]

MakeLine ==
  /\ stage = "file" /\ stage' = "line"
  /\ picture' = Line(picture)
  /\ UNCHANGED <<given, brush, turn, lit, shown>>

\* drawImage(), RadioEvent::copyBuffer()
TakeFrame ==
  /\ stage = "line" /\ stage' = "ready"
  /\ picture' = Received(picture)
  /\ UNCHANGED <<given, brush, turn, lit, shown>>

----------------------------------------------------------------------------
ResetBorder == left' = 0 /\ right' = XRES - 1

\* setBorder(from, XRES - 1)
SetBorder(from) == left' = from /\ right' = XRES - 1

StartString(at) ==
  /\ stage' = "string" /\ rest' = string /\ pos' = at
  /\ begun' = [begun EXCEPT !.string = at]

StartNumber(at, cells) ==
  /\ stage' = "number" /\ rest' = cells /\ pos' = at
  /\ begun' = [number |-> at, string |-> at]

\* scrollString(), drawStringCenter()
BadScrollRange(s) == XRES + StringSize(s) - 1
ScrollRange(s)    == XRES + StringSize(s)
Centre(s)    == IF StringSize(s) < XRES - 1 THEN (XRES - StringSize(s)) \div 2 ELSE 0

\* clearBuffer() and showCurrentEvent(); a background that blinks leaves the colour red.
Blinks == show \in Events /\ seconds % 2 = 1 /\ seconds <= BlinkTime

StartRound ==
  /\ stage = "ready"
  /\ ResetBorder
  /\ colour' = CASE show = "running" \/ Blinks -> {Red} [] show = "next" /\ ~Blinks -> {Green}
                 [] OTHER -> Yellow
  /\ lit' = IF Blinks THEN Background ELSE IF show = "video" THEN DotsOf(picture) ELSE {}
  /\ CASE show \in Events            -> StartNumber(0, Duration(seconds))
       [] show \in {"video", "time"} -> StartNumber(DatePos, TimeOfDay(seconds))
       [] show = "scrolled"          -> StartString(XRES - (turn % ScrollRange(string)))
       [] show = "centred"           -> StartString(Centre(string))
  /\ UNCHANGED <<given, picture, turn, shown>>

\* One character of a duration or of the time of day.
DrawNextFigure ==
  /\ stage = "number" /\ rest # <<>>
  /\ lit' = lit \cup DrawFigure(Head(rest), pos, colour, lastRow)
  /\ pos' = pos + CharSize(Head(rest)) /\ rest' = Tail(rest)
  /\ UNCHANGED <<given, picture, turn, stage, left, right, colour, begun, shown>>

\* showEvent() goes on with the title, which scrolls if there is no room for it.
TitlePos == pos + 2
Scrolls  == StringSize(string) > XRES - TitlePos
TitleRange == XRES - 1 - TitlePos + StringSize(string)

StartTitle ==
  /\ stage = "number" /\ rest = <<>> /\ show \in Events /\ seconds > BlinkTime
  /\ IF Scrolls
     THEN SetBorder(TitlePos) /\ StartString(XRES - 1 - (turn % TitleRange))
     ELSE ResetBorder /\ StartString(TitlePos)
  /\ UNCHANGED <<given, picture, turn, colour, lit, shown>>

\* drawString() goes on until its end or the right border.
GoesOn == rest # <<>> /\ pos < XRES /\ pos < right /\ Head(rest) \in Chars

DrawNextChar ==
  /\ stage = "string" /\ GoesOn
  /\ lit' = lit \cup DrawChar(Head(rest), pos, colour, left, right)
  /\ pos' = pos + CharSize(Head(rest)) /\ rest' = Tail(rest)
  /\ UNCHANGED <<given, picture, turn, stage, left, right, colour, begun, shown>>

\* The progress bar of a running event that has begun and is not over.
EndRound ==
  /\ \/ stage = "string" /\ ~GoesOn
     \/ stage = "number" /\ rest = <<>> /\ ~(show \in Events /\ seconds > BlinkTime)
  /\ stage' = "done"
  /\ lit' = IF lastRow /\ show = "running" /\ seconds > BlinkTime /\ seconds < Length
            THEN lit \cup Bar(Progress(Length - seconds, Length)) ELSE lit
  /\ shown' = shown \cup ({left - begun.string} \cap Nat)
  /\ UNCHANGED <<given, brush, picture, turn>>

\* Bound: until the text has come round.
NextRound ==
  /\ stage = "done" /\ stage' = "ready"
  /\ show = "scrolled" => turn < ScrollRange(string)
  /\ show \in Events => turn < XRES + StringSize(string)
  /\ show \in Events \cup {"scrolled"} /\ turn' = turn + 1
  /\ UNCHANGED <<given, brush, picture, lit, shown>>

Blank == [i \in 1 .. XRES \div 4 |-> 0]
Init ==
  /\ show \in {"running", "next", "scrolled", "centred", "video", "time"}
  /\ IF show \in Events \cup {"scrolled", "centred"} THEN string \in Strings ELSE string = <<>>
  /\ IF show \in Events \cup {"video", "time"} THEN seconds \in Durations ELSE seconds = 0
  /\ IF show = "video" THEN picture \in Frames /\ redOnly \in BOOLEAN
                       ELSE picture = Blank /\ redOnly = FALSE
  /\ dots = DotsOf(picture) /\ lastRow \in BOOLEAN
  /\ turn = 0 /\ stage = "file" /\ rest = <<>> /\ pos = 0
  /\ left = 0 /\ right = XRES - 1 /\ colour = Yellow
  /\ lit = {} /\ begun = [number |-> 0, string |-> 0] /\ shown = {}

Next ==
  \/ MakeLine \/ TakeFrame
  \/ StartRound \/ DrawNextFigure \/ StartTitle \/ DrawNextChar \/ EndRound
  \/ NextRound

Spec == Init /\ [][Next]_vars

----------------------------------------------------------------------------
\* Where the characters of a text that begins at a place are expected.
Place(s, at, i) == at + Reach(s)[i - 1]
Readable(s)     == {i \in DOMAIN s : \A k \in 1 .. i : s[k] # Umlaut}

Expected(s, at, from, to) ==
  (UNION {{Place(s, at, i) + k : k \in InRow[s[i]]} :
            i \in {i \in Readable(s) : Place(s, at, i) < to}}) \cap (from .. to)

Figures == IF show \in Events THEN Duration(seconds)
           ELSE IF show \in {"video", "time"} THEN TimeOfDay(seconds) ELSE <<>>
HasString == show \in {"scrolled", "centred"} \/ (show \in Events /\ seconds > BlinkTime)

Under == IF Blinks THEN Background ELSE IF show = "video" THEN DotsOf(picture) ELSE {}

FigureDots ==
  LET bars == {i \in DOMAIN Figures : Figures[i] = "bar" /\ lastRow}
  IN  (UNION {{Place(Figures, begun.number, i) + k : k \in InRow[Figures[i]]} :
                i \in DOMAIN Figures \ bars}) \cap (0 .. XRES - 1)

TextDots == IF HasString THEN Expected(string, begun.string, left, right) ELSE {}

BarDots ==
  IF lastRow /\ show = "running" /\ seconds > BlinkTime /\ seconds < Length
  THEN {XRES + x : x \in 0 .. ((XRES * (Length - seconds)) \div Length) - 1} ELSE {}

Paint(hue, D) == {half + p : half \in hue, p \in D}

\* The buffer holds exactly what was to be drawn, whichever way its characters took:
\* nothing outside the borders, nothing of one colour's bytes in the other's.  What
\* begins at the very right border is not drawn.
LitAsWritten ==
  stage = "done" =>
    lit = Under \cup BarDots \cup Paint(colour, FigureDots \cup TextDots)

\* A text that does not scroll is there from its first to its last column, and one that
\* does has brought every column to the left border when it has come round.
NothingStaysHidden ==
  stage = "done" /\ HasString =>
    IF show = "scrolled" \/ left > 0
    THEN turn + 1 >= (IF show = "scrolled" THEN ScrollRange(string) ELSE XRES - 1 - left + StringSize(string))
           => 0 .. StringSize(string) - 1 \subseteq shown
    ELSE \/ show = "centred" /\ StringSize(string) > XRES
         \/ begun.string >= 0 /\ begun.string + StringSize(string) <= XRES
            /\ (rest = <<>> \/ Head(rest) = Umlaut)

\* A duration of less than a hundred days can be read from the display: its figures, in
\* groups of two but for the first, stand for the seconds that are left.
Worth(c) == IF c = "bar" THEN 1 ELSE (CHOOSE n \in 0 .. 9 : Digit[n + 1] = c)
Read(r, c) ==
  CASE c = "T" -> [sum |-> (r.sum + r.group) * 24, group |-> 0, size |-> 0, ok |-> r.ok]
    [] c = ":" -> [sum |-> (r.sum + r.group) * 60, group |-> 0, size |-> 0,
                   ok |-> r.ok /\ r.size = 2]
    [] OTHER   -> [sum |-> r.sum, group |-> 10 * r.group + Worth(c), size |-> r.size + 1,
                   ok |-> r.ok]
Reading(cells) ==
  LET read[n \in 0 .. Len(cells)] ==
        IF n = 0 THEN [sum |-> 0, group |-> 0, size |-> 0, ok |-> TRUE]
                 ELSE Read(read[n - 1], cells[n])
  IN  read[Len(cells)]

DurationIsRead ==
  stage = "number" /\ pos = begun.number /\ show \in Events /\ seconds < 100 * 86400 =>
    LET r == Reading(rest) IN r.ok /\ r.size = 2 /\ r.sum + r.group = seconds

\* The frame on the display is the one that was made, but for bytes that look like the
\* end of a line, and for green where only red was asked for.
PictureIsKept ==
  show = "video" /\ stage \notin {"file", "line"} =>
    DotsOf(picture) =
      {p \in dots : /\ redOnly => p < XRES
                    /\ {k \in 0 .. 7 : (p - (p % 8)) + k \in dots} # {4, 6}}

\* A picture is what was to be drawn, and a duration drawn on it the one that is left.
DrawnRight == LitAsWritten /\ DurationIsRead
=============================================================================
