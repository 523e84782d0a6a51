------------------------------ MODULE Messages ------------------------------
(***************************************************************************)
(* Messages and videos on the clock: RadioEvent.cpp and the commands of    *)
(* netcommand.cpp that change them.  A message and the frames of a video   *)
(* share one buffer; what its bytes are taken for depends on two times     *)
(* that run off independently.                                             *)
(*                                                                         *)
(* Only differences of times matter, so the state holds what is left of    *)
(* the message and of the video; setting the clock changes both, since     *)
(* setUnixTime() moves neither start.  What is on the display while no     *)
(* event is near is in EventTable.                                         *)
(***************************************************************************)
EXTENDS Integers

CONSTANTS
  Texts,      \* texts of messages
  MaxStep,    \* how far the clock is set forwards or backwards at most
  MaxLeft     \* bound: the longest message or video

ASSUME MessageAssumption == MaxStep \in Nat /\ MaxLeft \in Nat

VARIABLES
  msgLeft,    \* messageStart + messageDuration - unixTime, not below -MaxStep
  vidLeft,    \* videoStart + videoDuration - unixTime, likewise
  allowed,    \* videoAllowed
  message,    \* the buffer: a text, a picture, or blank
  near,       \* an event is running or to come, and less than 600 s are to go
  drawn       \* showCurrentEvent() was called in this second

clockVars == <<msgLeft, vidLeft, allowed, message, near, drawn>>

Blank   == [is |-> "blank", of |-> 0]
Text(n) == [is |-> "text", of |-> n]
Picture == [is |-> "picture", of |-> 0]
Buffers == {Blank, Picture} \cup {Text(n) : n \in Texts}

Left == -MaxStep .. MaxLeft + MaxStep
After(left, step) == IF left - step < -MaxStep THEN -MaxStep ELSE left - step

ClockTypeOK ==
  /\ msgLeft \in Left /\ vidLeft \in Left
  /\ allowed \in BOOLEAN /\ near \in BOOLEAN /\ drawn \in BOOLEAN
  /\ message \in Buffers

\* RadioEvent(), which runs at a reset and at a jump to address 0.
ClockInit ==
  /\ msgLeft = -MaxStep /\ vidLeft = -MaxStep
  /\ allowed = TRUE /\ message = Blank
  /\ near = FALSE /\ drawn = FALSE

Restart ==
  /\ msgLeft' = -MaxStep /\ vidLeft' = -MaxStep
  /\ allowed' = TRUE /\ message' = Blank
  /\ near' = FALSE /\ drawn' = FALSE

----------------------------------------------------------------------------
\* The commands that change something here; the others only set requestTime.
NoChange == UNCHANGED clockVars

GetSystemStart == NoChange
GetSettings    == NoChange
IsVideoEnabled == NoChange

BadSetMessage(duration, n) ==            \* starts now and not with the next second
  /\ msgLeft' = duration
  /\ message' = Text(n)
  /\ UNCHANGED <<vidLeft, allowed, near, drawn>>

SetMessage(duration, n) ==
  /\ msgLeft' = duration + 1
  /\ message' = Text(n)
  /\ UNCHANGED <<vidLeft, allowed, near, drawn>>

SetVideoRequest(duration) ==
  /\ vidLeft' = duration
  /\ UNCHANGED <<msgLeft, allowed, message, near, drawn>>

\* The answer is BRK when videos are not allowed.
DrawImage ==
  /\ message' = IF allowed THEN Picture ELSE message
  /\ UNCHANGED <<msgLeft, vidLeft, allowed, near, drawn>>

SetVideoAllowed(yes) ==
  /\ allowed' = yes
  /\ UNCHANGED <<msgLeft, vidLeft, message, near, drawn>>
EnableVideo  == SetVideoAllowed(TRUE)
DisableVideo == SetVideoAllowed(FALSE)

SetUnixTime(step) ==
  /\ msgLeft' = After(msgLeft, step) /\ vidLeft' = After(vidLeft, step)
  /\ UNCHANGED <<allowed, message, near, drawn>>

----------------------------------------------------------------------------
\* showCurrentEvent(): an event that is near comes before a message, and that
\* before a video, whose turn allows videos again.
IsMessage == msgLeft > 0
IsVideo   == vidLeft > 0

Shown == IF near THEN "event" ELSE IF IsMessage THEN "message"
         ELSE IF IsVideo THEN "video" ELSE "date"

Draw ==
  /\ drawn' = TRUE
  /\ allowed' = (allowed \/ Shown = "video")
  /\ UNCHANGED <<msgLeft, vidLeft, message, near>>

\* updateTime() ten times a second: a second has passed, in which the display was
\* drawn; the plan may have brought an event near, or removed it.
Second ==
  /\ drawn /\ drawn' = FALSE
  /\ msgLeft' = After(msgLeft, 1) /\ vidLeft' = After(vidLeft, 1)
  /\ near' \in BOOLEAN
  /\ UNCHANGED <<allowed, message>>
=============================================================================
