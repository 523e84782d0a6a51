-------------------------- MODULE MessageHostProofs --------------------------
(***************************************************************************)
(* What the shared buffer is taken for, and how long a message stays, for  *)
(* any number of screens, any times they are shown for and any number of   *)
(* messages handed over.                                                   *)
(***************************************************************************)
EXTENDS MessageHost, TLAPS

(* The sleeps that keep a message and a video apart: some time at the end of a
   message, and a clock that the host moves by a second at most. *)
SleepsCover == TailTime >= 1 /\ MaxStep <= 1

Places == {"settings", "time", "check", "check2", "movie", "read", "unlink", "screen", "tail",
           "video", "say", "ask", "frame", "pause", "resume", "close", "rest"}

(* The types the argument needs, and where readMessage() and showMessage() can have
   been called from. *)
Lowest == -MaxStep

Numbers == msgLeft \in Int /\ Lowest <= msgLeft /\ sleep \in Int /\ -1 <= sleep /\ screen \in Nat

Calls ==
  /\ accepted \in BOOLEAN /\ pc \in Places
  /\ pc \in {"read", "unlink"} => caller \in {"check", "check2", "movie"}
  /\ pc \in {"pause", "screen", "tail"} => caller \in {"check", "check2", "movie", "say"}

HostTypes == Numbers /\ Calls

(* A screen that was accepted is up until the script wakes up, and a second more. *)
StaysInv ==
  accepted => /\ pc = "screen"
              /\ sleep >= 0 => msgLeft > sleep /\ message = Text(screen - 1)

(* When the script wakes up there is at most a second left of a message, and none
   where a video may start or go on. *)
Asleep  == IF sleep > 0 THEN sleep ELSE 0
MayLast == IF pc \in {"screen", "check2", "read", "unlink", "pause", "rest"} THEN 1 ELSE 0

MessageEnds == msgLeft <= MayLast + Asleep

(* While a picture is in the buffer no message is displayed, and when the clock may
   be set it is so long over that setting the clock back does not revive it. *)
PictureInv ==
  message = Picture =>
    /\ msgLeft <= 0
    /\ pc \in {"settings", "time"} => msgLeft <= Lowest + Asleep

IInv == HostTypes /\ StaysInv /\ (SleepsCover => MessageEnds /\ PictureInv)

-----------------------------------------------------------------------------
LEMMA LowestType == Lowest \in Int /\ Lowest <= 0 /\ (MaxStep <= 1 => Lowest >= -1)
BY MessageAssumption DEF Lowest

(* Time lowers what is left, but not for ever. *)
LEMMA AfterLowers ==
  ASSUME NEW left \in Int, NEW step \in Int, Lowest <= left
  PROVE  /\ After(left, step) \in Int /\ Lowest <= After(left, step)
         /\ After(left, step) = left - step \/ (left - step < Lowest /\ After(left, step) = Lowest)
BY LowestType DEF After, Lowest

(* Sums, for numbers in place of the names of the states they belong to. *)
LEMMA Sums ==
  /\ \A a, b, c, d \in Int : a <= b + 0 /\ b <= c + d => a <= c + d
  /\ \A a, b, c, d \in Int : a <= b + c /\ d = c - 1 => a - 1 <= b + d
  /\ \A a, b, c \in Int : a <= 0 /\ b >= 0 /\ c >= 0 => a <= b + c
  /\ \A a, b, c \in Int : a <= 0 /\ b >= -1 /\ c >= 1 => a <= b + c
  /\ \A a, b, c \in Int : a <= b + 0 /\ c >= 0 => a <= b + c
  /\ \A b, c \in Int : c >= 0 => b <= b + c
  /\ \A a, c \in Int : a <= 0 + 0 /\ c >= 0 => a <= 0 + c
OBVIOUS

LEMMA PicturesDiffer == Blank # Picture /\ \A n \in Nat : Text(n) # Picture
BY DEF Blank, Picture, Text

(* What is slept, and what may last. *)
LEMMA SpansTypes ==
  Numbers => /\ MayLast \in Int /\ MayLast >= 0 /\ Asleep \in Int /\ Asleep >= 0
             /\ sleep > 0 => Asleep = sleep
             /\ sleep <= 0 => Asleep = 0
BY DEF Numbers, MayLast, Asleep

LEMMA SpansPrimed ==
  Numbers' => /\ MayLast' \in Int /\ MayLast' >= 0 /\ Asleep' \in Int /\ Asleep' >= 0
              /\ sleep' > 0 => Asleep' = sleep'
              /\ sleep' <= 0 => Asleep' = 0
BY DEF Numbers, MayLast, Asleep

LEMMA InitIInv == Init => IInv
<1> SUFFICES ASSUME Init PROVE IInv OBVIOUS
<1>1. /\ msgLeft = Lowest /\ message = Blank /\ pc = "settings" /\ sleep = 0 /\ screen = 0
      /\ accepted = FALSE
  BY DEF Init, ClockInit, Lowest
<1>2. Numbers BY <1>1, LowestType DEF Numbers
<1>3. Calls BY <1>1 DEF Calls, Places
<1>4. MessageEnds BY <1>1, <1>2, SpansTypes, LowestType DEF MessageEnds
<1>5. PictureInv BY <1>1, PicturesDiffer DEF PictureInv
<1> QED BY <1>1, <1>2, <1>3, <1>4, <1>5 DEF IInv, HostTypes, StaysInv

(* Most steps of the script only go on to another place: they leave what is on the
   clock alone, and sleep long enough for where they go. *)
Onward ==
  /\ sleep <= 0 /\ sleep' \in Nat /\ pc \notin {"screen", "time"}
  /\ UNCHANGED <<msgLeft, message, accepted>>
  /\ MayLast <= MayLast' + sleep'
  /\ pc' \in {"settings", "time"} => pc = "settings" \/ sleep' >= 1

LEMMA GoesOnward ==
  ASSUME HostTypes,
         \/ SettingsAnswered \/ SettingsFailed \/ Look \/ ReadFile \/ UnlinkFile
         \/ MessageShown \/ StartVideo \/ AskVideo \/ EndMovie \/ LookForMessage
         \/ SwitchVideo \/ Rest
  PROVE  HostTypes' /\ Onward
<1> USE HostAssumption DEF HostTypes, Numbers, Calls, Places, MayLast, Onward, Awake, Go, SameCall, SameMovie,
                           NoChange, clockVars, fileVars
<1>1. CASE SettingsAnswered
  BY <1>1 DEF SettingsAnswered, GetSystemStart, GetSettings
<1>2. CASE SettingsFailed
  BY <1>2 DEF SettingsFailed
<1>3. CASE Look
  BY <1>3 DEF Look, NextAfter
<1>4. CASE ReadFile
  BY <1>4 DEF ReadFile
<1>5. CASE UnlinkFile
  BY <1>5 DEF UnlinkFile
<1>6. CASE MessageShown
  BY <1>6 DEF MessageShown
<1>7. CASE StartVideo
  BY <1>7 DEF StartVideo, SetVideoRequest
<1>8. CASE AskVideo
  BY <1>8 DEF AskVideo, IsVideoEnabled
<1>9. CASE EndMovie \/ LookForMessage
  BY <1>9 DEF EndMovie, LookForMessage
<1>10. CASE SwitchVideo
  BY <1>10 DEF SwitchVideo, Told, Answered, Failed, EnableVideo, DisableVideo, SetVideoAllowed
<1>11. CASE Rest
  BY <1>11 DEF Rest
<1> QED
  BY <1>1, <1>2, <1>3, <1>4, <1>5, <1>6, <1>7, <1>8, <1>9, <1>10, <1>11

LEMMA OnwardKeepsIInv == IInv /\ HostTypes' /\ Onward => IInv'
<1> SUFFICES ASSUME IInv, HostTypes', Onward PROVE IInv' OBVIOUS
<1>1. HostTypes /\ Numbers /\ Numbers' /\ sleep <= 0 /\ sleep' \in Int /\ sleep' >= 0 /\ msgLeft' = msgLeft
  BY DEF IInv, HostTypes, Onward
<1>2. StaysInv' BY DEF IInv, StaysInv, Onward
<1>3. Asleep = 0 /\ Asleep' = sleep' /\ MayLast \in Int /\ MayLast >= 0 /\ MayLast' \in Int /\ MayLast' >= 0
  BY <1>1, SpansTypes, SpansPrimed DEF Numbers
<1>4. ASSUME SleepsCover PROVE MessageEnds'
  <2>1. msgLeft <= MayLast + 0 BY <1>3, <1>4 DEF IInv, MessageEnds
  <2>2. MayLast <= MayLast' + sleep' BY DEF Onward
  <2>3. msgLeft' <= MayLast' + sleep' BY <1>1, <1>3, <2>1, <2>2, Sums DEF Numbers
  <2> QED BY <1>3, <2>3 DEF MessageEnds
<1>5. ASSUME SleepsCover PROVE PictureInv'
  <2> SUFFICES ASSUME message' = Picture
               PROVE  msgLeft' <= 0
                      /\ (pc' \in {"settings", "time"} => msgLeft' <= Lowest + Asleep')
    BY DEF PictureInv
  <2>1. /\ msgLeft <= 0
        /\ pc = "settings" => msgLeft <= Lowest + 0
    BY <1>3, <1>5 DEF IInv, PictureInv, Onward
  <2>2. pc' \in {"settings", "time"} => pc = "settings" \/ sleep' >= 1 BY DEF Onward
  <2>3. Lowest \in Int /\ Lowest >= -1 BY <1>5, LowestType DEF SleepsCover
  <2>4. msgLeft <= Lowest + 0 => msgLeft <= Lowest + sleep'
    BY <1>1, <2>3, Sums DEF Numbers
  <2>5. msgLeft <= 0 /\ sleep' >= 1 => msgLeft <= Lowest + sleep'
    BY <1>1, <2>3, Sums DEF Numbers
  <2> QED BY <1>1, <1>3, <2>1, <2>2, <2>4, <2>5
<1> QED BY <1>1, <1>2, <1>4, <1>5 DEF IInv

-----------------------------------------------------------------------------
(* The other steps of the script. *)

(* The clock is set while nothing of a message is left; a second is slept after. *)
LEMMA SetTimeKeepsIInv == IInv /\ SetTime => IInv'
<1> SUFFICES ASSUME IInv, SetTime PROVE IInv' OBVIOUS
<1>1. HostTypes /\ Numbers /\ Calls /\ StaysInv BY DEF IInv, HostTypes
<1>2. /\ pc = "time" /\ sleep <= 0 /\ pc' = "check" /\ sleep' \in {0, 1}
      /\ UNCHANGED <<message, caller, screen, accepted>>
      /\ \/ msgLeft' = msgLeft
         \/ sleep' = 1 /\ \E step \in -MaxStep .. MaxStep : msgLeft' = After(msgLeft, step)
  BY DEF SetTime, Awake, Go, Told, Answered, Failed, SetUnixTime, NoChange, SameCall,
         SameMovie, clockVars, fileVars
<1>3. /\ msgLeft' \in Int /\ Lowest <= msgLeft'
      /\ msgLeft' = msgLeft \/ (sleep' = 1 /\ msgLeft' <= msgLeft - Lowest)
  <2>1. CASE msgLeft' = msgLeft BY <1>1, <2>1 DEF Numbers
  <2>2. CASE sleep' = 1 /\ \E step \in -MaxStep .. MaxStep : msgLeft' = After(msgLeft, step)
    <3>1. PICK step \in -MaxStep .. MaxStep : msgLeft' = After(msgLeft, step) BY <2>2
    <3>2. step \in Int /\ Lowest <= step BY MessageAssumption DEF Lowest
    <3>3. PICK left \in Int : left = msgLeft BY <1>1 DEF Numbers
    <3>4. PICK after \in Int : after = msgLeft' /\ Lowest <= after /\ (after = left - step \/ after = Lowest)
      BY <1>1, <3>1, <3>2, <3>3, AfterLowers DEF Numbers
    <3>5. Lowest \in Int /\ Lowest <= 0 /\ Lowest <= left BY <1>1, <3>3, LowestType DEF Numbers
    <3>6. after <= left - Lowest BY <3>2, <3>4, <3>5
    <3> QED BY <2>2, <3>3, <3>4, <3>6
  <2> QED BY <1>2, <2>1, <2>2
<1>4. HostTypes'
  <2>1. Numbers' BY <1>1, <1>2, <1>3 DEF Numbers
  <2>2. Calls' BY <1>1, <1>2 DEF Calls, Places
  <2> QED BY <2>1, <2>2 DEF HostTypes
<1>5. StaysInv' BY <1>1, <1>2 DEF StaysInv
<1>6. ASSUME SleepsCover PROVE MessageEnds' /\ PictureInv'
  <2>1. Numbers' BY <1>4 DEF HostTypes
  <2>2. /\ MayLast = 0 /\ MayLast' = 0 /\ Asleep = 0 /\ Asleep' = sleep'
        /\ sleep' \in Int /\ sleep' >= 0 /\ Lowest \in Int /\ Lowest >= -1 /\ Lowest <= 0
    BY <1>1, <1>2, <1>6, <2>1, SpansTypes, SpansPrimed, LowestType DEF MayLast, SleepsCover
  <2>3. /\ msgLeft <= 0 + 0
        /\ message = Picture => msgLeft <= Lowest + 0
    BY <1>2, <1>6, <2>2 DEF IInv, MessageEnds, PictureInv
  <2>4. msgLeft' <= 0 + sleep'
    <3>1. CASE msgLeft' = msgLeft BY <1>1, <2>2, <2>3, <3>1, Sums DEF Numbers
    <3>2. CASE sleep' = 1 /\ msgLeft' <= msgLeft - Lowest
      BY <1>1, <1>3, <2>2, <2>3, <3>2 DEF Numbers
    <3> QED BY <1>3, <3>1, <3>2
  <2>5. message = Picture => msgLeft' <= 0 BY <1>1, <1>3, <2>2, <2>3 DEF Numbers
  <2> QED BY <1>2, <2>2, <2>4, <2>5 DEF MessageEnds, PictureInv
<1> QED BY <1>4, <1>5, <1>6 DEF IInv

(* A text is in the buffer for the time the script sleeps, and a second. *)
LEMMA ShowScreenKeepsIInv == IInv /\ ShowScreen => IInv'
<1> SUFFICES ASSUME IInv, ShowScreen PROVE IInv' OBVIOUS
<1> USE HostAssumption
<1>1. Numbers /\ Calls BY DEF IInv, HostTypes
<1>2. /\ pc = "screen" /\ sleep <= 0 /\ pc' = "screen" /\ sleep' = ScreenTime
      /\ screen' = screen + 1 /\ caller' = caller
      /\ \/ msgLeft' = ScreenTime + 1 /\ message' = Text(screen) /\ accepted' = TRUE
         \/ msgLeft' = msgLeft /\ message' = message /\ accepted' = FALSE
  BY DEF ShowScreen, Awake, Go, Answered, SetMessage, NoChange, clockVars
<1>3. Numbers'
  <2>1. ScreenTime + 1 \in Int /\ Lowest <= ScreenTime + 1 BY LowestType
  <2> QED BY <1>1, <1>2, <2>1 DEF Numbers
<1>4. Calls' BY <1>1, <1>2 DEF Calls, Places
<1>5. StaysInv'
  <2>1. accepted' => msgLeft' = sleep' + 1 /\ message' = Text(screen) BY <1>2
  <2>2. screen' - 1 = screen BY <1>1, <1>2 DEF Numbers
  <2>3. accepted' => msgLeft' > sleep' BY <1>2, <2>1
  <2> QED BY <1>2, <2>1, <2>2, <2>3 DEF StaysInv
<1>6. ASSUME SleepsCover PROVE MessageEnds' /\ PictureInv'
  <2>1. MayLast = 1 /\ MayLast' = 1 /\ Asleep = 0 /\ Asleep' = ScreenTime
    BY <1>1, <1>2, <1>3, SpansTypes, SpansPrimed DEF MayLast
  <2>2. /\ msgLeft <= 1 + 0
        /\ message = Picture => msgLeft <= 0
    BY <1>6, <2>1 DEF IInv, MessageEnds, PictureInv
  <2>3. msgLeft' <= 1 + ScreenTime BY <1>1, <1>2, <2>2 DEF Numbers
  <2>4. Text(screen) # Picture BY <1>1, PicturesDiffer DEF Numbers
  <2>5. PictureInv' BY <1>2, <2>2, <2>4 DEF PictureInv
  <2> QED BY <2>1, <2>3, <2>5 DEF MessageEnds
<1> QED BY <1>3, <1>4, <1>5, <1>6 DEF IInv, HostTypes

LEMMA LastScreenKeepsIInv == IInv /\ LastScreen => IInv'
<1> SUFFICES ASSUME IInv, LastScreen PROVE IInv' OBVIOUS
<1> USE HostAssumption
<1>1. Numbers /\ Calls BY DEF IInv, HostTypes
<1>2. /\ pc = "screen" /\ sleep <= 0 /\ pc' = "tail" /\ sleep' = TailTime
      /\ accepted' = FALSE /\ UNCHANGED <<msgLeft, message, caller, screen>>
  BY DEF LastScreen, Awake, Go, Tail, NoChange, clockVars
<1>3. Numbers' BY <1>1, <1>2 DEF Numbers
<1>4. Calls' BY <1>1, <1>2 DEF Calls, Places
<1>5. StaysInv' BY <1>2 DEF StaysInv
<1>6. ASSUME SleepsCover PROVE MessageEnds' /\ PictureInv'
  <2>1. MayLast = 1 /\ MayLast' = 0 /\ Asleep = 0 /\ Asleep' = TailTime /\ TailTime >= 1
    BY <1>1, <1>2, <1>3, <1>6, SpansTypes, SpansPrimed DEF MayLast, SleepsCover
  <2>2. /\ msgLeft <= 1 + 0
        /\ message = Picture => msgLeft <= 0
    BY <1>6, <2>1 DEF IInv, MessageEnds, PictureInv
  <2>3. msgLeft' <= 0 + TailTime BY <1>1, <1>2, <2>1, <2>2 DEF Numbers
  <2>4. PictureInv' BY <1>2, <2>2 DEF PictureInv
  <2> QED BY <2>1, <2>3, <2>4 DEF MessageEnds
<1> QED BY <1>3, <1>4, <1>5, <1>6 DEF IInv, HostTypes

LEMMA SayKeepsIInv == IInv /\ Say => IInv'
<1> SUFFICES ASSUME IInv, Say PROVE IInv' OBVIOUS
<1> USE HostAssumption
<1>1. Numbers /\ Calls BY DEF IInv, HostTypes
<1>2. /\ pc = "say" /\ sleep <= 0 /\ sleep' \in Int /\ sleep' >= 0 /\ accepted' = accepted
      /\ \/ pc' = "check2" /\ UNCHANGED <<caller, screen, msgLeft, message>>
         \/ pc' = "screen" /\ caller' = "say" /\ screen' = 1 /\ UNCHANGED <<msgLeft, message>>
         \/ /\ pc' = "check2" /\ UNCHANGED <<caller, screen>>
            /\ msgLeft' = sleep' + 1 /\ message' = Text(0)
         \/ pc' = "check2" /\ UNCHANGED <<caller, screen, msgLeft, message>>
  BY DEF Say, Awake, Go, Told, Answered, Failed, SetMessage, NoChange, clockVars
<1>3. Numbers' BY <1>1, <1>2, LowestType DEF Numbers
<1>4. Calls' BY <1>1, <1>2 DEF Calls, Places
<1>5. StaysInv'
  <2>1. ~accepted BY <1>2 DEF IInv, StaysInv
  <2> QED BY <1>2, <2>1 DEF StaysInv
<1>6. ASSUME SleepsCover PROVE MessageEnds' /\ PictureInv'
  <2>1. MayLast = 0 /\ MayLast' = 1 /\ Asleep = 0 /\ Asleep' = sleep'
    BY <1>1, <1>2, <1>3, SpansTypes, SpansPrimed DEF MayLast
  <2>2. /\ msgLeft <= 0 + 0
        /\ message = Picture => msgLeft <= 0
    BY <1>6, <2>1 DEF IInv, MessageEnds, PictureInv
  <2>3. msgLeft' <= 1 + sleep' BY <1>1, <1>2, <2>2 DEF Numbers
  <2>4. Text(0) # Picture BY PicturesDiffer
  <2>5. PictureInv' BY <1>2, <2>2, <2>4 DEF PictureInv
  <2> QED BY <2>1, <2>3, <2>5 DEF MessageEnds
<1> QED BY <1>3, <1>4, <1>5, <1>6 DEF IInv, HostTypes

(* A frame of a video gets into the buffer: no message is left. *)
LEMMA SendFrameKeepsIInv == IInv /\ SendFrame => IInv'
<1> SUFFICES ASSUME IInv, SendFrame PROVE IInv' OBVIOUS
<1>1. Numbers /\ Calls BY DEF IInv, HostTypes
<1>2. /\ pc = "frame" /\ sleep <= 0 /\ pc' \in {"frame", "close"} /\ sleep' = 0
      /\ UNCHANGED <<msgLeft, caller, screen, accepted>>
  BY DEF SendFrame, Awake, Go, Answered, Failed, DrawImage, NoChange, SameCall, SameMovie,
         clockVars, fileVars
<1>3. Numbers' BY <1>1, <1>2 DEF Numbers
<1>4. Calls' BY <1>1, <1>2 DEF Calls, Places
<1>5. StaysInv' BY <1>2 DEF IInv, StaysInv
<1>6. ASSUME SleepsCover PROVE MessageEnds' /\ PictureInv'
  <2>1. MayLast = 0 /\ MayLast' = 0 /\ Asleep = 0 /\ Asleep' = 0
    BY <1>1, <1>2, <1>3, SpansTypes, SpansPrimed DEF MayLast
  <2>2. msgLeft' <= 0 + 0 BY <1>2, <1>6, <2>1 DEF IInv, MessageEnds
  <2>3. msgLeft' <= 0 BY <2>2
  <2> QED BY <1>2, <2>1, <2>2, <2>3 DEF MessageEnds, PictureInv
<1> QED BY <1>3, <1>4, <1>5, <1>6 DEF IInv, HostTypes

-----------------------------------------------------------------------------
(* The web server, the display, the clock. *)
LEMMA OthersKeepIInv ==
  IInv /\ (OpenFile \/ CloseFile \/ Display \/ UNCHANGED vars) => IInv'
<1> SUFFICES ASSUME IInv, OpenFile \/ CloseFile \/ Display \/ UNCHANGED vars PROVE IInv'
  OBVIOUS
<1>1. UNCHANGED <<msgLeft, message, pc, caller, sleep, screen, accepted>>
  BY DEF OpenFile, CloseFile, Display, Draw, NoChange, vars, clockVars, scriptVars
<1> QED
  BY <1>1 DEF IInv, HostTypes, Numbers, Calls, StaysInv, MessageEnds, MayLast, Asleep, PictureInv

LEMMA TimePassesKeepsIInv == IInv /\ TimePasses => IInv'
<1> SUFFICES ASSUME IInv, TimePasses PROVE IInv' OBVIOUS
<1>1. Numbers /\ Calls /\ StaysInv BY DEF IInv, HostTypes
<1>2. /\ msgLeft' = After(msgLeft, 1) /\ sleep' = Ago(sleep, -1)
      /\ UNCHANGED <<message, pc, caller, screen, accepted>>
  BY DEF TimePasses, Second
<1>3. /\ msgLeft' \in Int /\ Lowest <= msgLeft'
      /\ msgLeft' = msgLeft - 1 \/ (msgLeft' = Lowest /\ msgLeft = Lowest)
  BY <1>1, <1>2, AfterLowers, LowestType DEF Numbers
<1>4. /\ sleep' \in Int /\ -1 <= sleep'
      /\ sleep' = sleep - 1 \/ (sleep' = -1 /\ sleep = -1)
  BY <1>1, <1>2 DEF Numbers, Ago
<1>5. Numbers' BY <1>1, <1>2, <1>3, <1>4 DEF Numbers
<1>6. Calls' BY <1>1, <1>2 DEF Calls
<1>7. StaysInv'
  <2> SUFFICES ASSUME accepted
               PROVE  pc = "screen" /\ (sleep' >= 0 => msgLeft' > sleep' /\ message = Text(screen - 1))
    BY <1>2 DEF StaysInv
  <2>1. pc = "screen" /\ (sleep >= 0 => msgLeft > sleep /\ message = Text(screen - 1))
    BY <1>1 DEF StaysInv
  <2>2. sleep' >= 0 => sleep >= 0 /\ sleep' = sleep - 1 BY <1>1, <1>4 DEF Numbers
  <2>3. sleep >= 0 /\ msgLeft > sleep => msgLeft' = msgLeft - 1
    BY <1>1, <1>3, LowestType DEF Numbers
  <2> QED BY <1>1, <2>1, <2>2, <2>3 DEF Numbers
<1>8. ASSUME SleepsCover PROVE MessageEnds' /\ PictureInv'
  <2>1. MayLast' = MayLast /\ MayLast \in Int /\ MayLast >= 0 BY <1>1, <1>2, SpansTypes DEF MayLast
  <2>2. /\ Asleep' \in Int /\ Asleep' >= 0 /\ Asleep \in Int /\ Asleep >= 0
        /\ Asleep' = Asleep - 1 \/ (Asleep' = 0 /\ Asleep = 0)
    BY <1>1, <1>4 DEF Asleep, Numbers
  <2>3. Lowest \in Int /\ Lowest <= 0 BY LowestType
  <2>4. MessageEnds'
    <3>1. msgLeft <= MayLast + Asleep BY <1>8 DEF IInv, MessageEnds
    <3>2. ASSUME msgLeft' = msgLeft - 1 PROVE msgLeft' <= MayLast + Asleep'
      <4>1. CASE Asleep' = Asleep - 1 BY <1>1, <2>1, <2>2, <3>1, <3>2, <4>1, Sums DEF Numbers
      <4>2. CASE Asleep' = Asleep BY <1>1, <2>1, <2>2, <3>1, <3>2, <4>2 DEF Numbers
      <4> QED BY <2>2, <4>1, <4>2
    <3>3. ASSUME msgLeft' = Lowest PROVE msgLeft' <= MayLast + Asleep'
      BY <2>1, <2>2, <2>3, <3>3, Sums
    <3>4. msgLeft' <= MayLast + Asleep' BY <1>3, <3>2, <3>3
    <3> QED BY <2>1, <3>4 DEF MessageEnds
  <2>5. PictureInv'
    <3> SUFFICES ASSUME message = Picture
                 PROVE  msgLeft' <= 0 /\ (pc \in {"settings", "time"} => msgLeft' <= Lowest + Asleep')
      BY <1>2 DEF PictureInv
    <3>1. msgLeft <= 0 /\ (pc \in {"settings", "time"} => msgLeft <= Lowest + Asleep)
      BY <1>8 DEF IInv, PictureInv
    <3>2. msgLeft' <= 0 BY <1>1, <1>3, <2>3, <3>1 DEF Numbers
    <3>3. ASSUME msgLeft <= Lowest + Asleep PROVE msgLeft' <= Lowest + Asleep'
      <4>1. CASE msgLeft' = Lowest BY <2>2, <2>3, <4>1, Sums
      <4>2. CASE msgLeft' = msgLeft - 1 /\ Asleep' = Asleep - 1
        BY <1>1, <2>2, <2>3, <3>3, <4>2, Sums DEF Numbers
      <4>3. CASE msgLeft' = msgLeft - 1 /\ Asleep' = Asleep
        BY <1>1, <2>2, <2>3, <3>3, <4>3 DEF Numbers
      <4> QED BY <1>3, <2>2, <4>1, <4>2, <4>3
    <3> QED BY <3>1, <3>2, <3>3
  <2> QED BY <2>4, <2>5
<1> QED BY <1>5, <1>6, <1>7, <1>8 DEF IInv, HostTypes

LEMMA ClockRestartsKeepsIInv == IInv /\ ClockRestarts => IInv'
<1> SUFFICES ASSUME IInv, ClockRestarts PROVE IInv' OBVIOUS
<1>1. Numbers /\ Calls BY DEF IInv, HostTypes
<1>2. /\ msgLeft' = Lowest /\ message' = Blank /\ accepted' = FALSE
      /\ UNCHANGED <<pc, caller, sleep, screen>>
  BY DEF ClockRestarts, Restart, Lowest
<1>3. Numbers' BY <1>1, <1>2, LowestType DEF Numbers
<1>4. Calls' BY <1>1, <1>2 DEF Calls
<1>5. StaysInv' BY <1>2 DEF StaysInv
<1>6. MessageEnds'
  <2>1. MayLast' \in Int /\ MayLast' >= 0 /\ Asleep' \in Int /\ Asleep' >= 0 BY <1>3, SpansPrimed
  <2>2. Lowest \in Int /\ Lowest <= 0 BY LowestType
  <2>3. Lowest <= MayLast' + Asleep' BY <2>1, <2>2, Sums
  <2> QED BY <1>2, <2>3 DEF MessageEnds
<1>7. PictureInv' BY <1>2, PicturesDiffer DEF PictureInv
<1> QED BY <1>3, <1>4, <1>5, <1>6, <1>7 DEF IInv, HostTypes

(* How long the script still sleeps, how long the clock still displays a message, and
   what it may be that is displayed. *)
THEOREM HostInvariant == Spec => []IInv
<1>1. IInv /\ Script => IInv'
  <2> SUFFICES ASSUME IInv, Script PROVE IInv' OBVIOUS
  <2>1. HostTypes BY DEF IInv
  <2>2. CASE SetTime \/ ShowScreen \/ LastScreen \/ Say \/ SendFrame
    BY <2>2, SetTimeKeepsIInv, ShowScreenKeepsIInv, LastScreenKeepsIInv, SayKeepsIInv,
       SendFrameKeepsIInv
  <2>3. CASE \/ SettingsAnswered \/ SettingsFailed \/ Look \/ ReadFile \/ UnlinkFile
             \/ MessageShown \/ StartVideo \/ AskVideo \/ EndMovie \/ LookForMessage
             \/ SwitchVideo \/ Rest
    BY <2>1, <2>3, GoesOnward, OnwardKeepsIInv
  <2> QED BY <2>2, <2>3 DEF Script
<1>2. IInv /\ [Next]_vars => IInv'
  BY <1>1, OthersKeepIInv, TimePassesKeepsIInv, ClockRestartsKeepsIInv DEF Next
<1> QED BY InitIInv, <1>2, PTL DEF Spec

(* A screen of a message stays up until the script wakes up to replace it:
   showMessage() sleeps as long as it has the clock display the screen. *)
THEOREM ScreensStayUp == Spec => []MessageStaysUp
<1>1. IInv => MessageStaysUp
  <2> SUFFICES ASSUME IInv, pc = "screen", accepted, sleep >= 0
               PROVE  Shown \in {"event", "message"} /\ message = Text(screen - 1)
    BY DEF MessageStaysUp
  <2>1. msgLeft > sleep /\ message = Text(screen - 1) BY DEF IInv, StaysInv
  <2>2. msgLeft > 0 BY <2>1 DEF IInv, HostTypes, Numbers
  <2> QED BY <2>1, <2>2 DEF Shown, IsMessage
<1> QED BY HostInvariant, <1>1, PTL

(* No frame of a video is taken for a text, if showMessage() waits at its end and the
   clock is moved by no more than a second. *)
THEOREM PicturesStayPictures == SleepsCover /\ Spec => []PictureIsNotReadAsText
<1>1. SleepsCover /\ IInv => PictureIsNotReadAsText
  <2> SUFFICES ASSUME SleepsCover, IInv PROVE PictureIsNotReadAsText OBVIOUS
  <2>1. message = Picture => ~(msgLeft > 0) BY DEF IInv, HostTypes, Numbers, PictureInv
  <2> QED BY <2>1 DEF PictureIsNotReadAsText, IsMessage
<1>2. SleepsCover => []SleepsCover
  <2>1. SleepsCover => SleepsCover' BY DEF SleepsCover
  <2> QED BY <2>1, PTL
<1> QED BY HostInvariant, <1>1, <1>2, PTL
=============================================================================
