---------------------------- MODULE MessageHost ----------------------------
(***************************************************************************)
(* The main loop of setTime.pl with respect to messages and videos, the    *)
(* file through which webServer.pl hands it messages, and the clock.       *)
(*                                                                         *)
(* A command may fail in two ways: the clock never gets it, or its answer  *)
(* is lost.  Both end in reconnect(), which makes playMovie() stop; the    *)
(* script goes on after the command.  How lines become answers, and get    *)
(* out of step, is in TelnetHost.  Sleeping n seconds lets n seconds of    *)
(* the clock pass; between any two steps more time may pass.               *)
(***************************************************************************)
EXTENDS Messages, FiniteSets

CONSTANTS
  Screens,       \* screens a message is shown on, one after the other
  ScreenTime,    \* seconds each is shown
  TailTime,      \* seconds showMessage() waits at its end: 5
  ScrollTime,    \* seconds a scrolled message is shown
  MovieTime,     \* seconds a video is requested and played for
  MaxRest,       \* the longest rest between two rounds: 15 s
  MaxPosts       \* bound: messages handed over

ASSUME HostAssumption ==
  /\ Screens \in Nat /\ ScreenTime \in Nat /\ TailTime \in Nat /\ ScrollTime \in Nat
  /\ MovieTime \in Nat /\ MaxRest \in Nat /\ MaxPosts \in Nat

VARIABLES
  pc,         \* where the script is
  caller,     \* what called readMessage() or showMessage()
  sleep,      \* seconds it will sleep; -1 if more have passed since it woke up
  screen,     \* the screen of the message that is shown
  movie,      \* seconds until playMovie() stops
  stopVideo,  \* $stop_video
  accepted,   \* auxiliary: the clock got the screen's text
  file,       \* the message file: absent, empty, or the message in it
  writer,     \* the web server: idle, writing the file, or a file that was unlinked
  posts,      \* messages handed over
  seen        \* auxiliary: those that were read

scriptVars == <<pc, caller, sleep, screen, movie, stopVideo, accepted>>
fileVars   == <<file, writer, posts, seen>>
vars       == <<clockVars, scriptVars, fileVars>>

Absent == -1
Empty  == 0

Init ==
  /\ ClockInit
  /\ pc = "settings" /\ caller = "none" /\ sleep = 0 /\ screen = 0 /\ movie = 0
  /\ stopVideo = FALSE /\ accepted = FALSE
  /\ file = Absent /\ writer = "idle" /\ posts = 0 /\ seen = {}

----------------------------------------------------------------------------
\* telnetCmd(): the command and where the script goes on.
Awake(at) == pc = at /\ sleep <= 0

Answered(command) == command /\ UNCHANGED stopVideo
Failed(command)   == (command \/ NoChange) /\ stopVideo' = TRUE
Told(command)     == Answered(command) \/ Failed(command)

Go(to, seconds) == pc' = to /\ sleep' = seconds

\* The parts of the script's state a step may leave alone.
SameCall   == UNCHANGED <<caller, screen, accepted, fileVars>>
SameMovie  == UNCHANGED movie

\* openConnection(), getSystemStart(), getSettings() until it is answered.
SettingsAnswered ==
  /\ Awake("settings") /\ Go("time", 0)
  /\ GetSystemStart /\ GetSettings /\ SameCall /\ SameMovie /\ UNCHANGED stopVideo

SettingsFailed ==
  /\ Awake("settings") /\ Go("settings", 1)
  /\ NoChange /\ SameCall /\ SameMovie /\ stopVideo' = TRUE

\* getTime(); setTime() with its second's sleep, and sendPlan(), when they are due.
SetTime ==
  /\ Awake("time") /\ SameCall /\ SameMovie
  /\ \/ Go("check", 0) /\ NoChange /\ UNCHANGED stopVideo
     \/ Go("check", 1) /\ \E step \in -MaxStep .. MaxStep : Told(SetUnixTime(step))

----------------------------------------------------------------------------
\* readMessage(): -e, then open and read, then unlink.
NextAfter(at) ==
  CASE at = "check"  -> "video"
    [] at = "check2" -> "rest"
    [] at = "movie"  -> "frame"

BadLook ==                      \* looks for messages during videos only
  /\ pc \in {"check", "check2", "movie"} /\ sleep <= 0
  /\ IF file = Absent \/ pc # "movie" THEN Go(NextAfter(pc), 0) /\ UNCHANGED caller
                                      ELSE Go("read", 0) /\ caller' = pc
  /\ NoChange /\ UNCHANGED <<screen, accepted, fileVars, stopVideo, movie>>

Look ==
  /\ pc \in {"check", "check2", "movie"} /\ sleep <= 0
  /\ IF file = Absent THEN Go(NextAfter(pc), 0) /\ UNCHANGED caller
                      ELSE Go("read", 0) /\ caller' = pc
  /\ NoChange /\ UNCHANGED <<screen, accepted, fileVars, stopVideo, movie>>

ReadFile ==
  /\ Awake("read") /\ Go("unlink", 0)
  /\ seen' = seen \cup {file}
  /\ NoChange /\ UNCHANGED <<caller, screen, accepted, stopVideo, movie, file, writer, posts>>

UnlinkFile ==
  /\ Awake("unlink") /\ Go(IF caller = "movie" THEN "pause" ELSE "screen", 0)
  /\ file' = Absent
  /\ screen' = 1
  /\ writer' = IF writer = "writing" THEN "unlinked" ELSE writer
  /\ NoChange /\ UNCHANGED <<caller, accepted, stopVideo, movie, posts, seen>>

\* enqueueMessage(): opening the file empties it; the text is written when it is closed.
OpenFile ==
  /\ writer = "idle" /\ posts < MaxPosts
  /\ file' = Empty /\ writer' = "writing" /\ posts' = posts + 1
  /\ NoChange /\ UNCHANGED <<scriptVars, seen>>

CloseFile ==
  /\ writer # "idle" /\ writer' = "idle"
  /\ file' = IF writer = "writing" THEN posts ELSE file
  /\ NoChange /\ UNCHANGED <<scriptVars, posts, seen>>

----------------------------------------------------------------------------
\* showMessage(): one screen after the other, and a while at the end.
ShowScreen ==
  /\ Awake("screen") /\ screen <= Screens /\ Go("screen", ScreenTime)
  /\ screen' = screen + 1
  /\ \/ Answered(SetMessage(ScreenTime, screen)) /\ accepted' = TRUE
     \/ stopVideo' = TRUE /\ SetMessage(ScreenTime, screen) /\ accepted' = TRUE
     \/ stopVideo' = TRUE /\ NoChange /\ accepted' = FALSE
  /\ UNCHANGED <<caller, fileVars, movie>>

BadTail == 0
Tail    == TailTime

LastScreen ==
  /\ Awake("screen") /\ screen > Screens /\ Go("tail", Tail)
  /\ accepted' = FALSE
  /\ NoChange /\ UNCHANGED <<caller, screen, fileVars, stopVideo, movie>>

\* keepAlive(), and back to the caller.
MessageShown ==
  /\ Awake("tail")
  /\ Go(CASE caller = "check2" -> "rest" [] caller = "movie" -> "resume"
          [] caller \in {"check", "say"} -> "check2", 0)
  /\ NoChange /\ SameCall /\ SameMovie /\ UNCHANGED stopVideo

\* A message of the script's own is shown or scrolled, or there is none.
Say ==
  /\ Awake("say")
  /\ \/ Go("check2", 0) /\ UNCHANGED <<caller, screen, stopVideo>> /\ NoChange
     \/ Go("screen", 0) /\ caller' = "say" /\ screen' = 1 /\ NoChange /\ UNCHANGED stopVideo
     \/ Go("check2", ScrollTime) /\ Told(SetMessage(ScrollTime, 0)) /\ UNCHANGED <<caller, screen>>
  /\ UNCHANGED <<accepted, fileVars, movie>>

----------------------------------------------------------------------------
\* startVideo(): the request, and the question whether videos are allowed.
StartVideo ==
  /\ Awake("video") /\ SameCall /\ SameMovie
  /\ \/ Go("say", 0) /\ NoChange /\ UNCHANGED stopVideo
     \/ Go("ask", 0) /\ SetVideoRequest(MovieTime) /\ stopVideo' = FALSE
     \/ Go("ask", 0) /\ (SetVideoRequest(MovieTime) \/ NoChange) /\ stopVideo' = TRUE

AskVideo ==
  /\ Awake("ask") /\ IsVideoEnabled /\ SameCall
  /\ \/ allowed /\ Go("frame", 0) /\ movie' = MovieTime /\ UNCHANGED stopVideo
     \/ ~allowed /\ Go("check2", 0) /\ UNCHANGED <<movie, stopVideo>>
     \/ Go("check2", 0) /\ UNCHANGED movie /\ stopVideo' = TRUE

\* playMovie(): it ends with its time, its file or an error; every hundredth frame it
\* looks for a message.
EndMovie ==
  /\ Awake("frame") /\ Go("close", 0)
  /\ NoChange /\ SameCall /\ SameMovie /\ UNCHANGED stopVideo

LookForMessage ==
  /\ Awake("frame") /\ movie > 0 /\ ~stopVideo /\ Go("movie", 0)
  /\ NoChange /\ SameCall /\ SameMovie /\ UNCHANGED stopVideo

SendFrame ==
  /\ Awake("frame") /\ movie > 0 /\ ~stopVideo /\ SameCall /\ SameMovie
  /\ \/ allowed /\ Answered(DrawImage) /\ Go("frame", 0)
     \/ ~allowed /\ Answered(DrawImage) /\ Go("close", 0)
     \/ Failed(DrawImage) /\ Go("frame", 0)

\* disableVideo() before a message and at the end, enableVideo() after a message.
SwitchVideo ==
  /\ sleep <= 0 /\ SameCall /\ SameMovie
  /\ \/ pc = "pause"  /\ Go("screen", 0) /\ Told(DisableVideo)
     \/ pc = "resume" /\ Go("frame", 0)  /\ Told(EnableVideo)
     \/ pc = "close"  /\ Go("check2", 0) /\ Told(DisableVideo)

\* closeConnection(), and the rest until the next quarter of a minute.
Rest ==
  /\ Awake("rest") /\ \E n \in 1 .. MaxRest : Go("settings", n)
  /\ NoChange /\ SameCall /\ SameMovie /\ UNCHANGED stopVideo

----------------------------------------------------------------------------
Script ==
  \/ SettingsAnswered \/ SettingsFailed \/ SetTime
  \/ Look \/ ReadFile \/ UnlinkFile
  \/ ShowScreen \/ LastScreen \/ MessageShown \/ Say
  \/ StartVideo \/ AskVideo \/ EndMovie \/ LookForMessage \/ SendFrame \/ SwitchVideo
  \/ Rest

Ago(n, least) == IF n > least THEN n - 1 ELSE least

Display == Draw /\ UNCHANGED <<scriptVars, fileVars>>

TimePasses ==
  /\ Second
  /\ sleep' = Ago(sleep, -1) /\ movie' = Ago(movie, 0)
  /\ UNCHANGED <<pc, caller, screen, stopVideo, accepted, fileVars>>

ClockRestarts ==
  /\ Restart
  /\ accepted' = FALSE
  /\ UNCHANGED <<pc, caller, sleep, screen, movie, stopVideo, fileVars>>

Next ==
  \/ Script \/ OpenFile \/ CloseFile
  \/ Display \/ TimePasses \/ ClockRestarts

\* The script and the clock go on, a file that was opened is closed, and the
\* connection does not fail for ever.  A frame takes a 25th of a second, so that time
\* passes while a video plays.
Spec ==
  /\ Init /\ [][Next]_vars
  /\ WF_vars(Script) /\ SF_vars(SettingsAnswered)
  /\ WF_vars(Display) /\ SF_vars(TimePasses)
  /\ WF_vars(CloseFile)

----------------------------------------------------------------------------
\* A frame of a video never gets into the buffer while a message is displayed from
\* it, although nothing in the firmware prevents it: the script's sleeps cover the
\* message, the second it lasts longer, and a clock that is set back by a second.
PictureIsNotReadAsText == ~(IsMessage /\ message = Picture)

\* A screen of a message is displayed until the script wakes up to replace it, unless
\* an event comes near or the clock starts again.
MessageStaysUp ==
  pc = "screen" /\ accepted /\ sleep >= 0 =>
    Shown \in {"event", "message"} /\ message = Text(screen - 1)

\* A message that was handed over whole while the script was not reading is read,
\* whatever the script is at, or another one has taken its place.
MessageIsRead ==
  \A p \in 1 .. MaxPosts :
    (file = p /\ pc \notin {"read", "unlink"}) ~> (p \in seen \/ posts > p)

\* What the web page promises: it may take a minute, but the message is shown.
PostedIsShown == \A p \in 1 .. MaxPosts : (posts = p /\ writer = "idle") ~> p \in seen
=============================================================================
