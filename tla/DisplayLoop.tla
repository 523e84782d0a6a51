---------------------------- MODULE DisplayLoop ----------------------------
(***************************************************************************)
(* The main thread of radioclock.cpp as the display sees it, composed with *)
(* the interrupts of DisplayScan, the watchdog and the clock chip.         *)
(*                                                                         *)
(* One turn of main()'s inner loop runs three protothreads: Wifi::run,     *)
(* showEvents (swap, draw, flush, wait for the flush) and updateTime (read *)
(* the clock every 100 ms of display time).  The outer loop starts them    *)
(* afresh when Wifi::run ends.  Every read of the clock chip holds         *)
(* clockLock, which stops the scan, and with it the display's time and the *)
(* feeding of the watchdog.                                                *)
(*                                                                         *)
(* Real time is counted in compare interrupts.                             *)
(***************************************************************************)
EXTENDS DisplayScan

CONSTANTS WdtLimit,   \* compare interrupts in the 15 ms of the watchdog
          SpiTicks,   \* compare interrupts the transfer of a line may delay it
          RtcTicks,   \* compare interrupts one read of a working clock may last
          RtcEvery,   \* passes of the scan in the 100 ms of updateTime (20)
          WifiEvery,  \* passes of the scan in the 2 ms of Wifi::run (1)
          RtcFails    \* the clock chip may stop to answer

ASSUME LoopConstants ==
  /\ WdtLimit \in Nat \ {0}
  /\ SpiTicks \in Nat /\ RtcTicks \in Nat
  /\ RtcEvery \in 1 .. TickMod - 2 /\ WifiEvery \in 1 .. TickMod - 2
  /\ RtcFails \in BOOLEAN

VARIABLES
  pc,            \* where the main thread is
  showPt,        \* showEvents: at its start, or waiting for the flush
  timePt,        \* updateTime: at its start, or waiting for its timer
  wifiPt,        \* Wifi::run: connecting, in its loop, or ended
  timeStart,     \* start of updateTime's timer, in passes
  wifiStart,     \* start of Wifi::run's timer, in passes
  wdt,           \* compare interrupts since the watchdog was fed
  hold,          \* compare interrupts since clockLock was set
  rtcUp,         \* the clock chip answers
  excused        \* auxiliary: it did not, at some time since the watchdog was fed

mainVars == <<pc, showPt, timePt, wifiPt, timeStart, wifiStart>>
loopVars == <<vars, mainVars, wdt, hold, rtcUp, excused>>

LoopTypeOK ==
  /\ TypeOK
  /\ pc \in {"boot", "bootRtc", "net", "show", "draw", "time", "rtc"}
  /\ showPt \in {"begin", "wait"} /\ timePt \in {"begin", "wait"}
  /\ wifiPt \in {"connecting", "running", "ended"}
  /\ timeStart \in 0 .. TickMod - 1 /\ wifiStart \in 0 .. TickMod - 1
  /\ wdt \in 0 .. WdtLimit /\ hold \in 0 .. RtcTicks
  /\ rtcUp \in BOOLEAN /\ excused \in BOOLEAN

(* timer_expired(): the difference is taken in the width of clock_time_t. *)
Expired(start, interval) == (ticks + TickMod - start) % TickMod >= interval

-----------------------------------------------------------------------------
(* Interrupts and hardware. *)

(* Only LedDisableClock() feeds the watchdog: BlankLine. *)
BadFeeds == TRUE
Feeds    == ~waitClear

(* The pass about to be counted laps the running timer: 2^32 ms without a poll. *)
Lapped(start) ==
  /\ waitClear /\ ~clockLock /\ line = 0 /\ frame = 0
  /\ (ticks + 1) % TickMod = start

(* The assumptions on time: a transfer delays a line by at most SpiTicks, a
   read of a working clock by RtcTicks, no timer is left unpolled until it laps, and the
   watchdog fires at WdtLimit. *)
InTime ==
  /\ wdt < WdtLimit
  /\ timePt = "wait" => ~Lapped(timeStart)
  /\ wifiPt = "running" => ~Lapped(wifiStart)
  /\ waitClear /\ ~SPIfinished => wdt < SpiTicks
  /\ clockLock /\ rtcUp => hold < RtcTicks

TimerInterrupt ==
  /\ InTime
  /\ TimerCompare
  /\ wdt' = IF Feeds THEN 0 ELSE wdt + 1
  /\ hold' = IF ~clockLock THEN 0 ELSE IF hold < RtcTicks THEN hold + 1 ELSE hold
  /\ excused' = IF Feeds THEN ~rtcUp ELSE excused
  /\ UNCHANGED <<mainVars, rtcUp>>

SpiInterrupt == DataRegisterEmpty /\ UNCHANGED <<mainVars, wdt, hold, rtcUp, excused>>

BadStartMain ==
  /\ oe' = FALSE /\ wdt' = 0 /\ hold' = 0
  /\ UNCHANGED <<isrVars, waitClear, lock, switchBuffer, displayBuffer, spi, clockLock,
                 mainVars, rtcUp, excused>>

(* main() from its first line, after a reset or a jump to address 0. *)
StartMain ==
  /\ Reset
  /\ pc' = "boot" /\ showPt' = "begin" /\ timePt' = "begin" /\ wifiPt' = "connecting"
  /\ timeStart' = 0 /\ wifiStart' = 0
  /\ wdt' = 0 /\ hold' = 0 /\ excused' = ~rtcUp
  /\ UNCHANGED rtcUp

Watchdog == wdt = WdtLimit /\ StartMain

RtcStops ==
  /\ RtcFails /\ rtcUp
  /\ rtcUp' = FALSE /\ excused' = TRUE
  /\ UNCHANGED <<vars, mainVars, wdt, hold>>

RtcReturns ==
  /\ ~rtcUp
  /\ rtcUp' = TRUE
  /\ hold' = 0
  /\ UNCHANGED <<vars, mainVars, wdt, excused>>

-----------------------------------------------------------------------------
(* The main thread. *)

MainRuns == wdt < WdtLimit /\ UNCHANGED <<wdt, rtcUp, excused>>

(* RadioEvent::updateTime() called by the outer loop; PT_INIT of all three. *)
Boot ==
  /\ pc = "boot" /\ MainRuns
  /\ LockClock /\ hold' = 0
  /\ pc' = "bootRtc"
  /\ showPt' = "begin" /\ timePt' = "begin" /\ wifiPt' = "connecting"
  /\ UNCHANGED <<timeStart, wifiStart>>

BootClockRead ==
  /\ pc = "bootRtc" /\ rtcUp /\ MainRuns
  /\ UnlockClock
  /\ pc' = "net"
  /\ UNCHANGED <<showPt, timePt, wifiPt, timeStart, wifiStart, hold>>

(* Wifi::run: it connects at some call, then waits 2 ms between two turns of
   its loop and ends after one in which m_connected was cleared. *)
NetBegin ==
  /\ pc = "net" /\ MainRuns
  /\ pc' = "show"
  /\ UNCHANGED <<vars, showPt, timePt, timeStart, hold>>

WifiConnecting ==
  /\ wifiPt = "connecting" /\ NetBegin
  /\ \/ UNCHANGED <<wifiPt, wifiStart>>
     \/ wifiPt' = "running" /\ wifiStart' = ticks

WifiWaits ==
  /\ wifiPt = "running" /\ ~Expired(wifiStart, WifiEvery) /\ NetBegin
  /\ UNCHANGED <<wifiPt, wifiStart>>

WifiTurn ==
  /\ wifiPt = "running" /\ Expired(wifiStart, WifiEvery) /\ NetBegin
  /\ \/ wifiPt' = "running" /\ wifiStart' = ticks
     \/ wifiPt' = "ended" /\ UNCHANGED wifiStart

(* showEvents: handleButtons() or handleNetworkErrors() may jump to address 0. *)
BadShowResumes == TRUE
ShowResumes    == showPt = "begin" \/ ~switchBuffer

JumpToZero ==
  /\ pc = "show" /\ ShowResumes /\ wdt < WdtLimit
  /\ StartMain

Swap ==
  /\ pc = "show" /\ ShowResumes /\ MainRuns
  /\ SwitchBuffers
  /\ pc' = "draw"
  /\ UNCHANGED <<showPt, timePt, wifiPt, timeStart, wifiStart, hold>>

(* clearBuffer() and showCurrentEvent() are over; flush() and the wait. *)
FlushPicture ==
  /\ pc = "draw" /\ MainRuns
  /\ Flush
  /\ pc' = "show" /\ showPt' = "wait"
  /\ UNCHANGED <<timePt, wifiPt, timeStart, wifiStart, hold>>

ShowWaits ==
  /\ pc = "show" /\ ~ShowResumes /\ MainRuns
  /\ pc' = "time"
  /\ UNCHANGED <<vars, showPt, timePt, wifiPt, timeStart, wifiStart, hold>>

NextTurn == IF wifiPt = "ended" THEN "boot" ELSE "net"

(* updateTime: at its start, and whenever its timer expired. *)
BadTimeDue == TRUE
TimeDue    == timePt = "begin" \/ Expired(timeStart, RtcEvery)

ReadClock ==
  /\ pc = "time" /\ TimeDue /\ MainRuns
  /\ LockClock /\ hold' = 0
  /\ pc' = "rtc"
  /\ UNCHANGED <<showPt, timePt, wifiPt, timeStart, wifiStart>>

ClockRead ==
  /\ pc = "rtc" /\ rtcUp /\ MainRuns
  /\ UnlockClock
  /\ timePt' = "wait" /\ timeStart' = ticks
  /\ pc' = NextTurn
  /\ UNCHANGED <<showPt, wifiPt, wifiStart, hold>>

TimeWaits ==
  /\ pc = "time" /\ ~TimeDue /\ MainRuns
  /\ pc' = NextTurn
  /\ UNCHANGED <<vars, showPt, timePt, wifiPt, timeStart, wifiStart, hold>>

MainStep ==
  \/ Boot \/ BootClockRead
  \/ WifiConnecting \/ WifiWaits \/ WifiTurn
  \/ Swap \/ FlushPicture \/ ShowWaits
  \/ ReadClock \/ ClockRead \/ TimeWaits

LoopInit ==
  /\ Init
  /\ pc = "boot" /\ showPt = "begin" /\ timePt = "begin" /\ wifiPt = "connecting"
  /\ timeStart = 0 /\ wifiStart = 0
  /\ wdt = 0 /\ hold = 0 /\ rtcUp = TRUE /\ excused = FALSE

LoopNext ==
  \/ TimerInterrupt \/ SpiInterrupt \/ Watchdog
  \/ MainStep \/ JumpToZero
  \/ RtcStops \/ RtcReturns

LoopSafety == LoopInit /\ [][LoopNext]_loopVars

(* Interrupts and the watchdog come as long as they are enabled, and the main
   thread never blocks but in a read of the clock.  showEvents looks at the
   flush flag right after setting it: the scan does not end in between every
   time, so ShowWaits is strongly fair.  Nothing makes a user press a button
   or a broken clock chip come back. *)
LoopSpec ==
  /\ LoopSafety
  /\ WF_loopVars(TimerInterrupt)
  /\ WF_loopVars(SpiInterrupt)
  /\ WF_loopVars(Watchdog)
  /\ WF_loopVars(MainStep)
  /\ SF_loopVars(ShowWaits)

-----------------------------------------------------------------------------
(* As long as the clock chip answers, the pauses of the scan -- a transfer
   and up to three reads of the clock with no line shown in between, when
   Wifi::run ends -- never add up to a reset by the watchdog: before every reset the chip
   failed, and failed within the time the watchdog measured. *)
NoWatchdogReset == wdt < WdtLimit \/ excused

(* A flushed picture is always taken up by the scan: showEvents does not wait
   for ever, whatever the reads of the clock and restarts of the stack do. *)
FlushIsAnswered == switchBuffer ~> ~switchBuffer

(* The main thread is never stuck in a read of the clock: the chip answers,
   or the scan, stopped by clockLock, lets the watchdog start all over. *)
InClockRead == pc \in {"rtc", "bootRtc"}
ClockReadEnds == InClockRead ~> ~InClockRead

(* The time of the display, and with it the reads of the clock, never stops
   for good. *)
TimeGoesOn == [](pc = "net" => <>(clockLock \/ pc = "boot"))

(* The loop is one of the main threads DisplayScan allows for, so all that is
   shown and proved of the scan holds with it. *)
ImplementsScan == Spec

(* None of the three waits of the loop, for a flush, for the chip and for the next
   second, is for ever, although each is ended by what another one stops. *)
LoopGoesOn == FlushIsAnswered /\ ClockReadEnds /\ TimeGoesOn
=============================================================================
