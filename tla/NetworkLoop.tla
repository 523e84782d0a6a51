---------------------------- MODULE NetworkLoop ----------------------------
(***************************************************************************)
(* The supervision of the connection in radioclock.cpp, composed with the  *)
(* driver and Wifi::run of RadioDriver.                                    *)
(*                                                                         *)
(* Nothing in the firmware looks at the state of the access point once     *)
(* Wifi::run is in its loop: a lost connection, a confirmation that never  *)
(* came or a refused request are only noticed by handleNetworkErrors(),    *)
(* because no command arrived for a long time by the clock.                *)
(***************************************************************************)
EXTENDS RadioDriver

CONSTANTS ReconnectAfter,  \* 240 s without a command while connected
          JumpAfter,       \* 90 s without a command while not connected
          Keys             \* the keys pressed: of left, right, center

ASSUME NetConstants ==
  /\ ReconnectAfter \in Nat /\ JumpAfter \in Nat /\ JumpAfter <= ReconnectAfter
  /\ Keys \subseteq {"left", "right", "center"}

VARIABLES
  late,       \* unixTime - requestTime, up to ReconnectAfter + 1
  attempt,    \* clock time Wifi::run has been trying to connect, up to the same
  rest,       \* showEvents or updateTime is next
  awaited     \* the host waits for the clock to answer

netVars == <<vars, late, attempt, rest, awaited>>

LateMax == ReconnectAfter + 1
Later(t) == IF t < LateMax THEN t + 1 ELSE t

NetTypeOK ==
  /\ DriverTypeOK
  /\ late \in 0 .. LateMax /\ attempt \in 0 .. LateMax
  /\ rest \in {"show", "time"}
  /\ awaited \in BOOLEAN

-----------------------------------------------------------------------------
(* Wifi::run. *)

(* A frame may bring a command, and handleCommand() ends with setRequestTime().
   The host sends one command at a time and waits for the answer. *)
Input ==
  /\ StackInput
  /\ \/ UNCHANGED <<late, awaited>>
     \/ ~awaited /\ awaited' = TRUE /\ late' = 0
  /\ UNCHANGED <<attempt, rest>>

Output ==
  /\ SendFrame
  /\ awaited' \in {awaited, awaited /\ buf # Reply}
  /\ UNCHANGED <<late, attempt, rest>>

WifiOther ==
  /\ ZgInit \/ ZgChipReset \/ EnableINT0
       \/ NetConnecting \/ NetConnected \/ StackPeriodic \/ StackIdle
       \/ NothingToSend \/ NoInterrupt \/ ReadMessage \/ ReadNothing
       \/ ClearFlag \/ EnableInterrupt \/ DriverStep
  /\ UNCHANGED <<late, attempt, rest, awaited>>

Wait == NetWaits /\ UNCHANGED <<late, attempt, rest, awaited>>
Turn == (NetTurn \/ NetEnds) /\ UNCHANGED <<late, attempt, rest, awaited>>

-----------------------------------------------------------------------------
(* showEvents: handleButtons() and handleNetworkErrors(). *)

BadLastsTooLong(isConnected, t) == isConnected /\ t > ReconnectAfter
LastsTooLong(isConnected, t) ==
  t > IF isConnected THEN ReconnectAfter ELSE JumpAfter

BadJump ==
  /\ pc' = "net" /\ phase' = "start" /\ connected' = FALSE /\ timerDue' = FALSE
  /\ UNCHANGED <<isrVars, drvVars, radioVars>>
  /\ late' = 0 /\ attempt' = 0 /\ rest' = "show" /\ awaited' = TRUE

(* main() from its first line: the time is read and is the time of the request. *)
Jump ==
  /\ Restart /\ intEnabled' = intEnabled
  /\ late' = 0 /\ attempt' = 0 /\ rest' = "show" /\ awaited' = TRUE

ShowWaits ==
  /\ pc = "other" /\ rest = "show"
  /\ rest' = "time"
  /\ UNCHANGED <<vars, late, attempt, awaited>>

(* left and right count as a request, left also reconnects; right restarts the
   stack, and with it its timers. *)
Supervise(pressed) ==
  LET lateNow      == IF pressed \cap {"left", "right"} # {} THEN 0 ELSE late
      connectedNow == connected /\ "left" \notin pressed
      tooLong      == LastsTooLong(connectedNow, lateNow)
  IN  /\ pc = "other" /\ rest = "show"
      /\ IF "center" \in pressed \/ (tooLong /\ ~connectedNow) THEN Jump
         ELSE /\ connected' = (connectedNow /\ ~tooLong)
              /\ timerDue' = (timerDue /\ "right" \notin pressed)
              /\ late' = lateNow
              /\ rest' = "time"
              /\ awaited' = (awaited \/ "right" \in pressed)
              /\ UNCHANGED <<pc, phase, isrVars, drvVars, radioVars, attempt>>

\* Bound: nobody presses a key once the radio is reliable; the recovery would only
\* start anew.
Show == \E pressed \in SUBSET Keys : (reliable => pressed = {}) /\ Supervise(pressed)

-----------------------------------------------------------------------------
(* updateTime, and the end of the turn.  The outer loop reads the time, makes a
   new Wifi, which is not connected, and calls setRequestTime(). *)

BadStartLate(t) == Later(t)
StartLate(t)    == 0

(* A second is long: a reliable radio and the driver get all management done
   before the next one. *)
Settled == drvState = "IDLE" /\ mgmtQ = <<>> /\ asked = {} /\ link # "retrying"

EndOfTurn(passes) ==
  /\ passes /\ reliable => Settled
  /\ rest = "time" /\ rest' = "show"
  /\ NextTurn
  /\ IF phase = "ended"
     THEN late' = StartLate(late) /\ attempt' = 0 /\ awaited' = TRUE
     ELSE /\ late'    = IF passes THEN Later(late) ELSE late
          /\ attempt' = IF phase # "connecting" THEN 0
                        ELSE IF passes THEN Later(attempt) ELSE attempt
          /\ UNCHANGED awaited

SameSecond == EndOfTurn(FALSE)
NextSecond == EndOfTurn(TRUE)

-----------------------------------------------------------------------------
NetEnv(A) == A /\ UNCHANGED <<late, attempt, rest, awaited>>

MainRuns == Input \/ Output \/ WifiOther \/ Wait \/ Turn \/ ShowWaits \/ Show \/ SameSecond \/ NextSecond

NetInit == DriverInit /\ late = 0 /\ attempt = 0 /\ rest = "show" /\ awaited = TRUE

NetNext ==
  \/ MainRuns
  \/ NetEnv(ZgIsr) \/ NetEnv(TimerExpires) \/ NetEnv(RadioStep)

NetSafety == NetInit /\ [][NetNext]_netVars

(* The main thread runs; the 2 ms timer, the flush showEvents waits for and the
   seconds of the clock come again and again; interrupts come while INT0 is
   low; the radio becomes reliable some day, and then grants, confirms, and
   joins again.  Nothing is assumed of the host. *)
NetSpec ==
  /\ NetSafety
  /\ WF_netVars(MainRuns)
  /\ SF_netVars(Turn) /\ SF_netVars(Show) /\ SF_netVars(NextSecond)
  /\ WF_netVars(NetEnv(ZgIsr))
  /\ WF_netVars(NetEnv(BecomeReliable))
  /\ WF_netVars(NetEnv(\E r \in Requests : Grant(r)))
  /\ WF_netVars(NetEnv(ConfirmFrame)) /\ WF_netVars(NetEnv(Rejoin))

-----------------------------------------------------------------------------
(* Whatever went wrong before -- requests refused or never answered, frames
   never confirmed, the access point gone without a word to the main loop --
   once the radio behaves the supervision gets the clock into a working
   connection again and again. *)
Confirmable == unconfirmed \/ \E i \in DOMAIN dataQ : IsTxConfirm(i)
LinkWorks ==
  phase = "running" /\ connected /\ connStatus /\ link = "joined" /\ (cnfPending => Confirmable)
LinkRecovers == []<>LinkWorks

(* Each attempt to connect gets the whole 90 s: what was late before it started
   is not held against it. *)
AttemptGetsItsTime == phase \in {"start", "connecting"} => late <= attempt

(* The supervision is one of the callers RadioDriver allows for. *)
ImplementsDriver == DriverSpec
=============================================================================
