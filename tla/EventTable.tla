---------------------------- MODULE EventTable ----------------------------
(***************************************************************************)
(* The radio plan: the event table of RadioEvent, the "u" command that     *)
(* writes it, the host's sendPlan() that uploads it one show per command,  *)
(* and the queries with which showCurrentEvent() picks the show to         *)
(* display.  The table keeps starts only: a show ends where the next entry *)
(* starts, and an upload writes the end of every show into the entry the   *)
(* next command overwrites.  The display looks at the table between any    *)
(* two commands.                                                           *)
(*                                                                         *)
(* The radio agenda is fixed: shows in order that do not overlap.  A title *)
(* is the number of its show.  Times of host and clock are local times.    *)
(***************************************************************************)
EXTENDS Integers

CONSTANTS MaxEvents,  \* MAX_EVENTS: entries of the table (10)
          MaxTitles,  \* MAX_EVENT_TITLES: entries that have a title (2)
          FirstTime,  \* 1380000000: entries up to this time do not exist
          NumShows,   \* shows of the agenda
          Start, End, \* when each show starts and ends
          MaxGap,     \* sendPlan() stops before a pause longer than this (20000)
          MaxTime     \* bound: the last time of either clock

Shows   == 1 .. NumShows
Entries == 0 .. MaxEvents - 1
Titled  == 0 .. MaxTitles - 1
NoShow  == 0

ASSUME PlanConstants ==
  /\ MaxEvents \in Nat \ {0} /\ MaxTitles \in 0 .. 2
  /\ FirstTime \in Nat /\ NumShows \in Nat /\ MaxGap \in Nat /\ MaxTime \in Nat
  /\ Start \in [Shows -> Nat] /\ End \in [Shows -> Nat]
  /\ \A k \in Shows : FirstTime < Start[k] /\ Start[k] < End[k]
  /\ \A k, l \in Shows : k < l => End[k] <= Start[l]

VARIABLES
  events,     \* events[i].start
  titles,     \* eventTitles
  unixTime,   \* radioEvent.unixTime
  hostTime,   \* the host's clock
  next,       \* sendPlan(): the show to look at next, or NoShow when not running
  count,      \* sendPlan(): $events, the entry to send next
  intact,     \* auxiliary: no "u" command was lost since the firmware started
  arrived,    \* auxiliary: all "u" commands of this upload are in the table
  plan        \* auxiliary: first and last show of the plan in the table, if the
              \* last upload was complete

tableVars == <<events, titles>>
hostVars  == <<next, count>>
auxVars   == <<intact, arrived, plan>>
planVars  == <<events, titles, unixTime, hostTime, next, count, intact,
              arrived, plan>>

NoPlan == [first |-> 1, last |-> 0]

PlanTypeOK ==
  /\ events \in [Entries -> Nat]
  /\ titles \in [Titled -> Shows \cup {NoShow}]
  /\ unixTime \in Nat /\ hostTime \in Nat
  /\ next \in 0 .. NumShows + 1
  /\ count \in 0 .. MaxEvents
  /\ intact \in BOOLEAN /\ arrived \in BOOLEAN
  /\ plan \in [first : Nat, last : Nat]

-----------------------------------------------------------------------------
(* The table. *)

EventExists(i)  == i \in Entries /\ events[i] > FirstTime
EventStart(i)   == IF EventExists(i) THEN events[i] ELSE 0
EventEnd(i)     == EventStart(i + 1)

RunsAt(i) == EventExists(i) /\ EventStart(i) <= unixTime /\ unixTime <= EventEnd(i)

(* getRunningEvent() returns i. *)
IsRunningEvent(i) ==
  /\ i \in 0 .. MaxEvents - 2 /\ RunsAt(i)
  /\ \A j \in 0 .. i - 1 : ~RunsAt(j)

(* getNextEvent() returns i. *)
IsNextEvent(i) ==
  /\ EventExists(i) /\ EventStart(i) >= unixTime
  /\ \A j \in 0 .. i - 1 : ~(EventExists(j) /\ EventStart(j) >= unixTime)

(* The event showCurrentEvent() is about: the running one, else the next. *)
IsCurrentEvent(i) ==
  \/ IsRunningEvent(i)
  \/ IsNextEvent(i) /\ \A j \in 0 .. MaxEvents - 2 : ~RunsAt(j)

(* setEventStart() and setEventEnd(): the last entry is never written. *)
BadStored(i, start, end) ==
  [j \in Entries |-> IF j = MaxEvents - 1 THEN events[j]
                     ELSE IF j = i        THEN start
                     ELSE IF j = i + 1    THEN end
                     ELSE events[j]]

BadStored2(i, start, end) ==
  [j \in Entries |-> IF j = MaxEvents - 1 THEN events[j]
                     ELSE IF j = i        THEN start
                     ELSE IF j = i + 2    THEN 0
                     ELSE events[j]]

Stored(i, start, end) ==
  [j \in Entries |-> IF j = MaxEvents - 1 THEN events[j]
                     ELSE IF j = i        THEN start
                     ELSE IF j = i + 1    THEN end
                     ELSE IF j = i + 2    THEN 0
                     ELSE events[j]]

(* RadioEvent::setEventTitle() *)
SetEventTitle(i, title) == titles' = [j \in Titled |-> IF j = i THEN title ELSE titles[j]]

(* RadioEvent::setEvent() *)
SetEvent(i, start, end, title) ==
  /\ events' = Stored(i, start, end)
  /\ SetEventTitle(i, title)

-----------------------------------------------------------------------------
(* The host. *)

(* sendPlan() begins with the first line of the agenda. *)
SendPlan ==
  /\ next = NoShow /\ NumShows > 0
  /\ next' = 1 /\ count' = 0
  /\ arrived' = TRUE
  /\ UNCHANGED <<tableVars, unixTime, hostTime, intact, plan>>

Sending == next \in Shows

(* Shows that are over are not sent. *)
SkipShow ==
  /\ Sending /\ End[next] <= hostTime
  /\ next' = next + 1
  /\ UNCHANGED <<tableVars, unixTime, hostTime, count, auxVars>>

PauseTooLong == count > 0 /\ Start[next] - End[next - 1] > MaxGap

BadShowIsSent ==
  /\ Sending /\ hostTime < End[next] /\ ~PauseTooLong
  /\ next' = next + 1 /\ count' = count + 1
  /\ UNCHANGED <<unixTime, hostTime>>

ShowIsSent ==
  /\ Sending /\ hostTime < End[next] /\ ~PauseTooLong /\ count < MaxEvents
  /\ next' = next + 1 /\ count' = count + 1
  /\ UNCHANGED <<unixTime, hostTime>>

(* The command arrives, whether or not its "ok" does. *)
EventCommand ==
  /\ ShowIsSent
  /\ SetEvent(count, Start[next], End[next], next)
  /\ plan' = NoPlan
  /\ UNCHANGED <<intact, arrived>>

(* The connection breaks; telnetCmd() reconnects and the next command is
   sent, this one is not repeated. *)
EventCommandLost ==
  /\ ShowIsSent
  /\ intact' = FALSE /\ arrived' = FALSE
  /\ UNCHANGED <<tableVars, plan>>

(* The last line is out, the pause too long or the table full. *)
PlanIsOut ==
  \/ next = NumShows + 1
  \/ Sending /\ hostTime < End[next] /\ PauseTooLong
  \/ count = MaxEvents

PlanSent ==
  /\ next # NoShow /\ PlanIsOut
  /\ next' = NoShow /\ count' = 0
  /\ plan' = IF arrived /\ count > 0 THEN [first |-> next - count, last |-> next - 1] ELSE plan
  /\ UNCHANGED <<tableVars, unixTime, hostTime, intact, arrived>>

(* The script dies and is started again. *)
HostRestarts ==
  /\ next # NoShow
  /\ next' = NoShow /\ count' = 0
  /\ UNCHANGED <<tableVars, unixTime, hostTime, auxVars>>

(* The upload is quicker than a show: once it has begun none is skipped. *)
HostTick ==
  /\ hostTime < MaxTime
  /\ count > 0 /\ Sending => hostTime + 1 < End[next]
  /\ hostTime' = hostTime + 1
  /\ UNCHANGED <<tableVars, hostVars, unixTime, auxVars>>

-----------------------------------------------------------------------------
(* The clock. *)
ClockTick ==
  /\ unixTime < MaxTime
  /\ unixTime' = unixTime + 1
  /\ UNCHANGED <<tableVars, hostVars, hostTime, auxVars>>

(* The "z" command, at any time: the clock may jump in either direction. *)
SetUnixTime ==
  /\ unixTime' = hostTime
  /\ UNCHANGED <<tableVars, hostVars, hostTime, auxVars>>

(* RadioEvent::init() of a new start, also in the middle of an upload. *)
Restart ==
  /\ events' = [i \in Entries |-> 0]
  /\ titles' = [i \in Titled |-> NoShow]
  /\ intact' = TRUE /\ arrived' = FALSE /\ plan' = NoPlan
  /\ UNCHANGED <<hostVars, unixTime, hostTime>>

PlanInit ==
  /\ events = [i \in Entries |-> 0]
  /\ titles = [i \in Titled |-> NoShow]
  /\ unixTime \in 0 .. MaxTime /\ hostTime \in 0 .. MaxTime
  /\ next = NoShow /\ count = 0
  /\ intact = TRUE /\ arrived = FALSE /\ plan = NoPlan

PlanNext ==
  \/ SendPlan \/ SkipShow \/ EventCommand \/ EventCommandLost \/ PlanSent
  \/ HostRestarts \/ HostTick
  \/ ClockTick \/ SetUnixTime \/ Restart

PlanSpec == PlanInit /\ [][PlanNext]_planVars

-----------------------------------------------------------------------------
(* Two entries in a row that exist are a show and its end or its successor:
   no step of an upload, however it is cut off, repeated or shifted against
   what an earlier upload left, makes up a show. *)
IsShow(start, end) ==
  \E k \in Shows : start = Start[k] /\ (end = End[k] \/ (k + 1 \in Shows /\ end = Start[k + 1]))

NeighboursAreShows ==
  intact => \A i \in Entries :
              EventExists(i) /\ EventExists(i + 1) => IsShow(events[i], events[i + 1])

(* What the clock shows as running has begun and lasts, or was the last to
   begin: also between two commands of an upload. *)
RunningIsOnAir ==
  intact => \A i \in Entries : IsRunningEvent(i) =>
              \E k \in Shows : /\ Start[k] = events[i] /\ Start[k] <= unixTime
                               /\ k + 1 \in Shows => unixTime <= Start[k + 1]
                               /\ k + 1 \notin Shows => unixTime <= End[k]

(* The title shown with an event is that of the show whose time is shown,
   although time and title are kept apart and the entry next to the one being
   written holds a time without its title. *)
TitleMatchesTime ==
  intact => \A i \in Titled : IsCurrentEvent(i) =>
              titles[i] \in Shows /\ events[i] = Start[titles[i]]

(* What makes these hold from command to command.  The last entry is never
   written.  Once an upload has sent a show it skips none, and the entry before
   the one it writes next holds the show before the one it sends next. *)
LastUnused == events[MaxEvents - 1] = 0

NoneSkipped ==
  count > 0 => next # NoShow /\ next - 1 \in Shows /\ (Sending => hostTime < End[next])

UploadFollows ==
  intact /\ count > 0 => events[count - 1] \in {0, Start[next - 1]}

(* An entry with a title holds its show, but for the end of the first show. *)
HasItsTitle(i) == titles[i] \in Shows /\ events[i] = Start[titles[i]]

EndOfFirst(i) ==
  i = 1 /\ count <= 1 /\ EventExists(0) /\ events[0] < events[1] /\ ~EventExists(2)

TitlesInv ==
  intact => \A i \in Titled : EventExists(i) => HasItsTitle(i) \/ EndOfFirst(i)

(* The table holds shows first, first + 1, ... in its first n entries. *)
Holds(first, n) ==
  /\ \A i \in 0 .. n - 1 :
       /\ first + i \in Shows
       /\ i <= MaxEvents - 2 => events[i] = Start[first + i]
       /\ i \in Titled => titles[i] = first + i
  /\ n > 0 /\ n <= MaxEvents - 2 => events[n] = End[first + n - 1]

UploadArrived == arrived /\ next # NoShow => Holds(next - count, count)
PlanStored    == Holds(plan.first, plan.last - plan.first + 1)

TableInv ==
  /\ PlanTypeOK
  /\ LastUnused /\ NoneSkipped /\ UploadFollows
  /\ NeighboursAreShows /\ TitlesInv
  /\ UploadArrived /\ PlanStored

(* After a complete upload, while a show of the plan is on air it is the one
   shown, whatever earlier uploads left behind it -- up to the last two
   entries, of which one has no end and the other is never written. *)
PlanTakesEffect ==
  \A k \in Shows :
    LET i == k - plan.first
    IN  /\ k \in plan.first .. plan.last /\ i <= MaxEvents - 3
        /\ Start[k] < unixTime /\ unixTime <= End[k]
        => IsRunningEvent(i) /\ (i \in Titled => titles[i] = k)
=============================================================================
