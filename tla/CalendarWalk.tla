---------------------------- MODULE CalendarWalk ----------------------------
(***************************************************************************)
(* A walk through the century of the clock chip, one midnight a step, to   *)
(* compare the three calendars the time passes through: the chip's, which  *)
(* moves a date on, DateTime(t), which makes a date of a count of days, and *)
(* date2days(), which makes a count of a date.                             *)
(***************************************************************************)
EXTENDS Calendar

VARIABLES date,    \* the date in the chip
          count    \* midnights since 2000-01-01

walkVars == <<date, count>>

WalkInit == date = Date(0, 1, 1) /\ count = 0

LastDay == Date(99, 12, 31)

Midnight ==
  /\ date # LastDay
  /\ date' = DayAfter(date)
  /\ count' = count + 1

WalkSpec == WalkInit /\ [][Midnight]_walkVars

-----------------------------------------------------------------------------
(* The chip's date is a date of the calendar. *)
WalkTypeOK ==
  /\ date \in [year : 0 .. 99, month : 1 .. 12, day : 1 .. 31]
  /\ date.day <= MonthLength(date.year, date.month)
  /\ count \in Nat

(* date2days() counts the midnights the chip counted, through every leap day
   and every new year of the century, and stays in its 16 bits. *)
DaysAreCounted == Date2days(date) = count

(* DateTime(t) finds the date the chip walked to. *)
DateIsFound == DateOf(count) = date

(* The registers of the chip give back what adjust() wrote into them. *)
RegistersKeepDate ==
  \A n \in {date.year, date.month, date.day} :
    Bin2bcd(n) < 160 /\ Bin2bcd(n) % 16 < 10 /\ Bcd2bin(Bin2bcd(n)) = n

(* The three calendars, the chip's, DateTime(t) and date2days(), are one: what is
   counted from a date is found from the count. *)
CalendarsAgree == DaysAreCounted /\ DateIsFound
=============================================================================
