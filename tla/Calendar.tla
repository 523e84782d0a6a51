------------------------------ MODULE Calendar ------------------------------
(***************************************************************************)
(* The calendar of RTClib.cpp: dates from times, times from dates, and the *)
(* packed decimal of the clock chip.  Times count the seconds since        *)
(* 2000-01-01 00:00, what the code makes of unix time by subtracting and   *)
(* adding 946684800.  A date has the year since 2000 (yOff), the month and *)
(* the day of the month, both from 1.                                      *)
(***************************************************************************)
EXTENDS Naturals

DaysInMonth == <<31, 28, 31, 30, 31, 30, 31, 31, 30, 31, 30, 31>>

(* What the loop of date2days() adds up: the days of the months before. *)
DaysBefore == <<0, 31, 59, 90, 120, 151, 181, 212, 243, 273, 304, 334>>

LeapDay(y) == IF y % 4 = 0 THEN 1 ELSE 0

MonthLength(y, m) == DaysInMonth[m] + IF m = 2 THEN LeapDay(y) ELSE 0

Date(y, m, d) == [year |-> y, month |-> m, day |-> d]

(* date2days(), in 16 bits *)
BadDate2days(date) ==
  (date.day + DaysBefore[date.month] + (IF date.month >= 2 THEN LeapDay(date.year) ELSE 0)
     + 365 * date.year + (date.year + 3) \div 4 - 1) % 2^16

Date2days(date) ==
  (date.day + DaysBefore[date.month] + (IF date.month > 2 THEN LeapDay(date.year) ELSE 0)
     + 365 * date.year + (date.year + 3) \div 4 - 1) % 2^16

(* The two loops of DateTime(t) take the years off the days, then the months. *)
YearStart[y \in 0 .. 137] ==
  IF y = 0 THEN 0 ELSE YearStart[y - 1] + 365 + LeapDay(y - 1)

BadDateOf(days) ==
  LET y    == CHOOSE y \in 0 .. 136 : YearStart[y] <= days /\ days < YearStart[y + 1]
      rest == days - YearStart[y]
      m    == CHOOSE m \in 1 .. 12 : DaysBefore[m] <= rest /\ rest < DaysBefore[m] + DaysInMonth[m]
  IN  Date(y, m, rest - DaysBefore[m] + 1)

MonthStart(y) ==
  LET start[m \in 1 .. 13] == IF m = 1 THEN 0 ELSE start[m - 1] + MonthLength(y, m - 1)
  IN  start

DateOf(days) ==
  LET y    == CHOOSE y \in 0 .. 136 : YearStart[y] <= days /\ days < YearStart[y + 1]
      rest == days - YearStart[y]
      m    == CHOOSE m \in 1 .. 12 : MonthStart(y)[m] <= rest /\ rest < MonthStart(y)[m + 1]
  IN  Date(y, m, rest - MonthStart(y)[m] + 1)

(* uint8_t to packed decimal and back *)
BadBin2bcd(v) == (v + 6 * ((v + 1) \div 10)) % 256
Bin2bcd(v)    == (v + 6 * (v \div 10)) % 256
Bcd2bin(v)    == v - 6 * (v \div 16)

-----------------------------------------------------------------------------
(* The calendar of the DS1307, valid for a century. *)
DayAfter(date) ==
  IF date.day < MonthLength(date.year, date.month)
  THEN [date EXCEPT !.day = date.day + 1]
  ELSE IF date.month < 12
  THEN Date(date.year, date.month + 1, 1)
  ELSE Date((date.year + 1) % 100, 1, 1)
=============================================================================
