-------------------------- MODULE ClockChipProofs --------------------------
(***************************************************************************)
(* What the clock chip promises, for any times of its century, any number  *)
(* of settings and seconds, and any interleaving of them.                  *)
(*                                                                         *)
(* First the calendar: DateTime(t), date2days() and the chip count the same*)
(* days.  Then the registers: they lose nothing of a time, and a second on *)
(* the chip is a second of the times.  Then the inductive invariant.       *)
(***************************************************************************)
EXTENDS ClockChip, CalendarWalk, TLAPS, WellFoundedInduction

(* The years before and the months before, as sums. *)
YearDays(y)        == 365 * y + (y + 3) \div 4
MonthsBefore(y, m) == DaysBefore[m] + IF m > 2 THEN LeapDay(y) ELSE 0
MonthDays(y, m)    == IF m = 13 THEN 365 + LeapDay(y) ELSE MonthsBefore(y, m)

(* A set of numbers that is not empty has a least one. *)
LEMMA LeastMember ==
  ASSUME NEW S, S \subseteq Nat, S # {}
  PROVE  \E s \in S : \A r \in S : s <= r
<1>1. PICK s \in S : \A r \in S : ~ (<<r, s>> \in OpToRel(<, Nat))
  BY WFMin, NatLessThanWellFounded
<1>2. \A r \in S : ~ (r < s) BY <1>1 DEF OpToRel
<1> QED BY <1>2

-----------------------------------------------------------------------------
LEMMA LeapType == ASSUME NEW y \in 0 .. 99 PROVE LeapDay(y) \in {0, 1}
BY DEF LeapDay

LEMMA MonthTables ==
  ASSUME NEW m \in 1 .. 12 PROVE DaysInMonth[m] \in 28 .. 31 /\ DaysBefore[m] \in 0 .. 334
<1>1. m \in {1, 2, 3, 4, 5, 6, 7, 8, 9, 10, 11, 12} OBVIOUS
<1> QED BY <1>1 DEF DaysBefore, DaysInMonth

LEMMA MonthLengthType ==
  ASSUME NEW y \in 0 .. 99, NEW m \in 1 .. 12 PROVE MonthLength(y, m) \in 28 .. 31
<1>1. LeapDay(y) \in {0, 1} BY LeapType
<1>2. CASE m = 2 BY <1>1, <1>2 DEF MonthLength, DaysInMonth
<1>3. CASE m # 2 BY <1>3, MonthTables DEF MonthLength
<1> QED BY <1>2, <1>3

LEMMA MonthsBeforeType ==
  ASSUME NEW y \in 0 .. 99, NEW m \in 1 .. 12 PROVE MonthsBefore(y, m) \in 0 .. 335
<1>1. PICK l \in {0, 1}, b \in 0 .. 334 : l = LeapDay(y) /\ b = DaysBefore[m]
  BY LeapType, MonthTables
<1>2. MonthsBefore(y, m) = b + IF m > 2 THEN l ELSE 0 BY <1>1 DEF MonthsBefore
<1> QED BY <1>2

(* The table of the sums is the one the loop of date2days() adds up. *)
LEMMA MonthsAddUp ==
  ASSUME NEW y \in 0 .. 99, NEW m \in 1 .. 11
  PROVE  MonthsBefore(y, m + 1) = MonthsBefore(y, m) + MonthLength(y, m)
<1>1. DaysBefore[m + 1] = DaysBefore[m] + DaysInMonth[m]
  <2>1. m \in {1, 2, 3, 4, 5, 6, 7, 8, 9, 10, 11} OBVIOUS
  <2> QED BY <2>1 DEF DaysBefore, DaysInMonth
<1>2. PICK l \in {0, 1} : l = LeapDay(y) BY LeapType
<1>3. PICK b \in 0 .. 334, n \in 28 .. 31 : b = DaysBefore[m] /\ n = DaysInMonth[m]
  BY MonthTables
<1> QED BY <1>1, <1>2, <1>3 DEF MonthsBefore, MonthLength


(* Every fourth year (y + 3) \div 4 takes up the leap day of the year before. *)
LEMMA YearDaysAddUp ==
  ASSUME NEW y \in 0 .. 136
  PROVE  YearDays(y) \in Nat /\ YearDays(y + 1) = YearDays(y) + 365 + LeapDay(y)
<1>1. ((y + 1) + 3) \div 4 = (y + 3) \div 4 + LeapDay(y) BY DEF LeapDay
<1>2. PICK q \in Nat : q = (y + 3) \div 4 OBVIOUS
<1>3. LeapDay(y) \in {0, 1} BY DEF LeapDay
<1>4. YearDays(y + 1) = 365 * (y + 1) + (q + LeapDay(y)) /\ YearDays(y) = 365 * y + q
  BY <1>1, <1>2 DEF YearDays
<1> QED BY <1>2, <1>3, <1>4

(* A recursive function has the values of any function that solves its equation. *)
LEMMA YearStartIs == \A y \in 0 .. 137 : YearStart[y] = YearDays(y)
<1> DEFINE Solved == [y \in 0 .. 137 |-> YearDays(y)]
           Wrong == {y \in 0 .. 137 : YearStart[y] # YearDays(y)}
<1>1. YearDays(0) = 0 BY DEF YearDays
<1>2. ASSUME NEW y \in 0 .. 137
      PROVE  YearDays(y) = IF y = 0 THEN 0 ELSE Solved[y - 1] + 365 + LeapDay(y - 1)
  <2>1. CASE y # 0
    <3>1. PICK x \in 0 .. 136 : y = x + 1 BY <2>1
    <3>2. Solved[x] = YearDays(x) BY <3>1
    <3>3. YearDays(x + 1) = YearDays(x) + 365 + LeapDay(x) BY <3>1, YearDaysAddUp
    <3> QED BY <2>1, <3>1, <3>2, <3>3
  <2> QED BY <1>1, <2>1
<1>3. Solved = [y \in 0 .. 137 |-> IF y = 0 THEN 0 ELSE Solved[y - 1] + 365 + LeapDay(y - 1)]
  BY <1>2
<1> HIDE DEF Solved
<1>4. YearStart = [y \in 0 .. 137 |->
                     IF y = 0 THEN 0 ELSE YearStart[y - 1] + 365 + LeapDay(y - 1)]
  BY <1>3 DEF YearStart
<1>5. YearStart[0] = 0 BY <1>4
<1>6. ASSUME NEW x \in 0 .. 136 PROVE YearStart[x + 1] = YearStart[x] + 365 + LeapDay(x)
  <2>1. x + 1 \in 0 .. 137 /\ x + 1 # 0 /\ (x + 1) - 1 = x OBVIOUS
  <2> QED BY <1>4, <2>1
<1>7. Wrong = {}
  <2> SUFFICES ASSUME Wrong # {} PROVE FALSE OBVIOUS
  <2>1. Wrong \subseteq Nat OBVIOUS
  <2>2. PICK y \in Wrong : \A x \in Wrong : y <= x
    <3> HIDE DEF Wrong
    <3> QED BY <2>1, LeastMember
  <2>3. PICK x \in 0 .. 136 : y = x + 1 BY <1>1, <1>5, <2>2
  <2>4. YearStart[x] = YearDays(x) BY <2>2, <2>3
  <2> QED BY <1>6, <2>2, <2>3, <2>4, YearDaysAddUp
<1> QED BY <1>7

(* The same of the months of a year. *)
LEMMA MonthDaysAddUp ==
  ASSUME NEW y \in 0 .. 99, NEW m \in 1 .. 12
  PROVE  MonthDays(y, m) \in Nat /\ MonthDays(y, m + 1) = MonthDays(y, m) + MonthLength(y, m)
<1>1. MonthDays(y, m) \in Nat
  <2>1. MonthDays(y, m) = MonthsBefore(y, m) BY DEF MonthDays
  <2>2. MonthsBefore(y, m) \in 0 .. 335 BY MonthsBeforeType
  <2> QED BY <2>1, <2>2
<1>2. CASE m = 12
  <2>1. PICK l \in {0, 1} : l = LeapDay(y) BY LeapType
  <2>2. MonthDays(y, 12) = 334 + l /\ MonthLength(y, 12) = 31
    BY <2>1 DEF MonthDays, MonthsBefore, MonthLength, DaysBefore, DaysInMonth
  <2> QED BY <1>1, <1>2, <2>1, <2>2 DEF MonthDays
<1>3. CASE m # 12
  <2>1. m \in 1 .. 11 BY <1>3
  <2> QED BY <1>1, <2>1, MonthsAddUp DEF MonthDays
<1> QED BY <1>2, <1>3

LEMMA MonthStartIs ==
  ASSUME NEW y \in 0 .. 99
  PROVE  \A m \in 1 .. 13 : MonthStart(y)[m] = MonthDays(y, m)
<1> DEFINE Start == MonthStart(y)
           Solved == [m \in 1 .. 13 |-> MonthDays(y, m)]
           Wrong == {m \in 1 .. 13 : Start[m] # MonthDays(y, m)}
<1>1. MonthDays(y, 1) = 0 BY DEF MonthDays, MonthsBefore, DaysBefore
<1>2. ASSUME NEW m \in 1 .. 13
      PROVE  MonthDays(y, m) = IF m = 1 THEN 0 ELSE Solved[m - 1] + MonthLength(y, m - 1)
  <2>1. CASE m # 1
    <3>1. PICK k \in 1 .. 12 : m = k + 1 BY <2>1
    <3>2. Solved[k] = MonthDays(y, k) BY <3>1
    <3>3. MonthDays(y, k + 1) = MonthDays(y, k) + MonthLength(y, k) BY <3>1, MonthDaysAddUp
    <3> QED BY <2>1, <3>1, <3>2, <3>3
  <2> QED BY <1>1, <2>1
<1>3. Solved = [m \in 1 .. 13 |-> IF m = 1 THEN 0 ELSE Solved[m - 1] + MonthLength(y, m - 1)]
  BY <1>2
<1> HIDE DEF Solved
<1>4. Start = [m \in 1 .. 13 |-> IF m = 1 THEN 0 ELSE Start[m - 1] + MonthLength(y, m - 1)]
  BY <1>3 DEF MonthStart
<1> HIDE DEF Start
<1>5. Start[1] = 0 BY <1>4
<1>6. ASSUME NEW k \in 1 .. 12 PROVE Start[k + 1] = Start[k] + MonthLength(y, k)
  <2>1. k + 1 \in 1 .. 13 /\ k + 1 # 1 /\ (k + 1) - 1 = k OBVIOUS
  <2> QED BY <1>4, <2>1
<1>7. Wrong = {}
  <2> SUFFICES ASSUME Wrong # {} PROVE FALSE OBVIOUS
  <2>1. Wrong \subseteq Nat OBVIOUS
  <2>2. PICK m \in Wrong : \A k \in Wrong : m <= k
    <3> HIDE DEF Wrong
    <3> QED BY <2>1, LeastMember
  <2>3. PICK k \in 1 .. 12 : m = k + 1 BY <1>1, <1>5, <2>2
  <2>4. Start[k] = MonthDays(y, k) BY <2>2, <2>3
  <2> QED BY <1>6, <2>2, <2>3, <2>4, MonthDaysAddUp
<1> QED BY <1>7 DEF Start

-----------------------------------------------------------------------------
(* A date that exists, and the days before it. *)
IsDate(y, m, d) == /\ y \in 0 .. 99 /\ m \in 1 .. 12 /\ d \in 1 .. 31
                   /\ d <= MonthLength(y, m)

(* The days of the century are counted from 0. *)
OfCentury(days) == days \in Nat /\ days < 36525

DayNumber(y, m, d) == YearDays(y) + MonthsBefore(y, m) + d - 1

LEMMA YearDaysGrow ==
  ASSUME NEW x \in 0 .. 137, NEW y \in 0 .. 137, x <= y PROVE YearDays(x) <= YearDays(y)
<1>1. PICK p \in Nat, q \in Nat : p = (x + 3) \div 4 /\ q = (y + 3) \div 4 OBVIOUS
<1>2. p <= q BY <1>1
<1> QED BY <1>1, <1>2 DEF YearDays

LEMMA MonthDaysTable ==
  ASSUME NEW y \in 0 .. 99
  PROVE  \E l \in {0, 1} :
           /\ l = LeapDay(y)
           /\ \A m \in 1 .. 13 : MonthDays(y, m) =
                <<0, 31, 59 + l, 90 + l, 120 + l, 151 + l, 181 + l, 212 + l, 243 + l,
                  273 + l, 304 + l, 334 + l, 365 + l>>[m]
<1>1. PICK l \in {0, 1} : l = LeapDay(y) BY LeapType
<1>2. ASSUME NEW m \in 1 .. 13
      PROVE  MonthDays(y, m) =
                <<0, 31, 59 + l, 90 + l, 120 + l, 151 + l, 181 + l, 212 + l, 243 + l,
                  273 + l, 304 + l, 334 + l, 365 + l>>[m]
  <2>1. m \in {1, 2, 3, 4, 5, 6, 7, 8, 9, 10, 11, 12, 13} OBVIOUS
  <2> QED BY <1>1, <2>1 DEF MonthDays, MonthsBefore, DaysBefore
<1> QED BY <1>1, <1>2

LEMMA MonthDaysGrow ==
  ASSUME NEW y \in 0 .. 99, NEW k \in 1 .. 13, NEW m \in 1 .. 13, k <= m
  PROVE  MonthDays(y, k) <= MonthDays(y, m)
<1>1. PICK l \in {0, 1} :
           \A i \in 1 .. 13 : MonthDays(y, i) =
                <<0, 31, 59 + l, 90 + l, 120 + l, 151 + l, 181 + l, 212 + l, 243 + l,
                  273 + l, 304 + l, 334 + l, 365 + l>>[i]
  BY MonthDaysTable
<1>2. k \in {1, 2, 3, 4, 5, 6, 7, 8, 9, 10, 11, 12, 13} OBVIOUS
<1>3. m \in {1, 2, 3, 4, 5, 6, 7, 8, 9, 10, 11, 12, 13} OBVIOUS
<1> QED BY <1>1, <1>2, <1>3

(* Where a day lies in its year, and its year in the century. *)
LEMMA DayInMonth ==
  ASSUME NEW y, NEW m, NEW d, IsDate(y, m, d)
  PROVE  /\ DayNumber(y, m, d) - YearDays(y) = MonthDays(y, m) + d - 1
         /\ MonthDays(y, m) <= DayNumber(y, m, d) - YearDays(y)
         /\ DayNumber(y, m, d) - YearDays(y) < MonthDays(y, m + 1)
         /\ YearDays(y) \in Nat /\ MonthDays(y, m) \in Nat
<1>1. y \in 0 .. 99 /\ m \in 1 .. 12 /\ d \in 1 .. 31 /\ d <= MonthLength(y, m)
  BY DEF IsDate
<1>2. MonthDays(y, m) \in Nat /\ MonthDays(y, m + 1) = MonthDays(y, m) + MonthLength(y, m)
  BY <1>1, MonthDaysAddUp
<1>3. MonthsBefore(y, m) = MonthDays(y, m) BY <1>1 DEF MonthDays
<1>4. YearDays(y) \in Nat BY <1>1, YearDaysAddUp
<1>5. MonthLength(y, m) \in 28 .. 31 BY <1>1, MonthLengthType
<1> QED BY <1>1, <1>2, <1>3, <1>4, <1>5 DEF DayNumber

LEMMA DayInYear ==
  ASSUME NEW y, NEW m, NEW d, IsDate(y, m, d)
  PROVE  /\ YearDays(y) <= DayNumber(y, m, d) /\ DayNumber(y, m, d) < YearDays(y + 1)
         /\ OfCentury(DayNumber(y, m, d))
<1>1. y \in 0 .. 99 /\ m \in 1 .. 12 /\ d \in 1 .. 31 BY DEF IsDate
<1>2. m + 1 \in 1 .. 13 /\ 13 \in 1 .. 13 BY <1>1
<1>3. MonthDays(y, m + 1) <= MonthDays(y, 13) BY <1>1, <1>2, MonthDaysGrow
<1>4. PICK l \in {0, 1} : l = LeapDay(y) BY <1>1, LeapType
<1>5. MonthDays(y, 13) = 365 + l BY <1>4 DEF MonthDays
<1>6. YearDays(y) \in Nat /\ YearDays(y + 1) = YearDays(y) + 365 + l
  BY <1>1, <1>4, YearDaysAddUp
<1>7. YearDays(100) = 36525 BY DEF YearDays
<1>8. YearDays(y + 1) <= YearDays(100) BY <1>1, YearDaysGrow
<1>9. MonthDays(y, m + 1) \in Nat
  <2>1. MonthLength(y, m) \in 28 .. 31 BY <1>1, MonthLengthType
  <2> QED BY <1>1, <2>1, MonthDaysAddUp
<1>10. DayNumber(y, m, d) - YearDays(y) < MonthDays(y, m + 1) BY DayInMonth
<1>11. DayNumber(y, m, d) - YearDays(y) = MonthDays(y, m) + d - 1 /\ MonthDays(y, m) \in Nat
  BY DayInMonth
<1>12. PICK n \in Int : n = DayNumber(y, m, d)
  <2>1. MonthsBefore(y, m) \in 0 .. 335 BY <1>1, MonthsBeforeType
  <2> QED BY <1>1, <1>6, <2>1 DEF DayNumber
<1>13. YearDays(y) <= n BY <1>1, <1>6, <1>11, <1>12
<1>14. n - YearDays(y) < 365 + l BY <1>3, <1>5, <1>6, <1>9, <1>10, <1>12
<1>15. n < YearDays(y + 1) BY <1>6, <1>14
<1> QED BY <1>6, <1>7, <1>8, <1>12, <1>13, <1>15 DEF OfCentury

(* DateTime(t) finds the date of a day of the century: RTClib.cpp, DateTime(). *)
LEMMA DateOfFinds ==
  ASSUME NEW y, NEW m, NEW d, IsDate(y, m, d)
  PROVE  DateOf(DayNumber(y, m, d)) = Date(y, m, d)
<1> DEFINE days == DayNumber(y, m, d)
           rest == days - YearStart[y]
<1>1. y \in 0 .. 99 /\ m \in 1 .. 12 /\ d \in 1 .. 31 BY DEF IsDate
<1>2. /\ YearDays(y) <= days /\ days < YearDays(y + 1) /\ days \in Nat
      /\ days - YearDays(y) = MonthDays(y, m) + d - 1
      /\ MonthDays(y, m) <= days - YearDays(y) /\ days - YearDays(y) < MonthDays(y, m + 1)
  BY DayInMonth, DayInYear DEF OfCentury
<1> HIDE DEF days
<1>3. \A x \in 0 .. 137 : YearStart[x] = YearDays(x) /\ YearDays(x) \in Int
  BY YearStartIs DEF YearDays
<1>4. y = CHOOSE x \in 0 .. 136 : YearStart[x] <= days /\ days < YearStart[x + 1]
  <2>1. ASSUME NEW x \in 0 .. 136, YearStart[x] <= days, days < YearStart[x + 1]
        PROVE  x = y
    <3>1. x \in 0 .. 137 /\ x + 1 \in 0 .. 137 /\ y \in 0 .. 137 /\ y + 1 \in 0 .. 137
      BY <1>1
    <3>2. YearDays(x) <= days /\ days < YearDays(x + 1) BY <1>3, <2>1, <3>1
    <3>5. /\ YearDays(x) \in Int /\ YearDays(x + 1) \in Int
          /\ YearDays(y) \in Int /\ YearDays(y + 1) \in Int
      BY <1>3, <3>1
    <3>3. CASE x + 1 <= y
      <4>1. YearDays(x + 1) <= YearDays(y) BY <3>1, <3>3, YearDaysGrow
      <4> QED BY <1>2, <3>2, <3>5, <4>1
    <3>4. CASE y + 1 <= x
      <4>1. YearDays(y + 1) <= YearDays(x) BY <3>1, <3>4, YearDaysGrow
      <4> QED BY <1>2, <3>2, <3>5, <4>1
    <3> QED BY <3>1, <3>3, <3>4
  <2>2. y \in 0 .. 136 /\ YearStart[y] <= days /\ days < YearStart[y + 1]
    BY <1>1, <1>2, <1>3
  <2> QED BY <2>1, <2>2
<1>5. rest = days - YearDays(y) BY <1>1, <1>3
<1> HIDE DEF rest
<1>6. \A k \in 1 .. 13 : MonthStart(y)[k] = MonthDays(y, k) /\ MonthDays(y, k) \in Int
  <2>1. PICK l \in {0, 1} :
           \A i \in 1 .. 13 : MonthDays(y, i) =
                <<0, 31, 59 + l, 90 + l, 120 + l, 151 + l, 181 + l, 212 + l, 243 + l,
                  273 + l, 304 + l, 334 + l, 365 + l>>[i]
    BY <1>1, MonthDaysTable
  <2>2. ASSUME NEW k \in 1 .. 13 PROVE MonthDays(y, k) \in Int
    <3>1. k \in {1, 2, 3, 4, 5, 6, 7, 8, 9, 10, 11, 12, 13} OBVIOUS
    <3> QED BY <2>1, <3>1
  <2> QED BY <1>1, <2>2, MonthStartIs
<1>7. m = CHOOSE k \in 1 .. 12 : MonthStart(y)[k] <= rest /\ rest < MonthStart(y)[k + 1]
  <2>1. ASSUME NEW k \in 1 .. 12, MonthStart(y)[k] <= rest, rest < MonthStart(y)[k + 1]
        PROVE  k = m
    <3>1. k \in 1 .. 13 /\ k + 1 \in 1 .. 13 /\ m \in 1 .. 13 /\ m + 1 \in 1 .. 13
      BY <1>1
    <3>2. MonthDays(y, k) <= rest /\ rest < MonthDays(y, k + 1) BY <1>6, <2>1, <3>1
    <3>3. CASE k + 1 <= m
      <4>1. MonthDays(y, k + 1) <= MonthDays(y, m) BY <1>1, <3>1, <3>3, MonthDaysGrow
      <4> QED BY <1>1, <1>2, <1>5, <1>6, <3>1, <3>2, <4>1
    <3>4. CASE m + 1 <= k
      <4>1. MonthDays(y, m + 1) <= MonthDays(y, k) BY <1>1, <3>1, <3>4, MonthDaysGrow
      <4> QED BY <1>1, <1>2, <1>5, <1>6, <3>1, <3>2, <4>1
    <3> QED BY <3>1, <3>3, <3>4
  <2>2. m \in 1 .. 12 /\ MonthStart(y)[m] <= rest /\ rest < MonthStart(y)[m + 1]
    BY <1>1, <1>2, <1>5, <1>6
  <2> QED BY <2>1, <2>2
<1>8. DateOf(days) = Date(y, m, rest - MonthStart(y)[m] + 1)
  BY <1>4, <1>7 DEF DateOf, rest
<1>9. rest - MonthStart(y)[m] + 1 = d BY <1>1, <1>2, <1>5, <1>6
<1> QED BY <1>8, <1>9 DEF days

(* Every day of the century has a date. *)
LEMMA EveryDayHasDate ==
  ASSUME NEW days, OfCentury(days)
  PROVE  \E y, m, d : IsDate(y, m, d) /\ days = DayNumber(y, m, d)
<1> DEFINE Later == {x \in 1 .. 100 : days < YearDays(x)}
<1>1. YearDays(100) = 36525 /\ YearDays(0) = 0 BY DEF YearDays
<1>0. days \in Nat BY DEF OfCentury
<1>2. PICK x \in Later : \A z \in Later : x <= z
  <2>1. 100 \in Later BY <1>1 DEF OfCentury
  <2>2. Later \subseteq Nat OBVIOUS
  <2> HIDE DEF Later
  <2>3. Later # {} BY <2>1
  <2> QED BY <2>2, <2>3, LeastMember
<1>3. PICK y \in 0 .. 99 : x = y + 1 BY <1>2
<1>4. YearDays(y) \in Nat /\ YearDays(y) <= days /\ days < YearDays(y + 1)
  <2>1. YearDays(y) \in Nat BY <1>3, YearDaysAddUp
  <2>2. days < YearDays(y + 1) BY <1>2, <1>3
  <2>3. YearDays(y) <= days
    <3>1. CASE y = 0 BY <1>0, <1>1, <3>1
    <3>2. CASE y # 0
      <4>1. y \in 1 .. 100 /\ ~(x <= y) BY <1>3, <3>2
      <4>2. y \notin Later BY <1>2, <4>1
      <4> QED BY <1>0, <2>1, <4>1, <4>2
    <3> QED BY <3>1, <3>2
  <2> QED BY <2>1, <2>2, <2>3
<1>5. PICK rest \in Nat : rest = days - YearDays(y) BY <1>0, <1>4
<1>6. rest < MonthDays(y, 13)
  <2>1. PICK l \in {0, 1} : l = LeapDay(y) BY <1>3, LeapType
  <2>2. YearDays(y + 1) = YearDays(y) + 365 + l BY <1>3, <2>1, YearDaysAddUp
  <2> QED BY <1>0, <1>4, <1>5, <2>1, <2>2 DEF MonthDays
<1> DEFINE Ended == {k \in 2 .. 13 : rest < MonthDays(y, k)}
<1>7. PICK k \in Ended : \A i \in Ended : k <= i
  <2>1. 13 \in Ended BY <1>6
  <2>2. Ended \subseteq Nat OBVIOUS
  <2> HIDE DEF Ended
  <2>3. Ended # {} BY <2>1
  <2> QED BY <2>2, <2>3, LeastMember
<1>8. PICK m \in 1 .. 12 : k = m + 1 BY <1>7
<1>9. MonthDays(y, m) \in Nat /\ MonthDays(y, m + 1) = MonthDays(y, m) + MonthLength(y, m)
  BY <1>3, <1>8, MonthDaysAddUp
<1>10. MonthDays(y, m) <= rest /\ rest < MonthDays(y, m + 1)
  <2>1. MonthDays(y, 1) = 0 BY DEF MonthDays, MonthsBefore, DaysBefore
  <2>2. CASE m = 1 BY <1>7, <1>8, <2>1, <2>2
  <2>3. CASE m # 1
    <3>1. m \in 2 .. 13 /\ ~(k <= m) BY <1>8, <2>3
    <3> QED BY <1>7, <1>8, <1>9, <3>1
  <2> QED BY <2>2, <2>3
<1>11. MonthLength(y, m) \in 28 .. 31 BY <1>3, <1>8, MonthLengthType
<1>12. PICK d \in 1 .. 31 : d = rest - MonthDays(y, m) + 1 /\ d <= MonthLength(y, m)
  BY <1>9, <1>10, <1>11
<1>13. MonthsBefore(y, m) = MonthDays(y, m) BY <1>8 DEF MonthDays
<1>14. days = DayNumber(y, m, d) BY <1>0, <1>4, <1>5, <1>9, <1>12, <1>13 DEF DayNumber
<1>15. IsDate(y, m, d) BY <1>3, <1>8, <1>12 DEF IsDate
<1> QED BY <1>14, <1>15

-----------------------------------------------------------------------------
(* A time of day. *)
IsTime(h, n, s) == h \in 0 .. 23 /\ n \in 0 .. 59 /\ s \in 0 .. 59

(* What adjust() writes of a date and a time of day. *)
PackedByte(r, y, m, d, h, n, s) ==
  Bin2bcd(CASE r = 0 -> s [] r = 1 -> n [] r = 2 -> h [] r = 3 -> 0
            [] r = 4 -> d [] r = 5 -> m [] r = 6 -> y)

Packed(y, m, d, h, n, s) == [r \in Registers |-> PackedByte(r, y, m, d, h, n, s)]

LEMMA PackedIs ==
  ASSUME NEW y, NEW m, NEW d, NEW h, NEW n, NEW s
  PROVE  LET f == Packed(y, m, d, h, n, s)
         IN  /\ f[0] = Bin2bcd(s) /\ f[1] = Bin2bcd(n) /\ f[2] = Bin2bcd(h)
             /\ f[3] = Bin2bcd(0)
             /\ f[4] = Bin2bcd(d) /\ f[5] = Bin2bcd(m) /\ f[6] = Bin2bcd(y)
<1>1. /\ PackedByte(0, y, m, d, h, n, s) = Bin2bcd(s)
      /\ PackedByte(1, y, m, d, h, n, s) = Bin2bcd(n)
      /\ PackedByte(2, y, m, d, h, n, s) = Bin2bcd(h)
      /\ PackedByte(3, y, m, d, h, n, s) = Bin2bcd(0)
      /\ PackedByte(4, y, m, d, h, n, s) = Bin2bcd(d)
      /\ PackedByte(5, y, m, d, h, n, s) = Bin2bcd(m)
      /\ PackedByte(6, y, m, d, h, n, s) = Bin2bcd(y)
  BY DEF PackedByte
<1> QED BY <1>1 DEF Packed, Registers

LEMMA PackedSame ==
  ASSUME NEW y, NEW m, NEW d, NEW h, NEW n, NEW s,
         NEW f, f = [r \in Registers |-> f[r]],
         f[0] = Bin2bcd(s), f[1] = Bin2bcd(n), f[2] = Bin2bcd(h), f[3] = Bin2bcd(0),
         f[4] = Bin2bcd(d), f[5] = Bin2bcd(m), f[6] = Bin2bcd(y)
  PROVE  f = Packed(y, m, d, h, n, s)
<1> DEFINE g == Packed(y, m, d, h, n, s)
<1>1. g = [r \in Registers |-> g[r]] BY DEF Packed
<1>2. \A r \in Registers : r \in {0, 1, 2, 3, 4, 5, 6} BY DEF Registers
<1>3. /\ g[0] = f[0] /\ g[1] = f[1] /\ g[2] = f[2] /\ g[3] = f[3]
      /\ g[4] = f[4] /\ g[5] = f[5] /\ g[6] = f[6]
  BY PackedIs
<1> HIDE DEF g
<1>4. \A r \in Registers : f[r] = g[r] BY <1>2, <1>3
<1>5. f = g BY <1>1, <1>4
<1> QED BY <1>5 DEF g

(* The seconds of a time, and the days, hours, minutes and seconds DateTime(t)
   makes of them. *)
LEMMA TimeJoins ==
  ASSUME NEW days \in Nat, NEW h, NEW n, NEW s, IsTime(h, n, s), NEW t,
         t = Time2long(days, h, n, s)
  PROVE  /\ t \in Nat
         /\ t % 60 = s /\ (t \div 60) % 60 = n /\ (t \div 3600) % 24 = h
         /\ Days(t) = days
<1>1. h \in 0 .. 23 /\ n \in 0 .. 59 /\ s \in 0 .. 59 BY DEF IsTime
<1>2. t = ((days * 24 + h) * 60 + n) * 60 + s BY DEF Time2long
<1>3. PICK a \in Nat : a = days * 24 + h BY <1>1
<1>4. PICK b \in Nat : b = a * 60 + n BY <1>1
<1>5. t = b * 60 + s BY <1>2, <1>3, <1>4
<1>6. t \in Nat /\ t % 60 = s /\ t \div 60 = b BY <1>1, <1>5
<1>7. b % 60 = n /\ b \div 60 = a BY <1>1, <1>4
<1>8. t \div 3600 = a BY <1>1, <1>4, <1>5
<1>9. a % 24 = h /\ a \div 24 = days BY <1>1, <1>3
<1>10. t \div 86400 = days BY <1>1, <1>3, <1>4, <1>5
<1> QED BY <1>6, <1>7, <1>8, <1>9, <1>10 DEF Days

LEMMA TimeSplits ==
  ASSUME NEW t \in Nat
  PROVE  \E h, n, s : IsTime(h, n, s) /\ Days(t) \in Nat /\ t = Time2long(Days(t), h, n, s)
<1>1. PICK b \in Nat, s \in 0 .. 59 : t = b * 60 + s
  <2>1. PICK q \in Nat, r \in 0 .. 59 : q = t \div 60 /\ t = q * 60 + r OBVIOUS
  <2> QED BY <2>1
<1>2. PICK a \in Nat, n \in 0 .. 59 : b = a * 60 + n
  <2>1. PICK q \in Nat, r \in 0 .. 59 : q = b \div 60 /\ b = q * 60 + r OBVIOUS
  <2> QED BY <2>1
<1>3. PICK c \in Nat, h \in 0 .. 23 : a = c * 24 + h
  <2>1. PICK q \in Nat, r \in 0 .. 23 : q = a \div 24 /\ a = q * 24 + r OBVIOUS
  <2> QED BY <2>1
<1>4. t = Time2long(c, h, n, s) BY <1>1, <1>2, <1>3 DEF Time2long
<1>5. IsTime(h, n, s) BY <1>1, <1>2, <1>3 DEF IsTime
<1>6. Days(t) = c BY <1>3, <1>4, <1>5, TimeJoins
<1> QED BY <1>4, <1>5, <1>6

(* The registers of a time of a day of the century. *)
LEMMA RegistersOfIs ==
  ASSUME NEW t, NEW y, NEW m, NEW d, DateOf(Days(t)) = Date(y, m, d)
  PROVE  LET f == RegistersOf(t)
         IN  /\ f = [r \in Registers |-> f[r]]
             /\ f[0] = Bin2bcd(t % 60) /\ f[1] = Bin2bcd((t \div 60) % 60)
             /\ f[2] = Bin2bcd((t \div 3600) % 24) /\ f[3] = Bin2bcd(0)
             /\ f[4] = Bin2bcd(d) /\ f[5] = Bin2bcd(m) /\ f[6] = Bin2bcd(y)
<1>1. Date(y, m, d).day = d /\ Date(y, m, d).month = m /\ Date(y, m, d).year = y
  BY DEF Date
<1> DEFINE byte(r) == PackedByte(r, y, m, d, (t \div 3600) % 24, (t \div 60) % 60, t % 60)
<1>2. RegistersOf(t) = [r \in Registers |-> byte(r)]
  BY <1>1 DEF RegistersOf, PackedByte
<1> QED BY <1>2, PackedIs DEF Packed

LEMMA RegistersAre ==
  ASSUME NEW y, NEW m, NEW d, IsDate(y, m, d), NEW h, NEW n, NEW s, IsTime(h, n, s),
         NEW t, t = Time2long(DayNumber(y, m, d), h, n, s)
  PROVE  RegistersOf(t) = Packed(y, m, d, h, n, s)
<1>1. DayNumber(y, m, d) \in Nat BY DayInYear DEF OfCentury
<1>2. /\ t % 60 = s /\ (t \div 60) % 60 = n /\ (t \div 3600) % 24 = h
      /\ Days(t) = DayNumber(y, m, d)
  BY <1>1, TimeJoins
<1>3. DateOf(Days(t)) = Date(y, m, d) BY <1>2, DateOfFinds
<1> QED BY <1>2, <1>3, RegistersOfIs, PackedSame

LEMMA EveryTimeHasDate ==
  ASSUME NEW t \in Nat, OfCentury(Days(t))
  PROVE  \E y, m, d, h, n, s :
           /\ IsDate(y, m, d) /\ IsTime(h, n, s)
           /\ t = Time2long(DayNumber(y, m, d), h, n, s)
           /\ RegistersOf(t) = Packed(y, m, d, h, n, s)
<1>1. PICK h, n, s : IsTime(h, n, s) /\ t = Time2long(Days(t), h, n, s) BY TimeSplits
<1>2. PICK y, m, d : IsDate(y, m, d) /\ Days(t) = DayNumber(y, m, d) BY EveryDayHasDate
<1>3. t = Time2long(DayNumber(y, m, d), h, n, s) BY <1>1, <1>2
<1>4. RegistersOf(t) = Packed(y, m, d, h, n, s) BY <1>1, <1>2, <1>3, RegistersAre
<1> QED BY <1>1, <1>2, <1>3, <1>4

(* The chip's registers say t, or it is stopped at the beginning of its century. *)
Says(bytes, t) ==
  bytes = RegistersOf(t) \/ (t = 0 /\ bytes = [RegistersOf(0) EXCEPT ![0] = 128])


-----------------------------------------------------------------------------
(* Packed decimal keeps every number up to 99 in two decimal digits, and gives
   it back: RTClib.cpp, bin2bcd() and bcd2bin(). *)
LEMMA PackedDecimalReturns ==
  ASSUME NEW n \in 0 .. 99
  PROVE  Bin2bcd(n) < 160 /\ Bin2bcd(n) % 16 < 10 /\ Bcd2bin(Bin2bcd(n)) = n
<1>1. PICK q \in 0 .. 9, r \in 0 .. 9 : q = n \div 10 /\ n = 10 * q + r OBVIOUS
<1>2. Bin2bcd(n) = 16 * q + r BY <1>1 DEF Bin2bcd
<1>3. (16 * q + r) \div 16 = q /\ (16 * q + r) % 16 = r BY <1>1
<1> QED BY <1>1, <1>2, <1>3 DEF Bcd2bin

(* The seconds leave the bit free that stops the chip. *)
LEMMA SecondsLeaveABit ==
  ASSUME NEW s \in 0 .. 59
  PROVE  Bin2bcd(s) \in 0 .. 127 /\ Bin2bcd(s) % 128 = Bin2bcd(s)
<1>1. PICK q \in 0 .. 5, r \in 0 .. 9 : q = s \div 10 /\ s = 10 * q + r OBVIOUS
<1>2. Bin2bcd(s) = 16 * q + r BY <1>1 DEF Bin2bcd
<1>3. (16 * q + r) % 128 = 16 * q + r BY <1>1
<1> QED BY <1>1, <1>2, <1>3

(* The days of the century fit 16 bits. *)
LEMMA FitsSixteenBits == ASSUME NEW c \in Nat, c < 65536 PROVE c % 2^16 = c
<1>1. c % 65536 = c OBVIOUS
<1>2. 2^16 = 65536 OBVIOUS
<1> QED BY <1>1, <1>2

(* date2days() counts every day of the century: RTClib.cpp, date2days(). *)
LEMMA Date2daysCounts ==
  ASSUME NEW y, NEW m, NEW d, IsDate(y, m, d)
  PROVE  Date2days(Date(y, m, d)) = DayNumber(y, m, d)
<1>1. y \in 0 .. 99 /\ m \in 1 .. 12 /\ d \in 1 .. 31 BY DEF IsDate
<1>2. PICK l \in {0, 1} : l = LeapDay(y) BY <1>1, LeapType
<1>3. PICK q \in 0 .. 25 : q = (y + 3) \div 4 BY <1>1
<1>4. PICK b \in 0 .. 334 : b = DaysBefore[m] BY <1>1, MonthTables
<1>5. PICK e \in {0, 1} : e = (IF m > 2 THEN l ELSE 0) BY <1>2
<1>6. DayNumber(y, m, d) = 365 * y + q + (b + e) + d - 1
  BY <1>2, <1>3, <1>4, <1>5 DEF DayNumber, YearDays, MonthsBefore
<1>7. Date2days(Date(y, m, d)) = (d + b + e + 365 * y + q - 1) % 2^16
  BY <1>2, <1>3, <1>4, <1>5 DEF Date2days, Date
<1>8. d + b + e + 365 * y + q - 1 = DayNumber(y, m, d) BY <1>1, <1>3, <1>4, <1>5, <1>6
<1>9. DayNumber(y, m, d) \in Nat /\ DayNumber(y, m, d) < 65536
  BY DayInYear DEF OfCentury
<1> QED BY <1>7, <1>8, <1>9, FitsSixteenBits

(* The chip goes from a date to the next one, until its century ends. *)
LEMMA DayAfterAddsOne ==
  ASSUME NEW y, NEW m, NEW d, IsDate(y, m, d), ~(y = 99 /\ m = 12 /\ d = 31)
  PROVE  \E y2, m2, d2 :
           /\ IsDate(y2, m2, d2) /\ DayAfter(Date(y, m, d)) = Date(y2, m2, d2)
           /\ DayNumber(y2, m2, d2) = DayNumber(y, m, d) + 1
<1>1. y \in 0 .. 99 /\ m \in 1 .. 12 /\ d \in 1 .. 31 /\ d <= MonthLength(y, m)
  BY DEF IsDate
<1>2. /\ Date(y, m, d).day = d /\ Date(y, m, d).month = m /\ Date(y, m, d).year = y
      /\ [Date(y, m, d) EXCEPT !.day = d + 1] = Date(y, m, d + 1)
  BY DEF Date
<1>3. PICK a \in Nat, b \in Nat, n \in 28 .. 31 :
        a = YearDays(y) /\ b = MonthsBefore(y, m) /\ n = MonthLength(y, m)
  <2>1. YearDays(y) \in Nat BY <1>1, YearDaysAddUp
  <2>2. MonthsBefore(y, m) \in 0 .. 335 BY <1>1, MonthsBeforeType
  <2>3. MonthLength(y, m) \in 28 .. 31 BY <1>1, MonthLengthType
  <2> QED BY <2>1, <2>2, <2>3
<1>4. DayNumber(y, m, d) = a + b + d - 1 BY <1>3 DEF DayNumber
<1>5. CASE d < MonthLength(y, m)
  <2>1. DayAfter(Date(y, m, d)) = Date(y, m, d + 1) BY <1>2, <1>5 DEF DayAfter
  <2>2. IsDate(y, m, d + 1) BY <1>1, <1>3, <1>5 DEF IsDate
  <2>3. DayNumber(y, m, d + 1) = a + b + (d + 1) - 1 BY <1>3 DEF DayNumber
  <2>4. DayNumber(y, m, d + 1) = DayNumber(y, m, d) + 1 BY <1>1, <1>3, <1>4, <2>3
  <2> QED BY <2>1, <2>2, <2>4
<1>6. CASE d = MonthLength(y, m) /\ m < 12
  <2>1. DayAfter(Date(y, m, d)) = Date(y, m + 1, 1) BY <1>1, <1>2, <1>3, <1>6 DEF DayAfter
  <2>2. m \in 1 .. 11 /\ m + 1 \in 1 .. 12 BY <1>1, <1>6
  <2>3. MonthLength(y, m + 1) \in 28 .. 31 BY <1>1, <2>2, MonthLengthType
  <2>4. IsDate(y, m + 1, 1) BY <1>1, <2>2, <2>3 DEF IsDate
  <2>5. MonthsBefore(y, m + 1) = b + n BY <1>1, <1>3, <2>2, MonthsAddUp
  <2>6. DayNumber(y, m + 1, 1) = a + (b + n) + 1 - 1 BY <1>3, <2>5 DEF DayNumber
  <2>7. DayNumber(y, m + 1, 1) = DayNumber(y, m, d) + 1 BY <1>3, <1>4, <1>6, <2>6
  <2> QED BY <2>1, <2>4, <2>7
<1>7. CASE d = MonthLength(y, m) /\ m = 12
  <2>1. PICK l \in {0, 1} : l = LeapDay(y) BY <1>1, LeapType
  <2>2. d = 31 /\ b = 334 + l
    BY <1>3, <1>7, <2>1 DEF MonthLength, MonthsBefore, DaysInMonth, DaysBefore
  <2>3. y \in 0 .. 98 BY <1>1, <1>7, <2>2
  <2>4. (y + 1) % 100 = y + 1 BY <2>3
  <2>5. DayAfter(Date(y, m, d)) = Date(y + 1, 1, 1)
    BY <1>1, <1>2, <1>3, <1>7, <2>4 DEF DayAfter
  <2>6. MonthLength(y + 1, 1) \in 28 .. 31 BY <2>3, MonthLengthType
  <2>7. IsDate(y + 1, 1, 1) BY <2>3, <2>6 DEF IsDate
  <2>8. MonthsBefore(y + 1, 1) = 0 BY DEF MonthsBefore, DaysBefore
  <2>9. YearDays(y + 1) = a + 365 + l BY <1>3, <2>1, <2>3, YearDaysAddUp
  <2>10. DayNumber(y + 1, 1, 1) = (a + 365 + l) + 0 + 1 - 1 BY <2>8, <2>9 DEF DayNumber
  <2>11. DayNumber(y + 1, 1, 1) = DayNumber(y, m, d) + 1 BY <1>3, <1>4, <2>1, <2>2, <2>10
  <2> QED BY <2>5, <2>7, <2>11
<1> QED BY <1>1, <1>3, <1>5, <1>6, <1>7

-----------------------------------------------------------------------------
(* What unixtime() computes from the registers of a time. *)
LEMMA TimeOfPacked ==
  ASSUME NEW y, NEW m, NEW d, IsDate(y, m, d), NEW h, NEW n, NEW s, IsTime(h, n, s),
         NEW bytes, Seconds(bytes) = s,
         bytes[1] = Bin2bcd(n), bytes[2] = Bin2bcd(h),
         bytes[4] = Bin2bcd(d), bytes[5] = Bin2bcd(m), bytes[6] = Bin2bcd(y)
  PROVE  TimeOf(bytes, DaysRead(bytes)) = Time2long(DayNumber(y, m, d), h, n, s)
<1>1. /\ n \in 0 .. 99 /\ h \in 0 .. 99 /\ d \in 0 .. 99 /\ m \in 0 .. 99 /\ y \in 0 .. 99
  BY DEF IsDate, IsTime
<1>2. /\ Bcd2bin(bytes[1]) = n /\ Bcd2bin(bytes[2]) = h
      /\ Bcd2bin(bytes[4]) = d /\ Bcd2bin(bytes[5]) = m /\ Bcd2bin(bytes[6]) = y
  BY <1>1, PackedDecimalReturns
<1>3. DaysRead(bytes) = DayNumber(y, m, d) BY <1>2, Date2daysCounts DEF DaysRead
<1> QED BY <1>2, <1>3 DEF TimeOf

LEMMA ReadsBack ==
  ASSUME NEW t \in Nat, OfCentury(Days(t)), NEW bytes, Says(bytes, t)
  PROVE  TimeOf(bytes, DaysRead(bytes)) = t
<1>1. PICK y, m, d, h, n, s :
        /\ IsDate(y, m, d) /\ IsTime(h, n, s)
        /\ t = Time2long(DayNumber(y, m, d), h, n, s)
        /\ RegistersOf(t) = Packed(y, m, d, h, n, s)
  BY EveryTimeHasDate
<1>2. DayNumber(y, m, d) \in Nat BY <1>1, DayInYear DEF OfCentury
<1>3. s \in 0 .. 59 /\ s \in 0 .. 99 BY <1>1 DEF IsTime
<1>4. CASE bytes = RegistersOf(t)
  <2>1. Seconds(bytes) = s
    BY <1>1, <1>3, <1>4, PackedIs, SecondsLeaveABit, PackedDecimalReturns DEF Seconds
  <2> QED BY <1>1, <1>4, <2>1, PackedIs, TimeOfPacked
<1>5. CASE t = 0 /\ bytes = [RegistersOf(0) EXCEPT ![0] = 128]
  <2>1. s = 0
    <3>1. t % 60 = s BY <1>1, <1>2, TimeJoins
    <3>2. 0 % 60 = 0 OBVIOUS
    <3> QED BY <1>5, <3>1, <3>2
  <2>2. bytes = [Packed(y, m, d, h, n, s) EXCEPT ![0] = 128] BY <1>1, <1>5
  <2>3. bytes[0] = 128 /\ \A r \in 1 .. 6 : bytes[r] = Packed(y, m, d, h, n, s)[r]
    BY <2>2 DEF Packed, Registers
  <2>4. Seconds(bytes) = s
    <3>1. 128 % 128 = 0 /\ Bcd2bin(0) = 0 BY DEF Bcd2bin
    <3> QED BY <2>1, <2>3, <3>1 DEF Seconds
  <2> QED BY <1>1, <2>3, <2>4, PackedIs, TimeOfPacked
<1> QED BY <1>4, <1>5 DEF Says

(* A second on the chip is a second of the times. *)
LEMMA CarriedIsNext ==
  ASSUME NEW t \in Nat, OfCentury(Days(t)), OfCentury(Days(t + 1)), regs = RegistersOf(t)
  PROVE  Carried = RegistersOf(t + 1)
<1>1. PICK y, m, d, h, n, s :
        /\ IsDate(y, m, d) /\ IsTime(h, n, s)
        /\ t = Time2long(DayNumber(y, m, d), h, n, s)
        /\ regs = Packed(y, m, d, h, n, s)
  BY EveryTimeHasDate
<1>2. h \in 0 .. 23 /\ n \in 0 .. 59 /\ s \in 0 .. 59 BY <1>1 DEF IsTime
<1>3. PICK k \in Nat : k = DayNumber(y, m, d) BY <1>1, DayInYear DEF OfCentury
<1>4. t = ((k * 24 + h) * 60 + n) * 60 + s BY <1>1, <1>3 DEF Time2long
<1>5. /\ regs[0] = Bin2bcd(s) /\ regs[1] = Bin2bcd(n) /\ regs[2] = Bin2bcd(h)
      /\ regs[3] = Bin2bcd(0)
      /\ regs[4] = Bin2bcd(d) /\ regs[5] = Bin2bcd(m) /\ regs[6] = Bin2bcd(y)
      /\ regs = [r \in Registers |-> regs[r]]
  BY <1>1, PackedIs DEF Packed
<1>6. /\ Bcd2bin(regs[0]) = s /\ Bcd2bin(regs[1]) = n /\ Bcd2bin(regs[2]) = h
      /\ Bcd2bin(regs[4]) = d /\ Bcd2bin(regs[5]) = m /\ Bcd2bin(regs[6]) = y
  <2>1. /\ s \in 0 .. 99 /\ n \in 0 .. 99 /\ h \in 0 .. 99
        /\ d \in 0 .. 99 /\ m \in 0 .. 99 /\ y \in 0 .. 99
    BY <1>1, <1>2 DEF IsDate
  <2> QED BY <1>5, <2>1, PackedDecimalReturns
<1>7. Bin2bcd(0) = 0 BY DEF Bin2bcd
<1>8. CASE s < 59
  <2>1. Carried = [regs EXCEPT ![0] = Bin2bcd(s + 1)] BY <1>6, <1>8 DEF Carried
  <2>2. Carried = Packed(y, m, d, h, n, s + 1)
    <3>1. Carried = [r \in Registers |-> Carried[r]] BY <1>5, <2>1
    <3>2. /\ Carried[0] = Bin2bcd(s + 1) /\ Carried[1] = Bin2bcd(n)
          /\ Carried[2] = Bin2bcd(h) /\ Carried[3] = Bin2bcd(0)
          /\ Carried[4] = Bin2bcd(d) /\ Carried[5] = Bin2bcd(m) /\ Carried[6] = Bin2bcd(y)
      BY <1>5, <2>1 DEF Registers
    <3> QED BY <3>1, <3>2, PackedSame
  <2>3. t + 1 = Time2long(k, h, n, s + 1) BY <1>2, <1>4 DEF Time2long
  <2>4. IsTime(h, n, s + 1) BY <1>2, <1>8 DEF IsTime
  <2> QED BY <1>1, <1>3, <2>2, <2>3, <2>4, RegistersAre
<1>9. CASE s = 59 /\ n < 59
  <2>1. Carried = [regs EXCEPT ![0] = 0, ![1] = Bin2bcd(n + 1)] BY <1>6, <1>9 DEF Carried
  <2>2. Carried = Packed(y, m, d, h, n + 1, 0)
    <3>1. Carried = [r \in Registers |-> Carried[r]] BY <1>5, <2>1
    <3>2. /\ Carried[0] = Bin2bcd(0) /\ Carried[1] = Bin2bcd(n + 1)
          /\ Carried[2] = Bin2bcd(h) /\ Carried[3] = Bin2bcd(0)
          /\ Carried[4] = Bin2bcd(d) /\ Carried[5] = Bin2bcd(m) /\ Carried[6] = Bin2bcd(y)
      BY <1>5, <1>7, <2>1 DEF Registers
    <3> QED BY <3>1, <3>2, PackedSame
  <2>3. t + 1 = Time2long(k, h, n + 1, 0) BY <1>2, <1>4, <1>9 DEF Time2long
  <2>4. IsTime(h, n + 1, 0) BY <1>2, <1>9 DEF IsTime
  <2> QED BY <1>1, <1>3, <2>2, <2>3, <2>4, RegistersAre
<1>10. CASE s = 59 /\ n = 59 /\ h < 23
  <2>1. Carried = [regs EXCEPT ![0] = 0, ![1] = 0, ![2] = Bin2bcd(h + 1)]
    BY <1>6, <1>10 DEF Carried
  <2>2. Carried = Packed(y, m, d, h + 1, 0, 0)
    <3>1. Carried = [r \in Registers |-> Carried[r]] BY <1>5, <2>1
    <3>2. /\ Carried[0] = Bin2bcd(0) /\ Carried[1] = Bin2bcd(0)
          /\ Carried[2] = Bin2bcd(h + 1) /\ Carried[3] = Bin2bcd(0)
          /\ Carried[4] = Bin2bcd(d) /\ Carried[5] = Bin2bcd(m) /\ Carried[6] = Bin2bcd(y)
      BY <1>5, <1>7, <2>1 DEF Registers
    <3> QED BY <3>1, <3>2, PackedSame
  <2>3. t + 1 = Time2long(k, h + 1, 0, 0) BY <1>2, <1>4, <1>10 DEF Time2long
  <2>4. IsTime(h + 1, 0, 0) BY <1>2, <1>10 DEF IsTime
  <2> QED BY <1>1, <1>3, <2>2, <2>3, <2>4, RegistersAre
<1>11. CASE s = 59 /\ n = 59 /\ h = 23
  <2>1. t + 1 = Time2long(k + 1, 0, 0, 0) BY <1>2, <1>3, <1>4, <1>11 DEF Time2long
  <2>2. IsTime(0, 0, 0) BY DEF IsTime
  <2>3. Days(t + 1) = k + 1 BY <1>3, <2>1, <2>2, TimeJoins
  <2>4. ~(y = 99 /\ m = 12 /\ d = 31)
    <3>1. SUFFICES ASSUME y = 99, m = 12, d = 31 PROVE FALSE OBVIOUS
    <3>2. YearDays(99) = 36160 BY DEF YearDays
    <3>3. MonthsBefore(99, 12) = 334 BY DEF MonthsBefore, LeapDay, DaysBefore
    <3>4. k = 36524 BY <1>3, <3>1, <3>2, <3>3 DEF DayNumber
    <3> QED BY <2>3, <3>4 DEF OfCentury
  <2>5. PICK y2, m2, d2 :
          /\ IsDate(y2, m2, d2) /\ DayAfter(Date(y, m, d)) = Date(y2, m2, d2)
          /\ DayNumber(y2, m2, d2) = k + 1
    BY <1>1, <1>3, <2>4, DayAfterAddsOne
  <2>6. /\ Date(y2, m2, d2).day = d2 /\ Date(y2, m2, d2).month = m2
        /\ Date(y2, m2, d2).year = y2
    BY DEF Date
  <2>7. Carried = [regs EXCEPT ![0] = 0, ![1] = 0, ![2] = 0, ![4] = Bin2bcd(d2),
                     ![5] = Bin2bcd(m2), ![6] = Bin2bcd(y2)]
    BY <1>6, <1>11, <2>5, <2>6 DEF Carried
  <2>8. Carried = Packed(y2, m2, d2, 0, 0, 0)
    BY <1>5, <1>7, <2>7, PackedSame DEF Registers
  <2> QED BY <2>1, <2>2, <2>5, <2>8, RegistersAre
<1> QED BY <1>2, <1>8, <1>9, <1>10, <1>11

-----------------------------------------------------------------------------
(* The walk through the century. *)
WalkInv == /\ WalkTypeOK
           /\ count = DayNumber(date.year, date.month, date.day)

LEMMA WalkDate ==
  WalkInv => /\ IsDate(date.year, date.month, date.day)
             /\ date = Date(date.year, date.month, date.day)
BY DEF WalkInv, WalkTypeOK, IsDate, Date

LEMMA InitWalkInv == WalkInit => WalkInv
<1> SUFFICES ASSUME WalkInit PROVE WalkInv OBVIOUS
<1>1. date = [year |-> 0, month |-> 1, day |-> 1] /\ count = 0 BY DEF WalkInit, Date
<1>2. MonthLength(0, 1) \in 28 .. 31 BY MonthLengthType
<1>3. MonthsBefore(0, 1) = 0 /\ YearDays(0) = 0 BY DEF MonthsBefore, DaysBefore, YearDays
<1> QED BY <1>1, <1>2, <1>3 DEF WalkInv, WalkTypeOK, DayNumber

LEMMA MidnightKeepsWalkInv == WalkInv /\ Midnight => WalkInv'
<1> SUFFICES ASSUME WalkInv, Midnight PROVE WalkInv' OBVIOUS
<1>1. PICK y, m, d : IsDate(y, m, d) /\ date = Date(y, m, d) /\ count = DayNumber(y, m, d)
  BY WalkDate DEF WalkInv
<1>2. ~(y = 99 /\ m = 12 /\ d = 31) BY <1>1 DEF Midnight, LastDay
<1>3. PICK y2, m2, d2 :
        /\ IsDate(y2, m2, d2) /\ DayAfter(Date(y, m, d)) = Date(y2, m2, d2)
        /\ DayNumber(y2, m2, d2) = DayNumber(y, m, d) + 1
  BY <1>1, <1>2, DayAfterAddsOne
<1>4. date' = [year |-> y2, month |-> m2, day |-> d2] /\ count' = DayNumber(y2, m2, d2)
  BY <1>1, <1>3 DEF Midnight, Date
<1>5. count' \in Nat BY <1>3, <1>4, DayInYear DEF OfCentury
<1> QED BY <1>3, <1>4, <1>5 DEF WalkInv, WalkTypeOK, IsDate

(* The date is one of the calendar, and the days counted are the midnights since
   2000-01-01. *)
THEOREM WalkInvariant == WalkSpec => []WalkInv
<1>1. WalkInv /\ UNCHANGED walkVars => WalkInv'
  BY DEF WalkInv, WalkTypeOK, walkVars
<1> QED BY InitWalkInv, MidnightKeepsWalkInv, <1>1, PTL DEF WalkSpec

(* The three calendars are one: date2days() counts the days the chip walks, in its
   16 bits, and DateTime(t) finds the chip's date from the count. *)
THEOREM CalendarsAreOne == WalkSpec => []CalendarsAgree
<1>1. WalkInv => CalendarsAgree
  <2> SUFFICES ASSUME WalkInv PROVE CalendarsAgree OBVIOUS
  <2>1. PICK y, m, d : IsDate(y, m, d) /\ date = Date(y, m, d) /\ count = DayNumber(y, m, d)
    BY WalkDate DEF WalkInv
  <2> QED BY <2>1, Date2daysCounts, DateOfFinds
          DEF CalendarsAgree, DaysAreCounted, DateIsFound
<1> QED BY WalkInvariant, <1>1, PTL

(* The date adjust() puts into the registers is the one now() takes out. *)
THEOREM RegistersReturnDate == WalkSpec => []RegistersKeepDate
<1>1. WalkInv => RegistersKeepDate
  <2> SUFFICES ASSUME WalkInv PROVE RegistersKeepDate OBVIOUS
  <2>1. date.year \in 0 .. 99 /\ date.month \in 0 .. 99 /\ date.day \in 0 .. 99
    BY DEF WalkInv, WalkTypeOK
  <2> QED BY <2>1, PackedDecimalReturns DEF RegistersKeepDate
<1> QED BY WalkInvariant, <1>1, PTL

-----------------------------------------------------------------------------
(* The inductive invariant of the chip and its driver. *)

(* Between settings the chip says chipTime; in one, what is written is the new
   time's. *)
ChipInv ==
  /\ OfCentury(Days(chipTime + (MaxTicks - ticks)))
  /\ ~Writing => Says(regs, chipTime)
  /\ Writing => /\ chipTime = newTime
                /\ \A r \in Registers : r < field => regs[r] = RegistersOf(newTime)[r]

(* What the two transactions know of each other. *)
TransactionInv ==
  /\ op = "none" => phase = "select"
  /\ op = "adjust" => newTime \in Times /\ phase # "request"
  /\ op = "now" /\ phase = "data" => bus \in {"read", "silent"}

(* The copy that is read says the time at the start of the read, and chipTime and
   ticks have moved on from there together. *)
ReadInv ==
  op = "now" /\ phase = "data" /\ bus = "read" =>
    /\ Says(shadow, asked.time) /\ OfCentury(Days(asked.time))
    /\ asked.time - asked.tick = chipTime - ticks

(* systemStart is the time the chip would have said at the start. *)
StartInv == trusted /\ ~Writing => chipTime - ticks - systemStart = uptime - seen

IInv == /\ ClockTypeOK /\ ChipInv /\ TransactionInv /\ ReadInv /\ StartInv
        /\ ReadingIsOneInstant /\ UptimeIsKept

LEMMA DaysGrow ==
  ASSUME NEW a \in Nat, NEW b \in Nat, a <= b
  PROVE  Days(a) \in Nat /\ Days(a) <= Days(b)
BY DEF Days

LEMMA EarlierOfCentury ==
  ASSUME NEW a \in Nat, NEW b \in Nat, a <= b, OfCentury(Days(b)) PROVE OfCentury(Days(a))
<1>1. Days(a) \in Nat /\ Days(b) \in Nat /\ Days(a) <= Days(b) BY DaysGrow
<1> QED BY <1>1 DEF OfCentury

LEMMA ByteOfDecimal == ASSUME NEW v \in Nat PROVE Bin2bcd(v) \in Byte
<1>1. PICK w \in Nat : w = v + 6 * (v \div 10) OBVIOUS
<1> QED BY <1>1 DEF Bin2bcd, Byte

LEMMA RegistersType ==
  ASSUME NEW t \in Nat, OfCentury(Days(t))
  PROVE  RegistersOf(t) \in [Registers -> Byte] /\ RegistersOf(t)[0] < 128
<1>1. PICK y, m, d, h, n, s :
        IsDate(y, m, d) /\ IsTime(h, n, s) /\ RegistersOf(t) = Packed(y, m, d, h, n, s)
  BY EveryTimeHasDate
<1>2. /\ y \in Nat /\ m \in Nat /\ d \in Nat /\ h \in Nat /\ n \in Nat /\ s \in Nat
      /\ s \in 0 .. 59
  BY <1>1 DEF IsDate, IsTime
<1>3. \A r \in Registers : Packed(y, m, d, h, n, s)[r] \in Byte
  <2>1. \A r \in Registers : r \in {0, 1, 2, 3, 4, 5, 6} BY DEF Registers
  <2> QED BY <1>2, <2>1, PackedIs, ByteOfDecimal
<1>4. RegistersOf(t)[0] < 128
  <2>1. RegistersOf(t)[0] = Bin2bcd(s) BY <1>1, PackedIs
  <2>2. Bin2bcd(s) \in 0 .. 127 BY <1>2, SecondsLeaveABit
  <2> QED BY <2>1, <2>2
<1>5. Packed(y, m, d, h, n, s) \in [Registers -> Byte] BY <1>3 DEF Packed
<1> QED BY <1>1, <1>4, <1>5

LEMMA SaysType ==
  ASSUME NEW t \in Nat, OfCentury(Days(t)), NEW bytes, Says(bytes, t)
  PROVE  /\ bytes \in [Registers -> Byte]
         /\ bytes[0] < 128 => bytes = RegistersOf(t)
<1>1. RegistersOf(t) \in [Registers -> Byte] BY RegistersType
<1>2. 128 \in Byte /\ 0 \in Registers BY DEF Byte, Registers
<1> QED BY <1>1, <1>2 DEF Says

LEMMA ChipOfCentury ==
  ClockTypeOK /\ ChipInv => /\ OfCentury(Days(chipTime))
                            /\ ticks < MaxTicks => OfCentury(Days(chipTime + 1))
<1> SUFFICES ASSUME ClockTypeOK, ChipInv
             PROVE  /\ OfCentury(Days(chipTime))
                    /\ ticks < MaxTicks => OfCentury(Days(chipTime + 1))
  OBVIOUS
<1>1. chipTime \in Nat /\ ticks \in 0 .. MaxTicks /\ MaxTicks \in Nat
  BY ClockConstants DEF ClockTypeOK
<1>2. PICK last \in Nat : last = chipTime + (MaxTicks - ticks) BY <1>1
<1>3. OfCentury(Days(last)) /\ chipTime <= last BY <1>1, <1>2 DEF ChipInv
<1>4. ticks < MaxTicks => chipTime + 1 \in Nat /\ chipTime + 1 <= last BY <1>1, <1>2
<1> QED BY <1>1, <1>2, <1>3, <1>4, EarlierOfCentury

LEMMA TimesOfCentury ==
  ASSUME NEW t \in Times \cup {0}, NEW k \in 0 .. MaxTicks
  PROVE  t \in Nat /\ OfCentury(Days(t + (MaxTicks - k)))
<1>1. t \in Nat /\ MaxTicks \in Nat BY ClockConstants
<1>2. PICK a \in Nat, b \in Nat : a = t + (MaxTicks - k) /\ b = t + MaxTicks /\ a <= b
  BY <1>1
<1>3. Days(a) \in Nat /\ Days(b) \in Nat /\ Days(a) <= Days(b) BY <1>2, DaysGrow
<1>4. Days(b) < 36525 BY <1>2, WithinCentury
<1>5. OfCentury(Days(a)) BY <1>3, <1>4 DEF OfCentury
<1> QED BY <1>1, <1>2, <1>5

-----------------------------------------------------------------------------
LEMMA InitIInv == Init => IInv
<1> SUFFICES ASSUME Init PROVE IInv OBVIOUS
<1>1. chipTime \in Times \cup {0} /\ ticks = 0 /\ 0 \in 0 .. MaxTicks
  BY ClockConstants DEF Init
<1>2. chipTime \in Nat /\ OfCentury(Days(chipTime + (MaxTicks - 0)))
  BY <1>1, TimesOfCentury
<1>3. Says(regs, chipTime) BY DEF Init, Says
<1>4. ~Writing BY DEF Init, Writing
<1>5. ChipInv BY <1>1, <1>2, <1>3, <1>4 DEF ChipInv
<1>6. regs \in [Registers -> Byte]
  <2>1. PICK last \in Nat : last = chipTime + (MaxTicks - 0) /\ chipTime <= last
    BY <1>2, ClockConstants
  <2>2. OfCentury(Days(chipTime)) BY <1>2, <2>1, EarlierOfCentury
  <2> QED BY <1>2, <1>3, <2>2, SaysType
<1>7. ClockTypeOK
  <2>1. 0 \in 0 .. MaxSets /\ 0 \in 0 .. MaxTicks BY ClockConstants
  <2>2. shadow \in [Registers -> Byte] BY <1>6 DEF Init
  <2>3. /\ bus = "free" /\ op = "now" /\ phase = "select" /\ field = 0
        /\ newTime = 0 /\ starting = TRUE /\ unixTime = 0 /\ systemStart = 0
        /\ sets = 0 /\ ticks = 0 /\ asked = [time |-> 0, tick |-> 0] /\ seen = 0
        /\ uptime = 0 /\ good = FALSE /\ trusted = FALSE
    BY DEF Init
  <2>4. asked \in [time : Nat, tick : Nat] BY <2>3
  <2>5. sets \in 0 .. MaxSets /\ ticks \in 0 .. MaxTicks /\ field \in 0 .. 8 BY <2>1, <2>3
  <2>6. starting \in BOOLEAN /\ good \in BOOLEAN /\ trusted \in BOOLEAN BY <2>3
  <2>7. newTime \in Nat /\ unixTime \in Int /\ systemStart \in Int /\ seen \in Nat /\ uptime \in Int
    BY <2>3
  <2> QED BY <1>2, <1>6, <2>2, <2>3, <2>4, <2>5, <2>6, <2>7 DEF ClockTypeOK
<1>8. TransactionInv /\ ReadInv /\ StartInv /\ ReadingIsOneInstant /\ UptimeIsKept
  BY DEF Init, TransactionInv, ReadInv, StartInv, ReadingIsOneInstant, UptimeIsKept
<1> QED BY <1>5, <1>7, <1>8 DEF IInv

LEMMA TickKeepsIInv == IInv /\ Tick => IInv'
<1> SUFFICES ASSUME IInv, Tick PROVE IInv' OBVIOUS
<1> USE ClockConstants DEF IInv
<1>1. /\ ticks < MaxTicks /\ ~Halted /\ ~Writing /\ regs' = Carried
      /\ ticks' = ticks + 1 /\ chipTime' = chipTime + 1
      /\ UNCHANGED <<shadow, bus, op, phase, field, unixTime, systemStart, starting,
                     asked, seen, uptime, good, trusted, newTime, sets>>
  BY DEF Tick, busVars, timeVars, auxVars
<1>2. /\ chipTime \in Nat /\ ticks \in 0 .. MaxTicks /\ MaxTicks \in Nat
      /\ ticks' \in 0 .. MaxTicks /\ chipTime' \in Nat
  BY <1>1 DEF ClockTypeOK
<1>3. OfCentury(Days(chipTime)) /\ OfCentury(Days(chipTime + 1)) BY <1>1, ChipOfCentury
<1>4. regs' = RegistersOf(chipTime')
  <2>1. Says(regs, chipTime) BY <1>1 DEF ChipInv
  <2>2. regs \in [Registers -> Byte] /\ (regs[0] < 128 => regs = RegistersOf(chipTime))
    BY <1>2, <1>3, <2>1, SaysType
  <2>3. regs[0] \in 0 .. 255 BY <2>2 DEF Registers, Byte
  <2>4. regs = RegistersOf(chipTime) BY <1>1, <2>2, <2>3 DEF Halted
  <2> QED BY <1>1, <1>2, <1>3, <2>4, CarriedIsNext
<1>5. ~Writing' BY <1>1 DEF Writing
<1>6. ChipInv'
  <2>1. chipTime' + (MaxTicks - ticks') = chipTime + (MaxTicks - ticks) BY <1>1, <1>2
  <2> QED BY <1>4, <1>5, <2>1 DEF ChipInv, Says
<1>7. ClockTypeOK'
  <2>1. regs' \in [Registers -> Byte] BY <1>1, <1>2, <1>3, <1>4, RegistersType
  <2> QED BY <1>1, <1>2, <2>1 DEF ClockTypeOK
<1>8. chipTime' - ticks' = chipTime - ticks BY <1>1, <1>2
<1>9. TransactionInv' BY <1>1 DEF TransactionInv
<1>10. ReadInv' BY <1>1, <1>8 DEF ReadInv
<1>11. StartInv' BY <1>1, <1>5, <1>8 DEF StartInv
<1>12. ReadingIsOneInstant' /\ UptimeIsKept' BY <1>1 DEF ReadingIsOneInstant, UptimeIsKept
<1> QED BY <1>6, <1>7, <1>9, <1>10, <1>11, <1>12

(* The steps that move only the bus and the place in a transaction. *)
BusStep ==
  /\ UNCHANGED <<regs, shadow, ticks, chipTime, unixTime, systemStart, asked, seen, uptime,
                 good, trusted>>
  /\ ~Writing /\ ~Writing'
  /\ op' # "none"
  /\ op' = "now" /\ phase' = "data" /\ bus' = "read" => UNCHANGED <<bus, op, phase>>

LEMMA BusStepKeeps ==
  IInv /\ BusStep => ChipInv' /\ ReadInv' /\ StartInv' /\ ReadingIsOneInstant' /\ UptimeIsKept'
<1> SUFFICES ASSUME IInv, BusStep
             PROVE  ChipInv' /\ ReadInv' /\ StartInv' /\ ReadingIsOneInstant' /\ UptimeIsKept'
  OBVIOUS
<1>1. ChipInv' BY DEF IInv, BusStep, ChipInv
<1>2. ReadInv' BY DEF IInv, BusStep, ReadInv
<1>3. StartInv' BY DEF IInv, BusStep, StartInv
<1>4. ReadingIsOneInstant' /\ UptimeIsKept'
  BY DEF IInv, BusStep, ReadingIsOneInstant, UptimeIsKept
<1> QED BY <1>1, <1>2, <1>3, <1>4

LEMMA BusStepsKeepIInv ==
  IInv /\ (\/ SelectRefused \/ Selected \/ SetPointer \/ ReadClock \/ RequestRefused
           \/ ReadByte \/ \E t \in Times : SetUnixTime(t))
    => IInv'
<1> SUFFICES ASSUME IInv,
                    \/ SelectRefused \/ Selected \/ SetPointer \/ ReadClock \/ RequestRefused
                    \/ ReadByte \/ \E t \in Times : SetUnixTime(t)
             PROVE  IInv'
  OBVIOUS
<1>1. ClockTypeOK /\ TransactionInv BY DEF IInv
<1>2. ASSUME BusStep, ClockTypeOK', TransactionInv' PROVE IInv'
  BY <1>2, BusStepKeeps DEF IInv
<1>3. CASE SelectRefused
  <2>1. BusStep BY <1>3 DEF SelectRefused, BusStep, Writing, chipVars, timeVars, auxVars
  <2>2. ClockTypeOK'
    BY <1>1, <1>3 DEF ClockTypeOK, SelectRefused, chipVars, timeVars, auxVars
  <2>3. TransactionInv' BY <1>1, <1>3 DEF TransactionInv, SelectRefused
  <2> QED BY <1>2, <2>1, <2>2, <2>3
<1>4. CASE Selected
  <2>1. BusStep BY <1>4 DEF Selected, BusStep, Writing, chipVars, timeVars, auxVars
  <2>2. ClockTypeOK' BY <1>1, <1>4 DEF ClockTypeOK, Selected, chipVars, timeVars, auxVars
  <2>3. TransactionInv' BY <1>1, <1>4 DEF TransactionInv, Selected
  <2> QED BY <1>2, <2>1, <2>2, <2>3
<1>5. CASE SetPointer
  <2>1. BusStep
    BY <1>1, <1>5 DEF SetPointer, BusStep, Writing, TransactionInv, chipVars, timeVars, auxVars
  <2>2. ClockTypeOK'
    BY <1>1, <1>5 DEF ClockTypeOK, SetPointer, EndTransmission, chipVars, timeVars, auxVars
  <2>3. TransactionInv' BY <1>1, <1>5 DEF TransactionInv, SetPointer, ClockTypeOK
  <2> QED BY <1>2, <2>1, <2>2, <2>3
<1>6. CASE ReadClock
  <2>1. BusStep BY <1>6 DEF ReadClock, BusStep, Writing, chipVars, timeVars, auxVars
  <2>2. ClockTypeOK' BY <1>1, <1>6 DEF ClockTypeOK, ReadClock, chipVars, timeVars, auxVars
  <2>3. TransactionInv' BY <1>6 DEF TransactionInv, ReadClock
  <2> QED BY <1>2, <2>1, <2>2, <2>3
<1>7. CASE RequestRefused
  <2>1. BusStep
    BY <1>1, <1>7
       DEF RequestRefused, BusStep, Writing, TransactionInv, chipVars, timeVars, auxVars
  <2>2. ClockTypeOK'
    BY <1>1, <1>7 DEF ClockTypeOK, RequestRefused, chipVars, timeVars, auxVars
  <2>3. TransactionInv' BY <1>1, <1>7 DEF TransactionInv, RequestRefused
  <2> QED BY <1>2, <2>1, <2>2, <2>3
<1>8. CASE ReadByte
  <2>1. BusStep BY <1>8 DEF ReadByte, BusStep, Writing, chipVars, timeVars, auxVars
  <2>2. field' \in 0 .. 8 BY <1>1, <1>8 DEF ReadByte, ClockTypeOK
  <2>3. ClockTypeOK'
    BY <1>1, <1>8, <2>2 DEF ClockTypeOK, ReadByte, chipVars, timeVars, auxVars
  <2>4. TransactionInv' BY <1>1, <1>8 DEF TransactionInv, ReadByte
  <2> QED BY <1>2, <2>1, <2>3, <2>4
<1>9. CASE \E t \in Times : SetUnixTime(t)
  <2>1. PICK t \in Times : SetUnixTime(t) BY <1>9
  <2>2. BusStep BY <2>1 DEF SetUnixTime, BusStep, Writing, chipVars, timeVars, auxVars
  <2>3. sets' \in 0 .. MaxSets BY <1>1, <2>1, ClockConstants DEF SetUnixTime, ClockTypeOK
  <2>4. t \in Nat BY ClockConstants
  <2>5. ClockTypeOK'
    BY <1>1, <2>1, <2>3, <2>4 DEF ClockTypeOK, SetUnixTime, chipVars, timeVars, auxVars
  <2>6. TransactionInv' BY <2>1 DEF TransactionInv, SetUnixTime
  <2> QED BY <1>2, <2>2, <2>5, <2>6
<1> QED BY <1>3, <1>4, <1>5, <1>6, <1>7, <1>8, <1>9

(* The read starts: the copy says what the chip says. *)
LEMMA RequestedKeepsIInv == IInv /\ Requested => IInv'
<1> SUFFICES ASSUME IInv, Requested PROVE IInv' OBVIOUS
<1>1. /\ ClockTypeOK /\ ChipInv /\ TransactionInv /\ StartInv /\ UptimeIsKept BY DEF IInv
<1>2. /\ phase = "request" /\ bus' = "read" /\ phase' = "data" /\ shadow' = regs
      /\ asked' = [time |-> chipTime, tick |-> ticks]
      /\ UNCHANGED <<regs, ticks, chipTime, op, field, unixTime, systemStart, starting, seen,
                     uptime, good, trusted, newTime, sets>>
  BY DEF Requested, timeVars
<1>3. op = "now" BY <1>1, <1>2 DEF TransactionInv, ClockTypeOK
<1>4. ~Writing /\ ~Writing' BY <1>2, <1>3 DEF Writing
<1>5. ClockTypeOK'
  <2>1. asked' \in [time : Nat, tick : Nat] BY <1>1, <1>2 DEF ClockTypeOK
  <2> QED BY <1>1, <1>2, <2>1 DEF ClockTypeOK
<1>6. ChipInv' BY <1>1, <1>2, <1>4 DEF ChipInv
<1>7. TransactionInv' BY <1>2, <1>3 DEF TransactionInv
<1>8. ReadInv'
  <2>1. Says(regs, chipTime) BY <1>1, <1>4 DEF ChipInv
  <2>2. OfCentury(Days(chipTime)) BY <1>1, ChipOfCentury
  <2> QED BY <1>2, <2>1, <2>2 DEF ReadInv
<1>9. StartInv' BY <1>1, <1>2, <1>4 DEF StartInv
<1>10. ReadingIsOneInstant' BY <1>2, <1>3 DEF ReadingIsOneInstant
<1>11. UptimeIsKept' BY <1>1, <1>2 DEF UptimeIsKept
<1> QED BY <1>5, <1>6, <1>7, <1>8, <1>9, <1>10, <1>11 DEF IInv

(* The read ends: what was read is the time it started at, or, from a chip that did
   not answer, some number. *)
LEMMA LastByteKeepsIInv == IInv /\ LastByte => IInv'
<1> SUFFICES ASSUME IInv, LastByte PROVE IInv' OBVIOUS
<1>1. ClockTypeOK /\ ChipInv /\ TransactionInv /\ ReadInv /\ StartInv /\ UptimeIsKept
  BY DEF IInv
<1>2. /\ op = "now" /\ phase = "data" /\ op' = "none" /\ phase' = "select" /\ bus' = "held"
      /\ systemStart' = (IF starting THEN unixTime' ELSE systemStart)
      /\ starting' = FALSE /\ (good' <=> bus = "read")
      /\ (trusted' <=> IF starting THEN good' ELSE trusted)
      /\ UNCHANGED <<regs, shadow, ticks, chipTime, field, asked, newTime, sets>>
  BY DEF LastByte, ReadNak, chipVars
<1>3. /\ good' => seen' = asked.tick
                  /\ uptime' = IF starting THEN 0 ELSE uptime + asked.tick - seen
      /\ ~good' => seen' = seen /\ uptime' = uptime
  BY DEF LastByte
<1>4. /\ asked.time \in Nat /\ asked.tick \in Nat /\ seen \in Nat /\ uptime \in Int
      /\ unixTime \in Int /\ systemStart \in Int /\ chipTime \in Nat /\ ticks \in Nat
      /\ starting \in BOOLEAN /\ good \in BOOLEAN /\ trusted \in BOOLEAN
  BY <1>1 DEF ClockTypeOK
<1>5. good' => unixTime' = asked.time
  <2> SUFFICES ASSUME good' PROVE unixTime' = asked.time OBVIOUS
  <2>1. bus = "read" BY <1>2
  <2>2. Says(shadow, asked.time) /\ OfCentury(Days(asked.time)) BY <1>1, <1>2, <2>1 DEF ReadInv
  <2>3. unixTime' = TimeOf(shadow, DaysRead(shadow)) BY <2>1 DEF LastByte, Bytes
  <2> QED BY <1>4, <2>2, <2>3, ReadsBack
<1>6. ~good' => unixTime' \in Int
  <2> SUFFICES ASSUME ~good' PROVE unixTime' \in Int OBVIOUS
  <2>1. bus # "read" BY <1>2
  <2>2. PICK days \in WildDays : unixTime' = TimeOf(Bytes, days) BY <2>1 DEF LastByte
  <2>3. days \in Nat BY ClockConstants
  <2>4. Bytes[0] = 255 /\ Bytes[1] = 255 /\ Bytes[2] = 255 BY <2>1 DEF Bytes, Registers
  <2>5. Bcd2bin(255) \in Int /\ Seconds(Bytes) \in Int BY <2>4 DEF Bcd2bin, Seconds
  <2> QED BY <2>2, <2>3, <2>4, <2>5 DEF TimeOf, Time2long
<1>7. asked.time - asked.tick = chipTime - ticks \/ ~good' BY <1>1, <1>2 DEF ReadInv
<1>8. ~Writing /\ ~Writing' BY <1>2 DEF Writing
<1>9. unixTime' \in Int /\ systemStart' \in Int /\ seen' \in Nat /\ uptime' \in Int
  BY <1>2, <1>3, <1>4, <1>5, <1>6
<1>10. good' \in BOOLEAN /\ trusted' \in BOOLEAN BY <1>4 DEF LastByte
<1>11. ClockTypeOK' BY <1>1, <1>2, <1>9, <1>10 DEF ClockTypeOK
<1>12. ChipInv' BY <1>1, <1>2, <1>8 DEF ChipInv
<1>13. TransactionInv' /\ ReadInv' BY <1>2 DEF TransactionInv, ReadInv
<1>14. trusted /\ ~starting => chipTime - ticks - systemStart = uptime - seen
  BY <1>1, <1>8 DEF StartInv
<1>15. StartInv'
  <2> SUFFICES ASSUME trusted' PROVE chipTime - ticks - systemStart' = uptime' - seen'
    BY <1>2 DEF StartInv
  <2>1. CASE starting
    <3>1. systemStart' = asked.time /\ seen' = asked.tick /\ uptime' = 0
      BY <1>2, <1>3, <1>5, <2>1
    <3>2. asked.time - asked.tick = chipTime - ticks BY <1>2, <1>7, <2>1
    <3> QED BY <1>4, <3>1, <3>2
  <2>2. CASE ~starting
    <3>1. systemStart' = systemStart /\ chipTime - ticks - systemStart = uptime - seen
      BY <1>2, <1>14, <2>2
    <3>2. CASE good'
      <4>1. seen' = asked.tick /\ uptime' = uptime + asked.tick - seen BY <1>3, <2>2, <3>2
      <4> QED BY <1>4, <3>1, <4>1
    <3>3. CASE ~good' BY <1>3, <3>1, <3>3
    <3> QED BY <3>2, <3>3
  <2> QED BY <2>1, <2>2
<1>16. ReadingIsOneInstant' BY <1>2, <1>5 DEF ReadingIsOneInstant
<1>17. UptimeIsKept'
  <2> SUFFICES ASSUME good', trusted' PROVE unixTime' - systemStart' = uptime'
    BY DEF UptimeIsKept
  <2>1. CASE starting BY <1>2, <1>3, <1>4, <1>5, <2>1
  <2>2. CASE ~starting
    <3>1. systemStart' = systemStart /\ chipTime - ticks - systemStart = uptime - seen
      BY <1>2, <1>14, <2>2
    <3>2. uptime' = uptime + asked.tick - seen BY <1>3, <2>2
    <3>3. unixTime' = asked.time /\ asked.time - asked.tick = chipTime - ticks
      BY <1>5, <1>7
    <3>4. PICK a \in Nat, b \in Nat : a = asked.time /\ b = asked.tick BY <1>4
    <3>5. a - b = chipTime - ticks /\ uptime' = uptime + b - seen BY <3>2, <3>3, <3>4
    <3>6. a - systemStart = uptime + b - seen BY <1>4, <3>1, <3>5
    <3> QED BY <3>1, <3>3, <3>4, <3>5, <3>6
  <2> QED BY <2>1, <2>2
<1> QED BY <1>11, <1>12, <1>13, <1>15, <1>16, <1>17 DEF IInv

(* A byte of a setting: the first one starts the second of the new time. *)
LEMMA WriteByteKeepsIInv == IInv /\ WriteByte => IInv'
<1> SUFFICES ASSUME IInv, WriteByte PROVE IInv' OBVIOUS
<1>1. /\ ClockTypeOK /\ ChipInv /\ TransactionInv /\ ReadInv /\ StartInv
      /\ ReadingIsOneInstant /\ UptimeIsKept
  BY DEF IInv
<1>2. /\ op = "adjust" /\ phase = "data" /\ field \in Registers
      /\ regs' = [regs EXCEPT ![field] = RegistersOf(newTime)[field]] /\ field' = field + 1
      /\ chipTime' = (IF field = 0 THEN newTime ELSE chipTime)
      /\ UNCHANGED <<shadow, ticks, bus, op, phase, unixTime, systemStart, starting, asked,
                     seen, uptime, good, trusted, newTime, sets>>
  BY DEF WriteByte, I2cWrite, timeVars, auxVars
<1>3. field \in 0 .. 6 /\ field' \in 1 .. 7 BY <1>2 DEF Registers
<1>4. newTime \in Times /\ newTime \in Nat /\ ticks \in 0 .. MaxTicks
  BY <1>1, <1>2, ClockConstants DEF TransactionInv, ClockTypeOK
<1>5. OfCentury(Days(newTime + (MaxTicks - ticks))) BY <1>4, TimesOfCentury
<1>6. RegistersOf(newTime) \in [Registers -> Byte]
  <2>1. PICK last \in Nat : last = newTime + (MaxTicks - ticks) /\ newTime <= last
    BY <1>4, ClockConstants
  <2>2. OfCentury(Days(newTime)) BY <1>4, <1>5, <2>1, EarlierOfCentury
  <2> QED BY <1>4, <2>2, RegistersType
<1>7. Writing' BY <1>2, <1>3 DEF Writing
<1>8. chipTime' = newTime
  <2>1. field # 0 => Writing BY <1>2, <1>3 DEF Writing
  <2> QED BY <1>1, <1>2, <2>1 DEF ChipInv
<1>9. ClockTypeOK'
  <2>1. regs' \in [Registers -> Byte] BY <1>1, <1>2, <1>6 DEF ClockTypeOK
  <2>2. field' \in 0 .. 8 BY <1>3
  <2> QED BY <1>1, <1>2, <1>4, <1>8, <2>1, <2>2 DEF ClockTypeOK
<1>10. ChipInv'
  <2>1. \A r \in Registers : r < field => regs[r] = RegistersOf(newTime)[r]
    <3>1. CASE field = 0 BY <3>1 DEF Registers
    <3>2. CASE field # 0
      <4>1. Writing BY <1>2, <1>3, <3>2 DEF Writing
      <4> QED BY <1>1, <4>1 DEF ChipInv
    <3> QED BY <3>1, <3>2
  <2>2. ASSUME NEW r \in Registers, r < field' PROVE regs'[r] = RegistersOf(newTime)[r]
    <3>1. r < field \/ r = field BY <1>2, <1>3, <2>2 DEF Registers
    <3>2. regs \in [Registers -> Byte] BY <1>1 DEF ClockTypeOK
    <3> QED BY <1>2, <2>1, <3>1, <3>2
  <2> QED BY <1>2, <1>5, <1>7, <1>8, <2>2 DEF ChipInv
<1>11. TransactionInv' /\ ReadInv' BY <1>1, <1>2 DEF TransactionInv, ReadInv
<1>12. StartInv' BY <1>7 DEF StartInv
<1>13. ReadingIsOneInstant' /\ UptimeIsKept'
  BY <1>1, <1>2 DEF ReadingIsOneInstant, UptimeIsKept
<1> QED BY <1>9, <1>10, <1>11, <1>12, <1>13 DEF IInv

(* The setting ends: the chip says the new time, and what was counted from the old
   one is counted from it. *)
LEMMA TimeSetKeepsIInv == IInv /\ TimeSet => IInv'
<1> SUFFICES ASSUME IInv, TimeSet PROVE IInv' OBVIOUS
<1>1. ClockTypeOK /\ ChipInv /\ TransactionInv /\ UptimeIsKept BY DEF IInv
<1>2. /\ op = "adjust" /\ phase = "data" /\ field = 7
      /\ bus' = "free" /\ op' = "none" /\ phase' = "select"
      /\ systemStart' = systemStart + newTime - unixTime /\ unixTime' = newTime
      /\ asked' = [time |-> chipTime, tick |-> ticks] /\ seen' = ticks /\ good' = TRUE
      /\ trusted' = (trusted /\ good)
      /\ UNCHANGED <<regs, shadow, ticks, chipTime, field, starting, uptime, newTime, sets>>
  BY DEF TimeSet, EndTransmission, Moved, chipVars
<1>3. Writing /\ ~Writing' BY <1>2 DEF Writing
<1>4. chipTime = newTime /\ \A r \in Registers : regs[r] = RegistersOf(newTime)[r]
  <2>1. \A r \in Registers : r < field BY <1>2 DEF Registers
  <2> QED BY <1>1, <1>3, <2>1 DEF ChipInv
<1>5. /\ unixTime \in Int /\ systemStart \in Int /\ uptime \in Int /\ newTime \in Nat
      /\ ticks \in Nat /\ ticks \in 0 .. MaxTicks /\ chipTime \in Nat
      /\ good \in BOOLEAN /\ trusted \in BOOLEAN
  BY <1>1, ClockConstants DEF ClockTypeOK
<1>6. regs = RegistersOf(chipTime)
  <2>1. OfCentury(Days(chipTime)) BY <1>1, ChipOfCentury
  <2>2. RegistersOf(chipTime) \in [Registers -> Byte] /\ regs \in [Registers -> Byte]
    BY <1>1, <1>5, <2>1, RegistersType DEF ClockTypeOK
  <2> QED BY <1>4, <2>2
<1>7. ClockTypeOK'
  <2>1. asked' \in [time : Nat, tick : Nat] BY <1>2, <1>5
  <2>2. systemStart' \in Int /\ unixTime' \in Int /\ seen' \in Nat BY <1>2, <1>5
  <2>3. good' \in BOOLEAN /\ trusted' \in BOOLEAN BY <1>2
  <2> QED BY <1>1, <1>2, <2>1, <2>2, <2>3 DEF ClockTypeOK
<1>8. ChipInv' BY <1>1, <1>2, <1>3, <1>6 DEF ChipInv, Says
<1>9. TransactionInv' /\ ReadInv' BY <1>2 DEF TransactionInv, ReadInv
<1>10. ReadingIsOneInstant' BY <1>2, <1>4 DEF ReadingIsOneInstant
<1>11. trusted' => unixTime - systemStart = uptime BY <1>1, <1>2, <1>5 DEF UptimeIsKept
<1>12. StartInv' BY <1>2, <1>4, <1>5, <1>11 DEF StartInv
<1>13. UptimeIsKept' BY <1>2, <1>5, <1>11 DEF UptimeIsKept
<1> QED BY <1>7, <1>8, <1>9, <1>10, <1>12, <1>13 DEF IInv

LEMMA RestartKeepsIInv == IInv /\ Restart => IInv'
<1> SUFFICES ASSUME IInv, Restart PROVE IInv' OBVIOUS
<1>1. ClockTypeOK /\ ChipInv /\ TransactionInv /\ ReadInv /\ StartInv BY DEF IInv
<1>2. /\ op = "none" \/ phase = "select"
      /\ starting' = TRUE /\ good' = FALSE /\ op' = "now" /\ phase' = "select"
      /\ UNCHANGED <<regs, shadow, ticks, chipTime, bus, field, unixTime, systemStart, asked,
                     seen, uptime, trusted, newTime, sets>>
  BY DEF Restart, chipVars
<1>3. ~Writing /\ ~Writing' BY <1>2 DEF Writing
<1>4. ClockTypeOK'
  <2>1. starting' \in BOOLEAN /\ good' \in BOOLEAN BY <1>2
  <2> QED BY <1>1, <1>2, <2>1 DEF ClockTypeOK
<1>5. ChipInv' BY <1>1, <1>2, <1>3 DEF ChipInv
<1>6. TransactionInv' /\ ReadInv' BY <1>2 DEF TransactionInv, ReadInv
<1>7. StartInv' BY <1>1, <1>2, <1>3 DEF StartInv
<1>8. ReadingIsOneInstant' /\ UptimeIsKept' BY <1>2 DEF ReadingIsOneInstant, UptimeIsKept
<1> QED BY <1>4, <1>5, <1>6, <1>7, <1>8 DEF IInv

LEMMA StutterKeepsIInv == IInv /\ UNCHANGED vars => IInv'
BY DEF IInv, ClockTypeOK, ChipInv, TransactionInv, ReadInv, StartInv, ReadingIsOneInstant,
       UptimeIsKept, Writing, vars, chipVars, busVars, timeVars, auxVars

(* What the registers, the bytes of a write or a read under way and the firmware's
   two times have to do with each other, whatever the chip refuses. *)
THEOREM ClockInvariant == Spec => []IInv
<1>1. IInv /\ [Next]_vars => IInv'
  BY TickKeepsIInv, BusStepsKeepIInv, RequestedKeepsIInv, LastByteKeepsIInv,
     WriteByteKeepsIInv, TimeSetKeepsIInv, RestartKeepsIInv, StutterKeepsIInv DEF Next
<1> QED BY InitIInv, <1>1, PTL DEF Spec

(* The chip carries on from what adjust() wrote, through every boundary of its
   century, and no restart leaves a setting half written. *)
THEOREM ChipIsNeverHalfSet == Spec => []ChipHoldsOneTime
<1>1. IInv => ChipHoldsOneTime BY DEF IInv, ChipInv, ChipHoldsOneTime, Says
<1> QED BY ClockInvariant, <1>1, PTL

(* What now() returns from a chip that answered is the time of one instant. *)
THEOREM ReadingNeverTears == Spec => []ReadingIsOneInstant
<1>1. IInv => ReadingIsOneInstant BY DEF IInv
<1> QED BY ClockInvariant, <1>1, PTL

(* Setting the clock does not move the time since the start. *)
THEOREM UptimeSurvivesSetting == Spec => []UptimeIsKept
<1>1. IInv => UptimeIsKept BY DEF IInv
<1> QED BY ClockInvariant, <1>1, PTL
=============================================================================
