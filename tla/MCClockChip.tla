---------------------------- MODULE MCClockChip ----------------------------
(* Two seconds before a leap day, before the end of a year, and before noon. *)
(* The walk through the calendar is taken from a chip that was never powered *)
(* and has done nothing yet: the two share only the calendar's operators.    *)
EXTENDS ClockChip, CalendarWalk

Before(days, second) == days * 86400 + second - 2
MCTimes == {Before(58, 86400), Before(5113, 86400), Before(5113, 43200)}

Unpowered == Init /\ Halted

MCInit == Init /\ WalkInit
MCNext == \/ count = 0 /\ Next /\ UNCHANGED walkVars
          \/ Unpowered /\ Midnight /\ UNCHANGED vars

MCSpec == MCInit /\ [][MCNext]_<<vars, walkVars>>
=============================================================================
