------------------------------- MODULE Raster -------------------------------
(***************************************************************************)
(* What the LED matrix promises to the eye: the lines of all frames are    *)
(* lit one at a time, in raster order, with a dark gap between two lines,   *)
(* so that rows are never lit while the column data changes.  A start (or   *)
(* restart) of the firmware may light unknown data once before the first    *)
(* line of the first frame.                                                 *)
(***************************************************************************)
EXTENDS Naturals

CONSTANTS NumLines,   \* rows of the matrix
          MaxFrames   \* frames of one picture, shown for different times

VARIABLES spot,       \* the line lit last: <<frame, line>>, or Start, or Unknown
          lit         \* a row is switched on

vars == <<spot, lit>>

Start   == <<0, NumLines>>     \* nothing was lit since the start
Unknown == <<0, NumLines + 1>> \* the row register held what power-on left there

After(s) ==
  LET frame == s[1]
      line  == s[2]
  IN  IF s = Unknown                 THEN <<0, 0>>
      ELSE IF line + 1 < NumLines    THEN <<frame, line + 1>>
      ELSE IF frame + 1 < MaxFrames  THEN <<frame + 1, 0>>
      ELSE                                <<0, 0>>

Init == spot = Start /\ lit = FALSE

Light ==
  /\ ~lit
  /\ lit' = TRUE
  /\ spot' = IF spot = Start THEN Unknown ELSE After(spot)

Darken ==
  /\ lit
  /\ lit' = FALSE
  /\ UNCHANGED spot

Restart ==
  /\ spot' = Start
  /\ lit' = FALSE

Next == Light \/ Darken \/ Restart

Spec == Init /\ [][Next]_vars
=============================================================================
