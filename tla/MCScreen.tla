------------------------------ MODULE MCScreen ------------------------------
(* A small font with the widths of the real one, in a row that shows the    *)
(* first and the last column of its characters.                             *)
EXTENDS Screen

Figures09 == {Digit[i] : i \in 1 .. 10}
MCColumns ==
  [c \in Figures09 \cup {" ", "!", ":", "T", "f", "W", "bar"} |->
     CASE c \in Figures09       -> 0 .. 3
       [] c = " "               -> {}
       [] c \in {"!", ":", "bar"} -> {0}
       [] c = "T"               -> 0 .. 2
       [] c = "f"               -> 0 .. 1
       [] c = "W"               -> 0 .. 4]
MCInRow == [c \in DOMAIN MCColumns |->
              {k \in MCColumns[c] : \A j \in MCColumns[c] : k <= j}
              \cup {k \in MCColumns[c] : \A j \in MCColumns[c] : k >= j}]

\* n times a character
Times(n, c) == [i \in 1 .. n |-> c]

\* Nothing; short; as wide as the screen or a little less or more; long.
MCStrings == { <<>>, <<"W", " ", "f">>, <<"f", Umlaut, "!">>,
               Times(10, "W") \o <<"!">>, Times(10, "W") \o <<"f">>,
               Times(10, "W") \o <<"T">>, Times(11, "W"),
               <<"!", "f", "T">> \o Times(9, "W") \o <<" ", "!", "0">> }

MCDurations == {0, 9, 10, 11, 71, 599, 3599, 3671, 40271, 86399, 86400, 950399,
                8639999, 8640000}

Patterns == {0, 10, 129}
MCFrames == {[i \in 1 .. 16 |-> CASE i = 1 -> a [] i = 8 -> b [] i = 9 -> c [] i = 16 -> d
                                  [] OTHER -> 255] : a, b, c, d \in Patterns}
=============================================================================
