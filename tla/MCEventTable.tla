--------------------------- MODULE MCEventTable ---------------------------
(* Seven shows, a pause after the third and a long one before the last. *)
EXTENDS EventTable
MCStart == <<1, 2, 3, 5, 6, 7, 10>>
MCEnd   == <<2, 3, 4, 6, 7, 8, 11>>
=============================================================================
