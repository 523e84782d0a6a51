--------------------------- MODULE MCFrontPanel ---------------------------
(* Two keys on two rows. *)
EXTENDS FrontPanel
MCButtons == <<0, 1>>
=============================================================================
