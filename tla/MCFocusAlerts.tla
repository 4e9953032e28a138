--------------------------- MODULE MCFocusAlerts ---------------------------
(* Two airports with one inbound flight each. *)
EXTENDS FocusAlerts, TLC

CONSTANTS epwr, epgd, lo123, fr456

TwoAirports == {epwr, epgd}
OneFlightEach == (lo123 :> epwr) @@ (fr456 :> epgd)
=============================================================================
