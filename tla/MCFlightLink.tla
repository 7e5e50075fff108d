---------------------------- MODULE MCFlightLink ----------------------------
(* The link over two failures, with every place for them and for a signal. *)
EXTENDS FlightLink
=============================================================================
