--------------------------- MODULE MCFlightAudit ---------------------------
(* A short log with a few appends that are cut or fail.                    *)
EXTENDS FlightAudit
=============================================================================
