----------------------------- MODULE MCFswCore -----------------------------
(* A small flight: two restarts allowed, one sample every two seconds.     *)
EXTENDS FswCore

\* A clear snapshot; one inside every hysteresis band; one for each fault;
\* one exactly on every fault threshold.
Reading(t, v, s, e) == [temp |-> t, volt |-> v, soc |-> s, err |-> e]

MCReadings ==
  { Reading(55, 510, 90, 10),
    Reading(70, 470, 15, 80),
    Reading(75, 460, 10, 100),
    Reading(76, 510, 90, 10),
    Reading(55, 459, 90, 10),
    Reading(55, 510, 9, 10),
    Reading(55, 510, 90, 101) }
=============================================================================
