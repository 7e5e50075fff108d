--------------------------- MODULE MCStoreForward ---------------------------
(* Small telemetry links: the queue holds fewer files than there are       *)
(* frames, and the link goes down more than once.                          *)
EXTENDS StoreForward
=============================================================================
