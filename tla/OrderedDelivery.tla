--------------------------- MODULE OrderedDelivery ---------------------------
(***************************************************************************)
(* What the telemetry link promises, seen from its two ends: frames are    *)
(* numbered as they are produced, each is delivered at most once, and      *)
(* always in order.  A frame may be lost for good before it is delivered,  *)
(* and a lost frame never comes back: what is delivered has no holes but   *)
(* the lost frames.                                                        *)
(***************************************************************************)
EXTENDS Naturals

VARIABLES
  produced,     \* how many frames have been produced
  delivered,    \* the frames whose first copy has reached the ground
  gone          \* the frames of which no copy is left

vars == <<produced, delivered, gone>>

Pending == (1 .. produced) \ (delivered \cup gone)

Init == produced = 0 /\ delivered = {} /\ gone = {}

\* Frames that are lost now, of those pending in the new state.
LoseSome ==
  /\ gone \subseteq gone'
  /\ gone' \subseteq (1 .. produced') \ delivered'

Produce ==
  /\ produced' = produced + 1
  /\ delivered' = delivered
  /\ LoseSome

Deliver ==
  /\ \E f \in Pending :
       /\ \A g \in Pending : f <= g
       /\ delivered' = delivered \cup {f}
  /\ UNCHANGED <<produced, gone>>

Lose ==
  /\ LoseSome
  /\ UNCHANGED <<produced, delivered>>

Next == Produce \/ Deliver \/ Lose

Spec == Init /\ [][Next]_vars
=============================================================================
