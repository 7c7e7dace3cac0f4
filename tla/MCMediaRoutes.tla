--------------------------- MODULE MCMediaRoutes ---------------------------
(* The routing state of an SFU for TLC, its parts side by side: a behaviour  *)
(* is a behaviour of one part, and the others keep their initial state.      *)
(* MediaRoutes: two users who set up and close transports while their STUN   *)
(* requests arrive.  MediaTraffic: a publisher who gets a second SSRC.       *)
(* MediaFeedback: sequence numbers wrap at 4, two packets are kept; the      *)
(* clock wraps.                                                              *)
EXTENDS MediaRoutes, MediaTraffic, MediaFeedback, TLC

CONSTANTS u1, u2

MCUsers == {u1, u2}
MCLimits == {1, 2}

VARIABLE part   \* which part

Parts == {"routes", "traffic", "nack", "rtt"}

RoutesInit ==
    /\ part \in Parts
    /\ Init /\ TrafficInit /\ NackInit /\ RttInit
    /\ part # "routes" => limit = 1

RoutesNext ==
    /\ UNCHANGED part
    /\ IF part = "routes" THEN Next ELSE UNCHANGED vars
    /\ IF part = "traffic" THEN TrafficNext ELSE UNCHANGED trafficVars
    /\ IF part = "nack" THEN NackNext ELSE UNCHANGED nackVars
    /\ IF part = "rtt" THEN RttNext ELSE UNCHANGED rttVars

RoutesSpec == RoutesInit /\ [][RoutesNext]_<<part, vars, trafficVars, nackVars, rttVars>>

RoutesTypeOK ==
    CASE part = "routes" -> TypeOK
      [] part = "traffic" -> TrafficTypeOK
      [] part = "nack" -> NackTypeOK
      [] part = "rtt" -> RttTypeOK

\* What MediaIngress keeps of sources that are gone is bounded, and what it holds
\* back was served (LeftoverOnlyRaced and HeldBackIsServed of MediaTraffic).
TrafficTracked == RoutesTypeOK /\ LeftoverOnlyRaced /\ HeldBackIsServed

Symmetry == Permutations(MCUsers)
=============================================================================
