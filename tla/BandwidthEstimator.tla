------------------------- MODULE BandwidthEstimator -------------------------
(* bwe/BandwidthEstimator.cpp of the SFU with the loop it is part of: each   *)
(* report of SfuDaemon feeds it the measured bit rate of a publisher and     *)
(* sends the result to the publisher as a REMB, which the publisher obeys.   *)
(* Rates are in kbit/s; the products with float factors, truncated, are      *)
(* those of the fractions below for all rates in range.                      *)
EXTENDS Integers, FiniteSets

CONSTANTS
    MinKbps, MaxKbps, InitialKbps,  \* the constructor's arguments
    Measurements    \* bit rates that may be measured while the network is bad

Smaller(a, b) == IF a < b THEN a ELSE b
Larger(a, b) == IF a > b THEN a ELSE b
Clamp(x) == Larger(MinKbps, Smaller(MaxKbps, x))

\* How good a sample of loss, round trip time and jitter is; the factors.
Grades == {"awful", "bad", "poor", "fair", "good"}
Scale == [awful |-> <<1, 2>>, bad |-> <<7, 10>>, poor |-> <<85, 100>>, good |-> <<11, 10>>]

VARIABLES kbps, calm
bweVars == <<kbps, calm>>

BweInit == kbps = Clamp(InitialKbps) /\ calm = FALSE

MutantRecommend(grade, sample) ==
    LET measured == IF sample = 0 THEN kbps ELSE Clamp(sample)
        candidate == Smaller(kbps, measured)
    IN Clamp(IF grade = "fair" THEN (candidate * 3 + measured) \div 4
             ELSE (candidate * Scale[grade][1]) \div 11)

\* Update
Recommend(grade, sample) ==
    LET measured == IF sample = 0 THEN kbps ELSE Clamp(sample)
        candidate == Smaller(kbps, measured)
    IN Clamp(IF grade = "fair" THEN (candidate * 3 + measured) \div 4
             ELSE (candidate * Scale[grade][1]) \div Scale[grade][2])

\* Nothing is sent, little is sent, or what the publisher was told to send.
Observe(grade, sample) ==
    /\ ~calm
    /\ kbps' = Recommend(grade, sample)
    /\ UNCHANGED calm

\* The network has become good and the publisher sends what it may.  Reports
\* are made for ever, at an interval: CalmReport is fair.
CalmDown == ~calm /\ calm' = TRUE /\ UNCHANGED kbps
CalmReport == calm /\ kbps' = Recommend("good", kbps) /\ UNCHANGED calm

BweNext ==
    \/ \E grade \in Grades, sample \in Measurements \cup {0, kbps} : Observe(grade, sample)
    \/ CalmDown \/ CalmReport

BweTypeOK == kbps \in MinKbps..MaxKbps /\ calm \in BOOLEAN

\* Once the network is good and the publisher sends what it is allowed to, the
\* limit rises to the maximum, wherever it had fallen to: truncation never
\* stops it half-way.
LimitRecovers == <>[](calm => kbps = MaxKbps)
=============================================================================
