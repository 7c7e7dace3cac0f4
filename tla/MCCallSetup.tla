---------------------------- MODULE MCCallSetup ----------------------------
(* Setting up media between a client and the SFU, and the driver that runs   *)
(* whole clients through a meeting, for TLC, side by side: a behaviour is    *)
(* one of MediaHandshake or one of SmokeDriver.                              *)
(* The handshake: two sessions after each other, one datagram lost.  The     *)
(* driver: a host and a guest, in seven of the set-ups its scripts use.      *)
EXTENDS MediaHandshake, SmokeDriver

\* What a client is asked to do and to see.
Asked(needs, soak, peers, toggles, sends, expects) ==
    [needs |-> needs, soak |-> soak, peers |-> peers, helperSoak |-> TRUE, toggles |-> toggles,
     sends |-> sends, expects |-> expects]

Pair(h, g) == [p \in Procs |-> IF p = Host THEN h ELSE g]

MCConfigs ==
    {Pair(Asked({}, FALSE, TRUE, FALSE, FALSE, {}), Asked({"layout"}, FALSE, FALSE, FALSE, FALSE, {})),
     Pair(Asked({"audio"}, FALSE, TRUE, FALSE, FALSE, {}), Asked({"avsync"}, FALSE, FALSE, FALSE, FALSE, {})),
     Pair(Asked({}, FALSE, TRUE, FALSE, FALSE, {}), Asked({"video", "camera"}, FALSE, TRUE, FALSE, FALSE, {})),
     Pair(Asked({"chat"}, FALSE, TRUE, FALSE, TRUE, {"g"}), Asked({"chat"}, FALSE, FALSE, FALSE, TRUE, {"h"})),
     Pair(Asked({"history"}, FALSE, TRUE, FALSE, FALSE, {}), Asked({"history"}, FALSE, FALSE, FALSE, FALSE, {})),
     Pair(Asked({"mediaState"}, FALSE, FALSE, TRUE, FALSE, {}), Asked({"mediaState"}, FALSE, FALSE, FALSE, FALSE, {})),
     Pair(Asked({"camera"}, TRUE, TRUE, FALSE, FALSE, {}), Asked({}, TRUE, TRUE, FALSE, FALSE, {}))}

VARIABLE part

SetupInit ==
    /\ part \in {"handshake", "driver"} /\ HsInit /\ SdInit
    /\ part = "handshake" => config[Host].soak

SetupNext ==
    /\ UNCHANGED part
    /\ IF part = "handshake" THEN HsNext ELSE UNCHANGED hsVars
    /\ IF part = "driver" THEN SdNext ELSE UNCHANGED sdVars

\* The fairness the modules state.
SetupSpec ==
    /\ SetupInit /\ [][SetupNext]_<<part, hsVars, sdVars>>
    /\ WF_hsVars(part = "handshake" /\ Served)
    /\ WF_hsVars(part = "handshake" /\ SendCachedDtlsHandshake)
    /\ WF_hsVars(part = "handshake" /\ Arrival("stun"))
    /\ SF_hsVars(part = "handshake" /\ Arrival("hello"))
    /\ SF_hsVars(part = "handshake" /\ Arrival("server"))
    /\ WF_hsVars(part = "handshake" /\ Arrival("finish"))
    /\ WF_hsVars(part = "handshake" /\ Arrival("finished"))
    /\ WF_sdVars(part = "driver" /\ SmokeSteps)

SetupTypeOK == HsTypeOK /\ SdTypeOK

\* SmokeSettles of SmokeDriver: nobody waits for what nobody will do.
DriverSettles == []<>(part = "driver" => Settled)

\* The driver's verdicts mean what they say: a host that reports success found
\* its guest where it should be, and a toggle counts as seen only if it was made
\* (HostAgrees and ToggleReallySeen of SmokeDriver).
VerdictsMean == SetupTypeOK /\ HostAgrees /\ ToggleReallySeen
=============================================================================
