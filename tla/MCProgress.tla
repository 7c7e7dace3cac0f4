----------------------------- MODULE MCProgress -----------------------------
(* Parts of the system that must get somewhere, for TLC, side by side: a     *)
(* behaviour is a behaviour of one part, and the others keep their initial   *)
(* state.  On the servers the recovery of a meeting's route, the registry of *)
(* SFU nodes, an SFU process and the SFU's limit; in the client the login,   *)
(* the threads of an audio call, the output device and the audio bit rate.   *)
(* Recovery: publishers on two signaling processes; n1, where the meeting    *)
(* is, refuses r1, and n2 refuses r2; or there are three nodes and n1        *)
(* refuses two of them.  Registry: n2 in the static list, n1 registers       *)
(* itself and may fail, a meeting is created and ended.                      *)
EXTENDS RouteRecovery, SfuDaemon, BandwidthEstimator, ClientLogin, AudioCall, TLC

CONSTANTS r1, r2, r3, p1, p2, n1, n2, n3, m1, q1, q2, ann, ben, o1, o2

MCPeers == {q1, q2}
MCMeasurements == {1, 400, 3000}
MCAccounts == {ann, ben}
MCOutputs == {o1, o2}

Three == {r1, r2, r3}
MCServers == {p1, p2}
AtThree == (r1 :> p1) @@ (r2 :> p2) @@ (r3 :> p2)
MCNodes == {n1, n2}
ThreeNodes == {n1, n2, n3}
MCRefused == {<<n1, r1>>, <<n2, r2>>}
Crowded == {<<n1, r1>>, <<n1, r2>>, <<n3, r3>>}
NoNodes == {}
FirstNode == {n1}

MCOrder == <<n1, n2>>
MCCap == (n1 :> 1) @@ (n2 :> 1)
OneMeeting == {m1}
Second == {n2}

VARIABLES
    part,       \* which part
    alive, meta, known, quarantine, load, seq, held, step, ranked, node, poll, asked

Registry == INSTANCE NodeRegistry
            WITH Meetings <- OneMeeting, Nodes <- MCNodes, Order <- MCOrder, Static <- Second, Cap <- MCCap,
                 Period <- 2, Crashing <- FirstNode, rooms <- held, pc <- step, todo <- ranked, status <- asked

registryVars == <<alive, meta, known, quarantine, load, seq, held, step, ranked, node, poll, asked>>

Parts == {"recovery", "registry", "daemon", "limit", "login", "call", "output", "rate"}

ProgressInit ==
    /\ part \in Parts
    /\ Init /\ Registry!Init /\ DaemonInit /\ BweInit /\ LgInit /\ AcInit /\ OutInit /\ ArInit
    /\ part # "output" => using = o1

ProgressNext ==
    /\ UNCHANGED part
    /\ IF part = "recovery" THEN Next ELSE UNCHANGED vars
    /\ IF part = "registry" THEN Registry!Next ELSE UNCHANGED registryVars
    /\ IF part = "daemon" THEN DaemonNext ELSE UNCHANGED daemonVars
    /\ IF part = "limit" THEN BweNext ELSE UNCHANGED bweVars
    /\ IF part = "login" THEN LgNext ELSE UNCHANGED lgVars
    /\ IF part = "call" THEN AcNext ELSE UNCHANGED acVars
    /\ IF part = "output" THEN OutNext ELSE UNCHANGED outVars
    /\ IF part = "rate" THEN ArNext ELSE UNCHANGED arVars

progressVars == <<part, vars, registryVars, daemonVars, bweVars, lgVars, acVars, outVars, arVars>>

\* The fairness the modules state.
ProgressSpec ==
    /\ ProgressInit /\ [][ProgressNext]_progressVars
    /\ WF_vars(part = "recovery" /\ End)
    /\ WF_vars(part = "recovery" /\ Reader)
    /\ WF_registryVars(part = "registry" /\ \E m \in OneMeeting : Registry!Handler(m))
    /\ WF_registryVars(part = "registry" /\ Registry!Monitor)
    /\ WF_daemonVars(part = "daemon" /\ MainSteps)
    /\ WF_daemonVars(part = "daemon" /\ AcceptSteps)
    /\ WF_daemonVars(part = "daemon" /\ ReporterSteps)
    /\ WF_daemonVars(part = "daemon" /\ \E p \in Peers : GiveUp(p))
    /\ WF_bweVars(part = "limit" /\ CalmReport)
    /\ WF_lgVars(part = "login" /\ Lively)
    /\ WF_acVars(part = "call" /\ UiThread)
    /\ WF_acVars(part = "call" /\ SenderThread)
    /\ WF_acVars(part = "call" /\ ReceiverThread)
    /\ WF_acVars(part = "call" /\ WorkerThread)
    /\ WF_outVars(part = "output" /\ OutputSteps)
    /\ WF_outVars(part = "output" /\ SecondPasses)
    /\ WF_arVars(part = "rate" /\ ReportComes)
    /\ WF_arVars(part = "rate" /\ WindowEnds)
    /\ WF_arVars(part = "rate" /\ SetBitrate)

ProgressTypeOK ==
    /\ part \in Parts
    /\ TypeOK /\ Registry!TypeOK /\ DaemonTypeOK /\ BweTypeOK /\ LgTypeOK /\ AcTypeOK /\ OutTypeOK /\ ArTypeOK

\* Nobody is told wrong on the way: a call to an SFU that is up learns where
\* media go (MediaAddressOnceUp of SfuDaemon), and a client that is signed in is
\* so as the user it shows, and tries to stay (OwnSession and NeverStranded of
\* ClientLogin).
ProgressSafe == ProgressTypeOK /\ MediaAddressOnceUp /\ OwnSession /\ NeverStranded

\* LoadConverges of NodeRegistry: the load of a static node comes to be the
\* number of rooms it has.
LoadConverges == Registry!LoadConverges

\* No wait is for ever: a recovery returns (RecoveryEnds of RouteRecovery), an SFU
\* process stops (StopCompletes of SfuDaemon), an audio session stops (StopReturns
\* of AudioCall), a login is answered (LoginSettles of ClientLogin).
WaitsEnd == RecoveryEnds /\ StopCompletes /\ StopReturns /\ LoginSettles

\* What a bad network or a lost device took away comes back: the SFU's limit
\* (LimitRecovers of BandwidthEstimator), the audio bit rate and the output
\* device (RateRecovers and OutputRecovers of AudioCall).
QualityRecovers == LimitRecovers /\ RateRecovers /\ OutputRecovers
=============================================================================
