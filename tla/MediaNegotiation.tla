--------------------------- MODULE MediaNegotiation ---------------------------
(* The media of the local participant in one meeting: mute, camera and screen *)
(* sharing (app/MeetingController.cpp) as the user, the host and the server's *)
(* state synchronisation change them, what the video session then sends       *)
(* (av/session/ScreenShareSession*.cpp), and the transports the client offers *)
(* to the SFU of the meeting's route (handler/media_handler.go).  The         *)
(* signaling connection stays up; ClientLogin and ClientMeeting lose it.      *)
EXTENDS Integers, Sequences, FiniteSets

CONSTANTS
    Nodes,          \* SFU nodes, the addresses of their media ports
    NoNode,
    MaxToggles,     \* bound: clicks of the user
    MaxOthers,      \* bound: acts of the others (a peer's toggle, mute all, a failover)
    MaxFaults       \* bound: captures that do not start, transports that are not set up

Kinds == {"audio", "video"}

VARIABLES
    mn,         \* the client, see MnInit
    own,        \* the server's record of the participant (IsAudioOn, IsVideoOn, Sharing)
    snap,       \* the state a peer's handler has read and not broadcast yet
    told,       \* history: the last participant state sent to the client
    room,       \* SFU node of the room
    transports, \* kinds of the client's transports on each node
    mnUp, mnDown,
    slips,      \* history: what stands in the way of the properties below
    mnUsed      \* clicks, acts of the others and faults so far

mnVars == <<mn, own, snap, told, room, transports, mnUp, mnDown, slips, mnUsed>>

NoOwn == [audioOn |-> FALSE, videoOn |-> FALSE, sharing |-> FALSE, in |-> FALSE]

MnInit ==
    /\ mn = [in |-> FALSE, route |-> NoNode,
             audioMuted |-> FALSE, videoMuted |-> TRUE,     \* m_audioMuted, m_videoMuted
             audioHeld |-> FALSE, videoHeld |-> FALSE,      \* m_..MuteLocallyControlled
             sharing |-> FALSE,                             \* m_screenSharing
             up |-> FALSE,                                  \* the two sessions run
             screen |-> FALSE, camera |-> FALSE,            \* the video session's sources
             live |-> FALSE,                                \* its capture and send threads run
             offered |-> {},                                \* m_..OfferSentPeers has "sfu"
             out |-> <<>>]                                  \* requests written by the handler
    /\ own = NoOwn /\ snap = NoOwn /\ told = NoOwn
    /\ room \in Nodes /\ transports = [n \in Nodes |-> {}]
    /\ mnUp = <<>> /\ mnDown = <<>>
    /\ slips = {}
    /\ mnUsed = [clicks |-> 0, others |-> 0, faults |-> 0]

\* A frame or a request: its kind, a flag, a media kind, a node and a participant state.
MnFrame(op, on, kind, node, st) == [op |-> op, on |-> on, kind |-> kind, node |-> node, st |-> st]
Request(c, op, on, kind) == [c EXCEPT !.out = Append(@, MnFrame(op, on, kind, NoNode, NoOwn))]

-----------------------------------------------------------------------------
(* The video session's sources.  `ok` says whether a capture starts.         *)

\* ScreenShareSession::setSharingEnabled: the first source starts the capture and send threads.
\* Disabling a source closes the ring buffer and joins the capture thread, also when the other
\* source stays enabled; the send thread ends at the closed buffer.
SetSharingEnabled(c, on, ok) ==
    IF ~c.up \/ c.screen = on \/ (on /\ ~ok) THEN c
    ELSE [c EXCEPT !.screen = on, !.live = on /\ (@ \/ ~c.camera)]

\* ScreenShareSession::setCameraSendingEnabled
SetCameraSendingEnabled(c, on, ok) ==
    IF ~c.up \/ c.camera = on \/ (on /\ ~ok) THEN c
    ELSE [c EXCEPT !.camera = on, !.live = on /\ (@ \/ ~c.screen)]

MutantUpdateVideoSession(c, ok) ==
    IF c.sharing THEN SetSharingEnabled(c, TRUE, ok)
    ELSE SetCameraSendingEnabled(SetSharingEnabled(c, FALSE, ok), ~c.videoMuted, ok)

\* updateVideoSessionSettings: the camera stops before the screen starts, and the other way round.
UpdateVideoSession(c, ok) ==
    IF c.sharing THEN SetSharingEnabled(SetCameraSendingEnabled(c, FALSE, ok), TRUE, ok)
    ELSE SetCameraSendingEnabled(SetSharingEnabled(c, FALSE, ok), ~c.videoMuted, ok)

\* sendAudioOfferToPeer and sendVideoOfferToPeer: with an SFU route an offer is made once in a
\* stay, forced or not; audio is published only if the microphone is on.
SendOffer(c, kind) ==
    IF ~c.up \/ c.route = NoNode \/ kind \in c.offered THEN c
    ELSE Request([c EXCEPT !.offered = @ \cup {kind}], "offer", kind = "video" \/ ~c.audioMuted, kind)

\* maybeStartMediaNegotiation: start the sessions, apply the sources, offer both transports.
MaybeStartMediaNegotiation(c, ok) ==
    IF ~c.in \/ c.route = NoNode THEN c
    ELSE LET a == SendOffer([c EXCEPT !.up = TRUE], "audio")
         IN  SendOffer(UpdateVideoSession(a, ok), "video")

MutantResetMedia(c) ==
    [c EXCEPT !.in = FALSE, !.route = NoNode, !.audioMuted = FALSE, !.videoMuted = TRUE,
              !.audioHeld = FALSE, !.videoHeld = FALSE, !.sharing = FALSE, !.up = FALSE,
              !.screen = FALSE, !.camera = FALSE, !.live = FALSE]

\* resetMediaNegotiation and the media part of resetMeetingState
ResetMedia(c) ==
    [c EXCEPT !.in = FALSE, !.route = NoNode, !.audioMuted = FALSE, !.videoMuted = TRUE,
              !.audioHeld = FALSE, !.videoHeld = FALSE, !.sharing = FALSE, !.up = FALSE,
              !.screen = FALSE, !.camera = FALSE, !.live = FALSE, !.offered = {}]

-----------------------------------------------------------------------------
(* What the client does with a frame.                                        *)

\* updateSfuRoute, applySfuRouteToSessions: sessions that run are given the new peer.
UpdateSfuRoute(c, n) == [c EXCEPT !.route = n]

\* joinMeetingFinished
MnOnJoined(c, f, ok) ==
    MaybeStartMediaNegotiation(
        [UpdateSfuRoute(c, f.node) EXCEPT !.in = TRUE, !.audioMuted = FALSE, !.videoMuted = TRUE,
                  !.audioHeld = FALSE, !.videoHeld = FALSE, !.sharing = FALSE], ok)

\* handleProtobufMessage, kMeetStateSync: what the server says of the mute flags is taken over
\* until the user has changed them; what it says of sharing always is.
Adopt(c, st) ==
    [c EXCEPT !.in = TRUE,
              !.audioMuted = IF c.audioHeld THEN @ ELSE ~st.audioOn,
              !.videoMuted = IF c.videoHeld THEN @ ELSE ~st.videoOn,
              !.sharing = st.sharing]

\* ... and the sources are set screen first, then camera.
ApplySources(c, ok) ==
    SetCameraSendingEnabled(SetSharingEnabled(c, c.sharing, ok), ~c.sharing /\ ~c.videoMuted, ok)

MnOnStateSync(c, f, ok) ==
    MaybeStartMediaNegotiation(UpdateVideoSession(ApplySources(Adopt(c, f.st), ok), ok), ok)

\* kMeetMuteAll
OnMuteAll(c, f) ==
    IF ~c.in \/ c.audioMuted = f.on THEN c ELSE [c EXCEPT !.audioMuted = f.on, !.audioHeld = TRUE]

\* kMediaRouteStatusNotify with stage "switched": updateSfuRoute points both sessions at the new
\* node, and the offers that follow are refused by SendOffer.
OnSwitched(c, f) ==
    LET d == UpdateSfuRoute(c, f.node) IN
    IF ~d.in THEN d ELSE SendOffer(SendOffer(d, "audio"), "video")

MnHandled(c, f, ok) ==
    CASE f.op = "joinRsp"  -> MnOnJoined(c, f, ok)
      [] f.op = "sync"     -> MnOnStateSync(c, f, ok)
      [] f.op = "muteAll"  -> OnMuteAll(c, f)
      [] f.op = "switched" -> OnSwitched(c, f)
      [] f.op = "answer"   -> c       \* handleMediaTransportAnswer: MediaHandshake
      [] f.op = "leaveRsp" -> ResetMedia(c)

\* The client takes on the result of a handler: its requests are written in order.
MnTake(c) ==
    /\ mn' = [c EXCEPT !.out = <<>>]
    /\ mnUp' = mnUp \o c.out

\* A capture is asked to start and does not.
Fault(ok) ==
    /\ ok \/ mnUsed.faults < MaxFaults
    /\ mnUsed' = IF ok THEN mnUsed ELSE [mnUsed EXCEPT !.faults = @ + 1]

\* The camera gives way to the screen in ApplySources: the screen's capture is found running.
Swapped(c, d) == c.camera /\ ~c.screen /\ d.screen /\ ~d.live

MnReceive ==
    /\ mnDown # <<>>
    /\ \E ok \in BOOLEAN :
          LET f == Head(mnDown)  c == MnHandled(mn, f, ok) IN
          /\ Fault(ok)
          /\ MnTake(c)
          /\ slips' = (IF f.op = "leaveRsp" THEN {} ELSE slips)
                      \cup (IF ok THEN {} ELSE {"fault"})
                      \cup (IF f.op = "muteAll" THEN {"muteAll"} ELSE {})
                      \cup (IF Swapped(mn, c) THEN {"swapped"} ELSE {})
    /\ mnDown' = Tail(mnDown)
    /\ UNCHANGED <<own, snap, told, room, transports>>

-----------------------------------------------------------------------------
(* What the user does.                                                       *)

Click(c, ok, slip) ==
    /\ mnUsed.clicks < MaxToggles /\ (ok \/ mnUsed.faults < MaxFaults)
    /\ mnUsed' = [mnUsed EXCEPT !.clicks = @ + 1, !.faults = @ + IF ok THEN 0 ELSE 1]
    /\ MnTake(c)
    /\ slips' = slips \cup slip \cup (IF ok THEN {} ELSE {"fault"})
    /\ UNCHANGED <<own, snap, told, room, transports, mnDown>>

\* toggleAudio
ToggleAudio ==
    /\ mn.in
    /\ LET c == Request([mn EXCEPT !.audioMuted = ~@, !.audioHeld = TRUE], "mute", ~mn.audioMuted, "audio")
           d == IF c.audioMuted THEN c ELSE MaybeStartMediaNegotiation(c, TRUE)
       IN  Click(SendOffer(d, "audio"), TRUE, {})

\* toggleVideo
ToggleVideo ==
    /\ mn.in
    /\ \E ok \in BOOLEAN :
          LET c == Request([mn EXCEPT !.videoMuted = ~@, !.videoHeld = TRUE], "mute", ~mn.videoMuted, "video")
              d == IF c.videoMuted THEN c ELSE MaybeStartMediaNegotiation(c, ok)
          IN  Click(SendOffer(UpdateVideoSession(d, ok), "video"), ok, {})

\* toggleScreenSharing, to share: nothing is told to the server if the capture does not start.
StartSharing ==
    /\ mn.in /\ ~mn.sharing
    /\ \E ok \in BOOLEAN :
          LET c == MaybeStartMediaNegotiation([mn EXCEPT !.sharing = TRUE], ok)
              d == SetSharingEnabled(SetCameraSendingEnabled(c, FALSE, ok), TRUE, ok)
          IN  IF d.up /\ ~d.screen THEN Click([d EXCEPT !.sharing = FALSE], ok, {})
              ELSE Click(SendOffer(Request(UpdateVideoSession(d, ok), "share", TRUE, "video"), "video"), ok, {})

MutantStopSharing ==
    /\ mn.in /\ mn.sharing
    /\ Click(SetSharingEnabled([mn EXCEPT !.sharing = FALSE], FALSE, TRUE), TRUE, {})

\* toggleScreenSharing, to stop: if the camera does not come back the handler returns before it
\* has told the server.
StopSharing ==
    /\ mn.in /\ mn.sharing
    /\ \E ok \in BOOLEAN :
          LET c == [SetSharingEnabled(mn, FALSE, ok) EXCEPT !.sharing = FALSE]
              d == SetCameraSendingEnabled(MaybeStartMediaNegotiation(c, ok), ~c.videoMuted, ok)
          IN  IF d.up /\ d.camera = d.videoMuted THEN Click(d, ok, {"silent"})
              ELSE Click(SendOffer(Request(UpdateVideoSession(d, ok), "share", FALSE, "video"), "video"), ok, {})

\* captureLoop gives up a camera that yields no frames and reports it: the error callback mutes
\* the camera and tells the server.
CameraFails ==
    /\ mn.camera /\ ~mn.screen /\ mnUsed.faults < MaxFaults
    /\ mnUsed' = [mnUsed EXCEPT !.faults = @ + 1]
    /\ LET c == [mn EXCEPT !.camera = FALSE, !.live = FALSE] IN
       MnTake(IF ~c.in \/ c.sharing \/ c.videoMuted THEN c
              ELSE SendOffer(Request(UpdateVideoSession([c EXCEPT !.videoMuted = TRUE, !.videoHeld = TRUE], TRUE),
                                     "mute", TRUE, "video"), "video"))
    /\ UNCHANGED <<own, snap, told, room, transports, mnDown, slips>>

\* joinMeeting and leaveMeeting
AskToJoin ==
    /\ ~mn.in /\ mnUp = <<>> /\ mnDown = <<>> /\ ~own.in
    /\ Click(Request(mn, "join", TRUE, "audio"), TRUE, {})
AskToLeave ==
    /\ mn.in /\ mnUp = <<>> /\ mnDown = <<>>
    /\ Click(Request(mn, "leave", TRUE, "audio"), TRUE, {})

-----------------------------------------------------------------------------
(* The server.                                                               *)

MnSync(st) == MnFrame("sync", FALSE, "audio", NoNode, st)

\* MeetingHandler.HandleJoin: a participant starts with microphone and camera on.
MnJoin ==
    LET st == [audioOn |-> TRUE, videoOn |-> TRUE, sharing |-> FALSE, in |-> TRUE] IN
    /\ own' = st /\ told' = st
    /\ mnDown' = mnDown \o <<MnFrame("joinRsp", TRUE, "audio", room, NoOwn), MnSync(st)>>
    /\ UNCHANGED <<transports, mnUsed, slips>>

\* MeetingHandler.leave
MnLeave ==
    /\ own' = NoOwn /\ told' = NoOwn
    /\ transports' = [transports EXCEPT ![room] = {}]
    /\ mnDown' = Append(mnDown, MnFrame("leaveRsp", TRUE, "audio", NoNode, NoOwn))
    /\ UNCHANGED <<mnUsed, slips>>

\* MediaHandler.HandleMuteToggle and HandleScreenShare
MnSetState(st) ==
    /\ own' = st /\ told' = st
    /\ mnDown' = Append(mnDown, MnSync(st))
    /\ UNCHANGED <<transports, mnUsed, slips>>

\* MediaHandler.handleTransportOffer: no answer at all if the SFU does not set the transport up.
MnOffer(r) ==
    \/ /\ transports' = [transports EXCEPT ![room] = @ \cup {r.kind}]
       /\ told' = own
       /\ mnDown' = mnDown \o <<MnFrame("answer", r.on, r.kind, NoNode, NoOwn), MnSync(own)>>
       /\ UNCHANGED <<own, mnUsed, slips>>
    \/ /\ mnUsed.faults < MaxFaults
       /\ mnUsed' = [mnUsed EXCEPT !.faults = @ + 1]
       /\ slips' = slips \cup {"unanswered"}
       /\ UNCHANGED <<own, told, transports, mnDown>>

MnServe ==
    /\ mnUp # <<>> /\ mnUp' = Tail(mnUp)
    /\ LET r == Head(mnUp) IN
       CASE r.op = "join"  -> MnJoin
         [] r.op = "leave" -> MnLeave
         [] r.op = "offer" -> MnOffer(r)
         [] r.op = "share" -> MnSetState([own EXCEPT !.sharing = r.on])
         [] r.op = "mute" /\ r.kind = "audio" -> MnSetState([own EXCEPT !.audioOn = ~r.on])
         [] r.op = "mute" /\ r.kind = "video" -> MnSetState([own EXCEPT !.videoOn = ~r.on])
    /\ UNCHANGED <<mn, snap, room>>

\* A peer's handler reads the meeting's state for its broadcast, and sends it later.
PeerReads ==
    /\ own.in /\ ~snap.in
    /\ mnUsed.others < MaxOthers
    /\ mnUsed' = [mnUsed EXCEPT !.others = @ + 1]
    /\ snap' = own
    /\ UNCHANGED <<mn, own, told, room, transports, mnUp, mnDown, slips>>

PeerSends ==
    /\ snap.in /\ snap' = NoOwn
    /\ IF own.in THEN told' = snap /\ mnDown' = Append(mnDown, MnSync(snap)) ELSE UNCHANGED <<told, mnDown>>
    /\ UNCHANGED <<mn, own, room, transports, mnUp, slips, mnUsed>>

\* MeetingHandler.HandleMuteAll of the host: the participants' records do not change.
HostMutesAll(on) ==
    /\ own.in /\ mnUsed.others < MaxOthers
    /\ mnUsed' = [mnUsed EXCEPT !.others = @ + 1]
    /\ mnDown' = Append(mnDown, MnFrame("muteAll", on, "audio", NoNode, NoOwn))
    /\ UNCHANGED <<mn, own, snap, told, room, transports, mnUp, slips>>

\* A failover of the room (RouteRecovery): the room moves, its transports do not.
Failover(n) ==
    /\ n # room /\ own.in /\ mnUsed.others < MaxOthers
    /\ mnUsed' = [mnUsed EXCEPT !.others = @ + 1]
    /\ room' = n
    /\ mnDown' = Append(mnDown, MnFrame("switched", TRUE, "audio", n, NoOwn))
    /\ slips' = slips \cup {"switched"}
    /\ UNCHANGED <<mn, own, snap, told, transports, mnUp>>

MnNext ==
    \/ MnReceive
    \/ ToggleAudio \/ ToggleVideo \/ StartSharing \/ StopSharing
    \/ CameraFails \/ AskToJoin \/ AskToLeave
    \/ MnServe
    \/ PeerReads \/ PeerSends
    \/ \E on \in BOOLEAN : HostMutesAll(on)
    \/ \E n \in Nodes : Failover(n)

-----------------------------------------------------------------------------
(* Properties.                                                               *)

MnQuiet == mnUp = <<>> /\ mnDown = <<>> /\ mn.in /\ own.in

\* Media states and requests are of the expected shape.
MnTypeOK ==
    /\ mn.route \in Nodes \cup {NoNode} /\ mn.offered \subseteq Kinds /\ mn.out = <<>>
    /\ {mn.in, mn.audioMuted, mn.videoMuted, mn.audioHeld, mn.videoHeld, mn.sharing,
        mn.up, mn.screen, mn.camera, mn.live} \subseteq BOOLEAN
    /\ room \in Nodes /\ transports \in [Nodes -> SUBSET Kinds]
    /\ slips \subseteq {"fault", "muteAll", "swapped", "silent", "unanswered", "switched"}

\* Once nothing is under way, and if the last state synchronisation was not overtaken by a newer
\* state, the client and the server agree on the participant's microphone, camera and sharing,
\* however clicks, stale synchronisations and the host's muting were interleaved.  The exceptions
\* are the microphone after a mute-all, which the server does not record per participant, and a
\* stop of the sharing whose handler returned early because the camera did not start.
MediaStateAgrees ==
    MnQuiet /\ told = own =>
        /\ mn.videoMuted = ~own.videoOn
        /\ "muteAll" \in slips \/ mn.audioMuted = ~own.audioOn
        /\ "silent" \in slips \/ mn.sharing = own.sharing

\* Once nothing is under way, the source that the user sees as on is the one that the video
\* session captures and sends, and its threads run; unless a capture did not start, or a state
\* synchronisation switched from the camera to the screen in the order that ends the threads.
SourceIsSent ==
    MnQuiet /\ "fault" \notin slips =>
        /\ mn.screen = mn.sharing
        /\ mn.camera = (~mn.sharing /\ ~mn.videoMuted)
        /\ "swapped" \in slips \/ mn.live = (mn.screen \/ mn.camera)

\* Once nothing is under way the client sends to the room's node, and both its transports are set
\* up there; unless the SFU failed to set one up or the room has moved during the stay, as offers
\* are not repeated.
TransportsInPlace ==
    MnQuiet =>
        /\ mn.route = room
        /\ slips \cap {"switched", "unanswered"} = {} => transports[room] = Kinds
=============================================================================
