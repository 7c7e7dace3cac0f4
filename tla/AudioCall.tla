----------------------------- MODULE AudioCall -----------------------------
(* The threads of the client's audio session, from start to stop:            *)
(* av/session/AudioCallSession.cpp with its socket net/media/UdpPeerSocket.h,*)
(* av/capture/AudioCapture.cpp and av/render/AudioPlayer.cpp.                *)
(*                                                                           *)
(* The interface thread sets the peer, sets up a relay (holding the          *)
(* session's mutex and the socket's set-up mutex, and reading the socket     *)
(* itself), and stops the session: it joins the player's worker, the sender  *)
(* and the receiver.  The receiver waits for datagrams without a timeout,    *)
(* the worker for frames.  The messages of a relay set-up are in TurnRelay,  *)
(* what packets carry is in AudioPath.                                       *)
(*                                                                           *)
(* Two more state machines of the session follow: the output device of the   *)
(* player and the loop that adapts the bit rate.                             *)
EXTENDS Integers

CONSTANTS
    MaxPending,   \* bound: datagrams queued in the socket
    MaxQueued     \* AudioPlayer: m_maxQueuedFrames

VARIABLES
    acUi,         \* interface thread: what it does
    acRunning,    \* AudioCallSession: m_running
    hasPeer,      \* socket: m_peerValid
    arrived,      \* socket: number of m_pendingDatagrams
    interrupted,  \* socket: m_waitInterrupted
    sender,       \* send thread: what it does
    receiver,     \* receive thread: what it does
    capturing,    \* AudioCapture: m_running
    worker,       \* player's worker: what it does
    queued,       \* player: number of m_inputFrames
    stopRequested \* player: m_stopRequested

acSock == <<hasPeer, arrived, interrupted>>
acPlay == <<worker, queued, stopRequested>>
acVars == <<acUi, acRunning, acSock, sender, receiver, capturing, acPlay>>

AcInit ==
    /\ acUi = "new" /\ acRunning = FALSE
    /\ hasPeer = FALSE /\ arrived = 0 /\ interrupted = FALSE
    /\ sender = "off" /\ receiver = "off"
    /\ capturing = FALSE
    /\ worker = "off" /\ queued = 0 /\ stopRequested = FALSE

\* UdpPeerSocket::close, and open, which begins with it
CloseSocket == hasPeer' = FALSE /\ arrived' = 0 /\ interrupted' = FALSE
OpenSocket == CloseSocket

-----------------------------------------------------------------------------
(* The interface thread *)

\* AudioCallSession::start: capture, player and socket are opened, then the
\* threads start.  The peer of the configuration has port 0, which is none.
AcStart ==
    /\ acUi = "new"
    /\ acUi' = "idle"
    /\ acRunning' = TRUE /\ capturing' = TRUE
    /\ OpenSocket
    /\ worker' = "wait" /\ sender' = "top" /\ receiver' = "top"
    /\ UNCHANGED <<queued, stopRequested>>

\* A device or the socket cannot be opened: what was opened is closed.
AcStartFails ==
    /\ acUi = "new"
    /\ acUi' = "closed"
    /\ UNCHANGED <<acRunning, acSock, sender, receiver, capturing, acPlay>>

\* AudioCallSession::setPeer
AcSetPeer ==
    /\ acUi = "idle"
    /\ hasPeer' = TRUE
    /\ UNCHANGED <<acUi, acRunning, arrived, interrupted, sender, receiver, capturing, acPlay>>

\* AudioCallSession::configureTurnRelay: the mutexes are taken ...
SetupBegins ==
    /\ acUi = "idle"
    /\ acUi' = "setup"
    /\ UNCHANGED <<acRunning, acSock, sender, receiver, capturing, acPlay>>

\* ... datagrams are read, and dropped if they are no answers ...
SetupReads ==
    /\ acUi = "setup" /\ arrived > 0
    /\ arrived' = arrived - 1
    /\ UNCHANGED <<acUi, acRunning, hasPeer, interrupted, sender, receiver, capturing, acPlay>>

\* ... and the set-up succeeds or fails.
SetupEnds ==
    /\ acUi = "setup"
    /\ acUi' = "idle"
    /\ hasPeer' \in {hasPeer, TRUE}
    /\ UNCHANGED <<acRunning, arrived, interrupted, sender, receiver, capturing, acPlay>>

\* AudioCallSession::stop, first step
AcStop ==
    /\ acUi = "idle"
    /\ acUi' = "interrupting"
    /\ acRunning' = FALSE
    /\ UNCHANGED <<acSock, sender, receiver, capturing, acPlay>>

MutantInterruptWaiters ==
    /\ acUi = "interrupting"
    /\ acUi' = "stopCapture"
    /\ receiver' = IF receiver = "blocked" THEN "woken" ELSE receiver
    /\ UNCHANGED <<acRunning, acSock, sender, capturing, acPlay>>

\* UdpPeerSocket::interruptWaiters
InterruptWaiters ==
    /\ acUi = "interrupting"
    /\ acUi' = "stopCapture"
    /\ interrupted' = TRUE
    /\ receiver' = IF receiver = "blocked" THEN "woken" ELSE receiver
    /\ UNCHANGED <<acRunning, hasPeer, arrived,
                   sender, capturing, acPlay>>

\* AudioCapture::stop
CaptureStop ==
    /\ acUi = "stopCapture"
    /\ acUi' = "stopPlayer"
    /\ capturing' = FALSE
    /\ UNCHANGED <<acRunning, acSock, sender, receiver, acPlay>>

\* AudioPlayer::stop, up to the join
PlayerStop ==
    /\ acUi = "stopPlayer"
    /\ acUi' = "joinPlayer"
    /\ stopRequested' = TRUE
    /\ queued' = 0
    /\ UNCHANGED <<acRunning, acSock, sender, receiver, capturing, worker>>

PlayerJoined ==
    /\ acUi = "joinPlayer" /\ worker = "ended"
    /\ acUi' = "joinThreads"
    /\ stopRequested' = FALSE
    /\ UNCHANGED <<acRunning, acSock, sender, receiver, capturing,
                   worker, queued>>

\* The sender and the receiver have ended: UdpPeerSocket::close
AcClose ==
    /\ acUi = "joinThreads" /\ sender = "ended" /\ receiver = "ended"
    /\ acUi' = "closed"
    /\ CloseSocket
    /\ UNCHANGED <<acRunning, sender, receiver, capturing, acPlay>>

-----------------------------------------------------------------------------
(* The send thread *)

\* sendLoop: the top of the loop, and the peer, which takes the mutex.  The
\* wait for a peer ends after 50 ms.
SenderTop ==
    /\ sender = "top" /\ acUi # "setup"
    /\ sender' = IF ~acRunning THEN "ended" ELSE IF ~hasPeer THEN "top" ELSE "pop"
    /\ UNCHANGED <<acUi, acRunning, acSock, receiver, capturing, acPlay>>

\* popFrameForEncode returns a frame, or none within 50 ms or after
\* AudioCapture::stop.  The frame is sent under the mutex, as the peer is read.
SenderPop ==
    /\ sender = "pop"
    /\ sender' = "top"
    /\ UNCHANGED <<acUi, acRunning, acSock, receiver, capturing, acPlay>>

-----------------------------------------------------------------------------
(* The receive thread *)

ReceiverTop ==
    /\ receiver = "top"
    /\ receiver' = IF acRunning THEN "wait" ELSE "ended"
    /\ UNCHANGED <<acUi, acRunning, acSock, sender, capturing, acPlay>>

\* waitForReadable(-1), before the wait
WaitForReadable ==
    /\ receiver = "wait"
    /\ IF arrived = 0 /\ interrupted
       THEN interrupted' = FALSE /\ receiver' = "top"
       ELSE /\ receiver' = IF arrived = 0 THEN "blocked" ELSE "take"
            /\ UNCHANGED interrupted
    /\ UNCHANGED <<acUi, acRunning, hasPeer, arrived, sender, capturing, acPlay>>

\* ... and after it: an interruption comes before a datagram.
Woken ==
    /\ receiver = "woken"
    /\ interrupted' = FALSE
    /\ receiver' = IF ~interrupted /\ arrived > 0 THEN "take" ELSE "top"
    /\ UNCHANGED <<acUi, acRunning, hasPeer, arrived, sender, capturing, acPlay>>

\* recvFrom takes the set-up mutex, and the datagram may be gone by then; the
\* session's mutex is taken for what it carries.  Audio goes to the player
\* (AudioPlayer::enqueueFrame), which drops its oldest frame for it.
RecvFrom ==
    /\ receiver = "take" /\ acUi # "setup"
    /\ IF arrived = 0
       THEN UNCHANGED <<arrived, queued>>
       ELSE /\ arrived' = arrived - 1
            /\ \/ UNCHANGED queued
               \/ /\ worker # "ended" /\ ~stopRequested
                  /\ queued' = IF queued < MaxQueued THEN queued + 1 ELSE queued
    /\ receiver' = "top"
    /\ UNCHANGED <<acUi, acRunning, hasPeer, interrupted, sender, capturing, worker, stopRequested>>

-----------------------------------------------------------------------------
(* The player's worker *)

\* playbackLoop, top: waits for a frame or for stop.
WorkerTop ==
    /\ worker = "wait" /\ (stopRequested \/ queued > 0)
    /\ IF queued = 0
       THEN worker' = "ended" /\ UNCHANGED queued
       ELSE worker' = "play" /\ queued' = queued - 1
    /\ UNCHANGED <<acUi, acRunning, acSock, sender, receiver, capturing, stopRequested>>

\* The frame is written, or there is no device.  The device may also take
\* nothing for ever: then only stop ends the loop.
WorkerPlayed ==
    /\ worker = "play"
    /\ worker' = "wait"
    /\ UNCHANGED <<acUi, acRunning, acSock, sender, receiver, capturing, queued, stopRequested>>

-----------------------------------------------------------------------------
(* The network *)

\* enqueuePendingDatagramsFromSocket, on the socket's thread
Enqueue ==
    /\ acUi \notin {"new", "closed"} /\ arrived < MaxPending
    /\ arrived' = arrived + 1
    /\ receiver' = IF receiver = "blocked" THEN "woken" ELSE receiver
    /\ UNCHANGED <<acUi, acRunning, hasPeer, interrupted, sender, capturing, acPlay>>

-----------------------------------------------------------------------------
\* Threads run, and waits with a timeout end.  A device that takes nothing holds
\* the worker, but only until stop.
UiThread == SetupEnds \/ InterruptWaiters \/ CaptureStop \/ PlayerStop \/ PlayerJoined \/ AcClose
SenderThread == SenderTop \/ SenderPop
ReceiverThread == ReceiverTop \/ WaitForReadable \/ Woken \/ RecvFrom
WorkerThread == WorkerTop \/ (stopRequested /\ WorkerPlayed)

AcNext ==
    \/ AcStart \/ AcStartFails \/ AcSetPeer \/ SetupBegins \/ SetupReads \/ AcStop
    \/ UiThread \/ SenderThread \/ ReceiverThread \/ WorkerTop \/ WorkerPlayed
    \/ Enqueue

-----------------------------------------------------------------------------
(* Properties *)

AcTypeOK ==
    /\ acUi \in {"new", "idle", "setup", "interrupting", "stopCapture", "stopPlayer", "joinPlayer",
                 "joinThreads", "closed"}
    /\ sender \in {"off", "top", "pop", "ended"}
    /\ receiver \in {"off", "top", "wait", "blocked", "woken", "take", "ended"}
    /\ worker \in {"off", "wait", "play", "ended"}
    /\ queued \in 0..MaxQueued /\ arrived \in 0..MaxPending
    /\ acUi = "closed" => queued = 0

\* Stopping the session returns, whatever its threads wait for: the receiver
\* for a datagram, the worker for a frame or for its device, the sender for a
\* peer or a captured frame.
StopReturns == []<>(acUi \in {"new", "idle", "closed"})

-----------------------------------------------------------------------------
(* The output device, as the worker of av/render/AudioPlayer.cpp             *)
(* (playbackLoop) opens, loses and reopens it.  Attempts to reopen are a     *)
(* second apart; a change of the preferred device opens at once.             *)

CONSTANTS Outputs       \* names of output devices

VARIABLES
    sink,       \* audioSink: "none", or the state of the device: "active", "stopped"
    using,      \* preferredOutputDeviceName of the loop
    desired,    \* m_preferredOutputDeviceName
    works,      \* the devices that can be opened and take samples
    recent,     \* lastReopenAttempt is less than a second ago
    playing,    \* the worker: "wait", "check" or "write" a frame
    heard       \* history: where the last frame went, "none" before

outVars == <<sink, using, desired, works, recent, playing, heard>>

\* openOutputDevice with resolveOutputDevice: the device preferred, or else
\* the default one; any that works will do.
Opened(name) == IF works = {} THEN "none" ELSE "active"

OutInit ==
    /\ using \in Outputs /\ desired = using
    /\ works = Outputs
    /\ sink = "active" /\ recent = FALSE
    /\ playing = "wait" /\ heard = "none"

\* A frame is taken from the queue.
TakeFrame ==
    /\ playing = "wait"
    /\ playing' = "check"
    /\ using' = desired
    /\ sink' = IF using = desired THEN sink ELSE Opened(desired)
    /\ UNCHANGED <<desired, works, recent, heard>>

\* tryReopenOutputDevice(force = false)
TryReopen ==
    IF recent THEN UNCHANGED <<sink, recent>>
    ELSE sink' = Opened(using) /\ recent' = TRUE

\* A device that stopped is reopened before the frame is written.
CheckSink ==
    /\ playing = "check"
    /\ playing' = "write"
    /\ IF sink = "stopped" THEN TryReopen ELSE UNCHANGED <<sink, recent>>
    /\ UNCHANGED <<using, desired, works, heard>>

\* The device takes all of the frame.
WriteFrame ==
    /\ playing = "write" /\ sink = "active" /\ works # {}
    /\ playing' = "wait" /\ heard' = "device"
    /\ UNCHANGED <<sink, using, desired, works, recent>>

\* It has stopped: the loop tries to reopen it, and gives the frame up when
\* there is none any more.
WriteStopped ==
    /\ playing = "write" /\ sink = "stopped"
    /\ TryReopen
    /\ IF sink' = "none"
       THEN playing' = "wait" /\ heard' = "nowhere"
       ELSE UNCHANGED <<playing, heard>>
    /\ UNCHANGED <<using, desired, works>>

MutantNoOutput ==
    /\ playing = "write" /\ sink = "none"
    /\ playing' = "wait" /\ heard' = "nowhere"
    /\ UNCHANGED <<sink, using, desired, works, recent>>

\* There is no device: the frame goes nowhere.
NoOutput ==
    /\ playing = "write" /\ sink = "none"
    /\ TryReopen
    /\ playing' = "wait" /\ heard' = "nowhere"
    /\ UNCHANGED <<using, desired, works>>

\* AudioPlayer::setPreferredOutputDeviceName
SetPreferredOutput(name) ==
    /\ desired' = name
    /\ UNCHANGED <<sink, using, works, recent, playing, heard>>

\* Devices come and go; the one in use may be among those that go.
DevicesChange(left) ==
    /\ works' = left
    /\ \/ sink' = sink /\ (left = {} => sink # "active")
       \/ works \ left # {} /\ sink = "active" /\ sink' = "stopped"
    /\ UNCHANGED <<using, desired, recent, playing, heard>>

SecondPasses ==
    /\ recent /\ recent' = FALSE
    /\ UNCHANGED <<sink, using, desired, works, playing, heard>>

\* Frames keep coming, the worker runs and time passes.
OutputSteps == TakeFrame \/ CheckSink \/ WriteFrame \/ WriteStopped \/ NoOutput

OutNext ==
    \/ OutputSteps \/ SecondPasses
    \/ \E name \in Outputs : SetPreferredOutput(name)
    \/ \E left \in SUBSET Outputs : DevicesChange(left)

-----------------------------------------------------------------------------
(* Properties *)

OutTypeOK ==
    /\ sink \in {"none", "active", "stopped"} /\ recent \in BOOLEAN
    /\ using \in Outputs /\ desired \in Outputs /\ works \subseteq Outputs
    /\ playing \in {"wait", "check", "write"} /\ heard \in {"none", "device", "nowhere"}

\* Once there are output devices to stay, audio is heard again, whatever
\* became of the devices before and in the middle of whatever frame.
OutputRecovers ==
    \A left \in (SUBSET Outputs) \ {{}} : <>[](works = left) => []<>(heard # "nowhere")

-----------------------------------------------------------------------------
(* The loop that adapts the audio bit rate: receiver reports and what is     *)
(* measured to be sent move the estimate (net/media/BandwidthEstimator.cpp), *)
(* a report publishes it as the target, the send loop gives the target to    *)
(* the encoder, whose output is measured again.  Rates are in kbit/s and     *)
(* truncated as in the code.                                                 *)

CONSTANTS
    Least, Most,    \* 16 and 64
    First           \* AudioCallSessionConfig::bitrate: 32

VARIABLES
    estimate,   \* m_bitrateKbps
    wanted,     \* m_targetBitrateBps
    encoding,   \* AudioEncoder: m_bitrate
    quiet       \* the network is good and the encoder uses its bit rate, for good

arVars == <<estimate, wanted, encoding, quiet>>

ArInit == estimate = First /\ wanted = First /\ encoding = First /\ quiet = FALSE

\* clampBitrateLocked
ClampRate(x) == IF x < Least THEN Least ELSE IF x > Most THEN Most ELSE x

MutantAdjusted(b, how) ==
    ClampRate(CASE how = "awful" -> b \div 2
                [] how = "bad" -> (b * 70) \div 100
                [] how = "poor" -> (b * 85) \div 100
                [] how = "fair" -> b
                [] how = "good" -> (b * 105) \div 100)

\* onReceiverReport: the worse of loss and round trip time decides.
Adjusted(b, how) ==
    ClampRate(CASE how = "awful" -> b \div 2
                [] how = "bad" -> (b * 70) \div 100
                [] how = "poor" -> (b * 85) \div 100
                [] how = "fair" -> b
                [] how = "good" -> (b * 108) \div 100)

\* handleRtcpPacketLocked, for a report block whose round trip time was measured
OnReport(how) ==
    /\ quiet => how = "good"
    /\ estimate' = Adjusted(estimate, how)
    /\ wanted' = estimate'
    /\ UNCHANGED <<encoding, quiet>>

\* refreshWindowLocked, when a window of 500 ms is over: what was sent is the
\* estimate, unless nothing was.  In speech the encoder uses less than it may.
RefreshWindow(measured) ==
    /\ quiet => measured = encoding
    /\ estimate' = IF measured = 0 THEN estimate ELSE ClampRate(measured)
    /\ UNCHANGED <<wanted, encoding, quiet>>

\* sendLoop, before a frame is encoded: AudioEncoder::setBitrate
SetBitrate ==
    /\ encoding' = wanted
    /\ UNCHANGED <<estimate, wanted, quiet>>

CalmsDown == quiet' = TRUE /\ UNCHANGED <<estimate, wanted, encoding>>

ReportComes == \E how \in {"awful", "bad", "poor", "fair", "good"} : OnReport(how)
WindowEnds == \E measured \in {0, 1, encoding \div 2, encoding} : RefreshWindow(measured)

\* Frames are captured, so that windows end and targets are applied, and
\* reports come: these are fair.
ArNext == ReportComes \/ WindowEnds \/ SetBitrate \/ CalmsDown

-----------------------------------------------------------------------------
(* Properties *)

ArTypeOK == estimate \in Least..Most /\ wanted \in Least..Most /\ encoding \in Least..Most

\* On a network that is good for good the encoder reaches its highest bit
\* rate, in spite of the estimate being truncated and set back to what was
\* measured, provided the encoder uses the bit rate it has.
RateRecovers == <>[](quiet => encoding = Most)
=============================================================================
