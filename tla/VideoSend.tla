------------------------------- MODULE VideoSend -------------------------------
(* The sending half of the client's video session                             *)
(* (av/session/ScreenShareSession*.cpp): the user-interface thread switches   *)
(* the two sources, screen and camera; the capture thread pulls frames of the *)
(* current source into a ring buffer; the send thread pops, encodes and sends *)
(* them.  The interface thread joins the two others, so that it stands still  *)
(* until they end.  With the hardware profile, the default on Windows, the    *)
(* send thread captures by itself and falls back to the ring buffer.          *)
EXTENDS Naturals, Sequences

CONSTANTS
    RingCapacity,   \* m_sendFrameRingBuffer holds 4 frames
    MaxSwitches,    \* bound: calls that switch a source or stop the session
    MaxUpsets       \* bound: captures that fail, cameras that stall, frames that are not encoded

Sources == {"screen", "camera"}
Other(s) == IF s = "screen" THEN "camera" ELSE "screen"

VARIABLES
    hardware,   \* the profile of the platform is the hardware one
    running,    \* m_running: the socket is open and the receive thread runs
    peer,       \* the socket has a peer: the SFU has answered the offer
    on,         \* m_sharingEnabled and m_cameraSendingEnabled
    device,     \* the software capture of each source runs
    noHwScreen, \* m_disableHardwareScreenCapture
    key,        \* m_forceKeyFramePending
    ring,       \* m_sendFrameRingBuffer: closed, and the sources of its frames
    ui,         \* the call the interface thread is in
    held,       \* who holds m_mutex and waits for the interface thread: "none", "cap" or "snd"
    cap, snd,   \* the capture and the send thread
    owed,       \* history: the receivers have no key frame of the current stream
    mishaps,    \* history: what stands in the way of the properties below
    vsUsed      \* switches and upsets so far

vsVars == <<hardware, running, peer, on, device, noHwScreen, key, ring, ui, held, cap, snd, owed,
            mishaps, vsUsed>>

NoThread == [pc |-> "none", src |-> "screen"]
NoSender == [pc |-> "none", src |-> "screen", hw |-> FALSE, readback |-> TRUE, force |-> FALSE,
             stale |-> FALSE]
Idle == [pc |-> "idle", src |-> "screen", both |-> FALSE]
Quiet(p) == p \in {"none", "done"}

VsInit ==
    /\ hardware \in BOOLEAN
    /\ running = FALSE /\ peer = FALSE
    /\ on = [s \in Sources |-> FALSE] /\ device = [s \in Sources |-> FALSE]
    /\ noHwScreen = FALSE /\ key = FALSE
    /\ ring = [closed |-> FALSE, frames |-> <<>>]
    /\ ui = Idle /\ held = "none" /\ cap = NoThread /\ snd = NoSender
    /\ owed = FALSE /\ mishaps = {}
    /\ vsUsed = [switches |-> 0, upsets |-> 0]

Upset == vsUsed.upsets < MaxUpsets /\ vsUsed' = [vsUsed EXCEPT !.upsets = @ + 1]
AnyOn == on["screen"] \/ on["camera"]

\* VideoSessionStateMachine::resolveSendSource: the screen comes first.
ResolveSendSource == IF on["screen"] THEN "screen" ELSE IF on["camera"] THEN "camera" ELSE "none"

Push(r, s) ==
    [r EXCEPT !.frames = Append(IF Len(@) >= RingCapacity THEN Tail(@) ELSE @, s)]

-----------------------------------------------------------------------------
(* The interface thread.                                                     *)

\* setSharingEnabled(true) and setCameraSendingEnabled(true): the plan of planEnableSharing and
\* planEnableCamera is made from the flags as they are now.
PlanEnable(s) ==
    /\ ui.pc = "idle" /\ ~on[s] /\ vsUsed.switches < MaxSwitches
    /\ vsUsed' = [vsUsed EXCEPT !.switches = @ + 1]
    /\ running' = TRUE
    /\ ui' = [pc |-> "enable", src |-> s, both |-> ~on[Other(s)]]
    /\ UNCHANGED <<hardware, held, peer, on, device, noHwScreen, key, ring, cap, snd, owed, mishaps>>

\* startCaptureLocked and startCameraCaptureLocked: nothing is opened with the hardware profile.
CaptureFails ==
    /\ ui.pc = "enable" /\ held = "none" /\ ~hardware /\ Upset
    /\ ui' = Idle
    /\ noHwScreen' = (noHwScreen /\ ui.src # "screen")
    /\ UNCHANGED <<hardware, held, running, peer, on, device, key, ring, cap, snd, owed, mishaps>>

MutantEnable ==
    /\ ui.pc = "enable" /\ held = "none"
    /\ LET s == ui.src IN
       /\ on' = [on EXCEPT ![s] = TRUE]
       /\ device' = [device EXCEPT ![s] =
                        IF s = "screen" THEN @ \/ ~hardware ELSE ~hardware]
       /\ noHwScreen' = (noHwScreen /\ s # "screen")
       /\ key' = (key \/ s = "screen" \/ ui.both)
       /\ owed' = (owed \/ s = "screen" \/ ui.both)
       /\ ring' = ring
       /\ ui' = IF ui.both THEN [ui EXCEPT !.pc = "startCapture"] ELSE Idle
       /\ mishaps' = mishaps \cup (IF ui.both /\ ~(Quiet(cap.pc) /\ Quiet(snd.pc))
                                   THEN {"overlap"} ELSE {})
    /\ UNCHANGED <<hardware, held, running, peer, cap, snd, vsUsed>>

\* The flag is set, a key frame asked for, and, when this is the only source, the ring buffer
\* reset before the threads of an earlier stream have been joined.
Enable ==
    /\ ui.pc = "enable" /\ held = "none"
    /\ LET s == ui.src IN
       /\ on' = [on EXCEPT ![s] = TRUE]
       /\ device' = [device EXCEPT ![s] =
                        IF s = "screen" THEN @ \/ ~hardware ELSE ~hardware]
       /\ noHwScreen' = (noHwScreen /\ s # "screen")
       /\ key' = (key \/ s = "screen" \/ ui.both)
       /\ owed' = (owed \/ s = "screen" \/ ui.both)
       /\ ring' = IF ui.both THEN [closed |-> FALSE, frames |-> <<>>] ELSE ring
       /\ ui' = IF ui.both THEN [ui EXCEPT !.pc = "startCapture"] ELSE Idle
       /\ mishaps' = mishaps \cup (IF ui.both /\ ~(Quiet(cap.pc) /\ Quiet(snd.pc))
                                   THEN {"overlap"} ELSE {})
    /\ UNCHANGED <<hardware, held, running, peer, cap, snd, vsUsed>>

\* VideoThreadRuntime::startCapture and startSend: join the thread there is, start a new one.
StartCapture ==
    /\ ui.pc = "startCapture" /\ Quiet(cap.pc)
    /\ cap' = [NoThread EXCEPT !.pc = "top"]
    /\ ui' = [ui EXCEPT !.pc = "startSend"]
    /\ UNCHANGED <<hardware, held, running, peer, on, device, noHwScreen, key, ring, snd, owed, mishaps,
                   vsUsed>>

StartSend ==
    /\ ui.pc = "startSend" /\ Quiet(snd.pc)
    /\ snd' = [NoSender EXCEPT !.pc = "configure", !.hw = hardware, !.stale = hardware]
    /\ ui' = Idle
    /\ UNCHANGED <<hardware, held, running, peer, on, device, noHwScreen, key, ring, cap, owed, mishaps,
                   vsUsed>>

\* setSharingEnabled(false) and setCameraSendingEnabled(false), and stop() for both.
Disable(s) ==
    /\ ui.pc = "idle" /\ on[s] /\ vsUsed.switches < MaxSwitches
    /\ vsUsed' = [vsUsed EXCEPT !.switches = @ + 1]
    /\ on' = [on EXCEPT ![s] = FALSE]
    /\ noHwScreen' = (noHwScreen /\ s # "screen")
    /\ ui' = [pc |-> "plan", src |-> s, both |-> FALSE]
    /\ UNCHANGED <<hardware, held, running, peer, device, key, ring, cap, snd, owed, mishaps>>

\* planDisableSharing, planDisableCamera and planSendThreadStop: both threads are joined when no
\* source is left, the capture thread alone when there is one.
PlanDisable ==
    /\ ui.pc = "plan"
    /\ LET both == ~on[Other(ui.src)] /\ snd.pc # "none"
           join == both \/ cap.pc # "none" IN
       /\ ring' = [ring EXCEPT !.closed = @ \/ join]
       /\ ui' = [ui EXCEPT !.pc = IF join THEN "joinCapture" ELSE "finish", !.both = both]
       /\ mishaps' = mishaps \cup (IF on[Other(ui.src)] THEN {"half"} ELSE {})
    /\ UNCHANGED <<hardware, held, running, peer, on, device, noHwScreen, key, cap, snd, owed, vsUsed>>

JoinCapture ==
    /\ ui.pc = "joinCapture" /\ Quiet(cap.pc)
    /\ cap' = NoThread
    /\ ui' = [ui EXCEPT !.pc = IF ui.both THEN "joinSend" ELSE "finish"]
    /\ UNCHANGED <<hardware, held, running, peer, on, device, noHwScreen, key, ring, snd, owed, mishaps,
                   vsUsed>>

JoinSend ==
    /\ ui.pc = "joinSend" /\ Quiet(snd.pc)
    /\ snd' = NoSender
    /\ ui' = [ui EXCEPT !.pc = "finish"]
    /\ UNCHANGED <<hardware, held, running, peer, on, device, noHwScreen, key, ring, cap, owed, mishaps,
                   vsUsed>>

\* The key frame flag takes the value of the plan; the source's capture is stopped.
FinishDisable ==
    /\ ui.pc = "finish" /\ held = "none"
    /\ key' = IF ui.src = "screen" THEN on["camera"] ELSE key /\ on["screen"]
    /\ owed' = IF ui.src = "screen" THEN on["camera"] ELSE owed /\ on["screen"]
    /\ device' = [device EXCEPT ![ui.src] = FALSE]
    /\ ui' = Idle
    /\ UNCHANGED <<hardware, held, running, peer, on, noHwScreen, ring, cap, snd, mishaps, vsUsed>>

\* ScreenShareSession::stop: everything is switched off and the threads joined as above.
Stop ==
    /\ ui.pc = "idle" /\ running /\ vsUsed.switches < MaxSwitches
    /\ vsUsed' = [vsUsed EXCEPT !.switches = @ + 1]
    /\ running' = FALSE
    /\ on' = [s \in Sources |-> FALSE]
    /\ noHwScreen' = FALSE /\ key' = FALSE /\ owed' = FALSE
    /\ ring' = [ring EXCEPT !.closed = TRUE]
    /\ ui' = [pc |-> "joinCapture", src |-> "camera", both |-> snd.pc # "none"]
    /\ UNCHANGED <<hardware, held, peer, device, cap, snd, mishaps>>

\* setPeer, called on the interface thread when the transport answer arrives
SetPeer ==
    /\ ui.pc = "idle" /\ held = "none" /\ running /\ ~peer
    /\ peer' = TRUE
    /\ UNCHANGED <<hardware, running, on, device, noHwScreen, key, ring, ui, held, cap, snd, owed,
                   mishaps, vsUsed>>

\* setPreferredCameraDeviceName: the send thread is told of another camera.
SwitchCamera ==
    /\ ui.pc = "idle" /\ held = "none" /\ hardware /\ snd.pc # "none" /\ ~snd.stale
    /\ vsUsed.switches < MaxSwitches
    /\ vsUsed' = [vsUsed EXCEPT !.switches = @ + 1]
    /\ snd' = [snd EXCEPT !.stale = TRUE]
    /\ UNCHANGED <<hardware, running, peer, on, device, noHwScreen, key, ring, ui, held, cap, owed, mishaps>>

\* ... or any other call that takes m_mutex is made before the one that its holder waits for.
CallBlocks ==
    /\ ui.pc = "idle" /\ held # "none" /\ vsUsed.switches < MaxSwitches
    /\ ui' = [ui EXCEPT !.pc = "blocked"]
    /\ UNCHANGED <<hardware, running, peer, on, device, noHwScreen, key, ring, held, cap, snd, owed,
                   mishaps, vsUsed>>

-----------------------------------------------------------------------------
(* captureLoop.                                                              *)

CapStep(pc) ==
    /\ cap' = [cap EXCEPT !.pc = pc]
    /\ UNCHANGED <<hardware, running, peer, noHwScreen, key, ui, held, snd, owed>>

MutantCaptureTop ==
    /\ cap.pc = "top"
    /\ LET s == ResolveSendSource IN
       \/ ~running /\ CapStep("close")
       \/ /\ running /\ AnyOn /\ peer /\ ~hardware
          /\ cap' = [pc |-> "pull", src |-> s]
          /\ UNCHANGED <<hardware, running, peer, noHwScreen, key, ui, held, snd, owed>>
    /\ UNCHANGED <<on, device, ring, mishaps, vsUsed>>

\* Without a peer the thread waits; it ends when no source is left.  Under the hardware profile
\* it passes over what the send thread captures by itself.
CaptureTop ==
    /\ cap.pc = "top"
    /\ LET s == ResolveSendSource
           bypass == hardware /\ CASE s = "screen" -> ~noHwScreen
                                   [] s = "camera" -> ~device["camera"]
                                   [] OTHER        -> FALSE IN
       \/ ~(running /\ AnyOn) /\ CapStep("close")
       \/ /\ running /\ AnyOn /\ peer /\ ~bypass /\ held = "none"
          /\ cap' = [pc |-> "pull", src |-> s]
          /\ UNCHANGED <<hardware, running, peer, noHwScreen, key, ui, held, snd, owed>>
    /\ UNCHANGED <<on, device, ring, mishaps, vsUsed>>

\* VideoSendSourcePipeline::pullFrame with a frame at hand.  A camera frame is thrown away when
\* the screen is shared by now, or the camera off.
PullFrame ==
    /\ cap.pc = "pull" /\ device[cap.src]
    /\ CapStep(IF cap.src = ResolveSendSource THEN "push" ELSE "top")
    /\ UNCHANGED <<on, device, ring, mishaps, vsUsed>>

\* ... with none within 100 ms: try again.
PullNothing ==
    /\ cap.pc = "pull"
    /\ (cap.src = "screen" /\ ~device["screen"]) \/ cap.src # ResolveSendSource
    /\ CapStep("top")
    /\ UNCHANGED <<on, device, ring, mishaps, vsUsed>>

\* ... with none for three seconds, or no camera: the camera is switched off from this thread,
\* which holds m_mutex and waits for the interface thread to stop the capture.
PullAborts ==
    /\ cap.pc = "pull" /\ cap.src = "camera" /\ held = "none"
    /\ on' = [on EXCEPT !["camera"] = FALSE]
    /\ mishaps' = mishaps \cup (IF on["screen"] \/ (ui.pc = "enable" /\ ~ui.both)
                                THEN {"abort"} ELSE {})
    /\ IF device["camera"]
       THEN Upset /\ held' = "cap" /\ cap' = [cap EXCEPT !.pc = "stopCamera"]
       ELSE UNCHANGED <<vsUsed, held>> /\ cap' = [cap EXCEPT !.pc = "error"]
    /\ UNCHANGED <<hardware, running, peer, device, noHwScreen, key, ring, ui, snd, owed>>

\* CameraCapture::stop by way of invokeOnQtThread
AbortStopsCamera ==
    /\ cap.pc = "stopCamera" /\ ui.pc = "idle"
    /\ held' = "none"
    /\ device' = [device EXCEPT !["camera"] = FALSE]
    /\ cap' = [cap EXCEPT !.pc = "error"]
    /\ UNCHANGED <<hardware, running, peer, on, noHwScreen, key, ring, ui, snd, owed, mishaps, vsUsed>>

\* errorCallback, which posts a call to the interface thread
CaptureError ==
    /\ cap.pc = "error" /\ CapStep("close")
    /\ UNCHANGED <<on, device, ring, mishaps, vsUsed>>

PushFrame ==
    /\ cap.pc = "push"
    /\ CapStep(IF ring.closed THEN "close" ELSE "top")
    /\ ring' = IF ring.closed THEN ring ELSE Push(ring, cap.src)
    /\ UNCHANGED <<on, device, mishaps, vsUsed>>

CloseRing ==
    /\ cap.pc = "close" /\ CapStep("done")
    /\ ring' = [ring EXCEPT !.closed = TRUE]
    /\ UNCHANGED <<on, device, mishaps, vsUsed>>

-----------------------------------------------------------------------------
(* sendLoop.                                                                 *)

SndElse == UNCHANGED <<hardware, running, peer, on, ui, cap>>
SndStep == SndElse /\ UNCHANGED held
SndKeep == UNCHANGED <<device, noHwScreen, key, ring, owed, mishaps, vsUsed>>

\* The encoder opens, or a hardware encoder does not and the software one takes its place with
\* the software captures, the camera's by way of the interface thread, or neither does: the
\* thread ends after the error callback.
Configure ==
    /\ snd.pc = "configure"
    /\ \/ snd' = [snd EXCEPT !.pc = "top"] /\ SndKeep /\ UNCHANGED held
       \/ /\ snd.hw /\ held = "none" /\ Upset
          /\ IF on["camera"] /\ ~device["camera"]
             THEN snd' = [snd EXCEPT !.pc = "startCamera", !.hw = FALSE] /\ held' = "snd"
             ELSE snd' = [snd EXCEPT !.pc = "top", !.hw = FALSE] /\ UNCHANGED held
          /\ noHwScreen' = TRUE
          /\ device' = [device EXCEPT !["screen"] = TRUE]
          /\ UNCHANGED <<key, ring, owed, mishaps>>
       \/ /\ Upset
          /\ snd' = [snd EXCEPT !.pc = "done"]
          /\ mishaps' = mishaps \cup {"encoder"}
          /\ UNCHANGED <<device, noHwScreen, key, ring, held, owed>>
    /\ SndElse

\* CameraCapture::start and CameraCapture::stop by way of invokeOnQtThread
CameraOnUi ==
    /\ snd.pc \in {"startCamera", "stopCamera"} /\ ui.pc = "idle"
    /\ held' = "none"
    /\ device' = [device EXCEPT !["camera"] = snd.pc = "startCamera"]
    /\ snd' = [snd EXCEPT !.pc = "top"]
    /\ UNCHANGED <<noHwScreen, key, ring, owed, mishaps, vsUsed>> /\ SndElse

\* Without a peer only a shared screen goes on, for the local preview.
SendTop ==
    /\ snd.pc = "top"
    /\ \/ ~(running /\ AnyOn) /\ snd' = [snd EXCEPT !.pc = "done"]
       \/ /\ running /\ AnyOn /\ (peer \/ on["screen"])
          /\ snd' = [snd EXCEPT !.pc = "get", !.src = ResolveSendSource]
    /\ SndKeep /\ SndStep

UseHardware(s) == snd.hw /\ (s = "screen" => ~noHwScreen)
UseReadback(s) == hardware /\ s = "screen" /\ noHwScreen /\ snd.readback

\* popWait on the ring buffer.  A frame of another source is dropped; a closed and empty buffer
\* ends the thread.
PopFrame ==
    /\ snd.pc = "get" /\ ~UseHardware(snd.src) /\ ~UseReadback(snd.src)
    /\ IF ring.frames # <<>>
       THEN /\ ring' = [ring EXCEPT !.frames = Tail(@)]
            /\ snd' = [snd EXCEPT !.pc = CASE Head(ring.frames) # snd.src -> "top"
                                          [] OTHER -> IF snd.stale /\ snd.src = "camera"
                                                      THEN "restore" ELSE "encode"]
       ELSE /\ snd' = [snd EXCEPT !.pc = IF ring.closed THEN "done" ELSE "top"]
            /\ UNCHANGED ring
    /\ UNCHANGED <<device, noHwScreen, key, owed, mishaps, vsUsed>> /\ SndStep

\* The first camera frame of a thread, or of another camera: the hardware encoder is tried again
\* in place of the software one, whose capture stops.  The frame at hand is not encoded, and a
\* key frame flag taken for it is lost.  Without that encoder the profile is the hardware one
\* all the same.
RestoreHardware ==
    /\ snd.pc = "restore" /\ held = "none"
    /\ snd' = [snd EXCEPT !.pc = IF device["camera"] THEN "stopCamera" ELSE "top",
                          !.hw = TRUE, !.stale = FALSE]
    /\ held' = IF device["camera"] THEN "snd" ELSE "none"
    /\ \/ UNCHANGED <<key, mishaps>>
       \/ /\ peer /\ key' = FALSE
          /\ mishaps' = mishaps \cup (IF key THEN {"keyLost"} ELSE {})
    /\ UNCHANGED <<device, noHwScreen, ring, owed, vsUsed>> /\ SndElse

\* Hardware capture and GPU readback deliver a frame, or nothing yet.
CaptureOnGpu ==
    /\ snd.pc = "get" /\ (UseHardware(snd.src) \/ UseReadback(snd.src))
    /\ \E pc \in {"encode", "top"} :
           snd' = [snd EXCEPT !.pc = pc, !.hw = @ /\ UseHardware(snd.src),
                              !.stale = @ /\ snd.src # "camera"]
    /\ SndKeep /\ SndStep

\* ... or fail: a screen falls back to readback and then to the software capture, a camera is
\* tried again and again.
GpuFails ==
    /\ snd.pc = "get" /\ (UseHardware(snd.src) \/ UseReadback(snd.src)) /\ Upset
    /\ snd' = [snd EXCEPT !.pc = "top", !.stale = @ /\ snd.src # "camera",
                          !.hw = @ /\ snd.src = "camera",
                          !.readback = @ /\ ~UseReadback(snd.src)]
    /\ noHwScreen' = (noHwScreen \/ snd.src = "screen")
    /\ device' = [device EXCEPT !["screen"] = @ \/ UseReadback(snd.src)]
    /\ UNCHANGED <<key, ring, owed, mishaps>> /\ SndStep

\* The key frame flag is taken before the frame is prepared and encoded.
TakeKeyFrameFlag ==
    /\ snd.pc = "encode"
    /\ snd' = IF peer THEN [snd EXCEPT !.pc = "packets", !.force = key]
              ELSE [snd EXCEPT !.pc = "top"]
    /\ key' = (key /\ ~peer)
    /\ UNCHANGED <<device, noHwScreen, ring, owed, mishaps, vsUsed>> /\ SndStep

MutantSendPackets ==
    /\ snd.pc = "packets"
    /\ \E keyFrame \in BOOLEAN : owed' = (owed /\ ~keyFrame)
    /\ UNCHANGED key
    /\ snd' = [snd EXCEPT !.pc = "top", !.force = FALSE]
    /\ UNCHANGED <<device, noHwScreen, ring, mishaps, vsUsed>> /\ SndStep

\* The encoder need not obey: then the flag is set again.
SendPackets ==
    /\ snd.pc = "packets"
    /\ \E keyFrame \in BOOLEAN :
           /\ key' = (key \/ (snd.force /\ ~keyFrame))
           /\ owed' = (owed /\ ~keyFrame)
    /\ snd' = [snd EXCEPT !.pc = "top", !.force = FALSE]
    /\ UNCHANGED <<device, noHwScreen, ring, mishaps, vsUsed>> /\ SndStep

\* The frame does not fit, the encoder fails or holds the frame back, SRTP is not ready: the
\* flag that was taken is not set again.
FrameLost ==
    /\ snd.pc = "packets" /\ Upset
    /\ snd' = [snd EXCEPT !.pc = "top", !.force = FALSE]
    /\ mishaps' = mishaps \cup (IF snd.force THEN {"keyLost"} ELSE {})
    /\ UNCHANGED <<device, noHwScreen, key, ring, owed>> /\ SndStep

\* A picture loss indication of a receiver: applyRtcpDispatchPlanLocked on the receive thread.
PictureLoss ==
    /\ running /\ peer /\ AnyOn /\ snd.pc \notin {"none", "done"} /\ Upset
    /\ key' = TRUE /\ owed' = TRUE
    /\ UNCHANGED <<hardware, held, running, peer, on, device, noHwScreen, ring, ui, cap, snd, mishaps>>

UiSteps ==
    Enable \/ StartCapture \/ StartSend \/ PlanDisable \/ JoinCapture \/ JoinSend \/ FinishDisable
CaptureSteps ==
    CaptureTop \/ PullFrame \/ PullNothing \/ PullAborts \/ AbortStopsCamera \/ CaptureError
    \/ PushFrame \/ CloseRing
SendSteps ==
    Configure \/ CameraOnUi \/ SendTop \/ PopFrame \/ RestoreHardware \/ CaptureOnGpu \/ GpuFails \/ TakeKeyFrameFlag
    \/ SendPackets \/ FrameLost

VsNext ==
    \/ \E s \in Sources : PlanEnable(s) \/ Disable(s)
    \/ Stop \/ SetPeer \/ SwitchCamera \/ CallBlocks \/ CaptureFails \/ PictureLoss
    \/ UiSteps \/ CaptureSteps \/ SendSteps

-----------------------------------------------------------------------------
(* Properties.                                                               *)

VsTypeOK ==
    /\ hardware \in BOOLEAN /\ running \in BOOLEAN /\ peer \in BOOLEAN /\ key \in BOOLEAN
    /\ on \in [Sources -> BOOLEAN] /\ device \in [Sources -> BOOLEAN] /\ noHwScreen \in BOOLEAN
    /\ ring.closed \in BOOLEAN /\ ring.frames \in Seq(Sources) /\ Len(ring.frames) <= RingCapacity
    /\ ui.pc \in {"idle", "enable", "startCapture", "startSend", "plan", "joinCapture",
                  "joinSend", "finish", "blocked"}
    /\ held \in {"none", "cap", "snd"}
    /\ cap.pc \in {"none", "top", "pull", "push", "stopCamera", "error", "close", "done"}
    /\ snd.pc \in {"none", "configure", "startCamera", "stopCamera", "top", "get", "restore", "encode", "packets", "done"}
    /\ owed \in BOOLEAN /\ mishaps \subseteq {"overlap", "half", "abort", "encoder", "keyLost"}

\* An enabled source is sent: whenever the interface thread is free and a source is enabled, the
\* two threads run and the ring buffer between them is open.  Three interleavings break this in
\* the code and are recorded: a source switched off while the other is on ("half": the capture
\* thread is joined, nobody starts it again), a camera that stalls just as the screen is shared
\* ("abort": the capture thread leaves with the camera's source), and a source switched on while
\* the threads of an aborted stream still wind down ("overlap": the old capture thread closes
\* the ring buffer that was reset for the new ones).
SenderAlive ==
    ui.pc = "idle" /\ AnyOn /\ mishaps \subseteq {"keyLost"} =>
        /\ running /\ ~ring.closed
        /\ cap.pc \in {"top", "pull", "push"}
        /\ snd.pc \notin {"none", "done"}

\* A key frame the receivers wait for is not forgotten: from the moment a source starts, the
\* shared screen takes over or a picture loss is reported, until a key frame has been sent, the
\* request is pending or in the encoder's hands.
KeyFrameOwed ==
    owed /\ AnyOn /\ "keyLost" \notin mishaps => key \/ snd.force

\* Switching a source returns to the interface thread: the threads it joins end, and the mutex it
\* asks for is released.  Three cases of the code are left out.  The joins of "half" wait for a
\* thread that has no reason to stop (no peer yet, or the hardware profile), those of "overlap"
\* for a send thread that sees the source switched on again.  And a capture or send thread that
\* starts or stops the camera holds m_mutex until the interface thread runs its call: when that
\* thread is in a switch by then, each waits for the other.
SwitchReturns ==
    []<>(ui.pc = "idle" \/ held # "none" \/ mishaps \cap {"half", "overlap"} # {})
=============================================================================
