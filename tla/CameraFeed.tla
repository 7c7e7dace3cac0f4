------------------------------ MODULE CameraFeed ------------------------------
(* From the camera to the capture thread of the video session: the capture    *)
(* object with its backends (av/capture/CameraCapture.cpp), the queue between *)
(* the thread that reads the camera and the one that pulls frames             *)
(* (av/session/CameraFrameRelay.cpp), and the calls of the session that start,*)
(* switch and stop them (ScreenShareSessionCamera.cpp).  The session's mutex  *)
(* serialises starting and stopping, the relay's flags are set outside of it, *)
(* and frames of a camera that is being stopped are still on their way.       *)
EXTENDS Integers, Sequences

CONSTANTS
    Orders,     \* the backends a start may try, one after the other
    Capacity,   \* the relay keeps 3 frames
    MaxPts,     \* bound: time stamps of a capture
    MaxStarts   \* bound: captures started

Backends == {"dshow", "ffmpeg", "qt"}

VARIABLES
    order,      \* MEETING_CAMERA_CAPTURE_BACKEND and the platform
    relay,      \* the relay: generation, flags, queue, last time stamp, and
                \* whether a frame has been accepted since the queue was cleared
    feeds,      \* the captures, the youngest last
    current,    \* m_cameraCapture: its number, or 0
    sending,    \* m_cameraSendingEnabled
    mutex,      \* who holds m_mutex: "", "ui" or "cap"
    ui,         \* the interface thread
    cap,        \* the capture thread, which pulls from the relay
    pulled,     \* history: the frame pulled last
    lost        \* history: a thread object was overwritten while joinable

cfVars == <<order, relay, feeds, current, sending, mutex, ui, cap, pulled, lost>>

IdleUi == [pc |-> "idle", try |-> 1, again |-> FALSE, ok |-> TRUE]
Nothing == [gen |-> 0, pts |-> -1]
NewFeed == [gen |-> 0, callback |-> TRUE, running |-> FALSE, stop |-> FALSE, joinable |-> FALSE,
            startup |-> "none", pc |-> "off"]

CfInit ==
    /\ order \in Orders
    /\ relay = [gen |-> 0, on |-> FALSE, sharing |-> FALSE, frames |-> <<>>, last |-> -1,
                accepted |-> FALSE]
    /\ feeds = <<>> /\ current = 0 /\ sending = FALSE
    /\ mutex = "" /\ ui = IdleUi /\ cap = "done"
    /\ pulled = Nothing /\ lost = FALSE

Cleared(r) == [r EXCEPT !.frames = <<>>, !.last = -1, !.accepted = FALSE]
Youngest == Len(feeds)

-----------------------------------------------------------------------------
(* CameraCapture: a start tries its backends in turn.                         *)

\* startQtCapture: frames come on the interface thread.
StartQtCapture(c) ==
    [feeds EXCEPT ![c] = [@ EXCEPT !.running = TRUE, !.pc = "qt"]]

\* startDshowFallback, startFfmpegProcessFallback: a thread that opens the camera.
StartFallback(c) ==
    [feeds EXCEPT ![c] = [@ EXCEPT !.running = TRUE, !.stop = FALSE, !.joinable = TRUE,
                                   !.startup = "none", !.pc = "open"]]

\* CameraCapture::Impl::start, the next attempt: with Qt there may be no device.
TryBackend ==
    /\ ui.pc = "try" /\ ui.try <= Len(order)
    /\ LET c == Youngest IN
       IF order[ui.try] = "qt"
       THEN \/ feeds' = StartQtCapture(c) /\ ui' = [ui EXCEPT !.pc = "started"] /\ UNCHANGED lost
            \/ ui' = [ui EXCEPT !.try = @ + 1] /\ UNCHANGED <<feeds, lost>>
       ELSE /\ feeds' = StartFallback(c)
            /\ ui' = [ui EXCEPT !.pc = "wait"]
            /\ lost' = (lost \/ feeds[c].joinable)
    /\ UNCHANGED <<order, relay, current, sending, mutex, cap, pulled>>

\* The thread has opened the camera within kFallbackStartupTimeout ...
StartupSucceeds ==
    /\ ui.pc = "wait" /\ feeds[Youngest].startup = "ok"
    /\ ui' = [ui EXCEPT !.pc = "started"]
    /\ UNCHANGED <<order, relay, feeds, current, sending, mutex, cap, pulled, lost>>

\* ... or has failed, or five seconds have passed: the thread is told to stop and joined.
StartupFails ==
    /\ ui.pc = "wait" /\ feeds[Youngest].startup # "ok"
    /\ feeds' = [feeds EXCEPT ![Youngest] = [@ EXCEPT !.stop = TRUE, !.running = FALSE]]
    /\ ui' = [ui EXCEPT !.pc = "join"]
    /\ UNCHANGED <<order, relay, current, sending, mutex, cap, pulled, lost>>

MutantJoinFailed ==
    /\ ui.pc = "join"
    /\ ui' = [ui EXCEPT !.pc = "try", !.try = @ + 1]
    /\ UNCHANGED <<order, relay, feeds, current, sending, mutex, cap, pulled, lost>>

\* fallbackThread.join and resetDshowCapture, then the next attempt
JoinFailed ==
    /\ ui.pc = "join" /\ feeds[Youngest].pc = "ended"
    /\ feeds' = [feeds EXCEPT ![Youngest] = [@ EXCEPT !.joinable = FALSE, !.pc = "off"]]
    /\ ui' = [ui EXCEPT !.pc = "try", !.try = @ + 1]
    /\ UNCHANGED <<order, relay, current, sending, mutex, cap, pulled, lost>>

\* CameraCapture::Impl::stop on capture c, up to the join
Stopping(c) == [feeds EXCEPT ![c] = [@ EXCEPT !.running = FALSE, !.stop = TRUE,
                                              !.pc = IF @ = "qt" THEN "off" ELSE @]]
\* ... and from the join on
Joined(c) == feeds[c].pc \in {"off", "ended"}
Stopped(c) == [feeds EXCEPT ![c] = [@ EXCEPT !.joinable = FALSE, !.pc = "off"]]

-----------------------------------------------------------------------------
(* The thread that reads the camera, or Qt's signal on the interface thread   *)

Feed(c, pc) == feeds' = [feeds EXCEPT ![c].pc = pc]
OnUi(c) == feeds[c].joinable = FALSE
FeedOnly == UNCHANGED <<order, current, sending, mutex, cap, pulled, lost>>

\* The frame is done with: back to the loop, or to the event loop.
Handled(c) == /\ Feed(c, IF OnUi(c) THEN (IF feeds[c].running THEN "qt" ELSE "off") ELSE "loop")
              /\ ui' = IF OnUi(c) THEN IdleUi ELSE ui

\* openDshowCapture or probeFfmpegProcessCapture, and what the starting thread is told
OpenCamera(c) ==
    /\ feeds[c].pc = "open"
    /\ \E ok \in BOOLEAN :
           feeds' = [feeds EXCEPT ![c] = [@ EXCEPT !.startup = IF ok THEN "ok" ELSE "failed",
                                                   !.pc = IF ok THEN "loop" ELSE "fail"]]
    /\ FeedOnly /\ UNCHANGED <<relay, ui>>

FailOpen(c) ==
    /\ feeds[c].pc = "fail"
    /\ feeds' = [feeds EXCEPT ![c] = [@ EXCEPT !.running = FALSE, !.pc = "ended"]]
    /\ FeedOnly /\ UNCHANGED <<relay, ui>>

\* runDshowLoop and runFfmpegProcessLoop: a frame, or the camera is gone
ReadCamera(c) ==
    /\ feeds[c].pc = "loop"
    /\ IF feeds[c].running /\ ~feeds[c].stop
       THEN Feed(c, "emit") \/ Feed(c, "leave")
       ELSE Feed(c, "leave")
    /\ FeedOnly /\ UNCHANGED <<relay, ui>>

LeaveLoop(c) ==
    /\ feeds[c].pc = "leave"
    /\ feeds' = [feeds EXCEPT ![c] = [@ EXCEPT !.running = @ /\ feeds[c].stop, !.pc = "ended"]]
    /\ FeedOnly /\ UNCHANGED <<relay, ui>>

\* emitFrame: running is looked at, and the callback copied.
EmitFrame(c) ==
    /\ feeds[c].pc = "emit"
    /\ Feed(c, IF feeds[c].running /\ feeds[c].callback THEN "check" ELSE "loop")
    /\ FeedOnly /\ UNCHANGED <<relay, ui>>

EmitQtFrame(c) ==
    /\ feeds[c].pc = "qt" /\ ui.pc = "idle" /\ feeds[c].running /\ feeds[c].callback
    /\ Feed(c, "check") /\ ui' = [ui EXCEPT !.pc = "frame"]
    /\ FeedOnly /\ UNCHANGED relay

\* QCamera::errorOccurred
QtError(c) ==
    /\ feeds[c].pc = "qt" /\ ui.pc = "idle" /\ feeds[c].running
    /\ feeds' = [feeds EXCEPT ![c].running = FALSE]
    /\ FeedOnly /\ UNCHANGED <<relay, ui>>

Welcome(c) == relay.on /\ ~relay.sharing /\ relay.gen = feeds[c].gen

\* enqueueFrame: a look at the flags without the relay's mutex ...
CheckFrame(c) ==
    /\ feeds[c].pc = "check"
    /\ IF Welcome(c) THEN Feed(c, "accept") /\ UNCHANGED ui ELSE Handled(c)
    /\ FeedOnly /\ UNCHANGED relay

\* ... one with it, where frames that come too fast are dropped ...
AcceptFrame(c) ==
    /\ feeds[c].pc = "accept"
    /\ \/ /\ Welcome(c) /\ relay' = [relay EXCEPT !.accepted = TRUE]
          /\ Feed(c, "queue") /\ UNCHANGED ui
       \/ /\ Welcome(c) => relay.accepted
          /\ Handled(c) /\ UNCHANGED relay
    /\ FeedOnly

MutantQueueFrame(c) ==
    /\ feeds[c].pc = "queue"
    /\ \E pts \in relay.last + 1 .. MaxPts :
           relay' = [relay EXCEPT
                        !.last = pts,
                        !.frames = Append(IF Len(@) >= Capacity THEN Tail(@) ELSE @,
                                          [gen |-> feeds[c].gen, pts |-> pts])]
    /\ Handled(c)
    /\ FeedOnly

\* ... and one more when it is stamped and queued, the oldest making room.
QueueFrame(c) ==
    /\ feeds[c].pc = "queue"
    /\ IF Welcome(c)
       THEN \E pts \in relay.last + 1 .. MaxPts :
                relay' = [relay EXCEPT
                             !.last = pts,
                             !.frames = Append(IF Len(@) >= Capacity THEN Tail(@) ELSE @,
                                               [gen |-> feeds[c].gen, pts |-> pts])]
       ELSE UNCHANGED relay
    /\ Handled(c)
    /\ FeedOnly

FeedSteps(c) ==
    \/ OpenCamera(c) \/ FailOpen(c) \/ ReadCamera(c) \/ LeaveLoop(c) \/ EmitFrame(c)
    \/ EmitQtFrame(c) \/ QtError(c) \/ CheckFrame(c) \/ AcceptFrame(c) \/ QueueFrame(c)

-----------------------------------------------------------------------------
(* The interface thread                                                       *)

UiAt(from, to) == ui.pc = from /\ ui' = [ui EXCEPT !.pc = to]
Bumped == relay' = [relay EXCEPT !.gen = @ + 1]

\* setCameraSendingEnabled(true), startCameraCaptureLocked
EnableCamera ==
    /\ ~sending /\ mutex = "" /\ Youngest < MaxStarts
    /\ UiAt("idle", "begin") /\ mutex' = "ui"
    /\ feeds' = Append(feeds, NewFeed)
    /\ UNCHANGED <<order, relay, current, sending, cap, pulled, lost>>

\* beginCapture: the generation first, then the queue
BeginCapture ==
    /\ UiAt("begin", "clear") /\ Bumped
    /\ feeds' = [feeds EXCEPT ![Youngest].gen = relay.gen + 1]
    /\ UNCHANGED <<order, current, sending, mutex, cap, pulled, lost>>

BeginCleared ==
    /\ UiAt("clear", "try") /\ relay' = Cleared(relay)
    /\ UNCHANGED <<order, feeds, current, sending, mutex, cap, pulled, lost>>

\* The capture runs: m_cameraCapture, or a switch of devices is over.
Started ==
    /\ ui.pc = "started" /\ ui' = IF ui.again THEN IdleUi ELSE [IdleUi EXCEPT !.pc = "enable"]
    /\ current' = Youngest /\ mutex' = ""
    /\ UNCHANGED <<order, relay, feeds, sending, cap, pulled, lost>>

\* No backend: the callback is cleared and the relay invalidated.  A switch goes back to the
\* device before, once.
StartFails ==
    /\ ui.pc = "try" /\ ui.try > Len(order)
    /\ IF ui.again
       THEN /\ ui' = IF ui.ok THEN [ui EXCEPT !.try = 1, !.ok = FALSE] ELSE IdleUi
            /\ mutex' = IF ui.ok THEN mutex ELSE ""
            /\ UNCHANGED feeds
       ELSE /\ ui' = [ui EXCEPT !.pc = "failed"]
            /\ feeds' = [feeds EXCEPT ![Youngest].callback = FALSE]
            /\ UNCHANGED mutex
    /\ UNCHANGED <<order, relay, current, sending, cap, pulled, lost>>

\* The rest of setCameraSendingEnabled(true), outside of the mutex: the flags, and the threads
\* of an earlier stream are joined before new ones start.
EnableSending ==
    /\ UiAt("enable", "enableRelay") /\ sending' = TRUE
    /\ UNCHANGED <<order, relay, feeds, current, mutex, cap, pulled, lost>>

EnableRelay ==
    /\ UiAt("enableRelay", "startCap") /\ relay' = [relay EXCEPT !.on = TRUE]
    /\ UNCHANGED <<order, feeds, current, sending, mutex, cap, pulled, lost>>

StartCaptureThread ==
    /\ cap = "done" /\ ui.pc = "startCap" /\ ui' = IdleUi /\ cap' = "top"
    /\ UNCHANGED <<order, relay, feeds, current, sending, mutex, pulled, lost>>

\* setCameraSendingEnabled(false)
DisableSending ==
    /\ sending /\ UiAt("idle", "disable") /\ sending' = FALSE
    /\ UNCHANGED <<order, relay, feeds, current, mutex, cap, pulled, lost>>

\* setCameraEnabled(false): the flag, then the queue
DisableRelay ==
    /\ UiAt("disable", "disableClear") /\ relay' = [relay EXCEPT !.on = FALSE]
    /\ UNCHANGED <<order, feeds, current, sending, mutex, cap, pulled, lost>>

DisableCleared ==
    /\ UiAt("disableClear", "joinCap") /\ relay' = Cleared(relay)
    /\ UNCHANGED <<order, feeds, current, sending, mutex, cap, pulled, lost>>

JoinCaptureThread ==
    /\ cap = "done" /\ mutex = "" /\ UiAt("joinCap", "failed") /\ mutex' = "ui"
    /\ UNCHANGED <<order, relay, feeds, current, sending, cap, pulled, lost>>

\* setSharingEnabled of the relay; frames that are queued stay.
ToggleSharing ==
    /\ ui.pc = "idle" /\ relay' = [relay EXCEPT !.sharing = ~@]
    /\ UNCHANGED <<order, feeds, current, sending, mutex, ui, cap, pulled, lost>>

\* setPreferredCameraDeviceName: the capture at hand stops and starts again, with its callback
\* and its generation.
SwitchDevice ==
    /\ mutex = "" /\ current # 0 /\ ui.pc = "idle" /\ feeds[current].running
    /\ feeds' = Stopping(current)
    /\ ui' = [ui EXCEPT !.pc = "switchJoin", !.again = TRUE] /\ mutex' = "ui"
    /\ UNCHANGED <<order, relay, current, sending, cap, pulled, lost>>

SwitchJoined ==
    /\ UiAt("switchJoin", "try") /\ Joined(current)
    /\ feeds' = Stopped(current)
    /\ UNCHANGED <<order, relay, current, sending, mutex, cap, pulled, lost>>

UiSteps ==
    \/ TryBackend \/ StartupSucceeds \/ StartupFails \/ JoinFailed
    \/ EnableCamera \/ BeginCapture \/ BeginCleared \/ Started \/ StartFails
    \/ EnableSending \/ EnableRelay \/ StartCaptureThread
    \/ DisableSending \/ DisableRelay \/ DisableCleared \/ JoinCaptureThread
    \/ ToggleSharing \/ SwitchDevice \/ SwitchJoined

-----------------------------------------------------------------------------
(* stopCameraCaptureLocked, on the interface thread or the capture thread:    *)
(* invalidate bumps the generation, clears the flag, then the queue; then the *)
(* callback is cleared and the capture stopped, always on the interface       *)
(* thread, for which the capture thread has to wait.                          *)

At(t) == IF t = "ui" THEN ui.pc ELSE cap
Go(t, pc) == IF t = "ui" THEN ui' = [ui EXCEPT !.pc = pc] /\ UNCHANGED cap
                         ELSE cap' = pc /\ UNCHANGED ui

InvalidateRelay(t) ==
    /\ At(t) = "failed" /\ Bumped /\ Go(t, "invalid1")
    /\ UNCHANGED <<order, feeds, current, sending, mutex, pulled, lost>>

InvalidateOff(t) ==
    /\ At(t) = "invalid1" /\ relay' = [relay EXCEPT !.on = FALSE] /\ Go(t, "invalid2")
    /\ UNCHANGED <<order, feeds, current, sending, mutex, pulled, lost>>

InvalidateClear(t) ==
    /\ At(t) = "invalid2" /\ relay' = Cleared(relay) /\ Go(t, "stop")
    /\ UNCHANGED <<order, feeds, current, sending, mutex, pulled, lost>>

StopCapture(t) ==
    /\ At(t) = "stop" /\ (t = "cap" => ui.pc = "idle")
    /\ IF current # 0
       THEN feeds' = [Stopping(current) EXCEPT ![current].callback = FALSE]
       ELSE UNCHANGED feeds
    /\ ui' = [ui EXCEPT !.pc = "stopJoin"]
    /\ cap' = IF t = "cap" THEN "stopJoin" ELSE cap
    /\ UNCHANGED <<order, relay, current, sending, mutex, pulled, lost>>

CaptureStopped ==
    /\ ui.pc = "stopJoin" /\ (current # 0 => Joined(current))
    /\ feeds' = IF current # 0 THEN Stopped(current) ELSE feeds
    /\ current' = 0 /\ mutex' = "" /\ ui' = IdleUi
    /\ cap' = IF cap = "stopJoin" THEN "done" ELSE cap
    /\ UNCHANGED <<order, relay, sending, pulled, lost>>

StopSteps == CaptureStopped \/ \E t \in {"ui", "cap"} :
    InvalidateRelay(t) \/ InvalidateOff(t) \/ InvalidateClear(t) \/ StopCapture(t)

-----------------------------------------------------------------------------
(* The capture thread                                                         *)

CapAt(from, to) == cap = from /\ cap' = to

\* The snapshot of a round, taken under the session's mutex: a camera that does not run ends it.
Snapshot ==
    /\ IF ~sending THEN CapAt("top", "done")
       ELSE /\ mutex = ""
            /\ CapAt("top", IF current # 0 /\ feeds[current].running THEN "pop" ELSE "abort")
    /\ UNCHANGED <<order, relay, feeds, current, sending, mutex, ui, pulled, lost>>

MutantPopFrameForEncode ==
    /\ relay.frames # <<>> /\ CapAt("pop", "convert")
    /\ pulled' = relay.frames[Len(relay.frames)]
    /\ relay' = [relay EXCEPT !.frames = SubSeq(@, 1, Len(@) - 1)]
    /\ UNCHANGED <<order, feeds, current, sending, mutex, ui, lost>>

\* popFrameForEncode: the frame at the head, whatever the flags are by now
PopFrameForEncode ==
    /\ relay.frames # <<>> /\ CapAt("pop", "convert")
    /\ pulled' = Head(relay.frames)
    /\ relay' = [relay EXCEPT !.frames = Tail(@)]
    /\ UNCHANGED <<order, feeds, current, sending, mutex, ui, lost>>

\* ... nothing within the timeout or with the flags as they are; for three seconds, the camera
\* is given up.
PopNothing ==
    /\ relay.frames = <<>> /\ (CapAt("pop", "top") \/ CapAt("pop", "abort"))
    /\ UNCHANGED <<order, relay, feeds, current, sending, mutex, ui, pulled, lost>>

\* Mapped, scaled and converted outside of the mutex; a frame that cannot be counts as none.
ConvertFrame ==
    /\ CapAt("convert", "top") \/ CapAt("convert", "abort")
    /\ UNCHANGED <<order, relay, feeds, current, sending, mutex, ui, pulled, lost>>

\* The camera is switched off by the capture thread.
AbortCamera ==
    /\ mutex = "" /\ CapAt("abort", "failed") /\ mutex' = "cap" /\ sending' = FALSE
    /\ UNCHANGED <<order, relay, feeds, current, ui, pulled, lost>>

CapSteps == Snapshot \/ PopFrameForEncode \/ PopNothing \/ ConvertFrame \/ AbortCamera

CfNext == UiSteps \/ StopSteps \/ CapSteps \/ \E c \in 1 .. Len(feeds) : FeedSteps(c)

-----------------------------------------------------------------------------
(* Properties.                                                                *)

CfTypeOK ==
    /\ relay.gen \in Nat /\ relay.on \in BOOLEAN /\ relay.sharing \in BOOLEAN
    /\ Len(relay.frames) <= Capacity /\ relay.last \in -1 .. MaxPts
    /\ current \in 0 .. Len(feeds) /\ sending \in BOOLEAN /\ mutex \in {"", "ui", "cap"}
    /\ \A c \in 1 .. Len(feeds) :
           /\ feeds[c].startup \in {"none", "ok", "failed"}
           /\ feeds[c].joinable => feeds[c].pc # "qt"

\* Somebody is between the generation and the queue, or between the flag and the queue.
Invalidating == {ui.pc, cap} \cap {"clear", "disableClear", "invalid1", "invalid2"} # {}

\* A frame of a camera that has been stopped, or of a capture before this one, is never queued
\* behind the back of the one who cleared the queue: what is queued is of the current
\* generation, in the order of its time stamps, and nothing is while the camera is off.
QueueIsCurrent ==
    ~Invalidating =>
        /\ \A i \in 1 .. Len(relay.frames) :
               /\ relay.frames[i].gen = relay.gen
               /\ i > 1 => relay.frames[i].pts > relay.frames[i - 1].pts
        /\ relay.on \/ relay.frames = <<>>

\* The encoder is fed forwards: within a capture, across mutes and switches of the device, no
\* frame is pulled with a time stamp that is not later than that of the one before.
StampsForward == pulled' # pulled /\ pulled'.gen = pulled.gen => pulled'.pts > pulled.pts

\* No attempt to start a camera leaves a thread behind for the next one to run over.
NoThreadLost == ~lost
=============================================================================
