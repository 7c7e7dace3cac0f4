---------------------------- MODULE SmokeDriver ----------------------------
(* The self-test of the client (app/RuntimeSmokeDriver.cpp): one process per *)
(* role logs in, meets the others and reports SUCCESS once it has seen the   *)
(* evidence its configuration asks for, FAIL on an error or after a timeout. *)
(* The processes meet through files: the host publishes the meeting's id and *)
(* then waits for the result files of the others.  Everything is driven by   *)
(* signals of the controller and by one-shot timers that re-arm themselves,  *)
(* so that what is not asked for again is never seen.                        *)
(*                                                                           *)
(* Evidence a controller shows is a fact that comes true by itself, while    *)
(* another process is in the meeting.  The text of results is left out but   *)
(* for the word it starts with; so are the policies that switch local media  *)
(* on or off (a process that toggles its media has none).                    *)
EXTENDS Integers, FiniteSets

CONSTANTS
    Host, Joiners,  \* roles
    Configs,        \* sets of environments the processes are started with
    Seeds,          \* MEETING_SMOKE_CHAT_HISTORY_SEED_COUNT
    Page,           \* messages of a page of chat history
    MaxRetries      \* MEETING_SMOKE_CAMERA_START_MAX_RETRIES

VARIABLES
    config,     \* per process: its environment
    drv,        \* per process: the driver
    facts,      \* per process: what its controller shows
    shown,      \* per process: whose chat text it displays
    view,       \* per process: how many media toggles of the host it has been told
    frame,      \* per process: it has a frame of the host
    idFile,     \* the meeting's id has been published
    resultFile  \* per process: first word of its result file, "open" if no verdict

sdVars == <<config, drv, facts, shown, view, frame, idFile, resultFile>>
world == <<facts, shown, view, frame>>

Procs == {Host} \cup Joiners
Media == {"audio", "video", "avsync"}
Needs(p) == config[p].needs

\* The constructor: paging and layout ask for chat as well, and a joiner whose
\* peer reports leaves synchronisation to it.
Normalised(p, c) ==
    [c EXCEPT !.needs = (@ \cup (IF @ \cap {"history", "layout"} # {} THEN {"chat"} ELSE {}))
                        \ (IF p # Host /\ c.peers THEN {"avsync"} ELSE {})]

NewDriver ==
    [phase |-> "off", verdict |-> "none", exited |-> FALSE, pending |-> FALSE,
     ready |-> {}, timers |-> {}, sent |-> FALSE, seeds |-> 0, first |-> 0,
     paging |-> "none", seen |-> {}, step |-> 0, validating |-> FALSE,
     soaking |-> FALSE, polling |-> FALSE, peerSeen |-> FALSE, retries |-> 0]

SdInit ==
    /\ \E c \in Configs : config = [p \in Procs |-> Normalised(p, c[p])]
    /\ drv = [p \in Procs |-> NewDriver]
    /\ facts = [p \in Procs |-> {}] /\ shown = [p \in Procs |-> {}]
    /\ view = [p \in Procs |-> 0] /\ frame = [p \in Procs |-> FALSE]
    /\ idFile = FALSE
    /\ resultFile = [p \in Procs |-> "none"]

-----------------------------------------------------------------------------
(* Evidence.  Operators on a driver d of process p. *)

Arm(d, t) == [d EXCEPT !.timers = @ \cup {t}]
Disarm(d, t) == [d EXCEPT !.timers = @ \ {t}]
Ready(d, e) == [d EXCEPT !.ready = @ \cup {e}]

\* audioTransportReady: media that flows stands for the ICE answer.
AudioPath(p, ready) ==
    /\ "audioSecure" \in facts[p]
    /\ {"audioIce", "audio"} \cap facts[p] # {} \/ "audio" \in ready

\* The stages of maybeCompleteSuccess, by their order (currentStageTag names
\* them).
Rank == [audioPath |-> 1, videoPath |-> 2, audio |-> 3, video |-> 4, avsync |-> 5, chat |-> 6,
         history |-> 7, layout |-> 8, camera |-> 9, mediaState |-> 10]

\* What is still open for a driver with this evidence, and what comes first.
Open(p, ready) ==
    (Needs(p) \ ready)
    \cup (IF "audio" \in Needs(p) /\ ~AudioPath(p, ready) THEN {"audioPath"} ELSE {})
    \cup (IF "video" \in Needs(p) /\ "videoPath" \notin facts[p] THEN {"videoPath"} ELSE {})

First(open) ==
    IF open = {} THEN "none" ELSE CHOOSE s \in open : \A t \in open : Rank[s] <= Rank[t]

\* maybeUpdateChatEvidence: the texts waited for are displayed, or, if there
\* are none, the own text is sent.
ChatSeen(p, d) ==
    /\ config[p].expects \subseteq shown[p]
    /\ config[p].expects # {} \/ ~config[p].sends \/ d.sent

\* maybeScheduleChatSend
ScheduleChat(p, d) ==
    IF config[p].sends /\ ~d.sent /\ d.phase = "in" THEN Arm(d, "chatSend") ELSE d

\* maybeScheduleChatHistorySeed
ScheduleSeed(p, d) ==
    IF p = Host /\ d.phase = "in" /\ d.seeds = 0 THEN Arm(d, "seed") ELSE d

\* maybeUpdateChatHistoryPagingEvidence, on a joiner: a page without the first
\* message, then the page before it is asked for, then the first message.
\* The rows displayed start with message d.first.
HistorySeen(p, d) == p # Host /\ d.paging = "asked" /\ "oldest" \in facts[p]

LookAtHistory(p, d) ==
    IF p = Host THEN ScheduleSeed(p, d)
    ELSE Arm([d EXCEPT !.paging =
                  IF @ = "page" THEN "asked"
                  ELSE IF /\ @ = "none" /\ d.phase = "in" /\ drv[Host].seeds = Seeds
                          /\ Seeds - d.first >= Page /\ d.first > 0
                       THEN "page" ELSE @], "history")

\* maybeUpdateMediaStateEvidence: what the roster says of the host after k
\* toggles, audio off, audio on, camera off, camera on.
AudioOn(k) == k # 1
VideoOn(k) == k # 3

ObservedNow(seen, k, fr) ==
    LET audio == IF "audioOff" \in seen THEN IF AudioOn(k) THEN {"audioBack"} ELSE {}
                 ELSE IF AudioOn(k) THEN {"audioOn"}
                 ELSE IF "audioOn" \in seen THEN {"audioOff"} ELSE {}
        off == "videoOff" \in seen \/ ("videoOn" \in seen /\ ~VideoOn(k))
        video == IF off THEN {"videoOff"} \cup (IF VideoOn(k) THEN {"videoBack"} ELSE {})
                 ELSE IF VideoOn(k) THEN {"videoOn"} ELSE {}
        pictures == (IF off /\ ~VideoOn(k) /\ ~fr THEN {"cleared"} ELSE {})
                    \cup (IF fr /\ ("videoBack" \in seen \cup video) THEN {"restored"} ELSE {})
    IN seen \cup audio \cup video \cup pictures

MutantAllObserved == {"audioOn", "audioOff", "audioBack", "videoOn", "videoOff", "cleared"}

AllObserved == {"audioOn", "audioOff", "audioBack", "videoOn", "videoOff", "videoBack",
                "cleared", "restored"}

ObserveToggles(p, d, k, fr) ==
    IF d.verdict # "none" \/ "mediaState" \notin Needs(p) \ d.ready
       \/ config[p].toggles \/ d.phase # "in"
    THEN d
    ELSE LET e == [d EXCEPT !.seen = ObservedNow(@, k, fr)]
         IN IF AllObserved \subseteq e.seen THEN Ready(e, "mediaState") ELSE Arm(e, "observe")

-----------------------------------------------------------------------------
(* Verdicts *)

Report(d, verdict) == IF d.verdict = "none" THEN [d EXCEPT !.verdict = verdict] ELSE d

\* A joiner that serves a reporting peer with media goes on for a while.
Soaks(p) ==
    \/ config[p].soak
    \/ /\ p # Host /\ config[p].peers /\ config[p].helperSoak
       /\ Needs(p) \cap (Media \cup {"camera"}) # {}

MutantFinish(p, d) ==
    IF Soaks(p)
    THEN IF d.phase # "in" THEN Report(d, "failed")
         ELSE IF d.soaking THEN [d EXCEPT !.pending = TRUE]
              ELSE Arm([d EXCEPT !.pending = TRUE, !.soaking = TRUE], "soak")
    ELSE IF p = Host /\ config[p].peers /\ ~d.polling
         THEN Arm([d EXCEPT !.pending = TRUE, !.polling = TRUE], "peers")
         ELSE Report(d, "success")

\* The last part of maybeCompleteSuccess, maybeStartSoak.
Finish(p, d) ==
    IF Soaks(p)
    THEN IF d.phase # "in" THEN Report(d, "failed")
         ELSE IF d.soaking THEN [d EXCEPT !.pending = TRUE]
              ELSE Arm([d EXCEPT !.pending = TRUE, !.soaking = TRUE], "soak")
    ELSE IF p = Host /\ config[p].peers /\ ~d.peerSeen
         THEN IF d.polling THEN [d EXCEPT !.pending = TRUE]
              ELSE Arm([d EXCEPT !.pending = TRUE, !.polling = TRUE], "peers")
         ELSE Report(d, "success")

\* maybeStartMediaStateValidation, up to what it observes at once.
Validate(p, d) ==
    LET e == [d EXCEPT !.pending = TRUE, !.validating = TRUE]
    IN IF d.validating THEN e
       ELSE IF config[p].toggles THEN Arm(e, "toggle") ELSE ObserveToggles(p, e, view[p], frame[p])

\* maybeCompleteSuccess with these stages open.
Proceed(p, d, open) ==
    CASE First(open) = "none"         -> Finish(p, d)
      [] First(open) = "mediaState"   -> LET e == Validate(p, d)
                                         IN IF "mediaState" \in e.ready THEN Finish(p, e) ELSE e
      [] First(open) = "chat"         -> Arm([ScheduleChat(p, d) EXCEPT !.pending = TRUE], "chat")
      [] First(open) = "history"      -> [LookAtHistory(p, d) EXCEPT !.pending = TRUE]
      [] First(open) \in {"audioPath", "videoPath"} -> Arm([d EXCEPT !.pending = TRUE], "complete")
      [] OTHER                        -> [d EXCEPT !.pending = TRUE]

\* maybeCompleteSuccess: chat and history are looked at once they come first.
MaybeComplete(p, d) ==
    LET open == Open(p, d.ready)
        chat == IF First(open) = "chat" /\ ChatSeen(p, d) THEN {"chat"} ELSE {}
        both == IF First(open \ chat) = "history" /\ HistorySeen(p, d)
                THEN chat \cup {"history"} ELSE chat
    IN IF d.verdict # "none" THEN d
       ELSE Proceed(p, [IF chat = {} THEN d ELSE ScheduleChat(p, d) EXCEPT !.ready = @ \cup both], open \ both)

\* What writeResult leaves behind: the last word written.
Word(d, e) ==
    IF d.verdict = "none" /\ e.verdict # "none"
    THEN (IF e.verdict = "success" THEN "SUCCESS" ELSE "FAIL") ELSE "open"

\* A step of p's driver, which writes a result unless it only waits on.
Becomes(p, e) ==
    /\ \E d \in {e} \ {drv[p]} :
           /\ drv' = [drv EXCEPT ![p] = d]
           /\ resultFile' = IF drv[p].verdict = "none" THEN [resultFile EXCEPT ![p] = Word(drv[p], d)]
                            ELSE resultFile
    /\ UNCHANGED config

Runs(p) == drv[p].phase # "off" /\ ~drv[p].exited
Undecided(p) == Runs(p) /\ drv[p].verdict = "none"
Fires(p, t) == Undecided(p) /\ t \in drv[p].timers

-----------------------------------------------------------------------------
(* The driver *)

\* start: the pollers of the evidence that is polled for, and login.
Start(p) ==
    /\ drv[p].phase = "off"
    /\ Becomes(p, [drv[p] EXCEPT !.phase = "login",
                                 !.timers = Needs(p) \cap (Media \cup {"chat", "history"})])
    /\ UNCHANGED <<world, idFile>>

\* handleLoggedInChanged writes even after the verdict.
LoggedIn(p) ==
    /\ Runs(p) /\ drv[p].phase = "login"
    /\ drv' = [drv EXCEPT ![p] = IF p = Host THEN [@ EXCEPT !.phase = "asked"]
                                 ELSE Arm([@ EXCEPT !.phase = "waiting"], "meetingId")]
    /\ resultFile' = [resultFile EXCEPT ![p] = "open"]
    /\ UNCHANGED <<config, world, idFile>>

PollMeetingId(p) ==
    /\ Fires(p, "meetingId") /\ idFile
    /\ Becomes(p, Disarm([drv[p] EXCEPT !.phase = "asked"], "meetingId"))
    /\ UNCHANGED <<world, idFile>>

\* handleInMeetingChanged up to the meeting's id: texts and messages of history
\* are scheduled, chat is looked at.  (Of media and history there is nothing
\* to be seen yet.)
InMeeting(p, d) ==
    LET seed == IF "history" \in Needs(p) THEN ScheduleSeed(p, d) ELSE d
        chat == ScheduleChat(p, seed)
    IN IF d.verdict # "none" \/ "chat" \notin Needs(p) THEN d
       ELSE IF "chat" \notin d.ready /\ ChatSeen(p, d)
            THEN MaybeComplete(p, Ready(Disarm(chat, "chat"), "chat")) ELSE chat

\* handleInMeetingChanged; the host publishes the meeting, or cannot.
EnterMeeting(p, written) ==
    /\ Runs(p) /\ drv[p].phase = "asked"
    /\ p # Host => written
    /\ LET in == [drv[p] EXCEPT !.phase = "in",
                                !.first = IF drv[Host].seeds > Page THEN drv[Host].seeds - Page ELSE 0]
           d == InMeeting(p, in)
       IN /\ drv' = [drv EXCEPT ![p] = IF written THEN d ELSE Report(d, "failed")]
          /\ resultFile' = [resultFile EXCEPT ![p] = IF drv[p].verdict # "none" THEN "open"
                                                     ELSE Word(drv[p], drv'[p])]
    /\ idFile' = (idFile \/ (p = Host /\ written))
    /\ view' = [view EXCEPT ![p] = drv[Host].step]
    /\ UNCHANGED <<config, facts, shown, frame>>

\* maybeUpdateAudioEvidence, maybeUpdateVideoEvidence, maybeUpdateAvSyncEvidence
NoteEvidence(p, e) ==
    /\ Fires(p, e) /\ e \in Media \cap facts[p]
    /\ Becomes(p, MaybeComplete(p, Ready(Disarm(drv[p], e), e)))
    /\ UNCHANGED <<world, idFile>>

\* The timer of maybeScheduleChatSend
SendChat(p) ==
    /\ Fires(p, "chatSend") /\ drv[p].phase = "in"
    /\ LET d == [Disarm(drv[p], "chatSend") EXCEPT !.sent = TRUE]
       IN Becomes(p, IF "chat" \in Needs(p) \ d.ready /\ ChatSeen(p, d)
                     THEN MaybeComplete(p, Ready(Disarm(d, "chat"), "chat")) ELSE d)
    /\ UNCHANGED <<world, idFile>>

PollChat(p) ==
    /\ Fires(p, "chat") /\ ChatSeen(p, drv[p])
    /\ Becomes(p, MaybeComplete(p, Ready(Disarm(drv[p], "chat"), "chat")))
    /\ UNCHANGED <<world, idFile>>

\* sendNextChatHistorySeedMessage
SendSeed(p) ==
    /\ Fires(p, "seed") /\ drv[p].phase = "in"
    /\ Becomes(p, IF drv[p].seeds < Seeds THEN [drv[p] EXCEPT !.seeds = @ + 1]
                  ELSE MaybeComplete(p, Ready(Disarm(drv[p], "seed"), "history")))
    /\ UNCHANGED <<world, idFile>>

PollHistory(p) ==
    /\ Fires(p, "history") /\ "history" \notin drv[p].ready
    /\ LET d == Disarm(drv[p], "history")
       IN Becomes(p, IF HistorySeen(p, d) THEN MaybeComplete(p, Ready(d, "history")) ELSE LookAtHistory(p, d))
    /\ UNCHANGED <<world, idFile>>

\* handleChatBubbleLayoutEvidence
BubbleLayout(p, stable) ==
    /\ Undecided(p) /\ drv[p].phase = "in" /\ "layout" \in Needs(p) \ drv[p].ready
    /\ Becomes(p, IF stable THEN MaybeComplete(p, Ready(drv[p], "layout")) ELSE Report(drv[p], "failed"))
    /\ UNCHANGED <<world, idFile>>

\* handleInfoMessage, of the camera's source
CameraSource(p) ==
    /\ Undecided(p) /\ drv[p].phase = "in" /\ "camera" \in Needs(p) \ drv[p].ready
    /\ LET d == Ready(drv[p], "camera")
       IN Becomes(p, IF d.pending THEN MaybeComplete(p, d) ELSE d)
    /\ UNCHANGED <<world, idFile>>

\* handleInfoMessage, of an offer, an answer or an endpoint: a joiner that has
\* no evidence of media to wait for takes it for success.
Negotiated(p) ==
    /\ Undecided(p) /\ drv[p].phase = "in"
    /\ p = Host \/ Needs(p) \cap (Media \cup {"camera"}) = {}
    /\ Becomes(p, MaybeComplete(p, drv[p]))
    /\ UNCHANGED <<world, idFile>>

\* The timer of maybeCompleteSuccess
PollComplete(p) ==
    /\ Fires(p, "complete")
    /\ Becomes(p, MaybeComplete(p, Disarm(drv[p], "complete")))
    /\ UNCHANGED <<world, idFile>>

\* runMediaStateToggleStep
ToggleStep(p) ==
    /\ Fires(p, "toggle") /\ drv[p].phase = "in"
    /\ Becomes(p, IF drv[p].step < 4 THEN [drv[p] EXCEPT !.step = @ + 1]
                  ELSE MaybeComplete(p, Ready(Disarm(drv[p], "toggle"), "mediaState")))
    /\ UNCHANGED <<world, idFile>>

\* maybeUpdateMediaStateEvidence, of the roster (k toggles) and the frame it is
\* called with.
Observes(p, k, fr) ==
    LET d == ObserveToggles(p, drv[p], k, fr)
    IN IF "mediaState" \in d.ready \ drv[p].ready THEN MaybeComplete(p, d) ELSE d

PollObserved(p) ==
    /\ Fires(p, "observe")
    /\ Becomes(p, Observes(p, view[p], frame[p]))
    /\ UNCHANGED <<world, idFile>>

\* pollSoakProgress: it ends, or the meeting has been left.
PollSoak(p) ==
    /\ Fires(p, "soak")
    /\ Becomes(p, Report(drv[p], IF drv[p].phase = "in" THEN "success" ELSE "failed"))
    /\ UNCHANGED <<world, idFile>>

MutantPollPeerSuccess(p) ==
    /\ Fires(p, "peers")
    /\ LET d == Disarm(drv[p], "peers")
       IN Becomes(p, IF \E q \in Joiners : resultFile[q] = "FAIL" THEN Report(drv[p], "failed")
                     ELSE IF \A q \in Joiners : resultFile[q] = "SUCCESS"
                          THEN MaybeComplete(p, [d EXCEPT !.peerSeen = TRUE])
                          ELSE d)
    /\ UNCHANGED <<world, idFile>>

\* pollPeerSuccess: result files of all joiners; one that is being written
\* reads as empty.
PollPeerSuccess(p) ==
    /\ Fires(p, "peers")
    /\ Becomes(p, IF \E q \in Joiners : resultFile[q] = "FAIL" THEN Report(drv[p], "failed")
                  ELSE IF \A q \in Joiners : resultFile[q] = "SUCCESS"
                       THEN MaybeComplete(p, [Disarm(drv[p], "peers") EXCEPT !.peerSeen = TRUE])
                       ELSE drv[p])
    /\ UNCHANGED <<world, idFile>>

Timeout(p) ==
    /\ Undecided(p)
    /\ Becomes(p, Report(drv[p], "failed"))
    /\ UNCHANGED <<world, idFile>>

\* handleStatusTextChanged, handleInfoMessage: a text that speaks of failure.
FailureShown(p) ==
    /\ Undecided(p)
    /\ Becomes(p, Report(drv[p], "failed"))
    /\ UNCHANGED <<world, idFile>>

\* maybeHandleRetriableCameraStartFailure: video is switched off and on again.
CameraStartFails(p) ==
    /\ Undecided(p) /\ "video" \in Needs(p) /\ drv[p].phase = "in"
    /\ Becomes(p, IF drv[p].retries < MaxRetries THEN [drv[p] EXCEPT !.retries = @ + 1]
                  ELSE Report(drv[p], "failed"))
    /\ UNCHANGED <<world, idFile>>

\* handleInfoMessage, of an encoder that cannot be opened: noted in the result
\* file, even after the verdict.
DegradedVideo(p) ==
    /\ Runs(p) /\ "video" \notin Needs(p) /\ drv[p].phase = "in"
    /\ resultFile' = [resultFile EXCEPT ![p] = "open"]
    /\ UNCHANGED <<config, drv, world, idFile>>

\* requestExit
Exit(p) ==
    /\ Runs(p) /\ drv[p].verdict # "none"
    /\ drv' = [drv EXCEPT ![p].exited = TRUE, ![p].timers = {}]
    /\ UNCHANGED <<config, world, idFile, resultFile>>

-----------------------------------------------------------------------------
(* The controllers: what the drivers wait for *)

InMeetingNow(p) == Runs(p) /\ drv[p].phase = "in"

\* What p's evidence is drawn from, and comes true while somebody else is in
\* the meeting.
Wanted(p) ==
    (Needs(p) \cap Media)
    \cup (IF "audio" \in Needs(p) THEN {"audioSecure", "audioIce"} ELSE {})
    \cup (IF "video" \in Needs(p) THEN {"videoPath"} ELSE {})
    \cup (IF "history" \in Needs(p) /\ drv[p].paging = "asked" THEN {"oldest"} ELSE {})

Show(p, f) ==
    /\ InMeetingNow(p) /\ f \in Wanted(p) \ facts[p]
    /\ f = "oldest" \/ \E q \in Procs \ {p} : InMeetingNow(q)
    /\ facts' = [facts EXCEPT ![p] = @ \cup {f}]
    /\ UNCHANGED <<config, drv, shown, view, frame, idFile, resultFile>>

\* Chat, live or from the history.
ShowChat(p, q) ==
    /\ InMeetingNow(p) /\ q \in config[p].expects \ shown[p] /\ drv[q].sent
    /\ shown' = [shown EXCEPT ![p] = @ \cup {q}]
    /\ UNCHANGED <<config, drv, facts, view, frame, idFile, resultFile>>

\* The roster tells of the host's next toggle; its change is observed.
ToldOfToggle(p) ==
    /\ InMeetingNow(p) /\ p # Host /\ view[p] < drv[Host].step
    /\ view' = [view EXCEPT ![p] = @ + 1]
    /\ LET d == Observes(p, view[p] + 1, frame[p])
       IN /\ drv' = [drv EXCEPT ![p] = d]
          /\ resultFile' = IF drv[p].verdict = "none" THEN [resultFile EXCEPT ![p] = Word(drv[p], d)]
                           ELSE resultFile
    /\ UNCHANGED <<config, facts, shown, frame, idFile>>

\* Frames of the host come while its camera is on, and are cleared after.
FrameChanges(p) ==
    /\ InMeetingNow(p) /\ p # Host /\ "mediaState" \in Needs(p)
    /\ frame[p] # VideoOn(view[p])
    /\ frame[p] \/ InMeetingNow(Host)
    /\ frame' = [frame EXCEPT ![p] = ~@]
    /\ UNCHANGED <<config, drv, facts, shown, view, idFile, resultFile>>

\* The meeting is left or the connection lost.
Dropped(p) ==
    /\ InMeetingNow(p)
    /\ drv' = [drv EXCEPT ![p].phase = "out"]
    /\ UNCHANGED <<config, world, idFile, resultFile>>

\* Timers fire, and the controllers of a system that works show what is asked
\* for: these are fair.
SmokeSteps ==
    \E p \in Procs :
        \/ Start(p) \/ LoggedIn(p) \/ PollMeetingId(p) \/ EnterMeeting(p, TRUE)
        \/ \E e \in Media : NoteEvidence(p, e)
        \/ SendChat(p) \/ PollChat(p) \/ SendSeed(p) \/ PollHistory(p)
        \/ BubbleLayout(p, TRUE) \/ CameraSource(p) \/ Negotiated(p) \/ PollComplete(p)
        \/ ToggleStep(p) \/ PollObserved(p) \/ PollSoak(p) \/ PollPeerSuccess(p) \/ Exit(p)
        \/ \E f \in Wanted(p) : Show(p, f)
        \/ \E q \in Procs : ShowChat(p, q)
        \/ ToldOfToggle(p) \/ FrameChanges(p)

SdNext ==
    \/ SmokeSteps
    \/ \E p \in Procs :
           \/ EnterMeeting(p, FALSE) \/ BubbleLayout(p, FALSE)
           \/ Timeout(p) \/ FailureShown(p) \/ CameraStartFails(p) \/ DegradedVideo(p) \/ Dropped(p)

-----------------------------------------------------------------------------
(* Properties *)

SdTypeOK ==
    \A p \in Procs :
        LET d == drv[p]
        IN /\ d.phase \in {"off", "login", "waiting", "asked", "in", "out"}
           /\ d.verdict \in {"none", "success", "failed"}
           /\ d.ready \subseteq Needs(p)
           /\ d.timers \subseteq Media \cup {"chat", "history", "meetingId", "chatSend", "seed",
                                            "toggle", "observe", "complete", "soak", "peers"}
           /\ d.step \in 0..4 /\ d.seeds \in 0..Seeds /\ d.retries \in 0..MaxRetries
           /\ d.exited => d.verdict # "none"
           /\ resultFile[p] \in {"none", "open", "SUCCESS", "FAIL"}

\* A host that reports success without a soak has the others' success: no
\* joiner has failed, none has still to report.
HostAgrees ==
    (drv[Host].verdict = "success" /\ config[Host].peers /\ ~Soaks(Host))
        => \A q \in Joiners : drv[q].verdict = "success"

\* A joiner never takes the media of its host for toggled before the host has
\* toggled them.
ToggleReallySeen ==
    \A p \in Joiners : "mediaState" \in drv[p].ready => drv[Host].step = 4

\* p still lacks what only q could give: q has gone without it.
Starved(p) ==
    /\ drv[p].verdict = "none"
    /\ \E q \in Procs \ {p} : drv[q].exited
    /\ Open(p, drv[p].ready) # {}

\* p joined before more than a page of history was there: it is shown all of
\* it at once, and goes on waiting for a page that does not start with the
\* first message.
EarlyReader(p) ==
    /\ p # Host /\ "history" \in Needs(p)
    /\ drv[p].phase = "in" /\ drv[p].first = 0

Settled ==
    \/ \A p \in Procs : drv[p].verdict = "success"
    \/ \E p \in Procs : \/ drv[p].verdict = "failed"
                        \/ drv[p].phase = "out"
                        \/ Starved(p) \/ EarlyReader(p)
                        \/ drv[p].verdict # "none" /\ resultFile[p] = "open"

\* Nobody waits for what nobody will do: unless one of them fails, drops out
\* or leaves while another still gathers evidence, has its verdict written
\* over or comes too early for the history, all of them succeed.
SmokeSettles == []<>Settled
=============================================================================
