--------------------------- MODULE ClientMeeting ---------------------------
(* The client's picture of the meeting it is in: the create, join and leave  *)
(* requests, the server's notifications and app/ParticipantListModel.cpp,    *)
(* with the call log that storage/CallLogRepository.cpp keeps.  The code is  *)
(* the meeting part of app/MeetingController.cpp.                            *)
(*                                                                           *)
(* The client talks to handler/meeting_handler.go of the signaling server.   *)
(* A handler changes the store first and then runs through a job of steps:   *)
(* it takes a snapshot, finds the sessions of the meeting, and puts a frame  *)
(* into the queue of each, so that the handlers of two users interleave.     *)
(* One peer, who may be the host, comes, leaves and removes the client.      *)
EXTENDS Integers, Sequences, FiniteSets, SequencesExt

CONSTANTS
    Me, Peer, NoUser,
    Offered,        \* the peer's meeting
    Created,        \* the id that a meeting of the client's would get
    NoMeeting,
    MaxRequests,    \* bound: requests of the client's user
    MaxPeerActs     \* bound: requests of the peer, and connections that break

VARIABLES
    mt,         \* the client: m_inMeeting, m_meetingId, the participants (each with its host
                \* flag), m_hostUserId, m_waitingLeaveResponse, whether
                \* m_currentMeetingJoinedAt is set, and its connection
    callLog,    \* per meeting, the rows of call_log with no left_at
    mtUp, mtDown,   \* requests and frames on their way
    members,    \* the store: the participants of each meeting, the host first
    session,    \* the meeting of the client's session on the server
    job,        \* per user, what is left to do of the handler that runs for it
    odd,        \* history: which of the handlers' races has happened
    mtAsked, mtPeerActs

mtVars == <<mt, callLog, mtUp, mtDown, members, session, job, odd, mtAsked, mtPeerActs>>

MtMeetings == {Offered, Created}
MtUsers == {Me, Peer}

\* A frame to the client; `answers` is the kind of request it replies to, if any.
Frame(kind, ok, m, list, user, answers) ==
    [kind |-> kind, ok |-> ok, meet |-> m, list |-> list, user |-> user, answers |-> answers]
HostOf(list) == IF list = <<>> THEN NoUser ELSE Head(list)

MtInit ==
    /\ mt = [in |-> FALSE, meet |-> NoMeeting, items |-> [u \in {} |-> FALSE], host |-> NoUser,
             waiting |-> FALSE, started |-> FALSE, conn |-> "up"]
    /\ callLog = [m \in MtMeetings |-> 0]
    /\ mtUp = <<>> /\ mtDown = <<>>
    /\ members = [m \in MtMeetings |-> IF m = Offered THEN <<Peer>> ELSE <<>>]
    /\ session = NoMeeting
    /\ job = [u \in MtUsers |-> <<>>]
    /\ odd = {}
    /\ mtAsked = 0 /\ mtPeerActs = 0

-----------------------------------------------------------------------------
(* ParticipantListModel, on a client c.                                       *)

SetHostUserId(c, u) == [c EXCEPT !.host = u]

UpsertParticipant(c, u, isHost) ==
    LET h == isHost \/ u = c.host
    IN  [c EXCEPT !.items = [v \in DOMAIN @ \union {u} |-> IF v = u THEN h ELSE @[v]],
                  !.host = IF h THEN u ELSE @]

RemoveParticipant(c, u) ==
    IF u \notin DOMAIN c.items THEN c
    ELSE [c EXCEPT !.items = [v \in DOMAIN @ \ {u} |-> @[v]],
                   !.host = IF @ = u THEN NoUser ELSE @]

\* With roles, the entry of the host is marked; a join reply's entries have none.
ReplaceParticipants(c, list, roles) ==
    LET h == IF roles THEN HostOf(list) ELSE NoUser
    IN  [c EXCEPT !.items = [u \in ToSet(list) |-> u = h], !.host = h]

ClearParticipants(c) == [c EXCEPT !.items = [u \in {} |-> FALSE], !.host = NoUser]

-----------------------------------------------------------------------------
(* The client's handlers, on its state and the call log.                      *)

EnsureLocalParticipant(c, isHost) ==
    IF Me \notin DOMAIN c.items \/ isHost THEN UpsertParticipant(c, Me, isHost) ELSE c

\* persistMeetingSessionStart with CallLogRepository::startCall
StartCall(log, c) ==
    IF c.meet = NoMeeting \/ c.started THEN log ELSE [log EXCEPT ![c.meet] = @ + 1]

Started(c) == [c EXCEPT !.started = (@ \/ c.meet # NoMeeting)]

\* CallLogRepository::finishActiveCall, as resetMeetingState calls it
FinishActiveCall(log, c) ==
    IF c.meet = NoMeeting \/ ~c.started \/ log[c.meet] = 0 THEN log
    ELSE [log EXCEPT ![c.meet] = @ - 1]

HadMeetingState(c) == c.in \/ c.meet # NoMeeting \/ DOMAIN c.items # {}

MutantResetMeetingState(c) ==
    IF ~HadMeetingState(c) THEN [c EXCEPT !.waiting = FALSE]
    ELSE [ClearParticipants(c) EXCEPT !.in = FALSE, !.meet = NoMeeting, !.waiting = FALSE]

ResetMeetingState(c) ==
    IF ~HadMeetingState(c) THEN [c EXCEPT !.waiting = FALSE]
    ELSE [ClearParticipants(c) EXCEPT !.in = FALSE, !.meet = NoMeeting, !.waiting = FALSE,
                                      !.started = FALSE]

\* createMeetingFinished
OnCreated(c, f) ==
    EnsureLocalParticipant(ClearParticipants(
        [c EXCEPT !.meet = f.meet, !.in = TRUE, !.waiting = FALSE]), TRUE)

\* joinMeetingFinished
OnJoined(c, f) ==
    LET entered == [c EXCEPT !.meet = f.meet, !.in = TRUE, !.waiting = FALSE]
        listed == ReplaceParticipants(entered, f.list, FALSE)
    IN  EnsureLocalParticipant(IF f.user = NoUser THEN listed ELSE SetHostUserId(listed, f.user),
                               f.user = Me)

MutantOnStateSync(c, f) ==
    [EnsureLocalParticipant(SetHostUserId([c EXCEPT !.meet = f.meet, !.waiting = FALSE], f.user),
                            f.user = Me) EXCEPT !.in = TRUE]

\* kMeetStateSync
OnStateSync(c, f) ==
    LET listed == ReplaceParticipants([c EXCEPT !.meet = f.meet, !.waiting = FALSE], f.list, TRUE)
    IN  [EnsureLocalParticipant(SetHostUserId(listed, f.user), f.user = Me) EXCEPT !.in = TRUE]

\* kMeetParticipantJoin (the one who joins is not the host)
OnParticipantJoin(c, f) == [UpsertParticipant(c, f.user, FALSE) EXCEPT !.in = TRUE]

\* kMeetParticipantLeave
OnParticipantLeave(c, f) ==
    IF f.user = Me THEN ResetMeetingState(c) ELSE RemoveParticipant(c, f.user)

\* leaveMeetingFinished
OnLeft(c, f) ==
    IF ~f.ok \/ ~(c.waiting \/ c.in) THEN [c EXCEPT !.waiting = FALSE] ELSE ResetMeetingState(c)

\* handleSessionKicked
OnKicked(c) == [ResetMeetingState(c) EXCEPT !.conn = "out"]

\* What a frame does to the client.
Handled(c, f) ==
    CASE f.kind = "createRsp" -> OnCreated(c, f)
      [] f.kind = "joinRsp" -> IF f.ok THEN OnJoined(c, f) ELSE c
      [] f.kind = "leaveRsp" -> OnLeft(c, f)
      [] f.kind = "stateSync" -> OnStateSync(c, f)
      [] f.kind = "participantJoin" -> OnParticipantJoin(c, f)
      [] f.kind = "participantLeave" -> OnParticipantLeave(c, f)
      [] f.kind = "hostChanged" -> SetHostUserId(c, f.user)
      [] f.kind = "kick" -> OnKicked(c)

\* A reply with a meeting starts a call, a step that resets the meeting ends it.
Logged(log, old, new, f) ==
    IF f.kind \in {"createRsp", "joinRsp"} /\ f.ok THEN StartCall(log, new)
    ELSE IF old.started /\ ~new.started THEN FinishActiveCall(log, old) ELSE log

-----------------------------------------------------------------------------
(* The client's actions.                                                      *)

ServerSide == <<members, session, job, odd>>

\* SignalingClient::handlePayload on one frame
HandleFrame ==
    /\ mt.conn = "up" /\ mtDown # <<>>
    /\ LET f == Head(mtDown)
           new == Handled(mt, f)
           starts == f.kind \in {"createRsp", "joinRsp"} /\ f.ok
       IN  /\ mt' = IF starts THEN Started(new) ELSE new
           /\ callLog' = Logged(callLog, mt, new, f)
           /\ mtDown' = IF new.conn = "up" THEN Tail(mtDown) ELSE <<>>
    /\ UNCHANGED <<mtUp, ServerSide, mtAsked, mtPeerActs>>

\* A request of one of these kinds has not been answered yet.
Pending(kinds) ==
    \/ \E i \in DOMAIN mtUp : mtUp[i] \in kinds
    \/ \E i \in DOMAIN job[Me] : job[Me][i].frame.answers \in kinds
    \/ \E i \in DOMAIN mtDown : mtDown[i].answers \in kinds

\* The reasons for which the session may be in another state when the server reads the
\* request: a second meeting is asked for, the client has asked to leave, or the
\* frame that tells it of its removal is on its way.
Hazards(kind) ==
    (IF kind \in {"create", "join"} /\ (mt.in \/ Pending({"create", "join"})) THEN {"hasty"} ELSE {})
    \union (IF kind \in {"leave", "talk"} /\ Pending({"leave"}) THEN {"leaving"} ELSE {})
    \union (IF \E i \in DOMAIN mtDown : mtDown[i].kind = "participantLeave" /\ mtDown[i].user = Me
            THEN {"removed"} ELSE {})

Ask(kind, c) ==
    /\ mt.conn = "up" /\ mtAsked < MaxRequests
    /\ mt' = c
    /\ mtUp' = Append(mtUp, kind)
    /\ odd' = odd \union Hazards(kind)
    /\ mtAsked' = mtAsked + 1
    /\ UNCHANGED <<callLog, mtDown, members, session, job, mtPeerActs>>

\* createMeeting and joinMeeting ask only that the user is logged in.
Enter(kind) == Ask(kind, mt)

LeaveMeeting ==
    /\ HadMeetingState(mt) /\ ~mt.waiting
    /\ Ask("leave", [mt EXCEPT !.waiting = TRUE])

MutantTalk == Ask("talk", mt)

\* Whatever else the client sends while it is in a meeting: chat, mute, share, offers.
Talk == mt.in /\ Ask("talk", mt)

\* connectedChanged(false): the connection breaks, the client forgets the meeting.
LoseConnection ==
    /\ mt.conn = "up" /\ mtPeerActs < MaxPeerActs
    /\ mt' = [(IF HadMeetingState(mt) THEN ResetMeetingState(mt) ELSE mt)
                  EXCEPT !.waiting = FALSE, !.conn = "lost"]
    /\ callLog' = IF HadMeetingState(mt) THEN FinishActiveCall(callLog, mt) ELSE callLog
    /\ mtUp' = <<>> /\ mtDown' = <<>>
    /\ mtPeerActs' = mtPeerActs + 1
    /\ UNCHANGED <<ServerSide, mtAsked>>

\* The next login, once the server has closed the old session.
Reconnected ==
    /\ mt.conn = "lost" /\ session = NoMeeting /\ job[Me] = <<>>
    /\ mt' = [mt EXCEPT !.conn = "up"]
    /\ UNCHANGED <<callLog, mtUp, mtDown, ServerSide, mtAsked, mtPeerActs>>

-----------------------------------------------------------------------------
(* The server.  A step of a job: `sync` takes the snapshot of a state sync,   *)
(* `tell` finds out whether the client's session is in the meeting, `put`     *)
(* puts the frame into its queue, `enter` and `exit` set the session's        *)
(* meeting, `oust` does so for the participant who is removed.                *)

Step(op, m, f) == [op |-> op, meet |-> m, frame |-> f]
NoFrame == Frame("none", TRUE, NoMeeting, <<>>, NoUser, "")
Note(kind, m, u) == Frame(kind, TRUE, m, <<>>, u, "")
Sync(m) == Step("sync", m, NoFrame)

ClientSide == <<mt, callLog, mtAsked>>

\* Router.HandleMessage with an invalid session state: AuthKickNotify, Close, and
\* OnSessionClosed, which leaves the meeting.
ThrowOut ==
    /\ mtDown' = Append(mtDown, Note("kick", NoMeeting, Me))
    /\ members' = [m \in MtMeetings |-> IF m = session THEN Remove(members[m], Me) ELSE members[m]]
    /\ session' = NoMeeting
    /\ mtUp' = <<>>
    /\ UNCHANGED job

\* HandleCreate; the two replies leave back to back.
HandleCreate ==
    /\ members' = [members EXCEPT ![Created] = <<Me>>]
    /\ session' = Created
    /\ mtDown' = mtDown \o << Frame("createRsp", TRUE, Created, <<>>, NoUser, "create"),
                              Frame("joinRsp", TRUE, Created, <<Me>>, Me, "create") >>
    /\ UNCHANGED job

\* HandleJoin: the reply lists the participants as they were when the store let Me in.
HandleJoin(m) ==
    IF members[m] = <<>>
    THEN /\ mtDown' = Append(mtDown, Frame("joinRsp", FALSE, NoMeeting, <<>>, NoUser, "join"))
         /\ UNCHANGED <<members, session, job>>
    ELSE LET list == IF Me \in ToSet(members[m]) THEN members[m] ELSE Append(members[m], Me)
             reply == Frame("joinRsp", TRUE, m, list, HostOf(list), "join")
         IN  /\ members' = [members EXCEPT ![m] = list]
             /\ job' = [job EXCEPT ![Me] = <<Step("enter", m, NoFrame), Step("put", m, reply), Sync(m)>>]
             /\ UNCHANGED <<mtDown, session>>

\* leave, for the client's own request
HandleLeave ==
    LET m == session
        reply(ok) == Frame("leaveRsp", ok, NoMeeting, <<>>, NoUser, "leave")
    IN  IF Me \in ToSet(members[m])
        THEN /\ members' = [members EXCEPT ![m] = Remove(@, Me)]
             /\ job' = [job EXCEPT ![Me] = <<Step("exit", m, NoFrame), Step("put", m, reply(TRUE))>>]
             /\ UNCHANGED <<mtDown, session>>
        ELSE /\ mtDown' = Append(mtDown, reply(FALSE))
             /\ UNCHANGED <<members, session, job>>

\* The next request of the client's session.
HandleRequest ==
    /\ mtUp # <<>> /\ job[Me] = <<>> /\ mt.conn = "up"
    /\ LET r == Head(mtUp)
           entry == r \in {"create", "join"}
       IN  IF entry <=> session # NoMeeting THEN ThrowOut
           ELSE /\ mtUp' = Tail(mtUp)
                /\ CASE r = "create" -> HandleCreate
                     [] r = "join" -> HandleJoin(Offered)
                     [] r = "leave" -> HandleLeave
                     [] r = "talk" -> UNCHANGED <<members, session, job, mtDown>>
    /\ UNCHANGED <<ClientSide, odd, mtPeerActs>>

\* OnSessionClosed, LeaveByDisconnect
SessionClosed ==
    /\ mt.conn # "up" /\ job[Me] = <<>> /\ session # NoMeeting
    /\ members' = [members EXCEPT ![session] = Remove(@, Me)]
    /\ session' = NoMeeting
    /\ UNCHANGED <<ClientSide, mtUp, mtDown, job, odd, mtPeerActs>>

\* What a frame delivered now does not show, or is not meant for: a snapshot that the store
\* has left behind and that no later one will correct; a session that is gone.
Oddities(u, s) ==
    LET other == CHOOSE v \in MtUsers : v # u
        corrected == \E i \in DOMAIN job[other] : \/ job[other][i].op = "sync"
                                                  \/ job[other][i].frame.kind = "stateSync"
    IN  (IF s.frame.kind = "stateSync" /\ s.frame.list # members[s.meet] /\ ~corrected
         THEN {"overtaken"} ELSE {})
        \union (IF session # s.meet /\ s.frame.kind # "leaveRsp" THEN {"late"} ELSE {})

Deliver(f) == mtDown' = IF mt.conn = "up" THEN Append(mtDown, f) ELSE mtDown

\* One step of a handler, for user u.
Work(u) ==
    /\ job[u] # <<>>
    /\ LET s == Head(job[u])
           rest(more) == job' = [job EXCEPT ![u] = more \o Tail(@)]
       IN  CASE s.op = "sync" ->
                  /\ rest(IF members[s.meet] = <<>> THEN <<>>
                          ELSE << Step("tell", s.meet, Frame("stateSync", TRUE, s.meet, members[s.meet],
                                                             HostOf(members[s.meet]), "")) >>)
                  /\ UNCHANGED <<mtDown, session, odd>>
             [] s.op = "tell" ->
                  /\ rest(IF session = s.meet THEN <<[s EXCEPT !.op = "put"]>> ELSE <<>>)
                  /\ UNCHANGED <<mtDown, session, odd>>
             [] s.op = "put" ->
                  /\ rest(<<>>) /\ Deliver(s.frame)
                  /\ odd' = odd \union Oddities(u, s)
                  /\ UNCHANGED session
             [] s.op = "enter" -> rest(<<>>) /\ session' = s.meet /\ UNCHANGED <<mtDown, odd>>
             [] s.op = "exit" -> rest(<<>>) /\ session' = NoMeeting /\ UNCHANGED <<mtDown, odd>>
             [] s.op = "oust" ->
                  /\ rest(<<>>)
                  /\ session' = IF session = s.meet THEN NoMeeting ELSE session
                  /\ IF session = s.meet THEN Deliver(s.frame) ELSE UNCHANGED mtDown
                  /\ odd' = odd \union (IF session # s.meet THEN {"missed"}
                                        ELSE IF mtUp # <<>> THEN {"removed"} ELSE {})
    /\ UNCHANGED <<ClientSide, mtUp, members, mtPeerActs>>

PeerActs(newMembers, steps) ==
    /\ job[Peer] = <<>> /\ mtPeerActs < MaxPeerActs
    /\ members' = newMembers
    /\ job' = [job EXCEPT ![Peer] = steps]
    /\ mtPeerActs' = mtPeerActs + 1
    /\ UNCHANGED <<ClientSide, mtUp, mtDown, session, odd>>

\* HandleJoin for the peer
PeerJoins(m) ==
    /\ \A n \in MtMeetings : Peer \notin ToSet(members[n])
    /\ members[m] # <<>>
    /\ PeerActs([members EXCEPT ![m] = Append(@, Peer)],
                <<Step("tell", m, Note("participantJoin", m, Peer)), Sync(m)>>)

\* leave for the peer; a host who leaves is followed by the next in the order of joining
PeerLeaves(m) ==
    /\ Peer \in ToSet(members[m])
    /\ LET left == Remove(members[m], Peer)
           changed == IF Head(members[m]) = Peer /\ left # <<>>
                      THEN <<Step("tell", m, Note("hostChanged", m, Head(left)))>> ELSE <<>>
       IN  PeerActs([members EXCEPT ![m] = left],
                    <<Step("tell", m, Note("participantLeave", m, Peer))>> \o changed
                        \o (IF left # <<>> THEN <<Sync(m)>> ELSE <<>>))

\* HandleKick: the peer, as the host, removes the client.
PeerKicks(m) ==
    /\ HostOf(members[m]) = Peer /\ Me \in ToSet(members[m])
    /\ PeerActs([members EXCEPT ![m] = Remove(@, Me)],
                <<Step("oust", m, Note("participantLeave", m, Me))>>)

MtNext ==
    \/ HandleFrame
    \/ Enter("join") \/ (members[Created] = <<>> /\ Enter("create")) \/ LeaveMeeting \/ Talk
    \/ LoseConnection \/ Reconnected
    \/ HandleRequest \/ SessionClosed \/ (\E u \in MtUsers : Work(u))
    \/ \E m \in MtMeetings : PeerJoins(m) \/ PeerLeaves(m) \/ PeerKicks(m)

-----------------------------------------------------------------------------
(* Properties.                                                               *)

\* The client and the server's state of it are well formed.
MtTypeOK ==
    /\ DOMAIN mt.items \subseteq MtUsers /\ mt.host \in MtUsers \union {NoUser}
    /\ mt.meet \in MtMeetings \union {NoMeeting} /\ mt.conn \in {"up", "lost", "out"}
    /\ callLog \in [MtMeetings -> Nat]
    /\ session \in MtMeetings \union {NoMeeting}
    /\ \A m \in MtMeetings : IsInjective(members[m]) /\ ToSet(members[m]) \subseteq MtUsers
    /\ odd \subseteq {"hasty", "leaving", "overtaken", "late", "missed", "removed"}

Quiet == mtUp = <<>> /\ mtDown = <<>> /\ job = [u \in MtUsers |-> <<>>] /\ mt.conn = "up"

\* Once nothing is in transit, the client shows the meeting that the server has it in, with the
\* server's participants and the server's host, marked as such, unless a stale state sync
\* was the last to arrive, a frame reached a session that had left, or a removal missed a
\* session that was still joining.
RosterAgrees ==
    Quiet /\ odd \intersect {"overtaken", "late", "missed"} = {} =>
        /\ mt.in <=> session # NoMeeting
        /\ mt.meet = session
        /\ mt.in => /\ DOMAIN mt.items = ToSet(members[session])
                    /\ mt.host = Head(members[session])
                    /\ \A u \in DOMAIN mt.items : mt.items[u] <=> u = mt.host

\* The call log has one open call, for the meeting the client is in, and none once it is out,
\* unless a frame of a meeting it had left reached it in the next one.
CallLogClosed ==
    "late" \notin odd =>
        \A m \in MtMeetings : callLog[m] = IF mt.started /\ mt.meet = m THEN 1 ELSE 0

\* The server signs the client out for a request in the wrong state only if the user asked for
\* a second meeting, the client sent something after asking to leave, a request
\* crossed its removal by the host, or one of the handlers' races had deceived it.
SignedOutForCause ==
    mt.conn = "out" => odd \intersect {"hasty", "leaving", "removed", "late", "missed"} # {}

=============================================================================
