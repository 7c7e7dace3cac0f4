--------------------------- MODULE MeetingService ---------------------------
(* The meeting handlers (handler/meeting_handler.go) and the close path      *)
(* (Router.OnSessionClosed) of one signaling node, run over the sessions of  *)
(* SessionRegistry and a meeting store that keeps MeetingRoster's promise.   *)
(*                                                                           *)
(* A handler is a sequence of steps on state others see: a call of the       *)
(* store, a store or load of a session's meetingID or state.  Notifications, *)
(* the SFU calls and the Redis room state happen between these steps and     *)
(* change nothing here, except that they can make a create fail.  Every      *)
(* connection logs in once, to one account; a connection that logs in again  *)
(* is the business of SessionRegistry.                                       *)
EXTENDS Naturals

CONSTANTS
    Sessions, Users, NoUser, NoSession,     \* as in SessionRegistry
    Accounts,       \* the ways in which users open the connections, [Sessions -> Users] each
    Meetings,       \* meeting numbers; each is drawn once
    NoMeeting,      \* "" as a meeting id
    MaxRequests     \* bound: meeting requests handled

\* The connections are finitely many: a map of them to each other that merges
\* no two of them leaves none out.
ASSUME FiniteSessions ==
    \A f \in [Sessions -> Sessions] :
       (\A s, t \in Sessions : f[s] = f[t] => s = t) => \A t \in Sessions : \E s \in Sessions : f[s] = t

ASSUME ServiceAssumption ==
    /\ NoSession \notin Sessions /\ NoUser \notin Users /\ NoMeeting \notin Meetings
    /\ Accounts \subseteq [Sessions -> Users]
    /\ MaxRequests \in Nat

VARIABLES
    state, userID, closed, sessions, byUser, pc, loginUser, old,
    account,    \* [Sessions -> Users]: whose client opens the connection
    meetingID,  \* session.meetingID
    roster,     \* the store, as MeetingRoster
    drawn,      \* numbers drawn by CreateMeeting
    op,         \* what the reader of a session is doing in a meeting handler
    requests,   \* how many meeting requests have been read, for the bound
    closer,     \* what the goroutine that waits for closeCh is doing
    raced       \* history: users with an overlap, see Overlap

Registry == INSTANCE SessionRegistry
Store == INSTANCE MeetingRoster

registryVars == <<state, userID, closed, sessions, byUser, pc, loginUser, old>>
vars == <<registryVars, account, meetingID, roster, drawn, op, requests, closer, raced>>

\* A handler in progress: its next step, and its local variables.
Op(step, m, u, s) == [step |-> step, meeting |-> m, target |-> u, kicked |-> s]
Idle == Op("idle", NoMeeting, NoUser, NoSession)

OpSteps == {"idle", "create", "route", "join", "setMeeting", "setInMeeting",
            "leave", "clearMeeting", "checkState", "setAuthenticated",
            "kickHost", "kickFind", "kickLeave", "kickGet", "kickClear", "kickState"}

Members(m) == Store!In(roster[m])

Init ==
    /\ Registry!Init
    /\ Store!Init
    /\ account \in Accounts
    /\ meetingID = [s \in Sessions |-> NoMeeting]
    /\ drawn = {}
    /\ op = [s \in Sessions |-> Idle]
    /\ requests = 0
    /\ closer = [s \in Sessions |-> [step |-> "wait", meeting |-> NoMeeting]]
    /\ raced = {}

SetOp(s, o) == op' = [op EXCEPT ![s] = o]
SetMeetingID(s, m) == meetingID' = [meetingID EXCEPT ![s] = m]
SetState(s, st) ==
    /\ state' = [state EXCEPT ![s] = st]
    /\ UNCHANGED <<userID, closed, sessions, byUser, pc, loginUser, old>>

\* What the handlers of the store do to it: a leave of somebody who is not in
\* succeeds and changes nothing, as long as the meeting is there.
StoreLeave(m, u) == Store!Leave(m, u) \/ (u \notin Members(m) /\ UNCHANGED roster)

\* A reader between two messages.
Ready(s) == pc[s] = "idle" /\ op[s].step = "idle"

\* readLoop reads a request and the state of the session allows it.
Receive(s, st) ==
    /\ Ready(s)
    /\ s \notin closed
    /\ state[s] = st
    /\ requests < MaxRequests
    /\ requests' = requests + 1

-----------------------------------------------------------------------------
(* Connections and logins: SessionRegistry *)

Connection(s) ==
    /\ \/ Registry!Accept(s)
       \/ op[s].step = "idle" /\ state[s] = "Connected" /\ Registry!HandleLogin(s, account[s])
       \/ Registry!BindUser(s)
       \/ Registry!SetUserID(s)
       \/ Registry!KickOld(s)
       \/ op[s].step = "idle" /\ Registry!HandleLogout(s)
       \/ Registry!Disconnect(s)
    /\ UNCHANGED <<meetingID, roster, drawn, op, requests, closer>>

\* The end of HandleLogin: SetState and SetMeetingID("").  The only other
\* store that can fall between the two, a kick's, writes the same values.
LoginDone(s) ==
    /\ Registry!SetAuthenticated(s)
    /\ SetMeetingID(s, NoMeeting)
    /\ UNCHANGED <<roster, drawn, op, requests, closer>>

-----------------------------------------------------------------------------
(* HandleCreate and HandleJoin *)

HandleCreate(s) ==
    /\ Receive(s, "Authenticated")
    /\ SetOp(s, Op("create", NoMeeting, NoUser, NoSession))
    /\ UNCHANGED <<registryVars, meetingID, roster, drawn, closer>>

\* CreateMeeting succeeds or fails.
CreateMeeting(s) ==
    /\ op[s].step = "create"
    /\ \/ \E m \in Meetings \ drawn :
             /\ Store!Create(m, userID[s])
             /\ drawn' = drawn \cup {m}
             /\ SetOp(s, Op("route", m, NoUser, NoSession))
       \/ UNCHANGED <<roster, drawn>> /\ SetOp(s, Idle)
    /\ UNCHANGED <<registryVars, meetingID, requests, closer>>

MutantRouteRoom(s) ==
    /\ op[s].step = "route"
    /\ \/ SetOp(s, [op[s] EXCEPT !.step = "setMeeting"])
       \/ SetOp(s, Idle)
    /\ UNCHANGED <<registryVars, meetingID, roster, drawn, requests, closer>>

\* allocateRoomRoute, UpsertRoom and AddMember succeed, or one of them fails
\* and rollbackCreate leaves the meeting again.
RouteRoom(s) ==
    /\ op[s].step = "route"
    /\ \/ /\ SetOp(s, [op[s] EXCEPT !.step = "setMeeting"])
          /\ UNCHANGED roster
       \/ /\ StoreLeave(op[s].meeting, userID[s])
          /\ SetOp(s, Idle)
    /\ UNCHANGED <<registryVars, meetingID, drawn, requests, closer>>

HandleJoin(s, m) ==
    /\ Receive(s, "Authenticated")
    /\ SetOp(s, Op("join", m, NoUser, NoSession))
    /\ UNCHANGED <<registryVars, meetingID, roster, drawn, closer>>

\* JoinMeeting admits the user, finds the user in already, or fails (no such
\* meeting, wrong password, full).
JoinMeeting(s) ==
    /\ op[s].step = "join"
    /\ LET m == op[s].meeting IN
       \/ /\ \/ Store!Join(m, userID[s])
             \/ userID[s] \in Members(m) /\ UNCHANGED roster
          /\ SetOp(s, [op[s] EXCEPT !.step = "setMeeting"])
       \/ UNCHANGED roster /\ SetOp(s, Idle)
    /\ UNCHANGED <<registryVars, meetingID, drawn, requests, closer>>

EnterMeeting(s) ==
    /\ op[s].step = "setMeeting"
    /\ SetMeetingID(s, op[s].meeting)
    /\ SetOp(s, [op[s] EXCEPT !.step = "setInMeeting"])
    /\ UNCHANGED <<registryVars, roster, drawn, requests, closer>>

SetInMeeting(s) ==
    /\ op[s].step = "setInMeeting"
    /\ SetState(s, "InMeeting")
    /\ SetOp(s, Idle)
    /\ UNCHANGED <<meetingID, roster, drawn, requests, closer>>

-----------------------------------------------------------------------------
(* leave, called by HandleLeave; without a meeting it only replies *)

HandleLeave(s) ==
    /\ Receive(s, "InMeeting")
    /\ meetingID[s] # NoMeeting
    /\ SetOp(s, Op("leave", meetingID[s], NoUser, NoSession))
    /\ UNCHANGED <<registryVars, meetingID, roster, drawn, closer>>

\* A meeting that is gone is an error: the session keeps its meeting.
LeaveMeeting(s) ==
    /\ op[s].step = "leave"
    /\ LET m == op[s].meeting IN
       \/ roster[m] = {} /\ UNCHANGED roster /\ SetOp(s, Idle)
       \/ /\ roster[m] # {}
          /\ StoreLeave(m, userID[s])
          /\ SetOp(s, [op[s] EXCEPT !.step = "clearMeeting"])
    /\ UNCHANGED <<registryVars, meetingID, drawn, requests, closer>>

ClearMeeting(s) ==
    /\ op[s].step = "clearMeeting"
    /\ SetMeetingID(s, NoMeeting)
    /\ SetOp(s, [op[s] EXCEPT !.step = "checkState"])
    /\ UNCHANGED <<registryVars, roster, drawn, requests, closer>>

CheckState(s) ==
    /\ op[s].step = "checkState"
    /\ SetOp(s, IF state[s] # "Disconnected"
                THEN [op[s] EXCEPT !.step = "setAuthenticated"] ELSE Idle)
    /\ UNCHANGED <<registryVars, meetingID, roster, drawn, requests, closer>>

SetAuthenticated(s) ==
    /\ op[s].step = "setAuthenticated"
    /\ SetState(s, "Authenticated")
    /\ SetOp(s, Idle)
    /\ UNCHANGED <<meetingID, roster, drawn, requests, closer>>

-----------------------------------------------------------------------------
(* HandleKick *)

HandleKick(s, u) ==
    /\ Receive(s, "InMeeting")
    /\ meetingID[s] # NoMeeting
    /\ u # userID[s]
    /\ SetOp(s, Op("kickHost", meetingID[s], u, NoSession))
    /\ UNCHANGED <<registryVars, meetingID, roster, drawn, closer>>

\* IsMeetingHost
KickHost(s) ==
    /\ op[s].step = "kickHost"
    /\ SetOp(s, IF Store!IsHost(roster[op[s].meeting], userID[s])
                THEN [op[s] EXCEPT !.step = "kickFind"] ELSE Idle)
    /\ UNCHANGED <<registryVars, meetingID, roster, drawn, requests, closer>>

\* HasParticipant
KickFind(s) ==
    /\ op[s].step = "kickFind"
    /\ SetOp(s, IF op[s].target \in Members(op[s].meeting)
                THEN [op[s] EXCEPT !.step = "kickLeave"] ELSE Idle)
    /\ UNCHANGED <<registryVars, meetingID, roster, drawn, requests, closer>>

KickLeave(s) ==
    /\ op[s].step = "kickLeave"
    /\ LET m == op[s].meeting IN
       \/ roster[m] = {} /\ UNCHANGED roster /\ SetOp(s, Idle)
       \/ /\ roster[m] # {}
          /\ StoreLeave(m, op[s].target)
          /\ SetOp(s, [op[s] EXCEPT !.step = "kickGet"])
    /\ UNCHANGED <<registryVars, meetingID, drawn, requests, closer>>

\* GetByUser; a session that is not in the meeting is left alone (a target on
\* another node is kickRemoteParticipant's).
KickGet(s) ==
    /\ op[s].step = "kickGet"
    /\ LET k == byUser[op[s].target] IN
       SetOp(s, IF k # NoSession /\ meetingID[k] = op[s].meeting
                THEN [op[s] EXCEPT !.step = "kickClear", !.kicked = k] ELSE Idle)
    /\ UNCHANGED <<registryVars, meetingID, roster, drawn, requests, closer>>

KickClear(s) ==
    /\ op[s].step = "kickClear"
    /\ SetMeetingID(op[s].kicked, NoMeeting)
    /\ SetOp(s, [op[s] EXCEPT !.step = "kickState"])
    /\ UNCHANGED <<registryVars, roster, drawn, requests, closer>>

KickState(s) ==
    /\ op[s].step = "kickState"
    /\ SetState(op[s].kicked, "Authenticated")
    /\ SetOp(s, Idle)
    /\ UNCHANGED <<meetingID, roster, drawn, requests, closer>>

-----------------------------------------------------------------------------
(* The closer: OnSessionClosed, then Remove *)

SetCloser(s, step, m) == closer' = [closer EXCEPT ![s] = [step |-> step, meeting |-> m]]

OnSessionClosed(s) ==
    /\ s \in closed
    /\ closer[s].step = "wait"
    /\ IF meetingID[s] = NoMeeting
       THEN SetCloser(s, "done", NoMeeting)
       ELSE SetCloser(s, "leave", meetingID[s])
    /\ UNCHANGED <<registryVars, meetingID, roster, drawn, op, requests>>

MutantLeaveByDisconnect(s) ==
    /\ closer[s].step = "leave"
    /\ roster[closer[s].meeting] # {}
    /\ StoreLeave(closer[s].meeting, userID[s])
    /\ SetCloser(s, "clear", NoMeeting)
    /\ UNCHANGED <<registryVars, meetingID, drawn, op, requests>>

LeaveByDisconnect(s) ==
    /\ closer[s].step = "leave"
    /\ LET m == closer[s].meeting IN
       \/ roster[m] = {} /\ UNCHANGED roster /\ SetCloser(s, "done", NoMeeting)
       \/ /\ roster[m] # {}
          /\ StoreLeave(m, userID[s])
          /\ SetCloser(s, "clear", NoMeeting)
    /\ UNCHANGED <<registryVars, meetingID, drawn, op, requests>>

\* The state is left alone: leave was called without a reply.
ClearOnClose(s) ==
    /\ closer[s].step = "clear"
    /\ SetMeetingID(s, NoMeeting)
    /\ SetCloser(s, "done", NoMeeting)
    /\ UNCHANGED <<registryVars, roster, drawn, op, requests>>

Remove(s) ==
    /\ closer[s].step = "done"
    /\ Registry!Remove(s)
    /\ UNCHANGED <<meetingID, roster, drawn, op, requests, closer>>

-----------------------------------------------------------------------------

Handler(s) ==
    \/ CreateMeeting(s) \/ RouteRoom(s) \/ JoinMeeting(s) \/ EnterMeeting(s) \/ SetInMeeting(s)
    \/ LeaveMeeting(s) \/ ClearMeeting(s) \/ CheckState(s) \/ SetAuthenticated(s)
    \/ KickHost(s) \/ KickFind(s) \/ KickLeave(s) \/ KickGet(s) \/ KickClear(s) \/ KickState(s)

Closer(s) == OnSessionClosed(s) \/ LeaveByDisconnect(s) \/ ClearOnClose(s) \/ Remove(s)

Connections(u) == {s \in Sessions : account[s] = u}

\* The readers that are on their way into a meeting, and the ones inside a
\* kick that has passed its checks.
Entering == {"create", "route", "join", "setMeeting", "setInMeeting"}
Kicking == {"kickLeave", "kickGet", "kickClear", "kickState"}

\* What the handlers do not guard against: a connection that is closed while
\* its reader is entering a meeting, a second connection that enters one while
\* a closed one is still leaving, or still has to close the one it displaced,
\* and a kick of somebody who is in the middle of a request.
Overlap(u) ==
    \E s \in Connections(u) :
       \/ s \in closed /\ op[s].step \in Entering
       \/ \E t \in Connections(u) \ {s} :
             /\ op[s].step \in Entering
             /\ t \in closed /\ (t \in sessions \/ ~Ready(t))
       \/ \E t \in Sessions :
             /\ op[t].target = u /\ op[t].step \in Kicking
             /\ op[s].step # "idle"

Step(s) ==
    \/ Connection(s)
    \/ LoginDone(s)
    \/ HandleCreate(s)
    \/ \E m \in drawn : HandleJoin(s, m)
    \/ HandleLeave(s)
    \/ \E u \in Users : HandleKick(s, u)
    \/ Handler(s)
    \/ Closer(s)

Track ==
    /\ UNCHANGED account
    /\ raced' = raced \cup {u \in Users : Overlap(u)'}

Next == (\E s \in Sessions : Step(s)) /\ Track

Spec == Init /\ [][Next]_vars

-----------------------------------------------------------------------------
(* Properties *)

TypeOK ==
    /\ state \in [Sessions -> Registry!States \cup {"InMeeting"}]
    /\ meetingID \in [Sessions -> Meetings \cup {NoMeeting}]
    /\ DOMAIN roster = Meetings
    /\ \A m \in Meetings : roster[m] # {} => m \in drawn /\ roster[m] \subseteq Users \X Users
    /\ op \in [Sessions -> [step : OpSteps, meeting : Meetings \cup {NoMeeting},
                            target : Users \cup {NoUser}, kicked : Sessions \cup {NoSession}]]

\* Nothing is going on that concerns the user.
Settled(u) ==
    /\ \A s \in Connections(u) : Ready(s) /\ (s \in closed => s \notin sessions)
    /\ \A s \in Sessions : op[s].target # u

\* What the store and the sessions say about where a user is.
Agree(u) ==
    \A m \in Meetings :
       u \in Members(m) <=>
       \E s \in Connections(u) \ closed : state[s] = "InMeeting" /\ meetingID[s] = m

\* Whenever nothing is going on that concerns a user, the store has the user
\* in exactly the meeting an open session of the user is in, and in none if
\* there is no such session.  It holds for every user who never was in one of
\* the three overlaps: disconnects, re-logins, failed creates, host changes,
\* kicks and leaves may otherwise interleave as they like.
AgreeUnlessRaced == \A u \in Users \ raced : Settled(u) => Agree(u)

\* The closer of a session that has been closed can always go on, up to the
\* removal of the session from the SessionManager: neither a meeting that is
\* gone by then, nor somebody else's kick or leave of the same user, nor the
\* reader that still runs holds it up.
CloserNotStuck == \A s \in closed \cap sessions : ENABLED Closer(s)

\* A user whose connections are all gone is not in a meeting any more.
GoneUserIsOut ==
    \A u \in Users :
       (Settled(u) /\ \A s \in Connections(u) : s \in closed \/ state[s] = "None")
       => \A m \in Meetings : u \notin Members(m)
=============================================================================
