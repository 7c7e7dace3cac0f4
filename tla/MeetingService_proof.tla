------------------------ MODULE MeetingService_proof ------------------------
(* The sessions and the store agree about where a user is, for any number of *)
(* users, connections, meetings and requests: a proof of AgreeUnlessRaced.   *)
EXTENDS MeetingService, TLAPS

\* Most leaves are first-order; those with records or arithmetic say SMT.
USE Zenon

Ops == [step : OpSteps, meeting : Meetings \cup {NoMeeting},
        target : Users \cup {NoUser}, kicked : Sessions \cup {NoSession}]
Closers == [step : {"wait", "leave", "clear", "done"}, meeting : Meetings \cup {NoMeeting}]

Typed ==
    /\ state \in [Sessions -> Registry!States \cup {"InMeeting"}]
    /\ userID \in [Sessions -> Users \cup {NoUser}]
    /\ closed \subseteq Sessions /\ sessions \subseteq Sessions
    /\ byUser \in [Users -> Sessions \cup {NoSession}]
    /\ pc \in [Sessions -> Registry!Steps]
    /\ loginUser \in [Sessions -> Users \cup {NoUser}]
    /\ old \in [Sessions -> Sessions \cup {NoSession}]
    /\ account \in [Sessions -> Users]
    /\ meetingID \in [Sessions -> Meetings \cup {NoMeeting}]
    /\ drawn \subseteq Meetings
    /\ roster \in [Meetings -> SUBSET (Users \X Users)]
    /\ \A m \in Meetings : roster[m] # {} => m \in drawn
    /\ op \in [Sessions -> Ops]
    /\ closer \in [Sessions -> Closers]

-----------------------------------------------------------------------------
(* Connections and their logins *)

\* A login that has come as far as byUser, and one that is over.
PastBind(s) == userID[s] # NoUser \/ pc[s] = "setUser"
LoggedIn(s) == userID[s] # NoUser /\ pc[s] = "idle"

\* Every connection logs in once, to its account.
Logins ==
    \A s \in Sessions :
       /\ userID[s] \in {NoUser, account[s]}
       /\ pc[s] \in {"bind", "setUser"} => userID[s] = NoUser
       /\ pc[s] \in {"kick", "setState"} => userID[s] # NoUser
       /\ pc[s] # "idle" => loginUser[s] = account[s]
       /\ state[s] = "None" => pc[s] = "idle" /\ userID[s] = NoUser
       /\ state[s] = "Connected" => ~LoggedIn(s)
       /\ ~LoggedIn(s) => /\ state[s] \notin {"Authenticated", "InMeeting"}
                          /\ op[s].step = "idle" /\ meetingID[s] = NoMeeting
                          /\ closer[s].step \in {"wait", "done"}

\* What byUser and a login that displaces somebody refer to.
Binding ==
    /\ \A u \in Users : byUser[u] # NoSession => account[byUser[u]] = u /\ PastBind(byUser[u])
    /\ \A s \in Sessions : old[s] # NoSession =>
          /\ pc[s] \in {"setUser", "kick"}
          /\ account[old[s]] = account[s] /\ PastBind(old[s])

\* An open session is the one byUser names, or a login is about to close it.
BoundOrKicked ==
    \A s \in Sessions \ closed :
       PastBind(s) => byUser[account[s]] = s \/ \E r \in Sessions : old[r] = s

\* The closer of a session waits until it is closed and is done when it is removed.
Closing ==
    \A s \in Sessions :
       /\ s \notin closed => closer[s].step = "wait" /\ (state[s] # "None" => s \in sessions)
       /\ s \in closed \ sessions => closer[s].step = "done"
       /\ closer[s].step = "leave" => closer[s].meeting \in Meetings

\* A handler past its first step has a meeting, a kick has a target, and when it
\* has found a session this is one of the target's.
Handling ==
    \A s \in Sessions :
       /\ op[s].step \notin {"idle", "create"} => op[s].meeting \in Meetings
       /\ op[s].step \in {"kickHost", "kickFind"} \cup Kicking => op[s].target \in Users
       /\ op[s].step \in {"kickClear", "kickState"} =>
             /\ op[s].kicked \in Sessions
             /\ account[op[s].kicked] = op[s].target /\ LoggedIn(op[s].kicked)

Base == Typed /\ Logins /\ Binding /\ BoundOrKicked /\ Closing /\ Handling

-----------------------------------------------------------------------------
(* Users who were in no overlap *)

Watched == \A u \in Users \ raced : ~Overlap(u)

Spared(s) == account[s] \notin raced

\* Something of the session's may still enter or leave a meeting.
Engaged(s) ==
    \/ op[s].step # "idle"
    \/ meetingID[s] # NoMeeting /\ closer[s].step # "done"
    \/ closer[s].step \in {"leave", "clear"}

\* Only one session of a user at a time.
Sole ==
    \A s, t \in Sessions :
       Spared(s) /\ account[s] = account[t] /\ Engaged(s) /\ Engaged(t) => s = t

\* The steps of a create or a join at which the user is in the meeting, and those
\* of a leave at which the user is out.
Joined == {"route", "setMeeting", "setInMeeting"}
Left == {"clearMeeting", "checkState", "setAuthenticated"}
KickedOff == {"kickGet", "kickClear", "kickState"}

\* What each handler may rely on at its steps.
Entered ==
    \A s \in Sessions : Spared(s) =>
       /\ op[s].step \in Entering => state[s] # "InMeeting"
       /\ op[s].step \in Joined => account[s] \in Members(op[s].meeting)
       /\ op[s].step = "setInMeeting" => meetingID[s] = op[s].meeting

Leaving ==
    \A s \in Sessions : Spared(s) =>
       /\ op[s].step = "leave" =>
             /\ meetingID[s] \in {op[s].meeting, NoMeeting}
             /\ closer[s].step = "leave" => closer[s].meeting = op[s].meeting
       /\ op[s].step \in Left => \A m \in Meetings : account[s] \notin Members(m)

Kicked ==
    \A s \in Sessions : op[s].target \in Users \ raced =>
       /\ op[s].step \in KickedOff => op[s].target \notin Members(op[s].meeting)
       /\ op[s].step = "kickClear" => meetingID[op[s].kicked] \in {op[s].meeting, NoMeeting}
       /\ op[s].step = "kickState" => meetingID[op[s].kicked] = NoMeeting

\* What a user's being in meeting m comes from.
Holds(s, m) ==
    \/ op[s].step \in Joined /\ op[s].meeting = m
    \/ s \notin closed /\ state[s] = "InMeeting" /\ meetingID[s] = m
    \/ s \in closed /\ closer[s].step = "wait" /\ meetingID[s] = m
    \/ closer[s].step = "leave" /\ closer[s].meeting = m

Held ==
    \A u \in Users \ raced : \A m \in Meetings :
       u \in Members(m) => \E s \in Connections(u) : Holds(s, m)

\* A kick has taken the user of s out of m and will tell s.
Told(s, m) ==
    \E t \in Sessions :
       /\ op[t].target = account[s] /\ op[t].meeting = m
       /\ op[t].step = "kickGet" \/ (op[t].step = "kickClear" /\ op[t].kicked = s)

\* An open session in a meeting is there rightly, or is about to be told, or closed.
Inside ==
    \A s \in Sessions \ closed : \A m \in Meetings :
       /\ Spared(s) /\ op[s].step \notin Left
       /\ state[s] = "InMeeting" /\ meetingID[s] = m
       => account[s] \in Members(m) \/ Told(s, m) \/ byUser[account[s]] # s

IInv ==
    Base /\ Watched /\ Sole /\ Entered /\ Leaving /\ Kicked /\ Held /\ Inside

-----------------------------------------------------------------------------
(* The store *)

\* Who is in after a create, a join and a leave.
LEMMA CreateMembers ==
    ASSUME Typed, NEW m \in Meetings, NEW u \in Users, Store!Create(m, u)
    PROVE  /\ Members(m)' = {u} /\ \A n \in Meetings \ {m} : Members(n)' = Members(n)
           /\ roster' \in [Meetings -> SUBSET (Users \X Users)] /\ \A n \in Meetings \ {m} : roster'[n] = roster[n]
BY SMT DEF Typed, Store!Create, Members, Store!In

LEMMA JoinMembers ==
    ASSUME Typed, NEW m \in Meetings, NEW u \in Users, Store!Join(m, u)
    PROVE  /\ Members(m)' = Members(m) \cup {u} /\ \A n \in Meetings \ {m} : Members(n)' = Members(n)
           /\ roster' \in [Meetings -> SUBSET (Users \X Users)] /\ \A n \in Meetings \ {m} : roster'[n] = roster[n]
           /\ roster[m] # {}
BY SMT DEF Typed, Store!Join, Members, Store!In

LEMMA LeaveMembers ==
    ASSUME Typed, NEW m \in Meetings, NEW u, StoreLeave(m, u)
    PROVE  /\ Members(m)' = Members(m) \ {u} /\ \A n \in Meetings \ {m} : Members(n)' = Members(n)
           /\ roster' \in [Meetings -> SUBSET (Users \X Users)] /\ \A n \in Meetings : roster'[n] \subseteq roster[n]
<1>1. CASE u \notin Members(m) /\ UNCHANGED roster
  BY <1>1 DEF Members, Store!In, Typed
<1>2. CASE Store!Leave(m, u)
  BY <1>2 DEF Typed, Store!Leave, Members, Store!In
<1> QED
  BY <1>1, <1>2 DEF StoreLeave

-----------------------------------------------------------------------------
(* Types *)

\* The steps of a connection and its login, of a handler, and of the closer.
ConnectionStep(s) == Connection(s) \/ LoginDone(s) \/ Remove(s)
HandlerStep(s) ==
    \/ HandleCreate(s) \/ (\E m \in drawn : HandleJoin(s, m)) \/ HandleLeave(s)
    \/ (\E u \in Users : HandleKick(s, u)) \/ Handler(s)
CloserStep(s) == OnSessionClosed(s) \/ LeaveByDisconnect(s) \/ ClearOnClose(s)

LEMMA Steps ==
    ASSUME NEW s, Step(s)
    PROVE  ConnectionStep(s) \/ HandlerStep(s) \/ CloserStep(s)
BY DEF Step, ConnectionStep, HandlerStep, CloserStep, Closer

\* What a step does to op, unless it is a step of the closer or of a login.
LEMMA OpsTyped ==
    ASSUME Typed, NEW s \in Sessions, NEW st \in OpSteps, NEW m \in Meetings \cup {NoMeeting},
           NEW u \in Users \cup {NoUser}, NEW k \in Sessions \cup {NoSession}
    PROVE  /\ Op(st, m, u, k) \in Ops /\ Idle \in Ops
           /\ [op[s] EXCEPT !.step = st] \in Ops
           /\ [op[s] EXCEPT !.step = st, !.kicked = k] \in Ops
<1>1. op[s] \in Ops /\ "idle" \in OpSteps
  BY DEF Typed, OpSteps
<1> QED
  BY <1>1 DEF Ops, Op, Idle

MeetingsSame == UNCHANGED <<meetingID, roster, drawn, op, requests, closer, account>>

\* The steps of a connection and its login keep the types.
LEMMA ConnectionTyped ==
    ASSUME Typed, Logins, NEW s \in Sessions, ConnectionStep(s), Track
    PROVE  Typed'
<1> USE ServiceAssumption DEF Typed, Registry!States, Registry!Steps, MeetingsSame
<1>1. CASE Registry!Accept(s) /\ MeetingsSame
  BY <1>1 DEF Registry!Accept
<1>2. CASE Registry!HandleLogin(s, account[s]) /\ MeetingsSame
  BY <1>2 DEF Registry!HandleLogin
<1>3. CASE Registry!BindUser(s) /\ MeetingsSame
  <2>1. loginUser[s] \in Users
    BY <1>3 DEF Registry!BindUser, Logins
  <2> QED
    BY <1>3, <2>1 DEF Registry!BindUser, Registry!Displaced
<1>4. CASE Registry!SetUserID(s) /\ MeetingsSame
  BY <1>4 DEF Registry!SetUserID
<1>5. CASE Registry!KickOld(s) /\ MeetingsSame
  BY <1>5 DEF Registry!KickOld, Registry!Close
<1>6. CASE (Registry!HandleLogout(s) \/ Registry!Disconnect(s)) /\ MeetingsSame
  BY <1>6, SMT DEF Registry!HandleLogout, Registry!Disconnect, Registry!Close
<1>7. CASE LoginDone(s) /\ UNCHANGED account
  BY <1>7 DEF LoginDone, Registry!SetAuthenticated, SetMeetingID
<1>8. CASE Remove(s) /\ UNCHANGED account
  BY <1>8 DEF Remove, Registry!Remove
<1> QED
  BY <1>1, <1>2, <1>3, <1>4, <1>5, <1>6, <1>7, <1>8 DEF ConnectionStep, Connection, Track, MeetingsSame

\* So do the handlers, and the closer.
LEMMA HandlerTyped ==
    ASSUME Typed, Logins, Handling, Closing, NEW s \in Sessions, HandlerStep(s) \/ CloserStep(s), Track
    PROVE  Typed'
<1>0. /\ op[s] \in Ops /\ account' = account
      /\ meetingID \in [Sessions -> Meetings \cup {NoMeeting}] /\ meetingID[s] \in Meetings \cup {NoMeeting}
      /\ NoUser \in Users \cup {NoUser} /\ NoSession \in Sessions \cup {NoSession} /\ NoMeeting \in Meetings \cup {NoMeeting}
      /\ Idle \in Ops
  <2>1. "idle" \in OpSteps
    BY DEF OpSteps
  <2> QED
    BY <2>1, OpsTyped DEF Typed, Track
<1>1. ASSUME NEW o \in Ops, SetOp(s, o) PROVE op' \in [Sessions -> Ops]
  BY <1>1 DEF SetOp, Typed
<1>2. ASSUME NEW st \in OpSteps, SetOp(s, [op[s] EXCEPT !.step = st]) PROVE op' \in [Sessions -> Ops]
  BY <1>0, <1>1, <1>2, OpsTyped
<1> USE DEF OpSteps
<1>3. ASSUME UNCHANGED registryVars PROVE /\ state' = state /\ userID' = userID /\ closed' = closed /\ sessions' = sessions
                                          /\ byUser' = byUser /\ pc' = pc /\ loginUser' = loginUser /\ old' = old
  BY <1>3 DEF registryVars
<1>4. CASE HandleCreate(s)
  <2>1. Op("create", NoMeeting, NoUser, NoSession) \in Ops
    BY <1>0, OpsTyped
  <2> QED
    BY <1>0, <1>1, <1>3, <1>4, <2>1 DEF Typed, HandleCreate
<1>5. CASE \E m \in drawn : HandleJoin(s, m)
  <2>1. PICK m \in drawn : HandleJoin(s, m)
    BY <1>5
  <2>2. Op("join", m, NoUser, NoSession) \in Ops
    BY <1>0, OpsTyped DEF Typed
  <2> QED
    BY <1>0, <1>1, <1>3, <2>1, <2>2 DEF Typed, HandleJoin
<1>6. CASE HandleLeave(s)
  <2>1. Op("leave", meetingID[s], NoUser, NoSession) \in Ops
    BY <1>0, OpsTyped
  <2> QED
    BY <1>0, <1>1, <1>3, <1>6, <2>1 DEF Typed, HandleLeave
<1>7. CASE \E u \in Users : HandleKick(s, u)
  <2>1. PICK u \in Users : HandleKick(s, u)
    BY <1>7
  <2>2. Op("kickHost", meetingID[s], u, NoSession) \in Ops
    BY <1>0, OpsTyped
  <2> QED
    BY <1>0, <1>1, <1>3, <2>1, <2>2 DEF Typed, HandleKick
<1>8. CASE CreateMeeting(s)
  <2>1. CASE UNCHANGED <<roster, drawn>> /\ SetOp(s, Idle)
    BY <1>0, <1>1, <1>3, <1>8, <2>1 DEF Typed, CreateMeeting
  <2>2. ASSUME NEW m \in Meetings \ drawn, Store!Create(m, userID[s]), drawn' = drawn \cup {m},
               SetOp(s, Op("route", m, NoUser, NoSession))
        PROVE  Typed'
    <3>1. Op("route", m, NoUser, NoSession) \in Ops
      BY <1>0, OpsTyped
    <3>2. userID[s] \in Users
      BY <1>8 DEF CreateMeeting, Logins, LoggedIn, Typed
    <3>3. /\ roster' \in [Meetings -> SUBSET (Users \X Users)]
          /\ \A n \in Meetings \ {m} : roster'[n] = roster[n]
      BY <2>2, <3>2, CreateMembers
    <3> QED
      BY <1>0, <1>1, <1>3, <1>8, <2>2, <3>1, <3>3 DEF Typed, CreateMeeting
  <2> QED
    BY <1>8, <2>1, <2>2 DEF CreateMeeting
<1>9. ASSUME op[s].step \notin {"idle", "create"}, UNCHANGED <<registryVars, meetingID, drawn, requests, closer>>,
             NEW u, UNCHANGED roster \/ StoreLeave(op[s].meeting, u),
             \/ SetOp(s, Idle)
             \/ \E st \in OpSteps : SetOp(s, [op[s] EXCEPT !.step = st])
      PROVE  Typed'
  <2>1. /\ roster' \in [Meetings -> SUBSET (Users \X Users)]
        /\ \A n \in Meetings : roster'[n] \subseteq roster[n]
    <3>1. op[s].meeting \in Meetings
      BY <1>9 DEF Handling
    <3> QED
      BY <1>9, <3>1, LeaveMembers DEF Typed
  <2> QED
    BY <1>0, <1>1, <1>2, <1>3, <1>9, <2>1 DEF Typed
<1>10. CASE RouteRoom(s) \/ LeaveMeeting(s) \/ KickLeave(s)
  BY <1>9, <1>10 DEF RouteRoom, LeaveMeeting, KickLeave
<1>11. CASE CheckState(s) \/ KickHost(s) \/ KickFind(s)
  BY <1>9, <1>11 DEF CheckState, KickHost, KickFind
<1>12. CASE JoinMeeting(s)
  <2>1. CASE UNCHANGED roster
    BY <1>9, <1>12, <2>1 DEF JoinMeeting
  <2>2. CASE Store!Join(op[s].meeting, userID[s]) /\ SetOp(s, [op[s] EXCEPT !.step = "setMeeting"])
    <3>1. userID[s] \in Users /\ op[s].meeting \in Meetings
      BY <1>12 DEF JoinMeeting, Logins, LoggedIn, Typed, Handling
    <3>2. /\ roster' \in [Meetings -> SUBSET (Users \X Users)]
          /\ \A n \in Meetings \ {op[s].meeting} : roster'[n] = roster[n]
          /\ roster[op[s].meeting] # {}
      BY <2>2, <3>1, JoinMembers
    <3> QED
      BY <1>0, <1>2, <1>3, <1>12, <2>2, <3>1, <3>2 DEF Typed, JoinMeeting
  <2> QED
    BY <1>12, <2>1, <2>2 DEF JoinMeeting
<1>13. CASE KickGet(s)
  <2>1. [op[s] EXCEPT !.step = "kickClear", !.kicked = byUser[op[s].target]] \in Ops \/ SetOp(s, Idle)
    <3>1. byUser[op[s].target] \in Sessions \cup {NoSession}
      BY <1>13 DEF Typed, Handling, KickGet, Kicking
    <3> QED
      BY <1>13, <3>1, OpsTyped DEF KickGet
  <2> QED
    BY <1>0, <1>1, <1>3, <1>13, <2>1 DEF Typed, KickGet
<1>14. CASE EnterMeeting(s) \/ ClearMeeting(s) \/ KickClear(s)
  <2>1. op' \in [Sessions -> Ops]
    BY <1>2, <1>14 DEF EnterMeeting, ClearMeeting, KickClear
  <2>2. meetingID' \in [Sessions -> Meetings \cup {NoMeeting}]
    BY <1>0, <1>14 DEF EnterMeeting, ClearMeeting, KickClear, SetMeetingID, Ops
  <2> QED
    BY <1>0, <1>3, <1>14, <2>1, <2>2 DEF Typed, EnterMeeting, ClearMeeting, KickClear
<1>15. CASE SetInMeeting(s) \/ SetAuthenticated(s) \/ KickState(s)
  <2>1. op' \in [Sessions -> Ops]
    BY <1>0, <1>1, <1>15 DEF SetInMeeting, SetAuthenticated, KickState
  <2>2. state' \in [Sessions -> Registry!States \cup {"InMeeting"}]
    BY <1>15 DEF SetInMeeting, SetAuthenticated, KickState, SetState, Registry!States, Typed
  <2> QED
    BY <1>0, <1>15, <2>1, <2>2 DEF Typed, SetInMeeting, SetAuthenticated, KickState, SetState
<1>19. ASSUME NEW st \in {"leave", "clear", "done"}, NEW m \in Meetings \cup {NoMeeting}, SetCloser(s, st, m)
       PROVE  closer' \in [Sessions -> Closers]
  <2>1. [step |-> st, meeting |-> m] \in Closers
    BY DEF Closers
  <2> QED
    BY <1>19, <2>1 DEF SetCloser, Typed
<1>16. CASE OnSessionClosed(s)
  <2>1. closer' \in [Sessions -> Closers]
    BY <1>0, <1>19, <1>16 DEF OnSessionClosed
  <2> QED
    BY <1>0, <1>3, <1>16, <2>1 DEF Typed, OnSessionClosed
<1>17. CASE LeaveByDisconnect(s)
  <2>1. closer' \in [Sessions -> Closers]
    BY <1>0, <1>19, <1>17 DEF LeaveByDisconnect
  <2>2. /\ roster' \in [Meetings -> SUBSET (Users \X Users)]
        /\ \A n \in Meetings : roster'[n] \subseteq roster[n]
    <3>1. closer[s].meeting \in Meetings
      BY <1>17 DEF LeaveByDisconnect, Closing
    <3> QED
      BY <1>17, <3>1, LeaveMembers DEF Typed, LeaveByDisconnect
  <2> QED
    BY <1>0, <1>3, <1>17, <2>1, <2>2 DEF Typed, LeaveByDisconnect
<1>18. CASE ClearOnClose(s)
  <2>1. closer' \in [Sessions -> Closers] /\ meetingID' \in [Sessions -> Meetings \cup {NoMeeting}]
    BY <1>0, <1>18 DEF ClearOnClose, SetCloser, SetMeetingID, Closers, Typed
  <2> QED
    BY <1>0, <1>3, <1>18, <2>1 DEF Typed, ClearOnClose
<1> QED
  BY <1>4, <1>5, <1>6, <1>7, <1>8, <1>10, <1>11, <1>12, <1>13, <1>14, <1>15, <1>16, <1>17, <1>18
     DEF HandlerStep, Handler, CloserStep

-----------------------------------------------------------------------------
(* Connections and their logins *)

\* The steps of a login and of a connection, and the removal of a session.
LEMMA ConnectionLogins ==
    ASSUME Base, NEW s \in Sessions, ConnectionStep(s), Track
    PROVE  Logins' /\ Handling'
<1> USE ServiceAssumption DEF Base, Typed, Logins, Handling, PastBind, LoggedIn, MeetingsSame, Registry!Steps, Registry!States
<1>1. CASE Registry!Accept(s) /\ MeetingsSame
  BY <1>1, SMT DEF Registry!Accept
<1>2. CASE Registry!HandleLogin(s, account[s]) /\ state[s] = "Connected" /\ MeetingsSame
  BY <1>2, SMT DEF Registry!HandleLogin
<1>3. CASE Registry!BindUser(s) /\ MeetingsSame
  BY <1>3, SMT DEF Registry!BindUser
<1>4. CASE Registry!SetUserID(s) /\ MeetingsSame
  BY <1>4, SMT DEF Registry!SetUserID
<1>5. CASE Registry!KickOld(s) /\ MeetingsSame
  <2>1. \A r \in Sessions : state'[r] \in {"Disconnected", state[r]}
    BY <1>5 DEF Registry!KickOld, Registry!Close
  <2> QED
    BY <1>5, <2>1, SMT DEF Registry!KickOld
<1>6. CASE (Registry!HandleLogout(s) \/ Registry!Disconnect(s)) /\ MeetingsSame
  <2>1. \A r \in Sessions : state'[r] \in {"Disconnected", state[r]}
    BY <1>6, SMT DEF Registry!HandleLogout, Registry!Disconnect, Registry!Close
  <2> QED
    BY <1>6, <2>1, SMT DEF Registry!HandleLogout, Registry!Disconnect
<1>7. CASE LoginDone(s) /\ UNCHANGED account
  BY <1>7, SMT DEF LoginDone, Registry!SetAuthenticated, SetMeetingID
<1>8. CASE Remove(s) /\ UNCHANGED account
  BY <1>8 DEF Remove, Registry!Remove
<1> QED
  BY <1>1, <1>2, <1>3, <1>4, <1>5, <1>6, <1>7, <1>8 DEF ConnectionStep, Connection, Track

LEMMA ConnectionClosing ==
    ASSUME Base, NEW s \in Sessions, ConnectionStep(s), Track
    PROVE  Closing'
<1> USE ServiceAssumption DEF Base, Typed, Logins, Closing, MeetingsSame
<1>1. CASE Registry!Accept(s) /\ MeetingsSame
  BY <1>1 DEF Registry!Accept
<1>2. CASE (Registry!HandleLogin(s, account[s]) \/ Registry!BindUser(s) \/ Registry!SetUserID(s)) /\ MeetingsSame
  BY <1>2 DEF Registry!HandleLogin, Registry!BindUser, Registry!SetUserID
<1>3. CASE Registry!KickOld(s) /\ MeetingsSame
  <2>1. old[s] \in Sessions => state[old[s]] # "None"
    BY <1>3, SMT DEF Binding, PastBind
  <2> QED
    BY <1>3, <2>1 DEF Registry!KickOld, Registry!Close
<1>4. CASE (Registry!HandleLogout(s) \/ Registry!Disconnect(s)) /\ MeetingsSame
  BY <1>4 DEF Registry!HandleLogout, Registry!Disconnect, Registry!Close
<1>5. CASE LoginDone(s) /\ UNCHANGED account
  BY <1>5 DEF LoginDone, Registry!SetAuthenticated
<1>6. CASE Remove(s) /\ UNCHANGED account
  BY <1>6 DEF Remove, Registry!Remove
<1> QED
  BY <1>1, <1>2, <1>3, <1>4, <1>5, <1>6 DEF ConnectionStep, Connection, Track

LEMMA ConnectionBinding ==
    ASSUME Base, NEW s \in Sessions, ConnectionStep(s), Track
    PROVE  Binding' /\ BoundOrKicked'
<1> USE ServiceAssumption DEF Base, Typed, Binding, BoundOrKicked, PastBind, MeetingsSame
<1>1. CASE Registry!Accept(s) /\ MeetingsSame
  BY <1>1, SMT DEF Registry!Accept
<1>2. CASE Registry!HandleLogin(s, account[s]) /\ state[s] = "Connected" /\ MeetingsSame
  <2>1. pc[s] = "idle" /\ userID[s] = NoUser
    BY <1>2 DEF Registry!HandleLogin, Logins, LoggedIn
  <2> QED
    BY <1>2, <2>1, SMT DEF Registry!HandleLogin
<1>3. CASE Registry!BindUser(s) /\ MeetingsSame
  <2> DEFINE u == account[s]
  <2>1. /\ u \in Users /\ loginUser[s] = u /\ pc[s] = "bind" /\ pc'[s] = "setUser" /\ ~PastBind(s) /\ userID' = userID
        /\ account' = account /\ closed' = closed
        /\ \A r \in Sessions \ {s} : pc'[r] = pc[r] /\ old'[r] = old[r]
        /\ byUser'[u] = s /\ \A v \in Users \ {u} : byUser'[v] = byUser[v]
    BY <1>3, SMT DEF Registry!BindUser, Logins
  <2>2. byUser[u] # s /\ old[s] = NoSession
    BY <2>1, SMT
  <2>3. old'[s] = byUser[u]
    BY <1>3, <2>1, <2>2, SMT DEF Registry!BindUser, Registry!Displaced
  <2> HIDE DEF u
  <2>4. \A r \in Sessions : PastBind(r)' <=> (PastBind(r) \/ r = s)
    BY <2>1
  <2>5. Binding'
    BY <2>1, <2>2, <2>3, <2>4, SMT DEF u
  <2>6. BoundOrKicked'
    <3> SUFFICES ASSUME NEW r \in Sessions, r \notin closed, PastBind(r)'
                 PROVE  byUser'[account[r]] = r \/ \E q \in Sessions : old'[q] = r
      BY <2>1
    <3>1. CASE r = s
      BY <2>1, <3>1 DEF u
    <3>2. CASE r # s
      <4>1. byUser[account[r]] = r \/ \E q \in Sessions : old[q] = r
        BY <2>4, <3>2
      <4> QED
        BY <2>1, <2>2, <2>3, <3>2, <4>1, SMT
    <3> QED
      BY <3>1, <3>2
  <2> QED
    BY <2>5, <2>6
<1>4. CASE Registry!SetUserID(s) /\ MeetingsSame
  <2>1. loginUser[s] # NoUser
    BY <1>4, SMT DEF Registry!SetUserID, Logins
  <2> QED
    BY <1>4, <2>1, SMT DEF Registry!SetUserID
<1>5. CASE Registry!KickOld(s) /\ MeetingsSame
  <2>1. /\ old'[s] = NoSession /\ \A r \in Sessions \ {s} : pc'[r] = pc[r] /\ old'[r] = old[r]
        /\ pc[s] = "kick" /\ pc'[s] = "setState" /\ userID' = userID /\ byUser' = byUser /\ account' = account
        /\ closed \subseteq closed' /\ (old[s] # NoSession => old[s] \in closed')
    BY <1>5, SMT DEF Registry!KickOld, Registry!Close
  <2>2. \A r \in Sessions : PastBind(r)' <=> PastBind(r)
    BY <2>1 DEF Logins
  <2> QED
    BY <2>1, <2>2, SMT
<1>6. CASE (Registry!HandleLogout(s) \/ Registry!Disconnect(s)) /\ MeetingsSame
  BY <1>6, SMT DEF Registry!HandleLogout, Registry!Disconnect, Registry!Close
<1>7. CASE LoginDone(s) /\ UNCHANGED account
  BY <1>7, SMT DEF LoginDone, Registry!SetAuthenticated
<1>8. CASE Remove(s) /\ UNCHANGED account
  <2>1. /\ s \in closed /\ \A u \in Users : byUser'[u] \in {NoSession, byUser[u]}
        /\ \A u \in Users : byUser[u] # s => byUser'[u] = byUser[u]
        /\ UNCHANGED <<userID, closed, pc, old>>
    BY <1>8 DEF Remove, Registry!Remove
  <2> QED
    BY <1>8, <2>1, SMT
<1> QED
  BY <1>1, <1>2, <1>3, <1>4, <1>5, <1>6, <1>7, <1>8 DEF ConnectionStep, Connection, Track

-----------------------------------------------------------------------------
(* What the steps of the handlers and of the closer do, session by session *)

OthersOps(s) == \A r \in Sessions \ {s} : op'[r] = op[r]
Begins(s, st, m, u) ==
    /\ op[s].step = "idle" /\ OthersOps(s)
    /\ op'[s].step = st /\ op'[s].meeting = m /\ op'[s].target = u
Goes(s, st) ==
    /\ OthersOps(s)
    /\ op'[s].step = st
    /\ op'[s].meeting = op[s].meeting /\ op'[s].target = op[s].target /\ op'[s].kicked = op[s].kicked
Ends(s) == OthersOps(s) /\ op'[s].step = "idle" /\ op'[s].target = NoUser

LEMMA SetOpMeans ==
    ASSUME Typed, NEW s \in Sessions
    PROVE  /\ SetOp(s, Idle) => Ends(s)
           /\ \A st \in OpSteps : SetOp(s, [op[s] EXCEPT !.step = st]) => Goes(s, st)
           /\ \A st \in OpSteps, m \in Meetings \cup {NoMeeting}, u \in Users \cup {NoUser} :
                 SetOp(s, Op(st, m, u, NoSession)) /\ op[s].step = "idle" => Begins(s, st, m, u)
<1>1. op \in [Sessions -> Ops] /\ op[s] \in Ops
  BY DEF Typed
<1>2. ASSUME NEW o, SetOp(s, o) PROVE op'[s] = o /\ OthersOps(s)
  BY <1>1, <1>2 DEF SetOp, OthersOps
<1>3. SetOp(s, Idle) => Ends(s)
  BY <1>2, SMT DEF Ends, Idle, Op
<1>4. ASSUME NEW st \in OpSteps, SetOp(s, [op[s] EXCEPT !.step = st]) PROVE Goes(s, st)
  <2>1. op'[s] = [op[s] EXCEPT !.step = st] /\ OthersOps(s)
    BY <1>2, <1>4
  <2> QED
    BY <1>1, <2>1 DEF Goes, Ops
<1>5. ASSUME NEW st \in OpSteps, NEW m \in Meetings \cup {NoMeeting}, NEW u \in Users \cup {NoUser},
             SetOp(s, Op(st, m, u, NoSession)), op[s].step = "idle"
      PROVE  Begins(s, st, m, u)
  <2>1. op'[s] = Op(st, m, u, NoSession) /\ OthersOps(s)
    BY <1>2, <1>5
  <2> QED
    BY <1>5, <2>1, SMT DEF Begins, Op
<1> QED
  BY <1>3, <1>4, <1>5

\* What a step leaves alone.
LoginsSame == UNCHANGED <<userID, closed, sessions, byUser, pc, loginUser, old, account>>
MembersSame == \A m \in Meetings : Members(m)' = Members(m)
GoesOut(u, m) ==
    \A n \in Meetings, v \in Users : v \in Members(n)' <=> v \in Members(n) /\ ~(n = m /\ v = u)
ComesIn(u, m) ==
    \A n \in Meetings, v \in Users : v \in Members(n)' <=> v \in Members(n) \/ (n = m /\ v = u)

LEMMA StoreOut ==
    ASSUME Typed, NEW m \in Meetings, NEW u, StoreLeave(m, u)
    PROVE  GoesOut(u, m)
BY LeaveMembers, SMT DEF GoesOut

\* A handler moves on, or ends, without touching the sessions and the store.
OpOnly == LoginsSame /\ MembersSame /\ UNCHANGED <<state, meetingID, closer>>
\* It calls the store.
StoreOnly == LoginsSame /\ UNCHANGED <<state, meetingID, closer>>

LEMMA RegistrySame ==
    ASSUME UNCHANGED registryVars, Track
    PROVE  LoginsSame /\ UNCHANGED state
BY DEF registryVars, LoginsSame, Track

LEMMA RosterSame ==
    ASSUME UNCHANGED roster
    PROVE  MembersSame
BY DEF MembersSame, Members

\* A request is read from a session that is open and logged in.
Reads(s, st) == LoggedIn(s) /\ Ready(s) /\ s \notin closed /\ state[s] = st

LEMMA DoesHandleCreate ==
    ASSUME Base, NEW s \in Sessions, HandleCreate(s), Track
    PROVE  Reads(s, "Authenticated") /\ OpOnly /\ Begins(s, "create", NoMeeting, NoUser)
<1>1. Begins(s, "create", NoMeeting, NoUser)
  BY SetOpMeans DEF HandleCreate, Receive, Ready, OpSteps, Base
<1>2. Reads(s, "Authenticated")
  BY DEF HandleCreate, Receive, Reads, Base, Logins
<1> QED
  BY <1>1, <1>2, RegistrySame, RosterSame DEF HandleCreate, OpOnly

LEMMA DoesHandleJoin ==
    ASSUME Base, NEW s \in Sessions, NEW m \in drawn, HandleJoin(s, m), Track
    PROVE  Reads(s, "Authenticated") /\ OpOnly /\ m \in Meetings /\ Begins(s, "join", m, NoUser)
<1>1. m \in Meetings
  BY DEF Base, Typed
<1>2. Begins(s, "join", m, NoUser)
  BY <1>1, SetOpMeans DEF HandleJoin, Receive, Ready, OpSteps, Base
<1>3. Reads(s, "Authenticated")
  BY DEF HandleJoin, Receive, Reads, Base, Logins
<1> QED
  BY <1>1, <1>2, <1>3, RegistrySame, RosterSame DEF HandleJoin, OpOnly

LEMMA DoesHandleLeave ==
    ASSUME Base, NEW s \in Sessions, HandleLeave(s), Track
    PROVE  /\ Reads(s, "InMeeting") /\ OpOnly
           /\ meetingID[s] \in Meetings /\ Begins(s, "leave", meetingID[s], NoUser)
<1>1. meetingID[s] \in Meetings
  BY DEF Base, Typed, HandleLeave
<1>2. Begins(s, "leave", meetingID[s], NoUser)
  BY <1>1, SetOpMeans DEF HandleLeave, Receive, Ready, OpSteps, Base
<1>3. Reads(s, "InMeeting")
  BY DEF HandleLeave, Receive, Reads, Base, Logins
<1> QED
  BY <1>1, <1>2, <1>3, RegistrySame, RosterSame DEF HandleLeave, OpOnly

LEMMA DoesHandleKick ==
    ASSUME Base, NEW s \in Sessions, NEW u \in Users, HandleKick(s, u), Track
    PROVE  /\ Reads(s, "InMeeting") /\ OpOnly
           /\ meetingID[s] \in Meetings /\ Begins(s, "kickHost", meetingID[s], u)
<1>1. meetingID[s] \in Meetings
  BY DEF Base, Typed, HandleKick
<1>2. Begins(s, "kickHost", meetingID[s], u)
  BY <1>1, SetOpMeans DEF HandleKick, Receive, Ready, OpSteps, Base
<1>3. Reads(s, "InMeeting")
  BY DEF HandleKick, Receive, Reads, Base, Logins
<1> QED
  BY <1>1, <1>2, <1>3, RegistrySame, RosterSame DEF HandleKick, OpOnly

\* A reader in a handler is logged in, and as its account.
LEMMA AsAccount ==
    ASSUME Base, NEW s \in Sessions, op[s].step # "idle" \/ closer[s].step \in {"leave", "clear"}
    PROVE  LoggedIn(s) /\ userID[s] = account[s] /\ account[s] \in Users
<1>1. LoggedIn(s)
  BY DEF Base, Logins
<1> QED
  BY <1>1 DEF Base, Logins, LoggedIn, Typed

LEMMA DoesCreateMeeting ==
    ASSUME Base, NEW s \in Sessions, CreateMeeting(s), Track
    PROVE  /\ op[s].step = "create" /\ StoreOnly
           /\ \/ MembersSame /\ Ends(s)
              \/ /\ ComesIn(account[s], op'[s].meeting) /\ op'[s].meeting \in Meetings
                 /\ OthersOps(s) /\ op'[s].step = "route" /\ op'[s].target = NoUser
<1>1. op[s].step = "create" /\ StoreOnly
  BY RegistrySame DEF CreateMeeting, StoreOnly
<1>2. CASE UNCHANGED <<roster, drawn>> /\ SetOp(s, Idle)
  BY <1>1, <1>2, RosterSame, SetOpMeans DEF Base
<1>3. ASSUME NEW m \in Meetings \ drawn, Store!Create(m, userID[s]), SetOp(s, Op("route", m, NoUser, NoSession))
      PROVE  /\ ComesIn(account[s], op'[s].meeting) /\ op'[s].meeting \in Meetings
             /\ OthersOps(s) /\ op'[s].step = "route" /\ op'[s].target = NoUser
  <2>1. op'[s] = Op("route", m, NoUser, NoSession) /\ OthersOps(s)
    BY <1>3 DEF SetOp, OthersOps, Base, Typed
  <2>2. op'[s].meeting = m /\ op'[s].step = "route" /\ op'[s].target = NoUser
    BY <2>1, SMT DEF Op
  <2>3. Members(m) = {}
    BY DEF Members, Store!In, Base, Typed
  <2>4. userID[s] = account[s] /\ account[s] \in Users
    BY <1>1, AsAccount
  <2>5. ComesIn(account[s], m)
    <3>1. ASSUME NEW u \in Users, Store!Create(m, u) PROVE ComesIn(u, m)
      BY <2>3, <3>1, CreateMembers, SMT DEF Base, ComesIn
    <3> QED
      BY <1>3, <2>4, <3>1
  <2> QED
    BY <2>1, <2>2, <2>5
<1> QED
  BY <1>1, <1>2, <1>3 DEF CreateMeeting

LEMMA DoesRouteRoom ==
    ASSUME Base, NEW s \in Sessions, RouteRoom(s), Track
    PROVE  /\ op[s].step = "route" /\ StoreOnly /\ op[s].meeting \in Meetings
           /\ \/ MembersSame /\ Goes(s, "setMeeting")
              \/ GoesOut(account[s], op[s].meeting) /\ Ends(s)
<1>1. op[s].step = "route" /\ StoreOnly /\ op[s].meeting \in Meetings
  BY RegistrySame DEF RouteRoom, StoreOnly, Base, Handling
<1>2. CASE SetOp(s, [op[s] EXCEPT !.step = "setMeeting"]) /\ UNCHANGED roster
  BY <1>1, <1>2, RosterSame, SetOpMeans DEF Base, OpSteps
<1>3. CASE StoreLeave(op[s].meeting, userID[s]) /\ SetOp(s, Idle)
  <2>1. GoesOut(userID[s], op[s].meeting)
    BY <1>1, <1>3, StoreOut DEF Base
  <2> QED
    BY <1>1, <1>3, <2>1, AsAccount, SetOpMeans DEF Base
<1> QED
  BY <1>2, <1>3 DEF RouteRoom

LEMMA DoesJoinMeeting ==
    ASSUME Base, NEW s \in Sessions, JoinMeeting(s), Track
    PROVE  /\ op[s].step = "join" /\ StoreOnly /\ op[s].meeting \in Meetings
           /\ \/ ComesIn(account[s], op[s].meeting) /\ Goes(s, "setMeeting")
              \/ MembersSame /\ Ends(s)
<1>1. op[s].step = "join" /\ StoreOnly /\ op[s].meeting \in Meetings
  BY RegistrySame DEF JoinMeeting, StoreOnly, Base, Handling
<1>2. userID[s] = account[s] /\ account[s] \in Users
  BY <1>1, AsAccount
<1>3. CASE UNCHANGED roster /\ SetOp(s, Idle)
  BY <1>1, <1>3, RosterSame, SetOpMeans DEF Base
<1>4. CASE Store!Join(op[s].meeting, userID[s]) /\ SetOp(s, [op[s] EXCEPT !.step = "setMeeting"])
  <2>1. ComesIn(account[s], op[s].meeting)
    <3>1. ASSUME NEW m \in Meetings, NEW u \in Users, Store!Join(m, u) PROVE ComesIn(u, m)
      BY <3>1, JoinMembers, SMT DEF Base, ComesIn
    <3> QED
      BY <1>1, <1>2, <1>4, <3>1
  <2> QED
    BY <1>1, <1>4, <2>1, SetOpMeans DEF Base, OpSteps
<1>5. CASE /\ userID[s] \in Members(op[s].meeting) /\ UNCHANGED roster
           /\ SetOp(s, [op[s] EXCEPT !.step = "setMeeting"])
  <2>1. ComesIn(account[s], op[s].meeting)
    BY <1>1, <1>2, <1>5, RosterSame DEF ComesIn, MembersSame
  <2> QED
    BY <1>1, <1>5, <2>1, SetOpMeans DEF Base, OpSteps
<1> QED
  BY <1>3, <1>4, <1>5 DEF JoinMeeting

\* A store of a session's meetingID, and one of its state.
Points(s, m) == meetingID'[s] = m /\ \A r \in Sessions \ {s} : meetingID'[r] = meetingID[r]
Turns(s, st) == state'[s] = st /\ \A r \in Sessions \ {s} : state'[r] = state[r]

LEMMA Stores ==
    ASSUME Typed, Track, NEW s \in Sessions, NEW x
    PROVE  /\ SetMeetingID(s, x) => Points(s, x)
           /\ SetState(s, x) => Turns(s, x) /\ LoginsSame
BY DEF Typed, SetMeetingID, SetState, Points, Turns, LoginsSame, Track

LEMMA DoesEnterMeeting ==
    ASSUME Base, NEW s \in Sessions, EnterMeeting(s), Track
    PROVE  /\ op[s].step = "setMeeting" /\ LoginsSame /\ MembersSame /\ UNCHANGED <<state, closer>>
           /\ Points(s, op[s].meeting) /\ op[s].meeting \in Meetings /\ Goes(s, "setInMeeting")
BY RegistrySame, RosterSame, Stores, SetOpMeans DEF EnterMeeting, Base, Handling, OpSteps

LEMMA DoesSetInMeeting ==
    ASSUME Base, NEW s \in Sessions, SetInMeeting(s), Track
    PROVE  /\ op[s].step = "setInMeeting" /\ LoginsSame /\ MembersSame /\ UNCHANGED <<meetingID, closer>>
           /\ Turns(s, "InMeeting") /\ Ends(s)
BY RosterSame, Stores, SetOpMeans DEF SetInMeeting, Base

LEMMA DoesLeaveMeeting ==
    ASSUME Base, NEW s \in Sessions, LeaveMeeting(s), Track
    PROVE  /\ op[s].step = "leave" /\ StoreOnly /\ op[s].meeting \in Meetings
           /\ \/ MembersSame /\ Ends(s)
              \/ GoesOut(account[s], op[s].meeting) /\ Goes(s, "clearMeeting")
<1>1. op[s].step = "leave" /\ StoreOnly /\ op[s].meeting \in Meetings
  BY RegistrySame DEF LeaveMeeting, StoreOnly, Base, Handling
<1>2. CASE UNCHANGED roster /\ SetOp(s, Idle)
  BY <1>1, <1>2, RosterSame, SetOpMeans DEF Base
<1>3. CASE StoreLeave(op[s].meeting, userID[s]) /\ SetOp(s, [op[s] EXCEPT !.step = "clearMeeting"])
  <2>1. GoesOut(userID[s], op[s].meeting)
    BY <1>1, <1>3, StoreOut DEF Base
  <2> QED
    BY <1>1, <1>3, <2>1, AsAccount, SetOpMeans DEF Base, OpSteps
<1> QED
  BY <1>2, <1>3 DEF LeaveMeeting

LEMMA DoesClearMeeting ==
    ASSUME Base, NEW s \in Sessions, ClearMeeting(s), Track
    PROVE  /\ op[s].step = "clearMeeting" /\ LoginsSame /\ MembersSame /\ UNCHANGED <<state, closer>>
           /\ Points(s, NoMeeting) /\ Goes(s, "checkState")
BY RegistrySame, RosterSame, Stores, SetOpMeans DEF ClearMeeting, Base, OpSteps

LEMMA DoesCheckState ==
    ASSUME Base, NEW s \in Sessions, CheckState(s), Track
    PROVE  /\ op[s].step = "checkState" /\ OpOnly
           /\ \/ Goes(s, "setAuthenticated")
              \/ Ends(s) /\ state[s] = "Disconnected"
BY RegistrySame, RosterSame, SetOpMeans DEF CheckState, Base, OpOnly, OpSteps

LEMMA DoesSetAuthenticated ==
    ASSUME Base, NEW s \in Sessions, SetAuthenticated(s), Track
    PROVE  /\ op[s].step = "setAuthenticated" /\ LoginsSame /\ MembersSame /\ UNCHANGED <<meetingID, closer>>
           /\ Turns(s, "Authenticated") /\ Ends(s)
BY RosterSame, Stores, SetOpMeans DEF SetAuthenticated, Base

LEMMA DoesKickChecks ==
    ASSUME Base, NEW s \in Sessions, KickHost(s) \/ KickFind(s), Track
    PROVE  /\ OpOnly
           /\ \/ op[s].step = "kickHost" /\ Goes(s, "kickFind")
              \/ op[s].step = "kickFind" /\ Goes(s, "kickLeave")
              \/ op[s].step \in {"kickHost", "kickFind"} /\ Ends(s)
BY RegistrySame, RosterSame, SetOpMeans DEF KickHost, KickFind, Base, OpOnly, OpSteps

LEMMA DoesKickLeave ==
    ASSUME Base, NEW s \in Sessions, KickLeave(s), Track
    PROVE  /\ op[s].step = "kickLeave" /\ StoreOnly /\ op[s].meeting \in Meetings
           /\ \/ MembersSame /\ Ends(s)
              \/ GoesOut(op[s].target, op[s].meeting) /\ Goes(s, "kickGet")
<1>1. op[s].step = "kickLeave" /\ StoreOnly /\ op[s].meeting \in Meetings
  BY RegistrySame DEF KickLeave, StoreOnly, Base, Handling
<1>2. CASE UNCHANGED roster /\ SetOp(s, Idle)
  BY <1>1, <1>2, RosterSame, SetOpMeans DEF Base
<1>3. CASE StoreLeave(op[s].meeting, op[s].target) /\ SetOp(s, [op[s] EXCEPT !.step = "kickGet"])
  <2>1. GoesOut(op[s].target, op[s].meeting)
    BY <1>1, <1>3, StoreOut DEF Base
  <2> QED
    BY <1>1, <1>3, <2>1, SetOpMeans DEF Base, OpSteps
<1> QED
  BY <1>2, <1>3 DEF KickLeave

LEMMA DoesKickGet ==
    ASSUME Base, NEW s \in Sessions, KickGet(s), Track
    PROVE  /\ op[s].step = "kickGet" /\ OpOnly /\ op[s].target \in Users
           /\ OthersOps(s)
           /\ LET k == byUser[op[s].target] IN
              \/ ~(k # NoSession /\ meetingID[k] = op[s].meeting) /\ Ends(s)
              \/ /\ k \in Sessions /\ meetingID[k] = op[s].meeting
                 /\ op'[s].step = "kickClear" /\ op'[s].kicked = k
                 /\ op'[s].meeting = op[s].meeting /\ op'[s].target = op[s].target
<1> DEFINE k == byUser[op[s].target]
<1>1. op[s].step = "kickGet" /\ OpOnly /\ op[s].target \in Users
  BY RegistrySame, RosterSame DEF KickGet, OpOnly, Base, Handling, Kicking
<1>2. k \in Sessions \cup {NoSession}
  BY <1>1 DEF Base, Typed
<1>3. CASE ~(k # NoSession /\ meetingID[k] = op[s].meeting)
  <2>1. SetOp(s, Idle)
    BY <1>3 DEF KickGet
  <2>2. Ends(s)
    BY <2>1, SetOpMeans DEF Base
  <2> QED
    BY <1>1, <1>3, <2>2 DEF Ends
<1>4. CASE k # NoSession /\ meetingID[k] = op[s].meeting
  <2>1. SetOp(s, [op[s] EXCEPT !.step = "kickClear", !.kicked = k])
    BY <1>4 DEF KickGet
  <2>2. op \in [Sessions -> Ops] /\ op[s] \in Ops
    BY DEF Base, Typed
  <2>3. op'[s] = [op[s] EXCEPT !.step = "kickClear", !.kicked = k] /\ OthersOps(s)
    BY <2>1, <2>2 DEF SetOp, OthersOps
  <2>4. /\ op'[s].step = "kickClear" /\ op'[s].kicked = k
        /\ op'[s].meeting = op[s].meeting /\ op'[s].target = op[s].target
    <3> HIDE DEF k
    <3> QED
      BY <2>2, <2>3 DEF Ops
  <2> QED
    BY <1>1, <1>2, <1>4, <2>3, <2>4
<1> QED
  BY <1>3, <1>4

LEMMA DoesKickClear ==
    ASSUME Base, NEW s \in Sessions, KickClear(s), Track
    PROVE  /\ op[s].step = "kickClear" /\ LoginsSame /\ MembersSame /\ UNCHANGED <<state, closer>>
           /\ op[s].kicked \in Sessions /\ Points(op[s].kicked, NoMeeting) /\ Goes(s, "kickState")
<1>1. op[s].step = "kickClear" /\ op[s].kicked \in Sessions
  BY DEF KickClear, Base, Handling
<1>2. Points(op[s].kicked, NoMeeting)
  BY <1>1, Stores DEF KickClear, Base
<1> QED
  BY <1>1, <1>2, RegistrySame, RosterSame, SetOpMeans DEF KickClear, Base, OpSteps

LEMMA DoesKickState ==
    ASSUME Base, NEW s \in Sessions, KickState(s), Track
    PROVE  /\ op[s].step = "kickState" /\ LoginsSame /\ MembersSame /\ UNCHANGED <<meetingID, closer>>
           /\ op[s].kicked \in Sessions /\ Turns(op[s].kicked, "Authenticated") /\ Ends(s)
<1>1. op[s].step = "kickState" /\ op[s].kicked \in Sessions
  BY DEF KickState, Base, Handling
<1>2. Turns(op[s].kicked, "Authenticated") /\ LoginsSame
  BY <1>1, Stores DEF KickState, Base
<1> QED
  BY <1>1, <1>2, RosterSame, SetOpMeans DEF KickState, Base

\* The closer of s goes from one step to the next.
Closes(s, from, to) ==
    /\ closer[s].step = from /\ closer'[s].step = to
    /\ \A r \in Sessions \ {s} : closer'[r] = closer[r]

LEMMA DoesOnSessionClosed ==
    ASSUME Base, NEW s \in Sessions, OnSessionClosed(s), Track
    PROVE  /\ LoginsSame /\ MembersSame /\ UNCHANGED <<state, meetingID, op>> /\ s \in closed
           /\ \/ meetingID[s] = NoMeeting /\ Closes(s, "wait", "done")
              \/ /\ meetingID[s] \in Meetings /\ Closes(s, "wait", "leave")
                 /\ closer'[s].meeting = meetingID[s]
<1>1. /\ LoginsSame /\ MembersSame /\ UNCHANGED <<state, meetingID, op>> /\ s \in closed
      /\ closer[s].step = "wait" /\ closer \in [Sessions -> Closers]
  BY RegistrySame, RosterSame DEF OnSessionClosed, Base, Typed
<1> QED
  BY <1>1, SMT DEF OnSessionClosed, SetCloser, Closes, Base, Typed

LEMMA DoesLeaveByDisconnect ==
    ASSUME Base, NEW s \in Sessions, LeaveByDisconnect(s), Track
    PROVE  /\ LoginsSame /\ UNCHANGED <<state, meetingID, op>>
           /\ closer[s].meeting \in Meetings
           /\ \/ MembersSame /\ Members(closer[s].meeting) = {} /\ Closes(s, "leave", "done")
              \/ GoesOut(account[s], closer[s].meeting) /\ Closes(s, "leave", "clear")
<1>1. /\ LoginsSame /\ UNCHANGED <<state, meetingID, op>> /\ closer[s].meeting \in Meetings
      /\ closer[s].step = "leave" /\ closer \in [Sessions -> Closers]
  BY RegistrySame DEF LeaveByDisconnect, Base, Typed, Closing
<1>2. CASE roster[closer[s].meeting] = {} /\ UNCHANGED roster /\ SetCloser(s, "done", NoMeeting)
  BY <1>1, <1>2, RosterSame DEF SetCloser, Closes, Members, Store!In
<1>3. CASE StoreLeave(closer[s].meeting, userID[s]) /\ SetCloser(s, "clear", NoMeeting)
  <2>1. GoesOut(userID[s], closer[s].meeting)
    BY <1>1, <1>3, StoreOut DEF Base
  <2>2. Closes(s, "leave", "clear")
    BY <1>1, <1>3 DEF SetCloser, Closes
  <2> QED
    BY <1>1, <2>1, <2>2, AsAccount
<1> QED
  BY <1>2, <1>3 DEF LeaveByDisconnect

LEMMA DoesClearOnClose ==
    ASSUME Base, NEW s \in Sessions, ClearOnClose(s), Track
    PROVE  /\ LoginsSame /\ MembersSame /\ UNCHANGED <<state, op>>
           /\ Points(s, NoMeeting) /\ Closes(s, "clear", "done")
<1>1. Closes(s, "clear", "done")
  BY DEF ClearOnClose, SetCloser, Closes, Base, Typed
<1> QED
  BY <1>1, RegistrySame, RosterSame, Stores DEF ClearOnClose, Base

\* The steps of a connection and its login concern a meeting only when they
\* close a session.
Apart ==
    /\ MembersSame /\ UNCHANGED <<account, op, closer, meetingID>> /\ closed \subseteq closed'
    /\ \A r \in Sessions :
          /\ state'[r] = "InMeeting" => state[r] = "InMeeting"
          /\ state[r] = "InMeeting" /\ r \notin closed' => state'[r] = "InMeeting"
          /\ LoggedIn(r) /\ byUser[account[r]] # r => byUser'[account[r]] # r

LEMMA DoesConnection ==
    ASSUME Base, NEW s \in Sessions, ConnectionStep(s), Track
    PROVE  Apart
<1>0. MembersSame /\ UNCHANGED <<account, op, closer>>
  BY RosterSame DEF ConnectionStep, Connection, LoginDone, Remove, Track
<1>1. UNCHANGED meetingID
  <2>1. CASE LoginDone(s)
    <3>1. meetingID[s] = NoMeeting
      BY <2>1 DEF LoginDone, Registry!SetAuthenticated, Base, Logins, LoggedIn
    <3> QED
      BY <2>1, <3>1 DEF LoginDone, SetMeetingID, Base, Typed
  <2> QED
    BY <2>1 DEF ConnectionStep, Connection, Remove
<1>2. ASSUME UNCHANGED <<state, closed>> PROVE \A r \in Sessions :
          /\ closed \subseteq closed'
          /\ state'[r] = "InMeeting" => state[r] = "InMeeting"
          /\ state[r] = "InMeeting" /\ r \notin closed' => state'[r] = "InMeeting"
  BY <1>2
<1>3. \A r \in Sessions :
          /\ closed \subseteq closed'
          /\ state'[r] = "InMeeting" => state[r] = "InMeeting"
          /\ state[r] = "InMeeting" /\ r \notin closed' => state'[r] = "InMeeting"
  <2>1. CASE Registry!Accept(s)
    BY <2>1 DEF Registry!Accept, Base, Typed
  <2>2. CASE Registry!HandleLogin(s, account[s]) \/ Registry!BindUser(s) \/ Registry!SetUserID(s) \/ Registry!Remove(s)
    BY <1>2, <2>2 DEF Registry!HandleLogin, Registry!BindUser, Registry!SetUserID, Registry!Remove
  <2>3. ASSUME NEW S, Registry!Close(S) PROVE \A r \in Sessions :
          /\ closed \subseteq closed'
          /\ state'[r] = "InMeeting" => state[r] = "InMeeting"
          /\ state[r] = "InMeeting" /\ r \notin closed' => state'[r] = "InMeeting"
    BY <2>3 DEF Registry!Close
  <2>4. CASE Registry!KickOld(s) \/ Registry!HandleLogout(s) \/ Registry!Disconnect(s)
    BY <2>3, <2>4 DEF Registry!KickOld, Registry!HandleLogout, Registry!Disconnect
  <2>5. CASE Registry!SetAuthenticated(s)
    <3>1. state[s] # "InMeeting"
      BY <2>5 DEF Registry!SetAuthenticated, Base, Logins, LoggedIn
    <3> QED
      BY <2>5, <3>1 DEF Registry!SetAuthenticated, Base, Typed
  <2> QED
    BY <2>1, <2>2, <2>4, <2>5 DEF ConnectionStep, Connection, LoginDone, Remove
<1>4. \A r \in Sessions : LoggedIn(r) /\ byUser[account[r]] # r => byUser'[account[r]] # r
  <2>1. CASE Registry!BindUser(s)
    <3>1. ~LoggedIn(s)
      BY <2>1 DEF Registry!BindUser, LoggedIn
    <3> QED
      BY <2>1, <3>1 DEF Registry!BindUser, Base, Typed
  <2>2. CASE Registry!Remove(s)
    <3>1. \A u \in Users : byUser'[u] \in {NoSession, byUser[u]}
      BY <2>2 DEF Registry!Remove
    <3> QED
      BY <3>1, ServiceAssumption DEF Base, Typed
  <2>3. CASE byUser' = byUser
    BY <2>3
  <2> QED
    BY <2>1, <2>2, <2>3 DEF ConnectionStep, Connection, LoginDone, Remove, Registry!Accept, Registry!HandleLogin,
       Registry!SetUserID, Registry!KickOld, Registry!HandleLogout, Registry!Disconnect, Registry!SetAuthenticated
<1>5. closed \subseteq closed'
  BY <1>3
<1> QED
  BY <1>0, <1>1, <1>3, <1>4, <1>5 DEF Apart

-----------------------------------------------------------------------------
(* The handlers and the closer keep Base *)

\* A handler writes to sessions that are logged in.
LEMMA HandlerAside ==
    ASSUME Base, NEW s \in Sessions, HandlerStep(s), Track
    PROVE  /\ LoggedIn(s) /\ LoginsSame /\ OthersOps(s) /\ UNCHANGED closer
           /\ \A r \in Sessions :
                 /\ state'[r] = state[r] \/ (LoggedIn(r) /\ state'[r] \in {"Authenticated", "InMeeting"})
                 /\ meetingID'[r] = meetingID[r] \/ LoggedIn(r)
<1> USE DEF Begins, Goes, Ends, OpOnly, StoreOnly
<1>1. CASE HandleCreate(s)
  BY <1>1, DoesHandleCreate DEF Reads
<1>2. CASE \E m \in drawn : HandleJoin(s, m)
  BY <1>2, DoesHandleJoin DEF Reads
<1>3. CASE HandleLeave(s)
  BY <1>3, DoesHandleLeave DEF Reads
<1>4. CASE \E u \in Users : HandleKick(s, u)
  BY <1>4, DoesHandleKick DEF Reads
<1>5. CASE Handler(s)
  <2>0. LoggedIn(s)
    <3>1. op[s].step # "idle"
      BY <1>5 DEF Handler, CreateMeeting, RouteRoom, JoinMeeting, EnterMeeting, SetInMeeting, LeaveMeeting,
         ClearMeeting, CheckState, SetAuthenticated, KickHost, KickFind, KickLeave, KickGet, KickClear, KickState
    <3> QED
      BY <3>1, AsAccount
  <2>1. CASE CreateMeeting(s)
    BY <2>0, <2>1, DoesCreateMeeting
  <2>2. CASE RouteRoom(s)
    BY <2>0, <2>2, DoesRouteRoom
  <2>3. CASE JoinMeeting(s)
    BY <2>0, <2>3, DoesJoinMeeting
  <2>4. CASE EnterMeeting(s)
    BY <2>0, <2>4, DoesEnterMeeting DEF Points
  <2>5. CASE SetInMeeting(s)
    BY <2>0, <2>5, DoesSetInMeeting DEF Turns
  <2>6. CASE LeaveMeeting(s)
    BY <2>0, <2>6, DoesLeaveMeeting
  <2>7. CASE ClearMeeting(s)
    BY <2>0, <2>7, DoesClearMeeting DEF Points
  <2>8. CASE CheckState(s)
    BY <2>0, <2>8, DoesCheckState
  <2>9. CASE SetAuthenticated(s)
    BY <2>0, <2>9, DoesSetAuthenticated DEF Turns
  <2>10. CASE KickHost(s) \/ KickFind(s)
    BY <2>0, <2>10, DoesKickChecks
  <2>11. CASE KickLeave(s)
    BY <2>0, <2>11, DoesKickLeave
  <2>12. CASE KickGet(s)
    BY <2>0, <2>12, DoesKickGet
  <2>13. CASE KickClear(s)
    <3>1. LoggedIn(op[s].kicked)
      BY <2>13 DEF KickClear, Base, Handling
    <3> QED
      BY <2>0, <2>13, <3>1, DoesKickClear, SMT DEF Points
  <2>14. CASE KickState(s)
    <3>1. LoggedIn(op[s].kicked)
      BY <2>14 DEF KickState, Base, Handling
    <3> QED
      BY <2>0, <2>14, <3>1, DoesKickState, SMT DEF Turns
  <2> QED
    BY <1>5, <2>1, <2>2, <2>3, <2>4, <2>5, <2>6, <2>7, <2>8, <2>9, <2>10, <2>11, <2>12, <2>13, <2>14 DEF Handler
<1> QED
  BY <1>1, <1>2, <1>3, <1>4, <1>5 DEF HandlerStep

LEMMA HandlerHandling ==
    ASSUME Base, NEW s \in Sessions, HandlerStep(s), Track
    PROVE  Handling'
<1>1. LoginsSame /\ OthersOps(s)
  BY HandlerAside
<1>2. \A r \in Sessions : LoggedIn(r)' <=> LoggedIn(r)
  BY <1>1 DEF LoginsSame, LoggedIn
<1> DEFINE Handles(o) ==
       /\ o.step \notin {"idle", "create"} => o.meeting \in Meetings
       /\ o.step \in {"kickHost", "kickFind"} \cup Kicking => o.target \in Users
       /\ o.step \in {"kickClear", "kickState"} =>
             o.kicked \in Sessions /\ account[o.kicked] = o.target /\ LoggedIn(o.kicked)
<1>3. \A r \in Sessions : Handles(op[r])
  BY DEF Base, Handling
<1>4. Handles(op'[s]) => Handling'
  <2>1. account' = account
    BY <1>1 DEF LoginsSame
  <2> QED
    BY <1>1, <1>2, <1>3, <2>1 DEF OthersOps, Handling
<1>5. Ends(s) => Handles(op'[s])
  BY DEF Ends, Kicking
<1>6. ASSUME NEW st, Goes(s, st), op[s].step \notin {"idle", "create"},
             st \in {"kickFind", "kickLeave", "kickGet", "kickClear", "kickState"} =>
                 op[s].step \in {"kickHost", "kickFind"} \cup Kicking,
             st # "kickHost", st # "kickClear", st = "kickState" => op[s].step = "kickClear"
      PROVE  Handles(op'[s])
  BY <1>3, <1>6 DEF Goes, Kicking
<1>7. CASE HandleCreate(s)
  BY <1>4, <1>7, DoesHandleCreate DEF Begins, Kicking
<1>8. CASE \E m \in drawn : HandleJoin(s, m)
  BY <1>4, <1>8, DoesHandleJoin DEF Begins, Kicking
<1>9. CASE HandleLeave(s)
  BY <1>4, <1>9, DoesHandleLeave DEF Begins, Kicking
<1>10. CASE \E u \in Users : HandleKick(s, u)
  BY <1>4, <1>10, DoesHandleKick, SMT DEF Begins, Kicking
<1>11. CASE CreateMeeting(s)
  <2>1. Ends(s) \/ (op'[s].step = "route" /\ op'[s].meeting \in Meetings)
    BY <1>11, DoesCreateMeeting
  <2> QED
    BY <1>4, <1>5, <2>1 DEF Kicking
<1> USE DEF Kicking
<1>12. CASE RouteRoom(s) \/ JoinMeeting(s)
  BY <1>4, <1>5, <1>6, <1>12, DoesRouteRoom, DoesJoinMeeting
<1>13. CASE EnterMeeting(s) \/ SetInMeeting(s)
  BY <1>4, <1>5, <1>6, <1>13, DoesEnterMeeting, DoesSetInMeeting
<1>14. CASE LeaveMeeting(s) \/ ClearMeeting(s)
  BY <1>4, <1>5, <1>6, <1>14, DoesLeaveMeeting, DoesClearMeeting
<1>15. CASE CheckState(s) \/ SetAuthenticated(s)
  BY <1>4, <1>5, <1>6, <1>15, DoesCheckState, DoesSetAuthenticated
<1>16. CASE KickHost(s) \/ KickFind(s)
  BY <1>4, <1>5, <1>6, <1>16, DoesKickChecks
<1>17. CASE KickLeave(s)
  BY <1>4, <1>5, <1>6, <1>17, DoesKickLeave
<1>18. CASE KickClear(s) \/ KickState(s)
  BY <1>4, <1>5, <1>6, <1>18, DoesKickClear, DoesKickState
<1>19. CASE KickGet(s)
  <2>1. CASE Ends(s)
    BY <1>4, <1>5, <2>1
  <2>2. ASSUME NEW k \in Sessions, k = byUser[op[s].target], meetingID[k] = op[s].meeting,
               op'[s].step = "kickClear", op'[s].kicked = k,
               op'[s].meeting = op[s].meeting, op'[s].target = op[s].target
        PROVE  Handles(op'[s])
    <3>1. op[s].meeting \in Meetings /\ op[s].target \in Users /\ op[s].step = "kickGet"
      BY <1>3, <1>19, DoesKickGet
    <3>2. LoggedIn(k)
      BY <2>2, <3>1, ServiceAssumption DEF Base, Logins
    <3>3. account[k] = op[s].target
      BY <2>2, <3>1, ServiceAssumption DEF Base, Binding
    <3> QED
      BY <2>2, <3>1, <3>2, <3>3
  <2> QED
    BY <1>4, <1>19, <2>1, <2>2, DoesKickGet
<1> QED
  BY <1>7, <1>8, <1>9, <1>10, <1>11, <1>12, <1>13, <1>14, <1>15, <1>16, <1>17, <1>18, <1>19 DEF HandlerStep, Handler

LEMMA HandlerBase ==
    ASSUME Base, NEW s \in Sessions, HandlerStep(s), Track
    PROVE  Base'
<1>1. /\ LoggedIn(s) /\ LoginsSame /\ OthersOps(s) /\ UNCHANGED closer
      /\ \A r \in Sessions :
            /\ state'[r] = state[r] \/ (LoggedIn(r) /\ state'[r] \in {"Authenticated", "InMeeting"})
            /\ meetingID'[r] = meetingID[r] \/ LoggedIn(r)
  BY HandlerAside
<1>2. \A r \in Sessions : (LoggedIn(r)' <=> LoggedIn(r)) /\ (PastBind(r)' <=> PastBind(r))
  BY <1>1 DEF LoginsSame, LoggedIn, PastBind
<1>3. Typed'
  BY HandlerTyped DEF Base
<1>4. Logins'
  <2>1. \A r \in Sessions : LoggedIn(r) => userID[r] # NoUser /\ pc[r] = "idle" /\ state[r] # "None"
    BY DEF LoggedIn, Base, Logins
  <2>2. \A r \in Sessions : op'[r] = op[r] \/ LoggedIn(r)
    BY <1>1 DEF OthersOps
  <2> QED
    BY <1>1, <1>2, <2>1, <2>2, SMT DEF LoginsSame, Base, Logins
<1>5. Binding' /\ BoundOrKicked'
  <2>1. UNCHANGED <<byUser, old, pc, account, closed>>
    BY <1>1 DEF LoginsSame
  <2> QED
    BY <1>2, <2>1, ServiceAssumption, SMT DEF Base, Typed, Binding, BoundOrKicked
<1>6. Closing'
  <2>1. \A r \in Sessions : LoggedIn(r) => state[r] # "None"
    BY DEF LoggedIn, Base, Logins
  <2> QED
    BY <1>1, <2>1 DEF LoginsSame, Base, Closing
<1> QED
  BY <1>3, <1>4, <1>5, <1>6, HandlerHandling DEF Base

LEMMA CloserBase ==
    ASSUME Base, NEW s \in Sessions, CloserStep(s), Track
    PROVE  Base'
<1>1. /\ LoginsSame /\ UNCHANGED <<state, op>>
      /\ \A r \in Sessions \ {s} : closer'[r] = closer[r] /\ meetingID'[r] = meetingID[r]
      /\ s \in closed
      /\ \/ closer'[s].step = "done" /\ meetingID'[s] \in {NoMeeting, meetingID[s]}
         \/ closer[s].step = "leave" /\ closer'[s].step = "clear" /\ meetingID'[s] = meetingID[s]
         \/ /\ closer[s].step = "wait" /\ closer'[s].step = "leave" /\ closer'[s].meeting \in Meetings
            /\ meetingID'[s] = meetingID[s] /\ meetingID[s] \in Meetings
  <2>1. CASE OnSessionClosed(s)
    BY <2>1, DoesOnSessionClosed DEF Closes
  <2>2. CASE LeaveByDisconnect(s)
    <3>1. s \in closed
      BY <2>2 DEF LeaveByDisconnect, Base, Closing
    <3> QED
      BY <2>2, <3>1, DoesLeaveByDisconnect DEF Closes
  <2>3. CASE ClearOnClose(s)
    <3>1. s \in closed
      BY <2>3 DEF ClearOnClose, Base, Closing
    <3> QED
      BY <2>3, <3>1, DoesClearOnClose DEF Closes, Points
  <2> QED
    BY <2>1, <2>2, <2>3 DEF CloserStep
<1>2. \A r \in Sessions : (LoggedIn(r)' <=> LoggedIn(r)) /\ (PastBind(r)' <=> PastBind(r))
  BY <1>1 DEF LoginsSame, LoggedIn, PastBind
<1>3. Typed'
  BY HandlerTyped DEF Base
<1>4. Logins'
  BY <1>1, <1>2, ServiceAssumption, SMT DEF LoginsSame, Base, Logins
<1>5. Binding' /\ BoundOrKicked'
  <2>1. UNCHANGED <<byUser, old, pc, account, closed>>
    BY <1>1 DEF LoginsSame
  <2> QED
    BY <1>2, <2>1, ServiceAssumption, SMT DEF Base, Typed, Binding, BoundOrKicked
<1>6. Closing'
  BY <1>1 DEF LoginsSame, Base, Closing
<1>7. Handling'
  BY <1>1, <1>2 DEF LoginsSame, Base, Handling
<1> QED
  BY <1>3, <1>4, <1>5, <1>6, <1>7 DEF Base

LEMMA StepBase ==
    ASSUME Base, NEW s \in Sessions, Step(s), Track
    PROVE  Base'
<1>1. CASE ConnectionStep(s)
  BY <1>1, ConnectionTyped, ConnectionLogins, ConnectionClosing, ConnectionBinding DEF Base
<1> QED
  BY <1>1, Steps, HandlerBase, CloserBase

-----------------------------------------------------------------------------
(* Users who were in no overlap *)

\* Two sessions of a user that are open and logged in need a third connection
\* that is in the middle of a login.  Every open session past BindUser, but the
\* one byUser names, is about to be closed by a login of the same user that is
\* itself open and not over.  Map each of them to that login, the one byUser
\* names to one of the two sessions, and everything else to itself: no two meet,
\* and nothing reaches the other of the two.
LEMMA OneOpen ==
    ASSUME Base, NEW u \in Users, \A r \in Connections(u) \cap closed : pc[r] = "idle",
           NEW s \in Connections(u) \ closed, NEW t \in Connections(u) \ closed,
           LoggedIn(s), LoggedIn(t)
    PROVE  s = t
<1> SUFFICES ASSUME s # t PROVE FALSE
  OBVIOUS
<1> DEFINE C == {r \in Sessions : account[r] = u /\ r \notin closed /\ PastBind(r)}
           Pending(r) == r \in C /\ pc[r] \in {"setUser", "kick"}
           Kicker(x) == CHOOSE r \in Sessions : old[r] = x
           f == [x \in Sessions |-> IF x \notin C THEN x ELSE IF x = byUser[u] THEN s ELSE Kicker(x)]
<1>1. /\ s \in C /\ ~Pending(s) /\ t \in C /\ ~Pending(t)
      /\ s \in Sessions /\ t \in Sessions
  BY DEF LoggedIn, PastBind, Connections
<1>2. \A x \in C : x # byUser[u] => old[Kicker(x)] = x /\ Kicker(x) \in Sessions
  BY DEF Base, BoundOrKicked
<1>3. ASSUME NEW x \in C, x # byUser[u] PROVE Pending(Kicker(x))
  <2> DEFINE r == Kicker(x)
  <2>1. r \in Sessions /\ old[r] = x /\ x \in Sessions /\ account[x] = u
    BY <1>2, <1>3
  <2> HIDE DEF r
  <2>2. pc[r] \in {"setUser", "kick"} /\ account[r] = u
    BY <2>1, ServiceAssumption DEF Base, Binding
  <2>3. r \notin closed
    BY <2>1, <2>2 DEF Connections
  <2>4. PastBind(r)
    BY <2>1, <2>2 DEF PastBind, Base, Logins
  <2>5. Pending(r)
    BY <2>1, <2>2, <2>3, <2>4
  <2> QED
    BY <2>5 DEF r
<1>4. \A x \in C : x \in Sessions
  OBVIOUS
<1>5. \A x \in Sessions : Pending(x) => x \in C
  OBVIOUS
<1> HIDE DEF C, Pending, Kicker
<1>6. f \in [Sessions -> Sessions]
  BY <1>1, <1>2
<1>7. \A x \in Sessions :
         /\ x \notin C => f[x] = x
         /\ x \in C /\ x = byUser[u] => f[x] = s
         /\ x \in C /\ x # byUser[u] => f[x] = Kicker(x)
  OBVIOUS
<1> HIDE DEF f
<1>8. \A x \in C : x # byUser[u] => Pending(f[x]) /\ f[x] \in C /\ old[f[x]] = x
  BY <1>2, <1>3, <1>4, <1>5, <1>7
<1>9. \A x, y \in Sessions : f[x] = f[y] => x = y
  <2> SUFFICES ASSUME NEW x \in Sessions, NEW y \in Sessions, f[x] = f[y] PROVE x = y
    OBVIOUS
  <2>1. CASE x \notin C \/ y \notin C
    BY <1>1, <1>7, <1>8, <2>1, SMT
  <2>2. CASE x \in C /\ y \in C
    BY <1>1, <1>7, <1>8, <2>2, SMT
  <2> QED
    BY <2>1, <2>2
<1>10. PICK x \in Sessions : f[x] = t
  BY <1>1, <1>6, <1>9, FiniteSessions
<1> QED
  BY <1>1, <1>7, <1>8, <1>10

\* What no overlap means, session by session.
Clear(u) ==
    \A s \in Sessions : account[s] = u =>
       /\ op[s].step \in Entering =>
             /\ s \notin closed
             /\ \A t \in Sessions \ {s} : account[t] = u /\ t \in closed => t \notin sessions /\ Ready(t)
       /\ \A t \in Sessions : op[t].target = u /\ op[t].step \in Kicking => op[s].step = "idle"

LEMMA NoOverlap ==
    ASSUME NEW u, ~Overlap(u)
    PROVE  Clear(u)
BY DEF Overlap, Clear, Connections

LEMMA StepWatched ==
    ASSUME Track, Watched
    PROVE  /\ Watched' /\ \A u \in Users \ raced' : u \notin raced /\ Clear(u) /\ Clear(u)'
           /\ account' = account
<1>1. \A u \in Users \ raced' : u \notin raced /\ ~Overlap(u)' /\ ~Overlap(u)
  BY DEF Track, Watched
<1>2. \A u \in Users \ raced' : Clear(u)
  BY <1>1, NoOverlap
<1>3. \A u \in Users \ raced' : Clear(u)'
  BY <1>1 DEF Overlap, Clear, Connections
<1> QED
  BY <1>1, <1>2, <1>3 DEF Watched, Track

-----------------------------------------------------------------------------
(* One session of a user at a time *)

\* No step engages a session but a create and a join.
LEMMA EngagedBefore ==
    ASSUME Base, NEW s \in Sessions, Step(s), Track, NEW r \in Sessions, Engaged(r)', ~Engaged(r)
    PROVE  r = s /\ Reads(s, "Authenticated") /\ op'[s].step \in Entering /\ OpOnly /\ OthersOps(s)
<1>1. /\ op[r].step = "idle" /\ (meetingID[r] = NoMeeting \/ closer[r].step = "done")
      /\ closer[r].step \notin {"leave", "clear"}
  BY DEF Engaged
<1>2. /\ \/ op'[r].step # "idle" \/ (meetingID'[r] # NoMeeting /\ closer'[r].step # "done")
         \/ closer'[r].step \in {"leave", "clear"}
  BY DEF Engaged
<1>3. CASE ConnectionStep(s)
  BY <1>1, <1>2, <1>3, DoesConnection DEF Apart
<1>4. CASE OnSessionClosed(s)
  BY <1>1, <1>2, <1>4, DoesOnSessionClosed, ServiceAssumption DEF Closes
<1>5. CASE LeaveByDisconnect(s)
  BY <1>1, <1>2, <1>5, DoesLeaveByDisconnect DEF Closes
<1>6. CASE ClearOnClose(s)
  BY <1>1, <1>2, <1>6, DoesClearOnClose DEF Closes, Points
<1>7. CASE HandleCreate(s)
  BY <1>1, <1>2, <1>7, DoesHandleCreate DEF OpOnly, Begins, OthersOps, Entering
<1>8. CASE \E m \in drawn : HandleJoin(s, m)
  BY <1>1, <1>2, <1>8, DoesHandleJoin DEF OpOnly, Begins, OthersOps, Entering
<1>9. CASE HandleLeave(s) \/ \E u \in Users : HandleKick(s, u)
  <2>1. OpOnly /\ OthersOps(s) /\ Reads(s, "InMeeting") /\ meetingID[s] \in Meetings
    BY <1>9, DoesHandleLeave, DoesHandleKick DEF Begins
  <2>2. closer[s].step = "wait"
    BY <2>1 DEF Reads, Base, Closing
  <2> QED
    BY <1>1, <1>2, <2>1, <2>2, ServiceAssumption DEF OpOnly, OthersOps
<1>10. CASE Handler(s)
  <2>1. op[s].step # "idle" /\ OthersOps(s) /\ UNCHANGED closer
    <3>1. op[s].step # "idle"
      BY <1>10 DEF Handler, CreateMeeting, RouteRoom, JoinMeeting, EnterMeeting, SetInMeeting, LeaveMeeting,
         ClearMeeting, CheckState, SetAuthenticated, KickHost, KickFind, KickLeave, KickGet, KickClear, KickState
    <3> QED
      BY <1>10, <3>1, HandlerAside DEF HandlerStep
  <2>2. r # s /\ op'[r] = op[r]
    BY <1>1, <2>1 DEF OthersOps
  <2>3. meetingID'[r] \in {NoMeeting, meetingID[r]}
    <3>1. CASE EnterMeeting(s)
      BY <2>2, <3>1, DoesEnterMeeting DEF Points
    <3>2. CASE ClearMeeting(s)
      BY <2>2, <3>2, DoesClearMeeting DEF Points
    <3>3. CASE KickClear(s)
      BY <3>3, DoesKickClear DEF Points
    <3>4. CASE UNCHANGED meetingID
      BY <3>4
    <3> QED
      BY <1>10, <3>1, <3>2, <3>3, <3>4 DEF Handler, CreateMeeting, RouteRoom, JoinMeeting, SetInMeeting, LeaveMeeting,
         CheckState, SetAuthenticated, KickHost, KickFind, KickLeave, KickGet, KickState
  <2> QED
    BY <1>1, <1>2, <2>1, <2>2, <2>3
<1> QED
  BY <1>3, <1>4, <1>5, <1>6, <1>7, <1>8, <1>9, <1>10, Steps DEF CloserStep, HandlerStep

LEMMA StepSole ==
    ASSUME Base, Watched, Sole, NEW s \in Sessions, Step(s), Track
    PROVE  Sole'
<1> SUFFICES ASSUME NEW r \in Sessions, NEW t \in Sessions, account[r] \notin raced', account[r] = account[t],
                    Engaged(r)', Engaged(t)', r # t
             PROVE  FALSE
  BY StepWatched DEF Sole, Spared
<1>0. PICK u \in Users : u = account[r]
  BY DEF Base, Typed
<1>1. u \notin raced /\ Clear(u) /\ Clear(u)' /\ account' = account
  BY <1>0, StepWatched
<1>2. ASSUME NEW x \in Sessions, NEW y \in Sessions, x # y, account[x] = u, account[y] = u,
             ~Engaged(x), Engaged(x)', Engaged(y)'
      PROVE  FALSE
  <2>1. x = s /\ Reads(s, "Authenticated") /\ op'[s].step \in Entering /\ OpOnly /\ OthersOps(s)
    BY <1>2, EngagedBefore
  <2>2. Engaged(y)
    BY <1>2, <2>1, EngagedBefore
  <2>3. \A q \in Sessions \ {s} : account[q] = u /\ q \in closed' => q \notin sessions' /\ Ready(q)'
    BY <1>1, <1>2, <2>1 DEF Clear
  <2>4. \A q \in Sessions \ {s} : account[q] = u /\ q \in closed => q \notin sessions /\ Ready(q)
    <3>1. closed' = closed /\ sessions' = sessions /\ pc' = pc
      BY <2>1 DEF OpOnly, LoginsSame
    <3>2. \A q \in Sessions \ {s} : Ready(q)' <=> Ready(q)
      BY <2>1, <3>1 DEF OthersOps, Ready
    <3> QED
      BY <2>3, <3>1, <3>2
  <2>5. CASE y \in closed
    <3>1. closer[y].step = "done" /\ op[y].step = "idle"
      BY <1>2, <2>1, <2>4, <2>5 DEF Base, Closing, Ready
    <3> QED
      BY <2>2, <3>1 DEF Engaged
  <2>6. CASE y \notin closed
    <3>1. LoggedIn(y)
      <4>1. closer[y].step = "wait"
        BY <2>6 DEF Base, Closing
      <4> QED
        BY <2>2, <4>1 DEF Base, Logins, Engaged
    <3>2. \A q \in Connections(u) \cap closed : pc[q] = "idle"
      BY <2>1, <2>4 DEF Connections, Ready, Reads
    <3>3. x \in Connections(u) \ closed /\ y \in Connections(u) \ closed /\ LoggedIn(x)
      BY <1>2, <2>1, <2>6 DEF Connections, Reads
    <3> QED
      BY <1>1, <1>2, <3>1, <3>2, <3>3, OneOpen
  <2> QED
    BY <2>5, <2>6
<1>3. Engaged(r) /\ Engaged(t)
  BY <1>0, <1>2
<1> QED
  BY <1>0, <1>1, <1>3 DEF Sole, Spared

-----------------------------------------------------------------------------
(* Who changes what *)

\* How a user comes into a meeting, and how one gets out.
LEMMA WhoEnters ==
    ASSUME Base, NEW s \in Sessions, Step(s), Track,
           NEW v \in Users, NEW m \in Meetings, v \notin Members(m), v \in Members(m)'
    PROVE  /\ v = account[s] /\ op[s].step \in {"create", "join"}
           /\ op'[s].step \in Joined /\ op'[s].meeting = m /\ OthersOps(s)
<1>0. ~MembersSame
  BY DEF MembersSame
<1>1. CASE ConnectionStep(s)
  BY <1>0, <1>1, DoesConnection DEF Apart
<1>2. CASE CloserStep(s)
  BY <1>0, <1>2, DoesOnSessionClosed, DoesLeaveByDisconnect, DoesClearOnClose DEF CloserStep, GoesOut
<1>3. CASE CreateMeeting(s)
  BY <1>0, <1>3, DoesCreateMeeting DEF ComesIn, Joined
<1>4. CASE JoinMeeting(s)
  BY <1>0, <1>4, DoesJoinMeeting DEF ComesIn, Goes, Joined
<1>5. CASE RouteRoom(s) \/ LeaveMeeting(s) \/ KickLeave(s)
  BY <1>0, <1>5, DoesRouteRoom, DoesLeaveMeeting, DoesKickLeave DEF GoesOut
<1>6. CASE UNCHANGED roster
  BY <1>0, <1>6, RosterSame
<1> QED
  BY <1>1, <1>2, <1>3, <1>4, <1>5, <1>6, Steps DEF HandlerStep, Handler, HandleCreate, HandleJoin, HandleLeave, HandleKick,
     EnterMeeting, SetInMeeting, ClearMeeting, CheckState, SetAuthenticated, KickHost, KickFind, KickGet, KickClear, KickState

LEMMA WhoGoes ==
    ASSUME Base, NEW s \in Sessions, Step(s), Track,
           NEW v \in Users, NEW m \in Meetings, v \in Members(m), v \notin Members(m)'
    PROVE  \/ v = account[s] /\ op[s].step = "route" /\ op[s].meeting = m /\ Ends(s)
           \/ v = account[s] /\ op[s].step = "leave" /\ op[s].meeting = m /\ Goes(s, "clearMeeting")
           \/ v = op[s].target /\ op[s].step = "kickLeave" /\ op[s].meeting = m /\ Goes(s, "kickGet")
           \/ v = account[s] /\ closer[s].step = "leave" /\ closer[s].meeting = m /\ op' = op
<1>0. ~MembersSame
  BY DEF MembersSame
<1>1. CASE ConnectionStep(s)
  BY <1>0, <1>1, DoesConnection DEF Apart
<1>2. CASE CloserStep(s)
  BY <1>0, <1>2, DoesOnSessionClosed, DoesLeaveByDisconnect, DoesClearOnClose DEF CloserStep, GoesOut, Closes
<1>3. CASE CreateMeeting(s) \/ JoinMeeting(s)
  BY <1>0, <1>3, DoesCreateMeeting, DoesJoinMeeting DEF ComesIn
<1>4. CASE RouteRoom(s)
  BY <1>0, <1>4, DoesRouteRoom DEF GoesOut
<1>5. CASE LeaveMeeting(s)
  BY <1>0, <1>5, DoesLeaveMeeting DEF GoesOut
<1>6. CASE KickLeave(s)
  BY <1>0, <1>6, DoesKickLeave DEF GoesOut
<1>7. CASE UNCHANGED roster
  BY <1>0, <1>7, RosterSame
<1> QED
  BY <1>1, <1>2, <1>3, <1>4, <1>5, <1>6, <1>7, Steps DEF HandlerStep, Handler, HandleCreate, HandleJoin, HandleLeave, HandleKick,
     EnterMeeting, SetInMeeting, ClearMeeting, CheckState, SetAuthenticated, KickHost, KickFind, KickGet, KickClear, KickState

\* How the meeting of a session changes.
LEMMA WhoPoints ==
    ASSUME Base, NEW s \in Sessions, Step(s), Track, NEW r \in Sessions, meetingID'[r] # meetingID[r]
    PROVE  /\ UNCHANGED <<state, closed>> /\ MembersSame
           /\ \/ r = s /\ op[s].step = "setMeeting" /\ meetingID'[s] = op[s].meeting /\ Goes(s, "setInMeeting")
              \/ r = s /\ op[s].step = "clearMeeting" /\ meetingID'[s] = NoMeeting /\ Goes(s, "checkState")
              \/ r = op[s].kicked /\ op[s].step = "kickClear" /\ meetingID'[r] = NoMeeting /\ Goes(s, "kickState")
              \/ r = s /\ closer[s].step = "clear" /\ meetingID'[s] = NoMeeting /\ op' = op
<1>1. CASE ConnectionStep(s)
  BY <1>1, DoesConnection DEF Apart
<1>2. CASE CloserStep(s)
  BY <1>2, DoesOnSessionClosed, DoesLeaveByDisconnect, DoesClearOnClose DEF CloserStep, Points, Closes, LoginsSame
<1>3. CASE EnterMeeting(s)
  BY <1>3, DoesEnterMeeting DEF Points, LoginsSame
<1>4. CASE ClearMeeting(s)
  BY <1>4, DoesClearMeeting DEF Points, LoginsSame
<1>5. CASE KickClear(s)
  BY <1>5, DoesKickClear DEF Points, LoginsSame
<1> QED
  BY <1>1, <1>2, <1>3, <1>4, <1>5, Steps DEF HandlerStep, Handler, HandleCreate, HandleJoin, HandleLeave, HandleKick,
     CreateMeeting, RouteRoom, JoinMeeting, LeaveMeeting, KickLeave,
     SetInMeeting, CheckState, SetAuthenticated, KickHost, KickFind, KickGet, KickState

\* How a session turns InMeeting, and how it ceases to be.
LEMMA WhoTurns ==
    ASSUME Base, NEW s \in Sessions, Step(s), Track, NEW r \in Sessions
    PROVE  /\ state[r] # "InMeeting" /\ state'[r] = "InMeeting" =>
                 r = s /\ op[s].step = "setInMeeting" /\ meetingID' = meetingID /\ MembersSame /\ Ends(s) /\ closed' = closed
           /\ state[r] = "InMeeting" /\ state'[r] # "InMeeting" =>
                 \/ r \in closed'
                 \/ r = s /\ op[s].step = "setAuthenticated"
                 \/ r = op[s].kicked /\ op[s].step = "kickState"
<1>1. CASE ConnectionStep(s)
  BY <1>1, DoesConnection DEF Apart
<1>2. CASE CloserStep(s)
  BY <1>2, DoesOnSessionClosed, DoesLeaveByDisconnect, DoesClearOnClose DEF CloserStep
<1>3. CASE SetInMeeting(s)
  BY <1>3, DoesSetInMeeting DEF Turns, LoginsSame
<1>4. CASE SetAuthenticated(s)
  BY <1>4, DoesSetAuthenticated DEF Turns
<1>5. CASE KickState(s)
  BY <1>5, DoesKickState DEF Turns
<1>6. CASE state' = state
  BY <1>6
<1> QED
  BY <1>1, <1>2, <1>3, <1>4, <1>5, <1>6, Steps DEF HandlerStep, Handler, HandleCreate, HandleJoin, HandleLeave, HandleKick,
     CreateMeeting, RouteRoom, JoinMeeting, LeaveMeeting, KickLeave, ClearMeeting, EnterMeeting, KickClear,
     CheckState, KickHost, KickFind, KickGet, registryVars

\* How a handler gets to its next step.
Moves(s) ==
    \/ Ends(s)
    \/ op'[s].step \in {"create", "join"} /\ op'[s].target = NoUser /\ Reads(s, "Authenticated") /\ OpOnly
    \/ /\ op[s].step = "create" /\ op'[s].step = "route" /\ op'[s].target = NoUser
       /\ \A m \in Meetings : op'[s].meeting = m => account[s] \in Members(m)'
    \/ op[s].step = "route" /\ Goes(s, "setMeeting") /\ MembersSame
    \/ op[s].step = "join" /\ Goes(s, "setMeeting") /\ ComesIn(account[s], op[s].meeting)
    \/ /\ op[s].step = "setMeeting" /\ Goes(s, "setInMeeting") /\ MembersSame
       /\ meetingID'[s] = op[s].meeting
    \/ /\ op'[s].step = "leave" /\ op'[s].target = NoUser /\ op'[s].meeting = meetingID[s]
       /\ Reads(s, "InMeeting") /\ OpOnly
    \/ op[s].step = "leave" /\ Goes(s, "clearMeeting") /\ GoesOut(account[s], op[s].meeting) /\ StoreOnly
    \/ op[s].step \in Left /\ op'[s].step \in Left /\ op'[s].target = op[s].target /\ MembersSame
    \/ op'[s].step = "kickHost"
    \/ op[s].step = "kickHost" /\ Goes(s, "kickFind")
    \/ op[s].step = "kickFind" /\ Goes(s, "kickLeave")
    \/ op[s].step = "kickLeave" /\ Goes(s, "kickGet") /\ GoesOut(op[s].target, op[s].meeting)
    \/ /\ op[s].step = "kickGet" /\ op'[s].step = "kickClear" /\ OpOnly
       /\ op'[s].meeting = op[s].meeting /\ op'[s].target = op[s].target
       /\ op'[s].kicked = byUser[op[s].target] /\ meetingID[op'[s].kicked] = op[s].meeting
    \/ /\ op[s].step = "kickClear" /\ Goes(s, "kickState") /\ MembersSame
       /\ meetingID'[op[s].kicked] = NoMeeting

LEMMA OpMoves ==
    ASSUME Base, NEW s \in Sessions, Step(s), Track, NEW r \in Sessions, op'[r] # op[r]
    PROVE  r = s /\ OthersOps(s) /\ Moves(s)
<1> USE DEF OpOnly, StoreOnly, Moves
<1>0. HandlerStep(s) /\ OthersOps(s) /\ r = s
  <2>1. HandlerStep(s)
    BY Steps, DoesConnection, DoesOnSessionClosed, DoesLeaveByDisconnect, DoesClearOnClose DEF CloserStep, Apart
  <2>2. OthersOps(s)
    BY <2>1, HandlerAside
  <2> QED
    BY <2>1, <2>2 DEF OthersOps
<1>1. CASE HandleCreate(s) \/ \E m \in drawn : HandleJoin(s, m)
  BY <1>0, <1>1, DoesHandleCreate, DoesHandleJoin DEF Begins
<1>2. CASE HandleLeave(s)
  BY <1>0, <1>2, DoesHandleLeave DEF Begins
<1>3. CASE \E u \in Users : HandleKick(s, u)
  BY <1>0, <1>3, DoesHandleKick DEF Begins
<1>4. CASE CreateMeeting(s)
  <2>1. account[s] \in Users
    BY DEF Base, Typed
  <2> QED
    BY <1>0, <1>4, <2>1, DoesCreateMeeting DEF ComesIn
<1>5. CASE RouteRoom(s)
  BY <1>0, <1>5, DoesRouteRoom
<1>6. CASE JoinMeeting(s)
  BY <1>0, <1>6, DoesJoinMeeting
<1>7. CASE EnterMeeting(s)
  BY <1>0, <1>7, DoesEnterMeeting DEF Points
<1>8. CASE SetInMeeting(s) \/ SetAuthenticated(s) \/ KickState(s)
  BY <1>0, <1>8, DoesSetInMeeting, DoesSetAuthenticated, DoesKickState
<1>9. CASE LeaveMeeting(s)
  BY <1>0, <1>9, DoesLeaveMeeting
<1>10. CASE ClearMeeting(s) \/ CheckState(s)
  BY <1>0, <1>10, DoesClearMeeting, DoesCheckState DEF Left, Goes
<1>11. CASE KickHost(s) \/ KickFind(s)
  BY <1>0, <1>11, DoesKickChecks
<1>12. CASE KickLeave(s)
  BY <1>0, <1>12, DoesKickLeave
<1>13. CASE KickGet(s)
  <2>1. op[s].step = "kickGet" /\ OpOnly
    BY <1>13, DoesKickGet
  <2>2. CASE ~Ends(s)
    <3>1. /\ op'[s].step = "kickClear" /\ op'[s].meeting = op[s].meeting /\ op'[s].target = op[s].target
          /\ op'[s].kicked = byUser[op[s].target] /\ meetingID[byUser[op[s].target]] = op[s].meeting
      BY <1>13, <2>2, DoesKickGet
    <3> QED
      BY <1>0, <2>1, <3>1
  <2> QED
    BY <1>0, <2>2
<1>14. CASE KickClear(s)
  BY <1>0, <1>14, DoesKickClear DEF Points
<1> QED
  BY <1>0, <1>1, <1>2, <1>3, <1>4, <1>5, <1>6, <1>7, <1>8, <1>9, <1>10, <1>11, <1>12, <1>13, <1>14 DEF HandlerStep, Handler

-----------------------------------------------------------------------------
(* The handlers may rely on what they rely on *)

LEMMA StepEntered ==
    ASSUME IInv, NEW s \in Sessions, Step(s), Track
    PROVE  Entered'
<1>0. Base /\ Watched /\ Sole /\ Entered /\ Base' /\ account' = account
  BY StepBase, StepWatched DEF IInv
<1> SUFFICES ASSUME NEW r \in Sessions, account[r] \notin raced', op'[r].step \in Entering
             PROVE  /\ state'[r] # "InMeeting"
                    /\ op'[r].step \in Joined => account[r] \in Members(op[r].meeting)'
                    /\ op'[r].step = "setInMeeting" => meetingID'[r] = op'[r].meeting
  BY <1>0 DEF Entered, Spared, Entering, Joined
<1>1. PICK u \in Users : u = account[r]
  BY <1>0 DEF Base, Typed
<1>2. u \notin raced /\ Clear(u) /\ Clear(u)' /\ Spared(r)
  BY <1>0, <1>1, StepWatched DEF Spared
<1>3. state'[r] # "InMeeting"
  <2>1. CASE state[r] # "InMeeting"
    BY <1>0, <2>1, WhoTurns DEF Ends, Entering
  <2>2. CASE state[r] = "InMeeting"
    <3>1. op[r].step \notin Entering
      BY <1>0, <1>2, <2>2 DEF Entered
    <3> QED
      <4>1. op'[r] # op[r]
        BY <3>1
      <4>2. CASE op'[s].step \in {"create", "join"} /\ Reads(s, "Authenticated") /\ OpOnly
        BY <1>0, <2>2, <4>1, <4>2, OpMoves DEF Reads, OpOnly
      <4>3. r = s /\ Moves(s) /\ op[s].step \notin Entering
        BY <1>0, <3>1, <4>1, OpMoves
      <4>4. CASE op'[s].step = "route"
        BY <4>3, <4>4 DEF Moves, Entering, Ends, Goes, Left
      <4>5. op'[s].step \in Entering
        BY <4>3
      <4>6. CASE op'[s].step \notin {"create", "join", "route"}
        <5>1. op'[s].step \notin Left \cup {"idle", "create", "join", "route", "leave", "kickHost", "kickFind",
                                           "kickLeave", "kickGet", "kickClear", "kickState"}
          BY <4>5, <4>6 DEF Entering, Left
        <5>2. op[s].step \notin {"route", "join", "setMeeting"}
          BY <4>3 DEF Entering
        <5> QED
          BY <4>3, <5>1, <5>2 DEF Moves, Ends, Goes, Left
      <4>7. CASE op'[s].step \in {"create", "join"}
        <5>1. op'[s].step \notin Left \cup {"idle", "route", "setMeeting", "setInMeeting", "leave", "clearMeeting",
                                           "kickHost", "kickFind", "kickLeave", "kickGet", "kickClear", "kickState"}
          BY <4>7 DEF Left
        <5> QED
          BY <4>2, <4>3, <5>1 DEF Moves, Ends, Goes
      <4> QED
        BY <4>4, <4>6, <4>7
  <2> QED
    BY <2>1, <2>2
<1>4. ASSUME op'[r].step \in Joined, NEW m \in Meetings, m = op'[r].meeting
      PROVE  u \in Members(m)'
  <2>1. CASE op'[r] = op[r]
    <3>1. u \in Members(m) /\ op[r].step \in Joined /\ op[r].step # "idle"
      BY <1>0, <1>1, <1>2, <1>4, <2>1 DEF Entered, Joined
    <3>2. Engaged(r)
      BY <3>1 DEF Engaged
    <3> SUFFICES ASSUME u \notin Members(m)' PROVE FALSE
      OBVIOUS
    <3>3. CASE account[s] = u /\ op[s].step # "idle" /\ op'[s].step # op[s].step
      <4>1. s = r
        BY <1>0, <1>1, <1>2, <3>2, <3>3 DEF Sole, Engaged
      <4> QED
        BY <2>1, <3>3, <4>1
    <3>4. CASE op'[s].target = u /\ op'[s].step = "kickGet"
      BY <1>0, <1>1, <1>2, <1>4, <3>4 DEF Clear, Kicking, Joined
    <3>5. CASE account[s] = u /\ closer[s].step = "leave"
      <4>1. s = r
        BY <1>0, <1>1, <1>2, <3>2, <3>5 DEF Sole, Engaged
      <4>2. s \in closed
        BY <1>0, <3>5 DEF Base, Closing
      <4> QED
        BY <1>1, <1>2, <3>1, <4>1, <4>2 DEF Clear, Entering, Joined
    <3> QED
      BY <1>0, <3>1, <3>3, <3>4, <3>5, WhoGoes DEF Ends, Goes
  <2>2. CASE op'[r] # op[r]
    <3>1. /\ r = s
          /\ \/ op'[s].step = "route" /\ account[s] \in Members(m)'
             \/ op[s].step \in {"route", "setMeeting"} /\ op'[s].meeting = op[s].meeting /\ MembersSame
             \/ op'[s].meeting = op[s].meeting /\ ComesIn(account[s], op[s].meeting)
      <4>1. r = s /\ Moves(s)
        BY <1>0, <2>2, OpMoves
      <4>2. op'[s].step \notin Left \cup {"idle", "create", "join", "leave", "clearMeeting", "kickHost", "kickFind",
                                         "kickLeave", "kickGet", "kickClear", "kickState"}
        BY <1>4, <4>1 DEF Joined, Left
      <4> QED
        BY <1>4, <4>1, <4>2 DEF Moves, Ends, Goes
    <3>2. CASE op[s].step \in {"route", "setMeeting"} /\ op'[s].meeting = op[s].meeting /\ MembersSame
      BY <1>0, <1>1, <1>2, <1>4, <3>1, <3>2 DEF Entered, Joined, MembersSame
    <3> QED
      BY <1>1, <1>4, <3>1, <3>2 DEF ComesIn
  <2> QED
    BY <2>1, <2>2
<1>5. ASSUME op'[r].step = "setInMeeting" PROVE meetingID'[r] = op'[r].meeting
  <2>1. CASE op'[r] = op[r]
    <3>1. meetingID[r] = op[r].meeting
      BY <1>0, <1>2, <1>5, <2>1 DEF Entered
    <3> SUFFICES ASSUME meetingID'[r] # meetingID[r] PROVE FALSE
      BY <2>1, <3>1
    <3>2. CASE r = op[s].kicked /\ op[s].step = "kickClear"
      <4>1. op[s].target = u
        BY <1>0, <1>1, <3>2 DEF Base, Handling
      <4> QED
        BY <1>1, <1>2, <1>5, <2>1, <3>2, <4>1 DEF Clear, Kicking
    <3>3. CASE r = s /\ closer[s].step = "clear"
      <4>1. s \in closed
        BY <1>0, <3>3 DEF Base, Closing
      <4> QED
        BY <1>1, <1>2, <1>5, <2>1, <3>3, <4>1 DEF Clear, Entering
    <3> QED
      BY <1>0, <1>5, <2>1, <3>2, <3>3, WhoPoints DEF Goes
  <2>2. CASE op'[r] # op[r]
    BY <1>0, <1>5, <2>2, OpMoves DEF Moves, Ends, Goes, Left
  <2> QED
    BY <2>1, <2>2
<1>6. op'[r].step \in Joined => account[r] \in Members(op[r].meeting)'
  <2> SUFFICES ASSUME op'[r].step \in Joined PROVE account[r] \in Members(op[r].meeting)'
    OBVIOUS
  <2>1. PICK m \in Meetings : m = op'[r].meeting
    BY <1>0 DEF Base, Handling, Joined
  <2>2. u \in Members(m)'
    BY <1>4, <2>1
  <2> QED
    BY <1>1, <2>1, <2>2 DEF Members
<1> QED
  BY <1>3, <1>5, <1>6

\* A session that holds a user in a meeting is engaged.
LEMMA HolderEngaged ==
    ASSUME Base, NEW r \in Sessions, NEW m \in Meetings, Holds(r, m)
    PROVE  Engaged(r)
<1>1. r \notin closed => closer[r].step = "wait"
  BY DEF Base, Closing
<1> QED
  BY <1>1, ServiceAssumption DEF Holds, Engaged, Joined

LEMMA StepLeaving ==
    ASSUME IInv, NEW s \in Sessions, Step(s), Track
    PROVE  Leaving'
<1>0. Base /\ Watched /\ Sole /\ Leaving /\ Held /\ Base' /\ account' = account
  BY StepBase, StepWatched DEF IInv
<1> SUFFICES ASSUME NEW r \in Sessions, account[r] \notin raced'
             PROVE  /\ op'[r].step = "leave" =>
                          /\ meetingID'[r] \in {op'[r].meeting, NoMeeting}
                          /\ closer'[r].step = "leave" => closer'[r].meeting = op'[r].meeting
                    /\ op'[r].step \in Left => \A m \in Meetings : account[r] \notin Members(m)'
  BY <1>0 DEF Leaving, Spared
<1>1. PICK u \in Users : u = account[r]
  BY <1>0 DEF Base, Typed
<1>2. u \notin raced /\ Clear(u) /\ Clear(u)' /\ Spared(r)
  BY <1>0, <1>1, StepWatched DEF Spared
<1>3. ASSUME op'[r].step = "leave"
      PROVE  /\ meetingID'[r] \in {op'[r].meeting, NoMeeting}
             /\ closer'[r].step = "leave" => closer'[r].meeting = op'[r].meeting
  <2>1. CASE op'[r] = op[r]
    <3>1. /\ meetingID[r] \in {op[r].meeting, NoMeeting}
          /\ closer[r].step = "leave" => closer[r].meeting = op[r].meeting
      BY <1>0, <1>2, <1>3, <2>1 DEF Leaving
    <3>2. meetingID'[r] \in {meetingID[r], NoMeeting}
      BY <1>0, <1>3, <2>1, WhoPoints DEF Goes
    <3>3. \/ closer'[r] = closer[r] \/ closer'[r].step # "leave"
          \/ closer'[r].meeting = meetingID[r] /\ meetingID[r] \in Meetings
      <4>1. CASE ConnectionStep(s)
        BY <1>0, <4>1, DoesConnection DEF Apart
      <4>2. CASE CloserStep(s)
        BY <1>0, <4>2, DoesOnSessionClosed, DoesLeaveByDisconnect, DoesClearOnClose DEF CloserStep, Closes
      <4>3. CASE HandlerStep(s)
        BY <1>0, <4>3, HandlerAside
      <4> QED
        BY <4>1, <4>2, <4>3, Steps
    <3> QED
      BY <2>1, <3>1, <3>2, <3>3, ServiceAssumption
  <2>2. CASE op'[r] # op[r]
    <3>1. r = s /\ op'[s].meeting = meetingID[s] /\ Reads(s, "InMeeting") /\ OpOnly
      BY <1>0, <1>3, <2>2, OpMoves DEF Moves, Ends, Goes, Left
    <3>2. closer[s].step = "wait"
      BY <1>0, <3>1 DEF Reads, Base, Closing
    <3> QED
      BY <3>1, <3>2 DEF OpOnly
  <2> QED
    BY <2>1, <2>2
<1>4. ASSUME op'[r].step \in Left, NEW m \in Meetings, u \in Members(m)' PROVE FALSE
  <2>1. CASE u \notin Members(m)
    <3>1. account[s] = u /\ op[s].step \in {"create", "join"} /\ op'[s].step \in Joined /\ OthersOps(s)
      BY <1>0, <1>4, <2>1, WhoEnters
    <3>2. r # s /\ op[r].step \in Left
      BY <1>4, <3>1 DEF Joined, Left, OthersOps
    <3> QED
      BY <1>0, <1>1, <1>2, <3>1, <3>2 DEF Sole, Engaged, Left
  <2>2. CASE u \in Members(m) /\ op[r].step \in Left
    BY <1>0, <1>1, <1>2, <2>2 DEF Leaving
  <2>3. CASE u \in Members(m) /\ op[r].step \notin Left
    <3>1. r = s /\ op[s].step = "leave" /\ GoesOut(u, op[s].meeting)
      <4>1. op'[r] # op[r]
        BY <1>4, <2>3
      <4>2. r = s /\ Moves(s) /\ account[s] = u
        BY <1>0, <1>1, <4>1, OpMoves
      <4>3. op'[s].step \notin {"idle", "create", "join", "route", "setMeeting", "setInMeeting", "leave", "kickHost",
                               "kickFind", "kickLeave", "kickGet", "kickClear", "kickState"}
        BY <1>4, <4>2 DEF Left
      <4> QED
        BY <2>3, <4>2, <4>3 DEF Moves, Ends, Goes
    <3>2. m # op[s].meeting
      BY <1>4, <3>1 DEF GoesOut
    <3>3. PICK q \in Connections(u) : Holds(q, m)
      BY <1>0, <1>2, <2>3 DEF Held
    <3>4. q \in Sessions /\ account[q] = u
      BY DEF Connections
    <3>5. Engaged(q) /\ Engaged(s)
      BY <1>0, <3>1, <3>3, <3>4, HolderEngaged DEF Engaged
    <3>6. q = s
      BY <1>0, <1>1, <1>2, <3>1, <3>4, <3>5 DEF Sole
    <3>7. /\ meetingID[s] \in {op[s].meeting, NoMeeting}
          /\ closer[s].step = "leave" => closer[s].meeting = op[s].meeting
      BY <1>0, <1>2, <3>1 DEF Leaving
    <3>8. op[s].step \notin Joined
      BY <3>1 DEF Joined
    <3>9. meetingID[s] # m
      BY <3>2, <3>7, ServiceAssumption
    <3> QED
      BY <3>2, <3>3, <3>6, <3>7, <3>8, <3>9 DEF Holds
  <2> QED
    BY <2>1, <2>2, <2>3
<1> QED
  BY <1>1, <1>3, <1>4

LEMMA StepKicked ==
    ASSUME IInv, NEW s \in Sessions, Step(s), Track
    PROVE  Kicked'
<1>0. Base /\ Watched /\ Kicked /\ Base' /\ account' = account
  BY StepBase, StepWatched DEF IInv
<1> SUFFICES ASSUME NEW r \in Sessions, op'[r].target \in Users \ raced', op'[r].step \in KickedOff
             PROVE  /\ op'[r].target \notin Members(op[r].meeting)'
                    /\ op'[r].step = "kickClear" => meetingID'[op'[r].kicked] \in {op'[r].meeting, NoMeeting}
                    /\ op'[r].step = "kickState" => meetingID'[op'[r].kicked] = NoMeeting
  BY <1>0 DEF Kicked, KickedOff
<1>1. PICK u \in Users \ raced' : u = op'[r].target
  OBVIOUS
<1>2. u \notin raced /\ Clear(u) /\ Clear(u)'
  BY <1>0, <1>1, StepWatched
<1>3. PICK m \in Meetings : m = op'[r].meeting
  BY <1>0 DEF Base, Handling, KickedOff
<1>4. CASE op'[r] = op[r]
  <2>1. /\ u \notin Members(m) /\ op[r].step \in Kicking /\ op[r].target = u /\ op[r].step \in KickedOff
        /\ op[r].step = "kickClear" => meetingID[op[r].kicked] \in {m, NoMeeting}
        /\ op[r].step = "kickState" => meetingID[op[r].kicked] = NoMeeting
    BY <1>0, <1>1, <1>2, <1>3, <1>4 DEF Kicked, KickedOff, Kicking
  <2>2. u \notin Members(m)'
    <3> SUFFICES ASSUME u \in Members(m)' PROVE FALSE
      OBVIOUS
    <3>1. u = account[s] /\ op[s].step \in {"create", "join"}
      BY <1>0, <2>1, WhoEnters
    <3> QED
      BY <1>2, <2>1, <3>1 DEF Clear
  <2>3. ASSUME op[r].step \in {"kickClear", "kickState"}
        PROVE  meetingID'[op[r].kicked] \in {meetingID[op[r].kicked], NoMeeting}
    <3>1. PICK k \in Sessions : k = op[r].kicked /\ account[k] = u
      BY <1>0, <2>1, <2>3 DEF Base, Handling
    <3>2. op[k].step = "idle"
      BY <1>2, <2>1, <3>1 DEF Clear
    <3> QED
      BY <1>0, <3>1, <3>2, WhoPoints, SMT
  <2>4. u \notin Members(op[r].meeting)'
    BY <1>3, <2>2 DEF Members
  <2> QED
    BY <1>1, <1>3, <1>4, <2>1, <2>3, <2>4
<1>5. CASE op'[r] # op[r]
  <2>1. /\ r = s
        /\ \/ op[s].step = "kickLeave" /\ Goes(s, "kickGet") /\ GoesOut(op[s].target, op[s].meeting)
           \/ /\ op[s].step = "kickGet" /\ op'[s].step = "kickClear" /\ OpOnly
              /\ op'[s].meeting = op[s].meeting /\ op'[s].target = op[s].target
              /\ meetingID[op'[s].kicked] = op[s].meeting
           \/ /\ op[s].step = "kickClear" /\ Goes(s, "kickState") /\ MembersSame
              /\ meetingID'[op[s].kicked] = NoMeeting
    <3>1. r = s /\ Moves(s)
      BY <1>0, <1>5, OpMoves
    <3>2. op'[s].step \notin Left \cup {"idle", "create", "join", "route", "setMeeting", "setInMeeting", "leave",
                                       "clearMeeting", "kickHost", "kickFind", "kickLeave"}
      BY <3>1 DEF KickedOff, Left
    <3> QED
      BY <3>1, <3>2 DEF Moves, Ends, Goes
  <2>2. u \notin Members(m)' => u \notin Members(op[r].meeting)'
    BY <1>3 DEF Members
  <2>3. CASE op[s].step = "kickLeave" /\ Goes(s, "kickGet") /\ GoesOut(op[s].target, op[s].meeting)
    BY <1>1, <1>3, <2>1, <2>2, <2>3 DEF Goes, GoesOut
  <2>4. ASSUME op[s].step \in KickedOff, op[s].target = u, op[s].meeting = m, MembersSame
        PROVE  u \notin Members(m)'
    BY <1>0, <1>2, <2>4 DEF Kicked, MembersSame
  <2>5. CASE /\ op[s].step = "kickGet" /\ op'[s].step = "kickClear" /\ OpOnly
             /\ op'[s].meeting = op[s].meeting /\ op'[s].target = op[s].target
             /\ meetingID[op'[s].kicked] = op[s].meeting
    BY <1>1, <1>3, <2>1, <2>2, <2>4, <2>5 DEF OpOnly, KickedOff
  <2>6. CASE /\ op[s].step = "kickClear" /\ Goes(s, "kickState") /\ MembersSame
             /\ meetingID'[op[s].kicked] = NoMeeting
    BY <1>1, <1>3, <2>1, <2>2, <2>4, <2>6 DEF Goes, KickedOff
  <2> QED
    BY <2>1, <2>3, <2>5, <2>6
<1> QED
  BY <1>4, <1>5

-----------------------------------------------------------------------------
(* Who is in a meeting is there for a reason *)

LEMMA StepHeld ==
    ASSUME IInv, NEW s \in Sessions, Step(s), Track
    PROVE  Held'
<1>0. Base /\ Watched /\ Sole /\ Entered /\ Leaving /\ Kicked /\ Held /\ Base' /\ account' = account
  BY StepBase, StepWatched DEF IInv
<1> SUFFICES ASSUME NEW u \in Users \ raced', NEW m \in Meetings, u \in Members(m)'
             PROVE  \E r \in Connections(u) : Holds(r, m)'
  BY <1>0 DEF Held, Connections
<1>1. u \notin raced /\ Clear(u) /\ Clear(u)' /\ m # NoMeeting
  BY <1>0, StepWatched, ServiceAssumption
<1>2. CASE u \notin Members(m)
  <2>1. account[s] = u /\ op'[s].step \in Joined /\ op'[s].meeting = m
    BY <1>0, <1>2, WhoEnters
  <2> QED
    BY <2>1 DEF Holds, Connections
<1>3. CASE u \in Members(m)
  <2>1. PICK r \in Sessions : account[r] = u /\ Holds(r, m)
    BY <1>0, <1>1, <1>3 DEF Held, Connections
  <2> SUFFICES Holds(r, m)'
    BY <2>1 DEF Connections
  <2>2. Spared(r)
    BY <1>1, <2>1 DEF Spared
  <2>3. op[r].step \notin Left
    BY <1>0, <1>3, <2>1, <2>2 DEF Leaving
  <2>4. closed \subseteq closed' /\ (closer'[r] # closer[r] => CloserStep(s))
    <3>1. CASE ConnectionStep(s)
      BY <1>0, <3>1, DoesConnection DEF Apart
    <3>2. CASE CloserStep(s)
      BY <1>0, <3>2, DoesOnSessionClosed, DoesLeaveByDisconnect, DoesClearOnClose DEF CloserStep, LoginsSame
    <3>3. CASE HandlerStep(s)
      BY <1>0, <3>3, HandlerAside DEF LoginsSame
    <3> QED
      BY <3>1, <3>2, <3>3, Steps
  \* What the session points at is told apart by the step that changes it.
  <2>5. ASSUME meetingID[r] = m, r \notin closed => state[r] = "InMeeting"
        PROVE  meetingID'[r] = m \/ (r \in closed /\ closer[r].step = "clear")
    <3> SUFFICES ASSUME meetingID'[r] # meetingID[r], ~(r = s /\ closer[s].step = "clear") PROVE FALSE
      <4>1. closer[r].step = "clear" => r \in closed
        BY <1>0 DEF Base, Closing
      <4> QED
        BY <2>5, <4>1
    <3>1. CASE r = s /\ op[s].step = "setMeeting"
      BY <1>0, <1>1, <2>1, <2>2, <2>5, <3>1 DEF Clear, Entered, Entering
    <3>2. CASE r = op[s].kicked /\ op[s].step = "kickClear"
      <4>1. op[s].target = u
        BY <1>0, <2>1, <3>2 DEF Base, Handling
      <4> QED
        BY <1>0, <1>1, <1>3, <2>5, <3>2, <4>1 DEF Kicked, KickedOff
    <3> QED
      BY <1>0, <2>3, <3>1, <3>2, WhoPoints DEF Left
  <2>6. CASE op[r].step \in Joined /\ op[r].meeting = m
    <3>1. CASE op'[r] = op[r]
      BY <2>6, <3>1 DEF Holds
    <3>2. CASE op'[r] # op[r]
      <4>1. r = s /\ HandlerStep(s)
        <5>1. r = s
          BY <1>0, <3>2, OpMoves
        <5> QED
          BY <1>0, <3>2, <5>1, Steps, DoesConnection, DoesOnSessionClosed, DoesLeaveByDisconnect, DoesClearOnClose
             DEF CloserStep, Apart
      <4>2. RouteRoom(s) \/ EnterMeeting(s) \/ SetInMeeting(s)
        BY <2>6, <4>1 DEF HandlerStep, Handler, HandleCreate, HandleJoin, HandleLeave, HandleKick, Receive, Ready,
           CreateMeeting, JoinMeeting, LeaveMeeting, ClearMeeting, CheckState, SetAuthenticated,
           KickHost, KickFind, KickLeave, KickGet, KickClear, KickState, Joined
      <4>3. CASE RouteRoom(s)
        BY <1>0, <1>3, <2>1, <2>6, <4>1, <4>3, DoesRouteRoom DEF GoesOut, Goes, Holds, Joined
      <4>4. CASE EnterMeeting(s)
        BY <1>0, <2>6, <4>1, <4>4, DoesEnterMeeting DEF Goes, Holds, Joined
      <4>5. CASE SetInMeeting(s)
        <5>1. r \notin closed /\ meetingID[r] = m
          BY <1>0, <1>1, <2>1, <2>2, <2>6, <4>1, <4>5 DEF SetInMeeting, Entered, Clear, Entering
        <5>2. closed' = closed /\ meetingID' = meetingID /\ state'[r] = "InMeeting"
          BY <1>0, <4>1, <4>5, DoesSetInMeeting DEF LoginsSame, Turns
        <5> QED
          BY <5>1, <5>2 DEF Holds
      <4> QED
        BY <4>2, <4>3, <4>4, <4>5
    <3> QED
      BY <3>1, <3>2
  <2>7. CASE r \notin closed /\ state[r] = "InMeeting" /\ meetingID[r] = m
    <3>1. meetingID'[r] = m
      BY <2>5, <2>7
    <3>2. CASE r \in closed'
      <4>1. closer[r].step = "wait"
        BY <1>0, <2>7 DEF Base, Closing
      <4>2. ~CloserStep(s)
        BY <1>0, <2>7, <3>2, DoesOnSessionClosed, DoesLeaveByDisconnect, DoesClearOnClose DEF CloserStep, LoginsSame
      <4> QED
        BY <2>4, <3>1, <3>2, <4>1, <4>2 DEF Holds
    <3>3. CASE r \notin closed'
      <4>1. ~(r = op[s].kicked /\ op[s].step = "kickState")
        <5> SUFFICES ASSUME r = op[s].kicked, op[s].step = "kickState" PROVE FALSE
          OBVIOUS
        <5>1. op[s].target = u
          BY <1>0, <2>1 DEF Base, Handling
        <5> QED
          BY <1>0, <1>1, <2>7, <5>1 DEF Kicked
      <4>2. state'[r] = "InMeeting"
        BY <1>0, <2>3, <2>7, <3>3, <4>1, WhoTurns DEF Left
      <4> QED
        BY <3>1, <3>3, <4>2 DEF Holds
    <3> QED
      BY <3>2, <3>3
  <2>8. CASE r \in closed /\ closer[r].step = "wait" /\ meetingID[r] = m
    <3>1. meetingID'[r] = m /\ r \in closed'
      BY <2>4, <2>5, <2>8
    <3>2. CASE closer'[r] = closer[r]
      BY <2>8, <3>1, <3>2 DEF Holds
    <3>3. CASE CloserStep(s) /\ closer'[r] # closer[r]
      <4>1. closer'[r].step = "leave" /\ closer'[r].meeting = m
        BY <1>0, <1>1, <2>8, <3>3, DoesOnSessionClosed, DoesLeaveByDisconnect, DoesClearOnClose DEF CloserStep, Closes
      <4> QED
        BY <4>1 DEF Holds
    <3> QED
      BY <2>4, <3>2, <3>3
  <2>9. CASE closer[r].step = "leave" /\ closer[r].meeting = m
    <3>1. CASE closer'[r] = closer[r]
      BY <2>9, <3>1 DEF Holds
    <3>2. CASE CloserStep(s) /\ closer'[r] # closer[r]
      <4>1. r = s /\ LeaveByDisconnect(s)
        BY <1>0, <2>9, <3>2, DoesOnSessionClosed, DoesLeaveByDisconnect, DoesClearOnClose DEF CloserStep, Closes
      <4> QED
        BY <1>0, <1>3, <2>1, <2>9, <4>1, DoesLeaveByDisconnect DEF GoesOut
    <3> QED
      BY <2>4, <3>1, <3>2
  <2> QED
    BY <2>1, <2>6, <2>7, <2>8, <2>9 DEF Holds
<1> QED
  BY <1>2, <1>3

\* An open session that is in a meeting is right about it.
LEMMA StepInside ==
    ASSUME IInv, NEW s \in Sessions, Step(s), Track
    PROVE  Inside'
<1>0. Base /\ Watched /\ Sole /\ Entered /\ Inside /\ Base' /\ account' = account
  BY StepBase, StepWatched DEF IInv
<1> SUFFICES ASSUME NEW r \in Sessions \ closed', NEW m \in Meetings, account[r] \notin raced', op'[r].step \notin Left,
                    state'[r] = "InMeeting", meetingID'[r] = m
             PROVE  account[r] \in Members(m)' \/ Told(r, m)' \/ byUser'[account[r]] # r
  BY <1>0 DEF Inside, Spared
<1>1. PICK u \in Users : u = account[r]
  BY <1>0 DEF Base, Typed
<1>2. u \notin raced /\ Clear(u) /\ Clear(u)' /\ Spared(r) /\ m # NoMeeting
  BY <1>0, <1>1, StepWatched, ServiceAssumption DEF Spared
<1>3. r \notin closed
  <2>1. closed \subseteq closed'
    <3>1. CASE ConnectionStep(s)
      BY <1>0, <3>1, DoesConnection DEF Apart
    <3>2. CASE CloserStep(s)
      BY <1>0, <3>2, DoesOnSessionClosed, DoesLeaveByDisconnect, DoesClearOnClose DEF CloserStep, LoginsSame
    <3>3. CASE HandlerStep(s)
      BY <1>0, <3>3, HandlerAside DEF LoginsSame
    <3> QED
      BY <3>1, <3>2, <3>3, Steps
  <2> QED
    BY <2>1
<1>4. CASE state[r] # "InMeeting"
  <2>1. /\ r = s /\ op[s].step = "setInMeeting" /\ meetingID' = meetingID /\ MembersSame
    BY <1>0, <1>4, WhoTurns
  <2>2. u \in Members(op[s].meeting) /\ meetingID[s] = op[s].meeting
    BY <1>0, <1>1, <1>2, <2>1 DEF Entered, Joined
  <2> QED
    BY <1>1, <2>1, <2>2 DEF MembersSame
<1>5. CASE state[r] = "InMeeting"
  <2>1. meetingID[r] = m
    <3> SUFFICES ASSUME meetingID[r] # meetingID'[r] PROVE FALSE
      OBVIOUS
    <3>1. r = s /\ op[s].step = "setMeeting"
      BY <1>0, <1>2, WhoPoints, SMT
    <3> QED
      BY <1>0, <1>2, <1>5, <3>1 DEF Entered, Entering
  <2>2. op[r].step \notin Left
    <3> SUFFICES ASSUME op[r].step \in Left, op'[r] # op[r] PROVE FALSE
      OBVIOUS
    <3>1. r = s
      BY <1>0, OpMoves
    <3>2. HandlerStep(s)
      BY <1>0, Steps, DoesConnection, DoesOnSessionClosed, DoesLeaveByDisconnect, DoesClearOnClose DEF CloserStep, Apart
    <3>3. ClearMeeting(s) \/ CheckState(s) \/ SetAuthenticated(s)
      BY <3>1, <3>2 DEF HandlerStep, Handler, HandleCreate, HandleJoin, HandleLeave, HandleKick, Receive, Ready,
         CreateMeeting, RouteRoom, JoinMeeting, EnterMeeting, SetInMeeting, LeaveMeeting,
         KickHost, KickFind, KickLeave, KickGet, KickClear, KickState, Left
    <3>4. CASE ClearMeeting(s)
      BY <1>0, <3>1, <3>4, DoesClearMeeting DEF Goes, Left
    <3>5. CASE CheckState(s)
      BY <1>0, <1>5, <3>1, <3>5, DoesCheckState DEF Goes, Left
    <3>6. CASE SetAuthenticated(s)
      BY <1>0, <3>1, <3>6, DoesSetAuthenticated DEF Turns
    <3> QED
      BY <3>3, <3>4, <3>5, <3>6
  <2>3. Engaged(r) /\ closer[r].step = "wait" /\ LoggedIn(r)
    <3>1. closer[r].step = "wait"
      BY <1>0, <1>3 DEF Base, Closing
    <3> QED
      BY <1>0, <1>2, <1>5, <2>1, <3>1 DEF Engaged, Base, Logins
  <2>4. u \in Members(m) \/ Told(r, m) \/ byUser[u] # r
    BY <1>0, <1>1, <1>2, <1>3, <1>5, <2>1, <2>2 DEF Inside
  <2>5. CASE u \in Members(m)
    <3> SUFFICES ASSUME u \notin Members(m)' PROVE Told(r, m)'
      BY <1>1
    <3>1. CASE account[s] = u /\ (op[s].step = "route" \/ (op[s].step = "leave" /\ Goes(s, "clearMeeting")))
      <4>1. s = r
        BY <1>0, <1>1, <1>2, <2>3, <3>1 DEF Sole, Engaged
      <4> QED
        BY <1>0, <1>2, <1>5, <3>1, <4>1 DEF Entered, Entering, Goes, Left
    <3>2. CASE op[s].target = u /\ op[s].meeting = m /\ Goes(s, "kickGet")
      BY <1>0, <1>1, <3>2 DEF Goes, Told
    <3>3. CASE account[s] = u /\ closer[s].step = "leave"
      BY <1>0, <1>1, <1>2, <2>3, <3>3 DEF Sole, Engaged
    <3> QED
      BY <1>0, <2>5, <3>1, <3>2, <3>3, WhoGoes, SMT
  <2>6. CASE Told(r, m)
    <3>1. PICK t \in Sessions : /\ op[t].target = u /\ op[t].meeting = m
                                /\ op[t].step = "kickGet" \/ (op[t].step = "kickClear" /\ op[t].kicked = r)
      BY <1>1, <2>6 DEF Told
    <3>2. CASE op'[t] = op[t]
      BY <1>0, <1>1, <3>1, <3>2 DEF Told
    <3>3. CASE op'[t] # op[t]
      <4>1. t = s /\ HandlerStep(s)
        BY <1>0, <3>3, OpMoves, Steps, DoesConnection, DoesOnSessionClosed, DoesLeaveByDisconnect, DoesClearOnClose
           DEF CloserStep, Apart
      <4>2. KickGet(s) \/ KickClear(s)
        BY <3>1, <4>1 DEF HandlerStep, Handler, HandleCreate, HandleJoin, HandleLeave, HandleKick, Receive, Ready,
           CreateMeeting, RouteRoom, JoinMeeting, EnterMeeting, SetInMeeting, LeaveMeeting,
           ClearMeeting, CheckState, SetAuthenticated, KickHost, KickFind, KickLeave, KickState
      <4>3. CASE KickClear(s)
        BY <1>0, <1>2, <3>1, <4>1, <4>3, DoesKickClear DEF Points
      <4>4. CASE KickGet(s)
        <5>1. byUser' = byUser
          BY <1>0, <4>4, DoesKickGet DEF OpOnly, LoginsSame
        <5>2. CASE byUser[u] = r
          <6>1. op'[s].step = "kickClear" /\ op'[s].kicked = r /\ op'[s].meeting = m /\ op'[s].target = u
            BY <1>0, <2>1, <3>1, <4>1, <4>4, <5>2, DoesKickGet, ServiceAssumption
          <6> QED
            BY <1>0, <1>1, <6>1 DEF Told
        <5> QED
          BY <1>1, <5>1, <5>2
      <4> QED
        BY <4>2, <4>3, <4>4
    <3> QED
      BY <3>2, <3>3
  <2>7. CASE byUser[u] # r
    <3>1. CASE ConnectionStep(s)
      BY <1>0, <1>1, <2>3, <2>7, <3>1, DoesConnection DEF Apart
    <3>2. CASE CloserStep(s)
      BY <1>0, <1>1, <2>7, <3>2, DoesOnSessionClosed, DoesLeaveByDisconnect, DoesClearOnClose DEF CloserStep, LoginsSame
    <3>3. CASE HandlerStep(s)
      BY <1>0, <1>1, <2>7, <3>3, HandlerAside DEF LoginsSame
    <3> QED
      BY <3>1, <3>2, <3>3, Steps
  <2> QED
    BY <2>4, <2>5, <2>6, <2>7
<1> QED
  BY <1>4, <1>5

-----------------------------------------------------------------------------
(* The theorem *)

LEMMA InitHolds ==
    ASSUME Init
    PROVE  IInv
<1> USE ServiceAssumption
<1>1. /\ state = [s \in Sessions |-> "None"] /\ userID = [s \in Sessions |-> NoUser] /\ closed = {} /\ sessions = {}
      /\ byUser = [u \in Users |-> NoSession] /\ pc = [s \in Sessions |-> "idle"]
      /\ loginUser = [s \in Sessions |-> NoUser] /\ old = [s \in Sessions |-> NoSession]
      /\ roster = [m \in Meetings |-> {}] /\ account \in [Sessions -> Users] /\ drawn = {}
      /\ meetingID = [s \in Sessions |-> NoMeeting] /\ closer = [s \in Sessions |-> [step |-> "wait", meeting |-> NoMeeting]]
      /\ op = [s \in Sessions |-> Idle]
  BY DEF Init, Registry!Init, Store!Init
<1>2. Idle \in Ops /\ Idle.step = "idle" /\ Idle.target = NoUser
  BY DEF Idle, Op, Ops, OpSteps
<1>3. \A s \in Sessions :
         /\ op[s].step = "idle" /\ op[s].target = NoUser /\ meetingID[s] = NoMeeting /\ closer[s].step = "wait"
         /\ state[s] = "None" /\ userID[s] = NoUser /\ pc[s] = "idle" /\ old[s] = NoSession
  BY <1>1, <1>2
<1>4. Typed
  <2>1. op \in [Sessions -> Ops] /\ closer \in [Sessions -> Closers]
    BY <1>1, <1>2 DEF Closers
  <2> QED
    BY <1>1, <2>1 DEF Typed, Registry!States, Registry!Steps
<1>5. \A m \in Meetings : Members(m) = {}
  BY <1>1 DEF Members, Store!In
<1>6. Logins /\ Binding /\ BoundOrKicked /\ Closing /\ Handling
  <2>1. \A s \in Sessions : ~PastBind(s) /\ ~LoggedIn(s)
    BY <1>3 DEF PastBind, LoggedIn
  <2>2. Logins
    BY <1>3, <2>1 DEF Logins
  <2>3. Binding /\ BoundOrKicked
    BY <1>1, <1>3, <2>1 DEF Binding, BoundOrKicked
  <2>4. Closing /\ Handling
    BY <1>1, <1>3 DEF Closing, Handling, Kicking
  <2> QED
    BY <2>2, <2>3, <2>4
<1>7. Watched
  <2>1. \A s \in Sessions : op[s].step \notin Entering
    BY <1>3 DEF Entering
  <2> QED
    BY <1>3, <2>1 DEF Watched, Overlap, Connections
<1>8. Sole
  BY <1>3 DEF Sole, Engaged
<1>9. Entered /\ Leaving /\ Kicked
  BY <1>3 DEF Entered, Entering, Joined, Leaving, Left, Kicked, KickedOff
<1>10. Held /\ Inside
  BY <1>3, <1>5 DEF Held, Inside
<1> QED
  BY <1>4, <1>6, <1>7, <1>8, <1>9, <1>10 DEF IInv, Base

LEMMA StepHolds ==
    ASSUME IInv, [Next]_vars
    PROVE  IInv'
<1>1. ASSUME NEW s \in Sessions, Step(s), Track PROVE IInv'
  <2>1. Base'
    BY <1>1, StepBase DEF IInv
  <2>2. Watched'
    BY <1>1, StepWatched DEF IInv
  <2>3. Sole'
    BY <1>1, StepSole DEF IInv
  <2>4. Entered' /\ Leaving' /\ Kicked'
    BY <1>1, StepEntered, StepLeaving, StepKicked
  <2>5. Held' /\ Inside'
    BY <1>1, StepHeld, StepInside
  <2> QED
    BY <2>1, <2>2, <2>3, <2>4, <2>5 DEF IInv
<1>2. CASE UNCHANGED vars
  <2>1. /\ UNCHANGED <<state, userID, closed, sessions, byUser, pc, loginUser, old>>
        /\ UNCHANGED <<account, meetingID, roster, drawn, op, closer, raced>>
    BY <1>2 DEF vars, registryVars
  <2>2. Base'
    BY <2>1, SMT DEF IInv, Base, Typed, Logins, Binding, BoundOrKicked, Closing, Handling, LoggedIn, PastBind
  <2>3. Watched' /\ Sole'
    <3>1. Watched'
      BY <2>1, SMT DEF IInv, Watched, Overlap, Connections, Ready
    <3>2. Sole'
      BY <2>1 DEF IInv, Sole, Spared, Engaged
    <3> QED
      BY <3>1, <3>2
  <2>4. Entered' /\ Leaving' /\ Kicked'
    BY <2>1 DEF IInv, Entered, Leaving, Kicked, Spared, Members
  <2>5. Held' /\ Inside'
    <3>1. Held'
      BY <2>1, SMT DEF IInv, Held, Members, Connections, Holds
    <3>2. Inside'
      BY <2>1, SMT DEF IInv, Inside, Spared, Members, Told
    <3> QED
      BY <3>1, <3>2
  <2> QED
    BY <2>2, <2>3, <2>4, <2>5 DEF IInv
<1> QED
  BY <1>1, <1>2 DEF Next

\* A user of whom nothing is going on is held by an open session only, and an
\* open session that is in a meeting was neither kicked nor displaced.
LEMMA SettledAgree ==
    ASSUME IInv
    PROVE  AgreeUnlessRaced
<1> SUFFICES ASSUME NEW u \in Users \ raced, Settled(u), NEW m \in Meetings
             PROVE  u \in Members(m) <=> \E s \in Connections(u) \ closed : state[s] = "InMeeting" /\ meetingID[s] = m
  BY DEF AgreeUnlessRaced, Agree
<1>0. Base /\ Held /\ Inside /\ m # NoMeeting
  BY ServiceAssumption DEF IInv
<1>1. /\ \A s \in Sessions : account[s] = u => pc[s] = "idle" /\ op[s].step = "idle" /\ (s \in closed => s \notin sessions)
      /\ \A s \in Sessions : op[s].target # u
  BY DEF Settled, Connections, Ready
<1>2. ASSUME u \in Members(m)
      PROVE  \E s \in Connections(u) \ closed : state[s] = "InMeeting" /\ meetingID[s] = m
  <2>1. PICK s \in Sessions : account[s] = u /\ Holds(s, m)
    BY <1>0, <1>2 DEF Held, Connections
  <2>2. op[s].step = "idle" /\ (s \in closed => closer[s].step = "done") /\ (s \notin closed => closer[s].step = "wait")
    BY <1>0, <1>1, <2>1 DEF Base, Closing
  <2> QED
    BY <2>1, <2>2 DEF Holds, Joined, Connections
<1>3. ASSUME NEW s \in Connections(u) \ closed, state[s] = "InMeeting", meetingID[s] = m
      PROVE  u \in Members(m)
  <2>1. s \in Sessions /\ account[s] = u /\ op[s].step = "idle"
    BY <1>1 DEF Connections
  <2>2. u \in Members(m) \/ Told(s, m) \/ byUser[u] # s
    BY <1>0, <1>3, <2>1 DEF Inside, Spared, Left
  <2>3. ~Told(s, m)
    BY <1>1, <2>1 DEF Told
  <2>4. byUser[u] = s
    <3>1. PastBind(s)
      BY <1>0, <1>3, <2>1 DEF Base, Logins, LoggedIn, PastBind
    <3> SUFFICES ASSUME NEW r \in Sessions, old[r] = s PROVE FALSE
      BY <1>0, <1>3, <2>1, <3>1 DEF Base, BoundOrKicked
    <3>2. pc[r] \in {"setUser", "kick"} /\ account[r] = u
      BY <1>0, <2>1, ServiceAssumption DEF Base, Binding
    <3> QED
      BY <1>1, <3>2
  <2> QED
    BY <2>2, <2>3, <2>4
<1> QED
  BY <1>2, <1>3

\* For any users, connections, meetings and requests: whenever nothing is going
\* on that concerns a user who was in none of the three overlaps, the store has
\* the user in exactly the meeting an open session of the user is in
\* (handler/meeting_handler.go, Router.OnSessionClosed, SessionManager).
THEOREM SessionsAgree == Spec => []AgreeUnlessRaced
<1>1. Init => IInv
  BY InitHolds
<1>2. IInv /\ [Next]_vars => IInv'
  BY StepHolds
<1>3. IInv => AgreeUnlessRaced
  BY SettledAgree
<1> QED
  BY <1>1, <1>2, <1>3, PTL DEF Spec
=============================================================================
