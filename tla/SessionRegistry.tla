-------------------------- MODULE SessionRegistry --------------------------
(* The sessions of one signaling node: server/session.go,                    *)
(* server/session_manager.go, the accept loop of server/tcp_server.go and    *)
(* the login and logout handlers of handler/auth_handler.go.                 *)
(*                                                                           *)
(* A session has three actors: its reader (readLoop), which runs the handler *)
(* of one message at a time and is not stopped by Close; its closer, the     *)
(* goroutine that waits on closeCh and runs OnSessionClosed and then Remove; *)
(* and everybody who may Close it: the peer, writeLoop, watchdogLoop, a full *)
(* write queue, another session's login.  A step is one access to state that *)
(* others see: an atomic, metaMu, or the manager's mutex.                    *)
EXTENDS TLAPS

CONSTANTS
    Sessions,       \* session ids, unique within a node (nextID)
    Users,          \* user ids
    NoUser,         \* "" as a user id
    NoSession       \* nil as a *Session

ASSUME RegistryAssumption == NoUser \notin Users /\ NoSession \notin Sessions

VARIABLES
    state,      \* session.state; "None" before the connection is accepted
    userID,     \* session.userID
    closed,     \* sessions whose closeCh is closed
    sessions,   \* SessionManager.sessions
    byUser,     \* SessionManager.byUser
    pc,         \* what the reader of a session is doing
    loginUser,  \* the user authenticated by the login in progress
    old         \* BindUser's local variable old

vars == <<state, userID, closed, sessions, byUser, pc, loginUser, old>>

States == {"None", "Connected", "Authenticated", "Disconnected"}
Steps == {"idle", "bind", "setUser", "kick", "setState"}

Init ==
    /\ state = [s \in Sessions |-> "None"]
    /\ userID = [s \in Sessions |-> NoUser]
    /\ closed = {}
    /\ sessions = {}
    /\ byUser = [u \in Users |-> NoSession]
    /\ pc = [s \in Sessions |-> "idle"]
    /\ loginUser = [s \in Sessions |-> NoUser]
    /\ old = [s \in Sessions |-> NoSession]

\* Session.Close: the body runs once.
Close(S) ==
    /\ closed' = closed \cup S
    /\ state' = [s \in Sessions |-> IF s \in S \ closed THEN "Disconnected" ELSE state[s]]

\* TCPServer.Run: NewSession, Add, Start.
Accept(s) ==
    /\ state[s] = "None"
    /\ state' = [state EXCEPT ![s] = "Connected"]
    /\ sessions' = sessions \cup {s}
    /\ UNCHANGED <<userID, closed, byUser, pc, loginUser, old>>

\* readLoop reads a login, HandleMessage lets it through, and the limiter, the
\* credentials and the token are fine.  A login that fails there changes
\* nothing.  Nothing is read from a closed connection.
HandleLogin(s, u) ==
    /\ s \notin closed
    /\ pc[s] = "idle"
    /\ state[s] \in {"Connected", "Authenticated"}
    /\ pc' = [pc EXCEPT ![s] = "bind"]
    /\ loginUser' = [loginUser EXCEPT ![s] = u]
    /\ UNCHANGED <<state, userID, closed, sessions, byUser, old>>

\* The session BindUser has to close.
Displaced(s, u) == IF byUser[u] = s THEN NoSession ELSE byUser[u]

\* BindUser under the manager's mutex.
BindUser(s) ==
    /\ pc[s] = "bind"
    /\ old' = [old EXCEPT ![s] = Displaced(s, loginUser[s])]
    /\ byUser' = [byUser EXCEPT ![loginUser[s]] = s]
    /\ pc' = [pc EXCEPT ![s] = "setUser"]
    /\ UNCHANGED <<state, userID, closed, sessions, loginUser>>

\* BindUser: s.SetUserID(userID).
SetUserID(s) ==
    /\ pc[s] = "setUser"
    /\ userID' = [userID EXCEPT ![s] = loginUser[s]]
    /\ pc' = [pc EXCEPT ![s] = "kick"]
    /\ UNCHANGED <<state, closed, sessions, byUser, loginUser, old>>

MutantKickOld(s) ==
    /\ pc[s] = "kick"
    /\ old' = [old EXCEPT ![s] = NoSession]
    /\ pc' = [pc EXCEPT ![s] = "setState"]
    /\ UNCHANGED <<state, closed, userID, sessions, byUser, loginUser>>

\* BindUser: old.Send (which itself closes old when its queue is full) and
\* old.Close().
KickOld(s) ==
    /\ pc[s] = "kick"
    /\ Close({old[s]} \ {NoSession})
    /\ old' = [old EXCEPT ![s] = NoSession]
    /\ pc' = [pc EXCEPT ![s] = "setState"]
    /\ UNCHANGED <<userID, sessions, byUser, loginUser>>

\* HandleLogin: session.SetState(StateAuthenticated), a plain store.
SetAuthenticated(s) ==
    /\ pc[s] = "setState"
    /\ state' = [state EXCEPT ![s] = "Authenticated"]
    /\ pc' = [pc EXCEPT ![s] = "idle"]
    /\ loginUser' = [loginUser EXCEPT ![s] = NoUser]
    /\ UNCHANGED <<userID, closed, sessions, byUser, old>>

\* HandleLogout; also HandleMessage on a message the state does not allow.
HandleLogout(s) ==
    /\ pc[s] = "idle"
    /\ state[s] # "None"
    /\ s \notin closed
    /\ Close({s})
    /\ UNCHANGED <<userID, sessions, byUser, pc, loginUser, old>>

\* The peer, writeLoop, watchdogLoop or a full write queue closes the session,
\* whatever its reader is doing.
Disconnect(s) ==
    /\ state[s] # "None"
    /\ s \notin closed
    /\ Close({s})
    /\ UNCHANGED <<userID, sessions, byUser, pc, loginUser, old>>

MutantRemove(s) ==
    /\ s \in closed \cap sessions
    /\ sessions' = sessions \ {s}
    /\ byUser' = [u \in Users |-> IF u = userID[s] THEN NoSession ELSE byUser[u]]
    /\ UNCHANGED <<state, userID, closed, pc, loginUser, old>>

\* The closer: OnSessionClosed (which leaves the registry alone), then
\* SessionManager.Remove.
Remove(s) ==
    /\ s \in closed \cap sessions
    /\ sessions' = sessions \ {s}
    /\ byUser' = [u \in Users |->
            IF u = userID[s] /\ byUser[u] = s THEN NoSession ELSE byUser[u]]
    /\ UNCHANGED <<state, userID, closed, pc, loginUser, old>>

Reader(s) == BindUser(s) \/ SetUserID(s) \/ KickOld(s) \/ SetAuthenticated(s)

Next ==
    \E s \in Sessions :
       \/ Accept(s)
       \/ \E u \in Users : HandleLogin(s, u)
       \/ Reader(s)
       \/ HandleLogout(s)
       \/ Disconnect(s)
       \/ Remove(s)

\* Goroutines that can run do run; clients need not do anything.
Fairness == \A s \in Sessions : WF_vars(Reader(s)) /\ WF_vars(Remove(s))

Spec == Init /\ [][Next]_vars
FairSpec == Spec /\ Fairness

-----------------------------------------------------------------------------
(* Properties *)

TypeOK ==
    /\ state \in [Sessions -> States]
    /\ userID \in [Sessions -> Users \cup {NoUser}]
    /\ closed \subseteq Sessions
    /\ sessions \subseteq Sessions
    /\ byUser \in [Users -> Sessions \cup {NoSession}]
    /\ pc \in [Sessions -> Steps]
    /\ loginUser \in [Sessions -> Users \cup {NoUser}]
    /\ \A s \in Sessions : loginUser[s] # NoUser <=> pc[s] # "idle"
    /\ \A s \in Sessions : old[s] # NoSession => pc[s] \in {"setUser", "kick"}
    /\ old \in [Sessions -> Sessions \cup {NoSession}]

\* A login on t is about to close s.
Kicking(t, s) == old[t] = s

\* Two sessions of one user are never both open on a node, except while the
\* later login is on its way from the map update in BindUser to the Close of
\* the session it displaced: logins, re-logins as somebody else, closes and
\* removals may interleave as they like.
SingleLogin ==
    \A s, t \in Sessions :
       /\ s # t
       /\ userID[s] = userID[t]
       /\ userID[s] # NoUser
       /\ s \notin closed
       /\ t \notin closed
       => \E r \in Sessions : Kicking(r, s) \/ Kicking(r, t)

\* An open session that byUser no longer names is closed in the end: no login
\* that was displaced survives (BindUser and readLoop run to completion).
DisplacedIsClosed ==
    \A s \in Sessions : \A u \in Users :
       []<>(userID[s] = u /\ byUser[u] # s => s \in closed)

-----------------------------------------------------------------------------
(* SingleLogin for any number of sessions and users. *)

\* A session claims a user from the moment BindUser has entered it in byUser,
\* which is before SetUserID makes the claim visible.
Claims(s, u) == userID[s] = u \/ (pc[s] = "setUser" /\ loginUser[s] = u)

\* An open session that claims a user is the one byUser names, or somebody is
\* about to close it.
BoundOrKicked ==
    \A s \in Sessions \ closed, u \in Users :
       Claims(s, u) => byUser[u] = s \/ \E r \in Sessions : Kicking(r, s)

\* SingleLogin says nothing about byUser, so it is not inductive: a login
\* displaces what byUser names and nothing else.
IInv == TypeOK /\ BoundOrKicked

\* A node without connections.
LEMMA InitIInv == Init => IInv
BY RegistryAssumption
DEF Init, IInv, TypeOK, BoundOrKicked, Claims, Kicking, States, Steps

\* Every step keeps the types.
LEMMA NextTypeOK == TypeOK /\ [Next]_vars => TypeOK'
<1> SUFFICES ASSUME TypeOK, [Next]_vars PROVE TypeOK'
  OBVIOUS
<1> USE RegistryAssumption DEF TypeOK, States, Steps
<1>1. ASSUME NEW s \in Sessions, Accept(s) PROVE TypeOK'
  BY <1>1 DEF Accept
<1>2. ASSUME NEW s \in Sessions, NEW u \in Users, HandleLogin(s, u) PROVE TypeOK'
  BY <1>2 DEF HandleLogin
<1>3. ASSUME NEW s \in Sessions, BindUser(s) PROVE TypeOK'
  BY <1>3 DEF BindUser, Displaced
<1>4. ASSUME NEW s \in Sessions, SetUserID(s) PROVE TypeOK'
  BY <1>4 DEF SetUserID
<1>5. ASSUME NEW s \in Sessions, KickOld(s) PROVE TypeOK'
  BY <1>5 DEF KickOld, Close
<1>6. ASSUME NEW s \in Sessions, SetAuthenticated(s) PROVE TypeOK'
  BY <1>6 DEF SetAuthenticated
<1>7. ASSUME NEW s \in Sessions, HandleLogout(s) \/ Disconnect(s) PROVE TypeOK'
  BY <1>7 DEF HandleLogout, Disconnect, Close
<1>8. ASSUME NEW s \in Sessions, Remove(s) PROVE TypeOK'
  BY <1>8 DEF Remove
<1>9. CASE UNCHANGED vars
  BY <1>9 DEF vars
<1> QED
  BY <1>1, <1>2, <1>3, <1>4, <1>5, <1>6, <1>7, <1>8, <1>9 DEF Next, Reader

\* Every step keeps an open session bound or about to be closed.
LEMMA NextBoundOrKicked == IInv /\ [Next]_vars => BoundOrKicked'
<1> SUFFICES ASSUME IInv, [Next]_vars PROVE BoundOrKicked'
  OBVIOUS
<1> USE RegistryAssumption DEF IInv, TypeOK, BoundOrKicked, Claims, Kicking
<1>1. ASSUME NEW s \in Sessions, Accept(s) PROVE BoundOrKicked'
  BY <1>1 DEF Accept
<1>2. ASSUME NEW s \in Sessions, NEW u \in Users, HandleLogin(s, u) PROVE BoundOrKicked'
  BY <1>2 DEF HandleLogin
<1>3. ASSUME NEW s \in Sessions, BindUser(s) PROVE BoundOrKicked'
  BY <1>3 DEF BindUser, Displaced
<1>4. ASSUME NEW s \in Sessions, SetUserID(s) PROVE BoundOrKicked'
  BY <1>4 DEF SetUserID
<1>5. ASSUME NEW s \in Sessions, KickOld(s) PROVE BoundOrKicked'
  BY <1>5 DEF KickOld, Close
<1>6. ASSUME NEW s \in Sessions, SetAuthenticated(s) PROVE BoundOrKicked'
  BY <1>6 DEF SetAuthenticated
<1>7. ASSUME NEW s \in Sessions, HandleLogout(s) \/ Disconnect(s) PROVE BoundOrKicked'
  BY <1>7 DEF HandleLogout, Disconnect, Close
<1>8. ASSUME NEW s \in Sessions, Remove(s) PROVE BoundOrKicked'
  BY <1>8 DEF Remove
<1>9. CASE UNCHANGED vars
  BY <1>9 DEF vars
<1> QED
  BY <1>1, <1>2, <1>3, <1>4, <1>5, <1>6, <1>7, <1>8, <1>9 DEF Next, Reader

\* The inductive invariant holds in every reachable state.
THEOREM IInvariance == Spec => []IInv
<1>1. IInv /\ [Next]_vars => IInv'
  BY NextTypeOK, NextBoundOrKicked DEF IInv
<1> QED
  BY <1>1, InitIInv, PTL DEF Spec

\* The registry's variables keep their types.
THEOREM TypeCorrect == Spec => []TypeOK
<1>1. IInv => TypeOK
  BY DEF IInv
<1> QED
  BY <1>1, IInvariance, PTL

\* A node never has two open sessions of one user, except between the map
\* update and the Close of one and the same BindUser call.
THEOREM OneLoginPerUser == Spec => []SingleLogin
<1>1. IInv => SingleLogin
  BY DEF IInv, TypeOK, BoundOrKicked, Claims, Kicking, SingleLogin
<1> QED
  BY <1>1, IInvariance, PTL
=============================================================================
