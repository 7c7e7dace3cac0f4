---------------------------- MODULE ClientLogin ----------------------------
(* How the client signs in and stays signed in: the login part of            *)
(* app/MeetingController.cpp with net/signaling/SignalingClient.cpp (socket, *)
(* framing, requests and replies), net/signaling/Reconnector.cpp,            *)
(* app/UserManager.cpp and security/TokenManager.cpp (the session on disk).  *)
(* The server is modelled by its answers (handler/auth_handler.go).          *)
(*                                                                           *)
(* A frame crosses the connection in chunks, so that a connection may break  *)
(* in the middle of one; the chunk with index 1 has the frame's header.  All *)
(* of the client runs in one thread: each action is one event of it.         *)
EXTENDS Integers, Sequences, FiniteSets

CONSTANTS
    Accounts,       \* user names
    MaxLogins,      \* bound: times the user asks to sign in
    MaxDrops,       \* bound: connections that break or cannot be made
    MaxNotices,     \* bound: kicks, and other frames the server sends by itself
    NoAccount

VARIABLES
    lg,         \* the client; in `late` is noted that a login was answered after the
                \* connection was closed
    lgUp,       \* requests on their way to the server
    lgDown,     \* chunks on their way to the client
    lgLogins, lgDrops, lgNotices

lgVars == <<lg, lgUp, lgDown, lgLogins, lgDrops, lgNotices>>

NoSecret == [kind |-> "none", of |-> NoAccount]
Password(u) == [kind |-> "password", of |-> u]
Token(u) == [kind |-> "token", of |-> u]
Garbage == [kind |-> "garbage", of |-> NoAccount]

NoSession == [username |-> NoAccount, userId |-> NoAccount, token |-> NoSecret]

LgInit ==
    /\ lg = [socket |-> "off", buffer |-> <<>>, username |-> NoAccount, userId |-> NoAccount,
             secret |-> NoSecret, stay |-> FALSE, waiting |-> FALSE, sent |-> FALSE,
             restoring |-> FALSE, loggedIn |-> FALSE, reconnecting |-> FALSE, timer |-> FALSE,
             fallback |-> FALSE, heartbeat |-> FALSE, saved |-> NoSession, out |-> <<>>, late |-> FALSE]
    /\ lgUp = <<>> /\ lgDown = <<>>
    /\ lgLogins = 0 /\ lgDrops = 0 /\ lgNotices = 0

-----------------------------------------------------------------------------
(* Steps of the client, from one state c of it to the next.  What a step      *)
(* sends is put in c.out; a socket that closes is noted in c.socket.          *)

\* SignalingClient::login: a resume token goes where the password's hash would.
LoginRequest(c) ==
    [username |-> c.username, secret |-> c.secret, resume |-> c.restoring \/ ~c.waiting]

\* sendPendingLoginIfReady
SendPendingLogin(c) ==
    IF \/ c.socket # "up" \/ c.username = NoAccount \/ c.secret = NoSecret
       \/ ~(c.waiting \/ (c.stay /\ c.loggedIn)) \/ c.sent
    THEN c
    ELSE [c EXCEPT !.sent = TRUE,
                   !.out = Append(@, LoginRequest(c))]

\* connectedChanged(true); Reconnector::reset
OnConnected(c) ==
    SendPendingLogin([c EXCEPT !.socket = "up", !.reconnecting = FALSE, !.timer = FALSE])

MutantOnDisconnected(c) ==
    [c EXCEPT !.socket = "off", !.heartbeat = FALSE,
              !.reconnecting = @ \/ c.stay, !.timer = @ \/ c.stay]

MutantSchedule(c) ==
    [c EXCEPT !.socket = "off", !.heartbeat = FALSE,
              !.sent = @ /\ ~(c.waiting \/ c.loggedIn \/ c.stay),
              !.reconnecting = @ \/ c.stay, !.timer = @ \/ (c.stay /\ ~c.reconnecting)]

\* connectedChanged(false); Reconnector::schedule does nothing when it is active.
\* The read buffer keeps what it has.
OnDisconnected(c) ==
    [c EXCEPT !.socket = "off", !.heartbeat = FALSE,
              !.sent = @ /\ ~(c.waiting \/ c.loggedIn \/ c.stay),
              !.reconnecting = @ \/ c.stay, !.timer = @ \/ c.stay]

\* disconnectFromServer; while connecting, the socket closes once connected.
DisconnectFromServer(c) ==
    CASE c.socket = "up" -> OnDisconnected(c)
      [] c.socket = "connecting" -> [c EXCEPT !.socket = "closing"]
      [] OTHER -> c

\* UserManager::setSession, clearToken
SetSession(c, id, token) ==
    [c EXCEPT !.saved = [username |-> c.username, userId |-> id, token |-> token]]
ClearToken(c) ==
    IF c.saved.token = NoSecret THEN c
    ELSE [c EXCEPT !.saved = [@ EXCEPT !.userId = NoAccount, !.token = NoSecret]]

\* loginFinished
LoginFinished(c, ok, id, token) ==
    LET d == [c EXCEPT !.waiting = FALSE, !.restoring = FALSE] IN
    IF ok
    THEN SetSession([d EXCEPT !.userId = id, !.secret = token, !.loggedIn = TRUE, !.stay = TRUE,
                              !.timer = FALSE, !.heartbeat = TRUE, !.late = c.socket # "up"], id, token)
    ELSE LET e == [d EXCEPT !.sent = FALSE, !.stay = FALSE, !.timer = FALSE,
                            !.reconnecting = FALSE, !.loggedIn = FALSE]
         IN IF c.restoring THEN ClearToken([e EXCEPT !.secret = NoSecret]) ELSE e

\* logout and handleSessionKicked; a logout forgets the name as well.
EndSession(c) ==
    ClearToken([c EXCEPT !.stay = FALSE, !.waiting = FALSE, !.sent = FALSE, !.restoring = FALSE,
                         !.timer = FALSE, !.heartbeat = FALSE, !.secret = NoSecret,
                         !.userId = NoAccount, !.reconnecting = FALSE, !.loggedIn = FALSE])
Kicked(c) == DisconnectFromServer(EndSession(c))

\* handlePayload: of the frames the server sends, those about the session
HandlePayload(c, f) ==
    CASE f.type = "login" -> LoginFinished(c, f.ok, f.id, IF f.ok THEN Token(f.id) ELSE NoSecret)
      [] f.type = "kick" -> Kicked(c)
      [] OTHER -> c

\* A payload made of pieces of two frames is refused by the parser, unless the
\* seam is in its last field, which for a login is the token.
HandleTorn(c, f) ==
    {c} \cup (IF f.type = "login" /\ f.ok THEN {LoginFinished(c, TRUE, f.id, Garbage)} ELSE {})

\* processIncomingFrames, one frame at a time, until the buffer has no whole
\* frame.  The loop goes on when a handler has closed the socket.
RECURSIVE ProcessIncomingFrames(_)
ProcessIncomingFrames(c) ==
    LET b == c.buffer IN
    IF b = <<>> THEN {c}
    ELSE IF Head(b).index # 1
    THEN {[DisconnectFromServer(c) EXCEPT !.buffer = <<>>]}
    ELSE LET f == Head(b).frame
             n == f.chunks
             rest == [c EXCEPT !.buffer = SubSeq(b, n + 1, Len(b))]
         IN IF Len(b) < n THEN {c}
            ELSE UNION {ProcessIncomingFrames(d) :
                    d \in IF \A i \in 1..n : b[i] = [frame |-> f, index |-> i]
                          THEN {HandlePayload(rest, f)}
                          ELSE HandleTorn(rest, f)}

\* The client becomes c: what it sent goes out, unless the socket closed.
Settle(c) ==
    /\ lg' = [c EXCEPT !.out = <<>>]
    /\ lgUp' = IF c.socket = "up" THEN lgUp \o c.out ELSE <<>>

-----------------------------------------------------------------------------
(* The user *)

MutantLogin(u) ==
    /\ lgLogins < MaxLogins
    /\ lgLogins' = lgLogins + 1
    /\ LET c == [lg EXCEPT !.username = u, !.secret = Password(u), !.stay = TRUE,
                                 !.waiting = TRUE, !.restoring = FALSE, !.late = FALSE]
       IN Settle(IF c.socket = "up" THEN SendPendingLogin(c)
                 ELSE [c EXCEPT !.socket = "connecting", !.fallback = TRUE])
    /\ lgDown' = IF lg.socket = "up" THEN lgDown ELSE <<>>
    /\ UNCHANGED <<lgDrops, lgNotices>>

\* login, with a password that may be wrong: connectToServer aborts an attempt
\* under way.
Login(u) ==
    /\ lgLogins < MaxLogins
    /\ lgLogins' = lgLogins + 1
    /\ LET c == [lg EXCEPT !.username = u, !.secret = Password(u), !.stay = TRUE,
                                 !.waiting = TRUE, !.sent = FALSE, !.restoring = FALSE, !.late = FALSE]
       IN Settle(IF c.socket = "up" THEN SendPendingLogin(c)
                 ELSE [c EXCEPT !.socket = "connecting", !.fallback = TRUE])
    /\ lgDown' = IF lg.socket = "up" THEN lgDown ELSE <<>>
    /\ UNCHANGED <<lgDrops, lgNotices>>

\* The timers login starts, 250 ms and 1 s later.
Fallback ==
    /\ lg.fallback
    /\ \E more \in BOOLEAN : Settle(SendPendingLogin([lg EXCEPT !.fallback = more]))
    /\ UNCHANGED <<lgDown, lgLogins, lgDrops, lgNotices>>

Logout ==
    /\ lg.username # NoAccount
    /\ Settle(DisconnectFromServer([EndSession(lg) EXCEPT !.username = NoAccount]))
    /\ lgDown' = <<>>
    /\ UNCHANGED <<lgLogins, lgDrops, lgNotices>>

\* The program ends and is started again: UserManager::load and
\* restoreCachedSession.  A saved token has no expiry of its own.
Restart ==
    /\ lgDrops < MaxDrops /\ lgDrops' = lgDrops + 1
    /\ LET s == lg.saved
           cached == s.username # NoAccount /\ s.token # NoSecret
       IN lg' = [socket |-> IF cached THEN "connecting" ELSE "off", buffer |-> <<>>,
                 username |-> s.username, userId |-> s.userId,
                 secret |-> IF cached THEN s.token ELSE NoSecret,
                 stay |-> cached, waiting |-> cached, sent |-> FALSE, restoring |-> cached,
                 loggedIn |-> FALSE, reconnecting |-> FALSE, timer |-> FALSE,
                 fallback |-> FALSE, heartbeat |-> FALSE, saved |-> s, out |-> <<>>, late |-> FALSE]
    /\ lgUp' = <<>> /\ lgDown' = <<>>
    /\ UNCHANGED <<lgLogins, lgNotices>>

-----------------------------------------------------------------------------
(* The socket and the timer *)

Connected ==
    /\ lg.socket \in {"connecting", "closing"}
    /\ LET c == OnConnected(lg)
       IN Settle(IF lg.socket = "closing" THEN OnDisconnected(c) ELSE c)
    /\ UNCHANGED <<lgDown, lgLogins, lgDrops, lgNotices>>

\* The connection breaks, or cannot be made.
Disconnected ==
    /\ lg.socket # "off" /\ lgDrops < MaxDrops
    /\ lgDrops' = lgDrops + 1
    /\ Settle(OnDisconnected(lg))
    /\ lgDown' = <<>>
    /\ UNCHANGED <<lgLogins, lgNotices>>

\* reconnectRequested, SignalingClient::reconnect
Reconnect ==
    /\ lg.timer
    /\ Settle([lg EXCEPT !.timer = FALSE, !.socket = "connecting"])
    /\ lgDown' = <<>>
    /\ UNCHANGED <<lgLogins, lgDrops, lgNotices>>

\* readyRead, with one chunk or all there are.
ReadyRead ==
    /\ lg.socket = "up" /\ lgDown # <<>>
    /\ \E n \in {1, Len(lgDown)} :
         \E c \in ProcessIncomingFrames([lg EXCEPT !.buffer = @ \o SubSeq(lgDown, 1, n)]) :
            /\ Settle(c)
            /\ lgDown' = IF c.socket = "up" THEN SubSeq(lgDown, n + 1, Len(lgDown)) ELSE <<>>
    /\ UNCHANGED <<lgLogins, lgDrops, lgNotices>>

-----------------------------------------------------------------------------
(* The server *)

Send(f) == lgDown' = lgDown \o [i \in 1..f.chunks |-> [frame |-> f, index |-> i]]

\* HandleLogin: a token must be the user's own, and may have expired.
HandleLogin ==
    /\ lg.socket = "up" /\ lgUp # <<>>
    /\ LET r == Head(lgUp) IN
       \E ok \in IF r.resume /\ r.secret # Token(r.username) THEN {FALSE} ELSE BOOLEAN :
          Send([type |-> "login", ok |-> ok, chunks |-> 2,
                id |-> IF ok THEN r.username ELSE NoAccount])
    /\ lgUp' = Tail(lgUp)
    /\ UNCHANGED <<lg, lgLogins, lgDrops, lgNotices>>

\* A notification, or a kick, of a session that is signed in.
Notify(type) ==
    /\ lg.socket = "up" /\ lg.loggedIn /\ lgNotices < MaxNotices
    /\ lgNotices' = lgNotices + 1
    /\ Send([type |-> type, ok |-> TRUE, chunks |-> 3, id |-> NoAccount])
    /\ UNCHANGED <<lg, lgUp, lgLogins, lgDrops>>

\* Session.watch closes a connection that is not signed in, or sends nothing.
IdleTimeout ==
    /\ lg.socket = "up" /\ ~lg.heartbeat /\ lgUp = <<>> /\ lgDown = <<>>
    /\ Settle(OnDisconnected(lg))
    /\ UNCHANGED <<lgDown, lgLogins, lgDrops, lgNotices>>

\* Timers fire, a connection that is tried is made or fails, what is sent
\* arrives and is answered, and idle connections are closed: Lively is fair.
Lively == Connected \/ Reconnect \/ ReadyRead \/ HandleLogin \/ IdleTimeout

LgNext ==
    \/ \E u \in Accounts : Login(u)
    \/ Fallback \/ Logout \/ Restart \/ Disconnected
    \/ \E type \in {"notice", "kick"} : Notify(type)
    \/ Lively

-----------------------------------------------------------------------------
(* Properties *)

LgTypeOK ==
    /\ lg.socket \in {"off", "connecting", "closing", "up"}
    /\ {lg.username, lg.userId, lg.saved.username, lg.saved.userId} \subseteq Accounts \cup {NoAccount}
    /\ lg.secret.kind \in {"none", "password", "token", "garbage"}
    /\ \A k \in {"stay", "waiting", "sent", "restoring", "loggedIn", "reconnecting", "timer",
                 "fallback", "heartbeat"} : lg[k] \in BOOLEAN
    /\ lgUp # <<>> \/ lgDown # <<>> => lg.socket = "up"

\* A login is still to be answered.
Awaited == \/ lg.waiting \/ lgUp # <<>>
           \/ \E i \in DOMAIN lgDown : lgDown[i].frame.type = "login"

\* A user who is signed in (the heartbeat runs) with all logins answered is the
\* user whose name the client shows and saves - also when another one asked to
\* sign in before the first was answered, when the connection broke in between,
\* or when the token that was kept belongs to someone else.
OwnSession ==
    lg.loggedIn /\ lg.heartbeat /\ lg.socket = "up" /\ ~Awaited
       => lg.userId = lg.username /\ lg.saved.username = lg.username

\* An attempt to sign in comes to an end: it is never forgotten while the
\* client tries to stay connected, whatever part of a frame a broken connection
\* left in the read buffer.
LoginSettles == []<>~lg.waiting

\* A client that is to stay connected and is not will try to: the timer runs.
\* The exception is a login reply that was read together with a kick before it,
\* and is handled when the kick has closed the connection.
NeverStranded == lg.stay /\ lg.socket = "off" => lg.timer \/ lg.late
=============================================================================
