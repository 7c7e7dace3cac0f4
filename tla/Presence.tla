------------------------------ MODULE Presence ------------------------------
(* Login across signaling nodes: the presence record of a user in Redis      *)
(* (store/session_store.go), its upkeep by the handlers                      *)
(* (handler/session_presence.go, handler/auth_handler.go), and the control   *)
(* messages on the node bus (store/node_event_bus.go,                        *)
(* Router.OnUserNodeEvent) that close a session on another node.             *)
(*                                                                           *)
(* Everything is keyed by the user, so one user is modelled.  The bus is     *)
(* Redis publish/subscribe: a message reaches a live subscriber or is lost.  *)
(* Within a node BindUser is one step here, SessionRegistry has its detail.  *)
EXTENDS TLAPS

CONSTANTS
    Sessions,   \* connections of the user
    Nodes,      \* signaling nodes
    Node,       \* [Sessions -> Nodes]
    Id,         \* [Sessions -> ids]: numbered per process, from 1 (nextID)
    None,       \* no presence, no session
    Crashing    \* bound: nodes that crash, once each

VARIABLES
    pc,         \* what the reader of a session is doing
    closed,     \* sessions whose closeCh is closed
    reaped,     \* sessions whose closer has finished, or whose node crashed
    existing,   \* HandleLogin's existingPresence
    bound,      \* byUser[user] of every node
    presence,   \* the hash session:<user>, or None
    bus,        \* per node, the control messages under way, each with the sender's seen
    crashed,    \* nodes that have crashed and been restarted
    seen        \* history: sessions bound somewhere when the login read the presence

vars == <<pc, closed, reaped, existing, bound, presence, bus, crashed, seen>>

Steps == {"new", "get", "bind", "sync", "kick", "idle", "beat"}
Records == [node : Nodes, id : {Id[s] : s \in Sessions}]
Record(s) == [node |-> Node[s], id |-> Id[s]]

Init ==
    /\ pc = [s \in Sessions |-> "new"]
    /\ closed = {}
    /\ reaped = {}
    /\ existing = [s \in Sessions |-> None]
    /\ bound = [n \in Nodes |-> None]
    /\ presence = None
    /\ bus = [n \in Nodes |-> {}]
    /\ crashed = {}
    /\ seen = [s \in Sessions |-> {}]

Goto(s, step) == pc' = [pc EXCEPT ![s] = step]

\* BindUser has been called for the session: it has the user's id.
HasUser(s) == pc[s] \notin {"new", "get", "bind"}

\* A login is read from the connection.
HandleLogin(s) ==
    /\ pc[s] = "new"
    /\ s \notin closed
    /\ Goto(s, "get")
    /\ UNCHANGED <<closed, reaped, existing, bound, presence, bus, crashed, seen>>

\* sessionStore.Get; a failing or slow Redis counts as no presence.
GetPresence(s) ==
    /\ pc[s] = "get"
    /\ \E e \in {presence, None} : existing' = [existing EXCEPT ![s] = e]
    /\ seen' = [seen EXCEPT ![s] = {t \in Sessions : HasUser(t)}]
    /\ Goto(s, "bind")
    /\ UNCHANGED <<closed, reaped, bound, presence, bus, crashed>>

\* BindUser closes the session the node had for the user.
BindUser(s) ==
    /\ pc[s] = "bind"
    /\ bound' = [bound EXCEPT ![Node[s]] = s]
    /\ closed' = closed \cup ({bound[Node[s]]} \ {None, s})
    /\ Goto(s, "sync")
    /\ UNCHANGED <<reaped, existing, presence, bus, crashed, seen>>

MutantUpsert(s) == presence' = IF presence = None THEN Record(s) ELSE presence

\* Upsert overwrites whatever is there.
Upsert(s) == presence' = Record(s)

\* syncSessionPresence at the end of a login; errors are ignored.
SyncPresence(s) ==
    /\ pc[s] = "sync"
    /\ Upsert(s) \/ UNCHANGED presence
    /\ Goto(s, "kick")
    /\ UNCHANGED <<closed, reaped, existing, bound, bus, crashed, seen>>

\* A session that HandleLogin found on another node, and has to close.
IsRemote(s) ==
    /\ existing[s] # None
    /\ existing[s].node # Node[s]
    /\ existing[s].id # Id[s]

\* kickRemoteExistingSession; the message may get lost.
KickRemote(s) ==
    /\ pc[s] = "kick"
    /\ \/ /\ IsRemote(s)
          /\ bus' = [bus EXCEPT ![existing[s].node] = @ \cup {[id |-> existing[s].id, seen |-> seen[s]]}]
       \/ UNCHANGED bus
    /\ existing' = [existing EXCEPT ![s] = None]
    /\ seen' = [seen EXCEPT ![s] = {}]
    /\ Goto(s, "idle")
    /\ UNCHANGED <<closed, reaped, bound, presence, crashed>>

MutantIsTarget(n, msg) == bound[n] # None

\* The session a control message is for: byUser's, if it has that id.
IsTarget(n, msg) == bound[n] # None /\ Id[bound[n]] = msg.id

\* Router.OnUserNodeEvent with Close set.
OnUserNodeEvent(n, msg) ==
    /\ msg \in bus[n]
    /\ bus' = [bus EXCEPT ![n] = @ \ {msg}]
    /\ closed' = closed \cup {s \in {bound[n]} : IsTarget(n, msg)}
    /\ UNCHANGED <<pc, reaped, existing, bound, presence, crashed, seen>>

\* HandleHeartbeat, and every other handler that ends in syncSessionPresence:
\* read from an open connection ...
HandleHeartbeat(s) ==
    /\ pc[s] = "idle"
    /\ s \notin closed
    /\ Goto(s, "beat")
    /\ UNCHANGED <<closed, reaped, existing, bound, presence, bus, crashed, seen>>

\* ... and written whether or not it has been closed since.
Heartbeat(s) ==
    /\ pc[s] = "beat"
    /\ Upsert(s) \/ UNCHANGED presence
    /\ Goto(s, "idle")
    /\ UNCHANGED <<closed, reaped, existing, bound, bus, crashed, seen>>

\* Logout, the peer, a timeout, a full write queue.  A connection that ends
\* before its login concerns nobody.
Disconnect(s) ==
    /\ pc[s] # "new"
    /\ s \notin closed
    /\ closed' = closed \cup {s}
    /\ UNCHANGED <<pc, reaped, existing, bound, presence, bus, crashed, seen>>

\* compareDeleteSessionScript compares the session id only.
CompareDelete(s) ==
    presence' = IF presence # None /\ presence.id = Id[s] THEN None ELSE presence

\* The closer: clearSessionPresence, then Remove.
OnSessionClosed(s) ==
    /\ s \in closed \ reaped
    /\ IF HasUser(s) THEN CompareDelete(s) ELSE UNCHANGED presence
    /\ bound' = [n \in Nodes |-> IF bound[n] = s /\ HasUser(s) THEN None ELSE bound[n]]
    /\ reaped' = reaped \cup {s}
    /\ UNCHANGED <<pc, closed, existing, bus, crashed, seen>>

\* The hash of a session that is gone outlives it by at most its TTL; an open
\* session renews its own.
Expire ==
    /\ presence # None
    /\ \A s \in Sessions : presence = Record(s) => s \in closed
    /\ presence' = None
    /\ UNCHANGED <<pc, closed, reaped, existing, bound, bus, crashed, seen>>

\* The process of a node ends: no closer runs and its subscription is gone.
Crash(n) ==
    /\ n \in Crashing \ crashed
    /\ crashed' = crashed \cup {n}
    /\ LET lost == {s \in Sessions : Node[s] = n /\ pc[s] # "new"} IN
       /\ closed' = closed \cup lost
       /\ reaped' = reaped \cup lost
       /\ pc' = [s \in Sessions |-> IF s \in lost THEN "new" ELSE pc[s]]
       /\ existing' = [s \in Sessions |-> IF s \in lost THEN None ELSE existing[s]]
       /\ seen' = [s \in Sessions |-> IF s \in lost THEN {} ELSE seen[s]]
    /\ bound' = [bound EXCEPT ![n] = None]
    /\ bus' = [bus EXCEPT ![n] = {}]
    /\ UNCHANGED presence

Reader(s) == GetPresence(s) \/ BindUser(s) \/ SyncPresence(s) \/ KickRemote(s) \/ Heartbeat(s)

Next ==
    \/ \E s \in Sessions :
          HandleLogin(s) \/ Reader(s) \/ HandleHeartbeat(s) \/ Disconnect(s) \/ OnSessionClosed(s)
    \/ \E n \in Nodes : Crash(n) \/ \E msg \in bus[n] : OnUserNodeEvent(n, msg)
    \/ Expire

\* Goroutines that can run do run, a connected client sends heartbeats
\* (otherwise the watchdog closes it), and Redis does not fail every time.
Fairness ==
    \A s \in Sessions :
       /\ WF_vars(Reader(s) \/ HandleHeartbeat(s))
       /\ WF_vars(OnSessionClosed(s))
       /\ SF_vars(Heartbeat(s) /\ Upsert(s))

Spec == Init /\ [][Next]_vars
FairSpec == Spec /\ Fairness

-----------------------------------------------------------------------------
(* Properties *)

TypeOK ==
    /\ pc \in [Sessions -> Steps]
    /\ reaped \subseteq closed /\ closed \subseteq Sessions
    /\ existing \in [Sessions -> Records \cup {None}]
    /\ \A n \in Nodes : bound[n] # None => Node[bound[n]] = n /\ HasUser(bound[n])
    /\ presence \in Records \cup {None}
    /\ \A n \in Nodes : bus[n] \subseteq [id : {Id[s] : s \in Sessions}, seen : SUBSET Sessions]

Online(s) == pc[s] \in {"idle", "beat"} /\ s \notin closed

\* A login closes sessions on other nodes that were there before it and never
\* one that came later, although the control message may arrive long after
\* the user has logged in again on the node it is sent to: OnUserNodeEvent
\* compares session ids.  It holds as far as ids are distinct; a process that
\* was restarted counts from 1 again.
KickHitsOlder ==
    [][\A n \in Nodes : \A msg \in bus[n] :
          OnUserNodeEvent(n, msg) => closed' \ closed \subseteq msg.seen]_vars

\* As long as the user is online somewhere the presence record comes to name
\* a session that is online, whatever late or lost writes, crashes and
\* closes have put there or taken away: every heartbeat writes it again.
PresenceConverges ==
    []<>((\E s \in Sessions : Online(s)) =>
           \E s \in Sessions : Online(s) /\ presence = Record(s))

-----------------------------------------------------------------------------
(* A control message of a login never closes a session that came after the   *)
(* login, for any number of sessions and nodes: a proof of KickHitsOlder.    *)

\* Every session is on a node and has an id of its own, in whatever process it is.
Numbered ==
    /\ Node \in [Sessions -> Nodes]
    /\ \A s, t \in Sessions : Id[s] = Id[t] => s = t

\* The session with this id is one of S, or over: closed, or lost in a crash.
Known(id, S) == \A t \in Sessions : Id[t] = id => t \in S \cup closed

LoggedIn == {t \in Sessions : HasUser(t)}

PresenceTypes ==
    /\ pc \in [Sessions -> Steps]
    /\ existing \in [Sessions -> Records \cup {None}]
    /\ seen \in [Sessions -> SUBSET Sessions]
    /\ bound \in [Nodes -> Sessions \cup {None}]
    /\ presence \in Records \cup {None}
    /\ bus \in [Nodes -> SUBSET [id : {Id[s] : s \in Sessions}, seen : SUBSET Sessions]]

\* Whatever names a session - the presence record, what a login has read of it, a
\* message under way - names one that had logged in when the record was read, or one
\* that is over.  The second is needed after a crash: the record outlives the sessions.
RecordKnown == presence # None => Known(presence.id, LoggedIn)
ReadKnown == \A s \in Sessions : existing[s] # None => Known(existing[s].id, seen[s])
SentKnown == \A n \in Nodes : \A msg \in bus[n] : Known(msg.id, msg.seen)

PresenceInv == PresenceTypes /\ RecordKnown /\ ReadKnown /\ SentKnown

LEMMA InitPresence == Init => PresenceInv
BY DEF Init, PresenceInv, PresenceTypes, RecordKnown, ReadKnown, SentKnown, Steps

\* Sessions are never opened again: who is known stays known.
LEMMA KnownStays ==
    ASSUME NEW id, NEW S, NEW T, S \subseteq T \cup closed', closed \subseteq closed', Known(id, S)
    PROVE  \A t \in Sessions : Id[t] = id => t \in T \cup closed'
BY DEF Known

LEMMA NextTypes ==
    ASSUME Numbered, PresenceTypes, Next
    PROVE  PresenceTypes' /\ closed \subseteq closed' /\ LoggedIn \subseteq LoggedIn' \cup closed'
<1> USE DEF PresenceTypes, LoggedIn, HasUser, Steps, Goto
<1>1. ASSUME NEW s \in Sessions, HandleLogin(s) \/ HandleHeartbeat(s) \/ Disconnect(s)
      PROVE  PresenceTypes' /\ closed \subseteq closed' /\ LoggedIn \subseteq LoggedIn' \cup closed'
  BY <1>1 DEF HandleLogin, HandleHeartbeat, Disconnect
<1>2. ASSUME NEW s \in Sessions, GetPresence(s)
      PROVE  PresenceTypes' /\ closed \subseteq closed' /\ LoggedIn \subseteq LoggedIn' \cup closed'
  BY <1>2 DEF GetPresence
<1>3. ASSUME NEW s \in Sessions, BindUser(s)
      PROVE  PresenceTypes' /\ closed \subseteq closed' /\ LoggedIn \subseteq LoggedIn' \cup closed'
  BY <1>3 DEF BindUser, Numbered
<1>4. ASSUME NEW s \in Sessions, SyncPresence(s) \/ Heartbeat(s)
      PROVE  PresenceTypes' /\ closed \subseteq closed' /\ LoggedIn \subseteq LoggedIn' \cup closed'
  <2>1. Record(s) \in Records
    BY DEF Record, Records, Numbered
  <2> QED
    BY <1>4, <2>1 DEF SyncPresence, Heartbeat, Upsert
<1>5. ASSUME NEW s \in Sessions, KickRemote(s)
      PROVE  PresenceTypes' /\ closed \subseteq closed' /\ LoggedIn \subseteq LoggedIn' \cup closed'
  <2>1. bus' \in [Nodes -> SUBSET [id : {Id[t] : t \in Sessions}, seen : SUBSET Sessions]]
    <3>1. CASE IsRemote(s) /\ bus' = [bus EXCEPT ![existing[s].node] =
                                        @ \cup {[id |-> existing[s].id, seen |-> seen[s]]}]
      <4>1. existing[s].node \in Nodes /\ existing[s].id \in {Id[t] : t \in Sessions}
        BY <3>1 DEF IsRemote, Records
      <4>2. [id |-> existing[s].id, seen |-> seen[s]] \in [id : {Id[t] : t \in Sessions}, seen : SUBSET Sessions]
        BY <4>1
      <4> QED
        BY <3>1, <4>1, <4>2
    <3> QED
      BY <1>5, <3>1 DEF KickRemote
  <2> QED
    BY <1>5, <2>1 DEF KickRemote
<1>6. ASSUME NEW s \in Sessions, OnSessionClosed(s)
      PROVE  PresenceTypes' /\ closed \subseteq closed' /\ LoggedIn \subseteq LoggedIn' \cup closed'
  BY <1>6 DEF OnSessionClosed, CompareDelete
<1>7. ASSUME NEW n \in Nodes, Crash(n)
      PROVE  PresenceTypes' /\ closed \subseteq closed' /\ LoggedIn \subseteq LoggedIn' \cup closed'
  BY <1>7 DEF Crash
<1>8. ASSUME NEW n \in Nodes, NEW msg \in bus[n], OnUserNodeEvent(n, msg)
      PROVE  PresenceTypes' /\ closed \subseteq closed' /\ LoggedIn \subseteq LoggedIn' \cup closed'
  BY <1>8 DEF OnUserNodeEvent
<1>9. CASE Expire
  BY <1>9 DEF Expire
<1> HIDE DEF PresenceTypes, LoggedIn
<1> QED
  BY <1>1, <1>2, <1>3, <1>4, <1>5, <1>6, <1>7, <1>8, <1>9 DEF Next, Reader

\* What is written of a session that has logged in names it alone.
LEMMA NextRecord ==
    ASSUME Numbered, PresenceTypes, RecordKnown, Next
    PROVE  RecordKnown'
<1>1. closed \subseteq closed' /\ LoggedIn \subseteq LoggedIn' \cup closed'
  BY NextTypes
<1>2. CASE UNCHANGED presence \/ presence' = None
  <2>1. ASSUME presence' # None PROVE Known(presence.id, LoggedIn)'
    <3>1. presence' = presence /\ Known(presence.id, LoggedIn)
      BY <1>2, <2>1 DEF RecordKnown
    <3>2. \A t \in Sessions : Id[t] = presence.id => t \in LoggedIn' \cup closed'
      BY <1>1, <3>1, KnownStays
    <3> QED
      BY <3>1, <3>2 DEF Known
  <2> QED
    BY <2>1 DEF RecordKnown
<1>3. ASSUME NEW s \in Sessions, Upsert(s), SyncPresence(s) \/ Heartbeat(s) PROVE RecordKnown'
  <2>1. s \in LoggedIn'
    BY <1>3 DEF PresenceTypes, SyncPresence, Heartbeat, Goto, HasUser, LoggedIn
  <2>2. presence'.id = Id[s]
    BY <1>3 DEF Upsert, Record
  <2> QED
    BY <2>1, <2>2 DEF Numbered, RecordKnown, Known
<1> QED
  BY <1>2, <1>3 DEF Next, Reader, HandleLogin, GetPresence, BindUser, SyncPresence, CompareDelete,
       KickRemote, OnUserNodeEvent, HandleHeartbeat, Heartbeat, Disconnect, OnSessionClosed, Expire, Crash

\* A login has seen the sessions that had logged in when it read the record.
LEMMA NextRead ==
    ASSUME Numbered, PresenceTypes, RecordKnown, ReadKnown, Next, NEW s \in Sessions, existing'[s] # None
    PROVE  Known(existing[s].id, seen[s])'
<1>1. closed \subseteq closed'
  BY NextTypes
<1>2. CASE existing'[s] = existing[s] /\ seen'[s] = seen[s]
  <2>1. \A t \in Sessions : Id[t] = existing[s].id => t \in seen[s] \cup closed'
    BY <1>1, <1>2, KnownStays DEF ReadKnown
  <2> QED
    BY <1>2, <2>1 DEF Known
<1>3. CASE GetPresence(s)
  <2>1. existing'[s] = presence /\ seen'[s] = LoggedIn
    BY <1>3 DEF GetPresence, PresenceTypes, LoggedIn
  <2>2. \A t \in Sessions : Id[t] = presence.id => t \in LoggedIn \cup closed'
    BY <1>1, <2>1, KnownStays DEF RecordKnown
  <2> QED
    BY <2>1, <2>2 DEF Known
<1> QED
  BY <1>2, <1>3 DEF PresenceTypes, Next, Reader, HandleLogin, GetPresence, BindUser, SyncPresence,
       KickRemote, OnUserNodeEvent, HandleHeartbeat, Heartbeat, Disconnect, OnSessionClosed, Expire, Crash

\* A message takes along what its sender had seen.
LEMMA NextSent ==
    ASSUME Numbered, PresenceTypes, ReadKnown, SentKnown, Next, NEW n \in Nodes, NEW msg \in bus'[n]
    PROVE  Known(msg.id, msg.seen)'
<1>1. closed \subseteq closed'
  BY NextTypes
<1>2. CASE msg \in bus[n]
  <2>1. \A t \in Sessions : Id[t] = msg.id => t \in msg.seen \cup closed'
    BY <1>1, <1>2, KnownStays DEF SentKnown
  <2> QED
    BY <2>1 DEF Known
<1>3. ASSUME NEW s \in Sessions, existing[s] # None, msg = [id |-> existing[s].id, seen |-> seen[s]]
      PROVE  Known(msg.id, msg.seen)'
  <2>1. \A t \in Sessions : Id[t] = existing[s].id => t \in seen[s] \cup closed'
    BY <1>1, <1>3, KnownStays DEF ReadKnown
  <2> QED
    BY <1>3, <2>1 DEF Known
<1>4. ASSUME NEW s \in Sessions, KickRemote(s) PROVE Known(msg.id, msg.seen)'
  BY <1>2, <1>3, <1>4 DEF PresenceTypes, KickRemote, IsRemote
<1> QED
  BY <1>2, <1>4 DEF PresenceTypes, Next, Reader, HandleLogin, GetPresence, BindUser, SyncPresence,
       OnUserNodeEvent, HandleHeartbeat, Heartbeat, Disconnect, OnSessionClosed, Expire, Crash

\* A control message that another node sent closes only sessions that had logged in
\* when its sender read the presence record (OnUserNodeEvent, auth_handler.go): for
\* any number of sessions, nodes and crashes, as long as no two sessions share an id.
THEOREM KickSparesLater == Numbered => (Spec => KickHitsOlder)
<1> SUFFICES ASSUME Numbered PROVE Spec => KickHitsOlder
  OBVIOUS
<1>1. Init => PresenceInv
  BY InitPresence
<1>2. PresenceInv /\ [Next]_vars => PresenceInv'
  <2>1. ASSUME PresenceInv, Next PROVE PresenceInv'
    BY <2>1, NextTypes, NextRecord, NextRead, NextSent DEF PresenceInv, ReadKnown, SentKnown
  <2>2. ASSUME PresenceInv, UNCHANGED vars PROVE PresenceInv'
    BY <2>2 DEF PresenceInv, PresenceTypes, RecordKnown, ReadKnown, SentKnown, Known, LoggedIn, HasUser, vars
  <2> QED
    BY <2>1, <2>2
<1>3. ASSUME PresenceInv, Next, NEW n \in Nodes, NEW msg \in bus[n], OnUserNodeEvent(n, msg)
      PROVE  closed' \ closed \subseteq msg.seen
  <2>1. Known(msg.id, msg.seen) /\ bound[n] \in Sessions \cup {None}
    BY <1>3 DEF PresenceInv, PresenceTypes, SentKnown
  <2> QED
    BY <1>3, <2>1 DEF OnUserNodeEvent, IsTarget, Known
<1>4. PresenceInv /\ [Next]_vars =>
         [\A n \in Nodes : \A msg \in bus[n] :
             OnUserNodeEvent(n, msg) => closed' \ closed \subseteq msg.seen]_vars
  BY <1>3
<1> QED
  BY <1>1, <1>2, <1>4, PTL DEF Spec, KickHitsOlder
=============================================================================
