-------------------------- MODULE MediaPath_proof --------------------------
(* Proofs about a media path: the node a meeting's media is routed to        *)
(* (RouteRecovery), for any number of publishers, signaling processes and    *)
(* SFU nodes, whoever is refused and whichever nodes fail; the keys of a     *)
(* client's session with that node (MediaHandshake), for any number of       *)
(* sessions; the address the node tells (SfuDaemon), for any number of       *)
(* connections to it; and the relay the client sets up to reach it           *)
(* (TurnRelay), for any number of set-ups.                                   *)
EXTENDS RouteRecovery, MediaHandshake, SfuDaemon, TurnRelay, TLAPS

-----------------------------------------------------------------------------
(* The route *)

Steps == Failover \cup {"add0", "local", "retry", "dlock", "followup", "done"}

\* A failover that has read the metadata, and one that has a candidate.
Reading == Failover \ {"locked", "meta"}
Trying == {"add", "rollback", "switch", "lost", "destroy"}

Shape ==
    /\ pc \in [Readers -> Steps]
    /\ from \in [Readers -> Nodes \cup {None}]
    /\ todo \in [Readers -> SUBSET Nodes]
    /\ cand \in [Readers -> Nodes \cup {None}]
    /\ failed \subseteq Nodes
    /\ ending \in {"no", "destroy", "delete", "done"}

\* The node the meeting is on is no candidate, so none is taken that is.
FromIsNoCandidate ==
    \A r \in Readers : pc[r] \in Reading => from[r] \in Nodes /\ from[r] \notin todo[r]

\* Without a lapse, a failover holds the Redis lock.
LockHeld == ~lapsed => \A r \in Readers : pc[r] \in Failover => lock = r

\* A candidate about to become the route has a room, unless its node failed.
CandidateHasRoom ==
    (~lapsed /\ ending = "no") =>
       \A r \in Readers : pc[r] \in {"add", "switch"} => cand[r] \in rooms \cup failed

TypeInv == Shape /\ TypeOK /\ FromIsNoCandidate

\* RouteHasRoom needs to know that a rollback is not of the route's node
\* (FailoverOwnsRoute, with LockHeld behind it) and that a switch is to a node
\* with a room.
IInv == TypeInv /\ LockHeld /\ FailoverOwnsRoute /\ CandidateHasRoom /\ RouteHasRoom

\* The meeting is on its home node and nobody recovers.
LEMMA InitIInv == Init => IInv
BY RecoveryAssumption
   DEF Init, IInv, TypeInv, Shape, TypeOK, FromIsNoCandidate, LockHeld, FailoverOwnsRoute,
       CandidateHasRoom, RouteHasRoom, Steps, Failover, Reading

\* Every step of a reader keeps the shape of the state.
LEMMA ReaderTypeInv ==
    ASSUME TypeInv, NEW r \in Readers, RegisterPublisher(r) \/ Recover(r)
    PROVE  TypeInv'
<1> USE RecoveryAssumption
    DEF TypeInv, Shape, TypeOK, FromIsNoCandidate, Steps, Failover, Reading, Goto, sfu, locals, leaving
<1>1. CASE RegisterPublisher(r)
  BY <1>1 DEF RegisterPublisher
<1>2. CASE AcquireLocal(r)
  BY <1>2 DEF AcquireLocal
<1>3. CASE Retry(r, "retry", "dlock") \/ Retry(r, "locked", "meta") \/ Retry(r, "again", "next")
  BY <1>3 DEF Retry, Return
<1>4. CASE AcquireDistributed(r)
  BY <1>4 DEF AcquireDistributed
<1>5. CASE FollowUp(r)
  BY <1>5 DEF FollowUp, Return
<1>6. CASE ReadMetadata(r)
  BY <1>6 DEF ReadMetadata, Return
<1>7. CASE CreateRoom(r)
  BY <1>7 DEF CreateRoom, Return
<1>8. CASE AddPublisher(r)
  BY <1>8 DEF AddPublisher
<1>9. CASE Destroy(r, "rollback", "next") \/ Destroy(r, "destroy", "again")
  BY <1>9 DEF Destroy
<1>10. CASE SwitchRoomRoute(r)
  BY <1>10 DEF SwitchRoomRoute, Return
<1>11. CASE ReadLatest(r)
  BY <1>11 DEF ReadLatest
<1> QED
  BY <1>1, <1>2, <1>3, <1>4, <1>5, <1>6, <1>7, <1>8, <1>9, <1>10, <1>11 DEF Recover

\* Every step of a reader keeps the Redis lock with the one failover.
LEMMA ReaderOwns ==
    ASSUME TypeInv, LockHeld, FailoverOwnsRoute, NEW r \in Readers, RegisterPublisher(r) \/ Recover(r)
    PROVE  LockHeld' /\ FailoverOwnsRoute'
<1> USE RecoveryAssumption
    DEF TypeInv, Shape, TypeOK, LockHeld, FailoverOwnsRoute, Steps, Failover, Goto, sfu, locals, leaving
<1>1. CASE RegisterPublisher(r)
  BY <1>1 DEF RegisterPublisher
<1>2. CASE AcquireLocal(r)
  BY <1>2 DEF AcquireLocal
<1>3. CASE Retry(r, "retry", "dlock") \/ Retry(r, "locked", "meta") \/ Retry(r, "again", "next")
  BY <1>3 DEF Retry, Return
<1>4. CASE AcquireDistributed(r)
  BY <1>4 DEF AcquireDistributed
<1>5. CASE FollowUp(r)
  BY <1>5 DEF FollowUp, Return
<1>6. CASE ReadMetadata(r)
  BY <1>6 DEF ReadMetadata, Return
<1>7. CASE CreateRoom(r)
  BY <1>7 DEF CreateRoom, Return
<1>8. CASE AddPublisher(r)
  BY <1>8 DEF AddPublisher
<1>9. CASE Destroy(r, "rollback", "next") \/ Destroy(r, "destroy", "again")
  BY <1>9 DEF Destroy
<1>10. CASE SwitchRoomRoute(r)
  BY <1>10 DEF SwitchRoomRoute, Return
<1>11. CASE ReadLatest(r)
  BY <1>11 DEF ReadLatest
<1> QED
  BY <1>1, <1>2, <1>3, <1>4, <1>5, <1>6, <1>7, <1>8, <1>9, <1>10, <1>11 DEF Recover

\* Every step of a reader leaves the route on a node with a room.
LEMMA ReaderRoom ==
    ASSUME IInv, NEW r \in Readers, RegisterPublisher(r) \/ Recover(r)
    PROVE  CandidateHasRoom' /\ RouteHasRoom'
<1> USE RecoveryAssumption
    DEF IInv, TypeInv, Shape, TypeOK, CandidateHasRoom, RouteHasRoom, Steps, Failover, Goto, sfu, locals, leaving
<1>1. CASE RegisterPublisher(r)
  BY <1>1 DEF RegisterPublisher
<1>2. CASE AcquireLocal(r)
  BY <1>2 DEF AcquireLocal
<1>3. CASE Retry(r, "retry", "dlock") \/ Retry(r, "locked", "meta") \/ Retry(r, "again", "next")
  BY <1>3 DEF Retry, Return
<1>4. CASE AcquireDistributed(r)
  BY <1>4 DEF AcquireDistributed
<1>5. CASE FollowUp(r)
  BY <1>5 DEF FollowUp, Return
<1>6. CASE ReadMetadata(r)
  BY <1>6 DEF ReadMetadata, Return
<1>7. CASE CreateRoom(r)
  BY <1>7 DEF CreateRoom, Return
<1>8. CASE AddPublisher(r)
  BY <1>8 DEF AddPublisher
<1>9. CASE Destroy(r, "rollback", "next") \/ Destroy(r, "destroy", "again")
  <2>1. ~lapsed => /\ \A q \in Readers \ {r} : pc[q] \notin {"add", "switch"}
                   /\ route \in {from[r], None}
    BY <1>9 DEF Destroy, FailoverOwnsRoute
  <2>2. cand[r] \in Nodes \ {from[r]}
    BY <1>9 DEF Destroy
  <2> QED
    BY <1>9, <2>1, <2>2 DEF Destroy
<1>10. CASE SwitchRoomRoute(r)
  BY <1>10 DEF SwitchRoomRoute, Return
<1>11. CASE ReadLatest(r)
  BY <1>11 DEF ReadLatest
<1> QED
  BY <1>1, <1>2, <1>3, <1>4, <1>5, <1>6, <1>7, <1>8, <1>9, <1>10, <1>11 DEF Recover

\* The end of the meeting, the expiry of the lock and the failures of nodes
\* keep the invariant.
LEMMA AroundIInv ==
    ASSUME IInv, \/ LastLeave \/ End \/ ExpireLock
                 \/ \E n \in Nodes : NodeFails(n) \/ NodeReturns(n)
    PROVE  IInv'
<1> USE RecoveryAssumption
    DEF IInv, TypeInv, Shape, TypeOK, FromIsNoCandidate, LockHeld, FailoverOwnsRoute,
        CandidateHasRoom, RouteHasRoom, sfu, locals, leaving
<1>1. CASE LastLeave
  BY <1>1 DEF LastLeave
<1>2. CASE DestroySFURoom
  BY <1>2 DEF DestroySFURoom
<1>3. CASE DeleteRoom
  BY <1>3 DEF DeleteRoom
<1>4. CASE ExpireLock
  BY <1>4 DEF ExpireLock
<1>5. CASE \E n \in Nodes : NodeFails(n)
  BY <1>5 DEF NodeFails
<1>6. CASE \E n \in Nodes : NodeReturns(n)
  BY <1>6 DEF NodeReturns
<1> QED
  BY <1>1, <1>2, <1>3, <1>4, <1>5, <1>6 DEF End

\* Every step keeps the inductive invariant.
LEMMA NextIInv == IInv /\ [Next]_vars => IInv'
<1> SUFFICES ASSUME IInv, [Next]_vars PROVE IInv'
  OBVIOUS
<1>1. ASSUME NEW r \in Readers, RegisterPublisher(r) \/ Recover(r)
      PROVE  IInv'
  BY <1>1, ReaderTypeInv, ReaderOwns, ReaderRoom DEF IInv
<1>2. CASE UNCHANGED vars
  BY <1>2 DEF vars, sfu, IInv, TypeInv, Shape, TypeOK, FromIsNoCandidate, LockHeld,
              FailoverOwnsRoute, CandidateHasRoom, RouteHasRoom
<1> QED
  BY <1>1, <1>2, AroundIInv DEF Next, Reader

\* The inductive invariant holds in every reachable state.
THEOREM RecoveryInvariance == Spec => []IInv
BY InitIInv, NextIInv, PTL DEF Spec

\* While the Redis lock does not lapse, one failover of a meeting runs at a
\* time, in whatever process, and nobody moves the route under it.
THEOREM FailoverIsAlone == Spec => []FailoverOwnsRoute
<1>1. IInv => FailoverOwnsRoute
  BY DEF IInv
<1> QED
  BY <1>1, RecoveryInvariance, PTL

\* While the Redis lock does not lapse, the route of a live meeting names a
\* node that has a room for it or has failed.
THEOREM RouteKeepsRoom == Spec => []RouteHasRoom
<1>1. IInv => RouteHasRoom
  BY DEF IInv
<1> QED
  BY <1>1, RecoveryInvariance, PTL

-----------------------------------------------------------------------------
(* The keys.  Every session has an offer of its own, so that a transport is  *)
(* about one session; and the client closes no more sessions than it has     *)
(* opened.                                                                   *)

\* What the client has keyed is its present session; what the SFU has keyed is
\* the session whose offer made the transport, and the endpoint is that
\* session's socket.
Keyed ==
    /\ hsClient.srtp \in {NoKeys, [out |-> ClientKey(hsClient.session), in |-> ServerKey(hsClient.session)]}
    /\ hsServer.srtp \in {NoKeys, ExportSrtpKeyMaterial(hsServer.offer)}
    /\ hsServer.endpoint \in {0, hsServer.offer}
    /\ hsServer.srtp # NoKeys => hsServer.endpoint = hsServer.offer

HsInv ==
    /\ HsTypeOK
    /\ hsServer \in [offer : 0..MaxSessions, endpoint : 0..MaxSessions,
                     tls : {"none", "accept", "server", "connected"},
                     srtp : {NoKeys} \cup {ExportSrtpKeyMaterial(s) : s \in Sessions}]
    /\ hsCloses + (IF hsClient.open THEN 1 ELSE 0) <= hsClient.session
    /\ Keyed

LEMMA HsInvInit == HsInit => HsInv
BY HandshakeAssumption DEF HsInit, HsInv, HsTypeOK, Keyed, Closed, NoTransport, Sessions

LEMMA DatagramFields ==
    ASSUME NEW d \in Datagrams
    PROVE  /\ d.session \in Sessions /\ d.offer \in Sessions
           /\ d.kind \in {"stun", "hello", "server", "finish", "finished"}
BY DEF Datagrams, Stun, Flight

LEMMA FlightSent ==
    ASSUME NEW s \in Sessions
    PROVE  /\ \A o \in Sessions : Stun(s, o) \in Datagrams
           /\ \A k \in {"hello", "server", "finish", "finished"} : Flight(k, s) \in Datagrams
BY DEF Datagrams

LEMMA HsInvNext == HsInv /\ [HsNext]_hsVars => HsInv'
<1> SUFFICES ASSUME HsInv, [HsNext]_hsVars PROVE HsInv'
  OBVIOUS
<1> USE HandshakeAssumption
<1>0. /\ HsTypeOK /\ Keyed
      /\ hsServer \in [offer : 0..MaxSessions, endpoint : 0..MaxSessions,
                      tls : {"none", "accept", "server", "connected"},
                      srtp : {NoKeys} \cup {ExportSrtpKeyMaterial(s) : s \in Sessions}]
      /\ hsCloses + (IF hsClient.open THEN 1 ELSE 0) <= hsClient.session
  BY DEF HsInv
<1>1. CASE OpenSession
  <2>1. hsClient.session + 1 \in Sessions /\ hsClient.session \in Nat /\ hsCloses <= hsClient.session
    BY <1>0, <1>1 DEF OpenSession, HsTypeOK, Sessions
  <2>2. hsClient' = [session |-> hsClient.session + 1, open |-> TRUE, muted |-> FALSE, tls |-> "idle",
                     srtp |-> NoKeys]
    BY <1>1 DEF OpenSession, Closed
  <2>3. hsOffers' \in Seq(Sessions) /\ UNCHANGED <<hsServer, hsAnswers, hsCloses, hsNet, hsLost, hsErased>>
    BY <1>0, <1>1, <2>1 DEF OpenSession, HsTypeOK
  <2> QED
    BY <1>0, <2>1, <2>2, <2>3 DEF HsInv, HsTypeOK, Keyed, Sessions
<1>2. CASE CloseSession
  BY <1>0, <1>2 DEF CloseSession, HsInv, HsTypeOK, Keyed, Closed, Sessions
<1>3. CASE SetCaptureMuted
  BY <1>0, <1>3 DEF SetCaptureMuted, HsInv, HsTypeOK, Keyed, Sessions
<1>4. CASE HandleMediaTransportAnswer
  <2>1. hsAnswers' \in Seq(Sessions) /\ Head(hsAnswers) \in Sessions
    BY <1>0, <1>4 DEF HandleMediaTransportAnswer, HsTypeOK
  <2>2. hsNet' \subseteq Datagrams
    <3>1. hsClient.open => hsClient.session \in Sessions
      BY <1>0 DEF HsTypeOK, Sessions
    <3> QED
      BY <1>0, <1>4, <2>1, <3>1, FlightSent DEF HandleMediaTransportAnswer, HsTypeOK
  <2>3. \E tls \in {hsClient.tls, "hello"} : hsClient' = [hsClient EXCEPT !.tls = tls]
    BY <1>0, <1>4 DEF HandleMediaTransportAnswer, StartDtlsSrtp, HsTypeOK
  <2>4. UNCHANGED <<hsServer, hsOffers, hsCloses, hsLost, hsErased>>
    BY <1>4 DEF HandleMediaTransportAnswer
  <2> QED
    BY <1>0, <2>1, <2>2, <2>3, <2>4 DEF HsInv, HsTypeOK, Keyed
<1>5. CASE SendCachedDtlsHandshake
  BY <1>0, <1>5, FlightSent DEF SendCachedDtlsHandshake, HsInv, HsTypeOK, Keyed, Sessions
<1>6. CASE SetupTransport
  <2>1. /\ hsOffers' \in Seq(Sessions) /\ hsAnswers' \in Seq(Sessions) /\ Head(hsOffers) \in Sessions
        /\ UNCHANGED <<hsClient, hsCloses, hsNet, hsLost, hsErased>>
    BY <1>0, <1>6 DEF SetupTransport, HsTypeOK
  <2>2. hsServer' = [offer |-> Head(hsOffers), endpoint |-> 0, tls |-> "accept", srtp |-> NoKeys]
    BY <1>6 DEF SetupTransport, Upsert, NoTransport
  <2> QED
    BY <1>0, <2>1, <2>2 DEF HsInv, HsTypeOK, Keyed, Sessions
<1>7. CASE CloseTransport
  BY <1>0, <1>7 DEF CloseTransport, NoTransport, HsInv, HsTypeOK, Keyed, Sessions
<1>8. ASSUME NEW d \in hsNet, Lose(d) PROVE HsInv'
  BY <1>0, <1>8 DEF Lose, HsInv, HsTypeOK, Keyed
<1>9. ASSUME NEW d \in hsNet, NEW repeat \in BOOLEAN, ReceiveAtClient(d, repeat) PROVE HsInv'
  <2>1. hsClient.session \in Sessions /\ UNCHANGED <<hsServer, hsOffers, hsAnswers, hsCloses, hsLost, hsErased>>
    BY <1>0, <1>9, DatagramFields DEF ReceiveAtClient, HsTypeOK
  <2>2. hsNet' \subseteq Datagrams
    <3>1. ClientHandshake(d, repeat).send \subseteq Datagrams
      BY <2>1, FlightSent DEF ClientHandshake
    <3> QED
      BY <1>0, <1>9, <3>1 DEF ReceiveAtClient, Received, HsTypeOK
  <2>3. hsClient' = hsClient \/ hsClient' = [hsClient EXCEPT !.tls = "finish"]
        \/ hsClient' = ConfigureClientSrtp([hsClient EXCEPT !.tls = "connected"])
    BY <1>9 DEF ReceiveAtClient, ClientHandshake
  <2>4. CASE hsClient' = hsClient \/ hsClient' = [hsClient EXCEPT !.tls = "finish"]
    BY <1>0, <2>1, <2>2, <2>4 DEF HsInv, HsTypeOK, Keyed
  <2>5. CASE hsClient' = ConfigureClientSrtp([hsClient EXCEPT !.tls = "connected"])
    <3>1. \E keys \in {hsClient.srtp, [out |-> ClientKey(hsClient.session), in |-> ServerKey(hsClient.session)]} :
             hsClient' = [hsClient EXCEPT !.tls = "connected", !.srtp = keys]
      BY <1>0, <2>5 DEF ConfigureClientSrtp, HsTypeOK
    <3>2. [out |-> ClientKey(hsClient.session), in |-> ServerKey(hsClient.session)] \in
             {[out |-> ClientKey(s), in |-> ServerKey(s)] : s \in Sessions}
      BY <2>1
    <3>3. hsClient'.srtp \in {NoKeys, [out |-> ClientKey(hsClient.session), in |-> ServerKey(hsClient.session)]}
      BY <1>0, <3>1 DEF HsTypeOK, Keyed
    <3>4. UNCHANGED <<hsClient.session, hsClient.open>> /\ hsClient' \in
             [session : 0..MaxSessions, open : BOOLEAN, muted : BOOLEAN,
              tls : {"idle", "hello", "finish", "connected"},
              srtp : {NoKeys} \cup {[out |-> ClientKey(s), in |-> ServerKey(s)] : s \in Sessions}]
      <4> DEFINE Keys == {NoKeys} \cup {[out |-> ClientKey(s), in |-> ServerKey(s)] : s \in Sessions}
      <4>1. PICK keys \in Keys : hsClient' = [hsClient EXCEPT !.tls = "connected", !.srtp = keys]
        BY <1>0, <3>1, <3>2 DEF HsTypeOK
      <4>2. hsClient \in [session : 0..MaxSessions, open : BOOLEAN, muted : BOOLEAN,
                         tls : {"idle", "hello", "finish", "connected"}, srtp : Keys]
        BY <1>0 DEF HsTypeOK
      <4> HIDE DEF Keys
      <4>3. UNCHANGED <<hsClient.session, hsClient.open>> /\ hsClient' \in
               [session : 0..MaxSessions, open : BOOLEAN, muted : BOOLEAN,
                tls : {"idle", "hello", "finish", "connected"}, srtp : Keys]
        BY <4>1, <4>2
      <4> QED
        BY <4>3 DEF Keys
    <3>5. HsTypeOK'
      BY <1>0, <2>1, <2>2, <3>4 DEF HsTypeOK
    <3>6. Keyed'
      BY <1>0, <2>1, <3>3, <3>4 DEF Keyed
    <3> QED
      BY <1>0, <2>1, <3>4, <3>5, <3>6 DEF HsInv
  <2> QED
    BY <2>3, <2>4, <2>5
<1>10. ASSUME NEW d \in hsNet, NEW repeat \in BOOLEAN, ReceiveAtServer(d, repeat) PROVE HsInv'
  <2>1. /\ d.session \in Sessions /\ d.session # 0
        /\ UNCHANGED <<hsClient, hsOffers, hsAnswers, hsCloses, hsLost, hsErased>>
    BY <1>0, <1>10, DatagramFields DEF ReceiveAtServer, HsTypeOK, Sessions
  <2>2. hsNet' \subseteq Datagrams
    <3>1. ServerHandshake(d, repeat).send \subseteq Datagrams
      BY <2>1, FlightSent DEF ServerHandshake
    <3> QED
      BY <1>0, <1>10, <3>1 DEF ReceiveAtServer, Received, HsTypeOK
  <2>3. \/ hsServer' = hsServer
        \/ hsServer.offer = d.session /\ hsServer' = [hsServer EXCEPT !.endpoint = d.session]
        \/ hsServer' = [hsServer EXCEPT !.tls = "server"]
        \/ /\ hsServer.endpoint = d.session
           /\ hsServer' = ConfigureSrtpSessions([hsServer EXCEPT !.tls = "connected"])
    BY <1>10 DEF ReceiveAtServer, SelectEndpoint, ServerHandshake
  <2>4. CASE \/ hsServer' = hsServer
             \/ hsServer.offer = d.session /\ hsServer' = [hsServer EXCEPT !.endpoint = d.session]
             \/ hsServer' = [hsServer EXCEPT !.tls = "server"]
    BY <1>0, <2>1, <2>2, <2>4 DEF HsInv, HsTypeOK, Keyed, Sessions
  <2>5. CASE /\ hsServer.endpoint = d.session
             /\ hsServer' = ConfigureSrtpSessions([hsServer EXCEPT !.tls = "connected"])
    <3>1. hsServer.offer = d.session
      BY <1>0, <2>1, <2>5 DEF Keyed
    <3>2. \E keys \in {hsServer.srtp, ExportSrtpKeyMaterial(hsServer.offer)} :
             hsServer' = [hsServer EXCEPT !.tls = "connected", !.srtp = keys]
      BY <1>0, <2>5 DEF ConfigureSrtpSessions
    <3>3. ExportSrtpKeyMaterial(hsServer.offer) \in {ExportSrtpKeyMaterial(s) : s \in Sessions}
      BY <2>1, <3>1
    <3>4. UNCHANGED <<hsServer.offer, hsServer.endpoint>> /\ hsServer' \in
             [offer : 0..MaxSessions, endpoint : 0..MaxSessions, tls : {"none", "accept", "server", "connected"},
              srtp : {NoKeys} \cup {ExportSrtpKeyMaterial(s) : s \in Sessions}]
      BY <1>0, <3>2, <3>3
    <3>5. hsServer'.srtp \in {NoKeys, ExportSrtpKeyMaterial(hsServer.offer)}
      BY <1>0, <3>2 DEF Keyed
    <3> QED
      BY <1>0, <2>1, <2>2, <2>5, <3>1, <3>4, <3>5 DEF HsInv, HsTypeOK, Keyed
  <2> QED
    BY <2>3, <2>4, <2>5
<1>11. CASE UNCHANGED hsVars
  BY <1>0, <1>11 DEF hsVars, HsInv, HsTypeOK, Keyed
<1> QED
  BY <1>1, <1>2, <1>3, <1>4, <1>5, <1>6, <1>7, <1>8, <1>9, <1>10, <1>11 DEF HsNext

\* The state of a session and of its transport is well formed, and the SFU never
\* owes more CloseTransport calls than the client has opened sessions.
THEOREM HandshakeTypes == HsSpec => []HsTypeOK
<1>1. HsInv => HsTypeOK
  BY DEF HsInv
<1> QED
  BY <1>1, HsInvInit, HsInvNext, PTL DEF HsSpec

\* For any number of sessions, lost and repeated datagrams and late answers, two ends
\* that have SRTP for the same session read with each other's keys
\* (configureSrtpLocked, ConfigureSrtpSessions).
THEOREM KeysMatch == HsSpec => []KeysAgree
<1>1. HsInv => KeysAgree
  BY DEF HsInv, Keyed, KeysAgree, ExportSrtpKeyMaterial
<1> QED
  BY <1>1, HsInvInit, HsInvNext, PTL DEF HsSpec

-----------------------------------------------------------------------------
(* The address.  A response is made from the address advertised when the     *)
(* request is dispatched, whatever was advertised when it was sent.          *)

WasUp == {"up", "stopping", "joining", "stopped"}

\* Once the process has been up, the address is the one of the media port; a
\* connection that is late came after that; and nothing is told to a connection
\* before it is made.
DaemonInv ==
    /\ serving \in Peers \cup {NoPeer}
    /\ peer \in [Peers -> {"none", "queued", "open", "sent", "garbled", "closed"}]
    /\ answer \in [Peers -> {"", "error", "rpc", "media"}]
    /\ late \subseteq Peers
    /\ main \in WasUp => advertised = "media"
    /\ late # {} => main \in WasUp
    /\ response \in {"", "error", "rpc", "media"} /\ advertised \in {"unset", "rpc", "media"}
    /\ accepting # "off" => advertised # "unset"
    /\ accepting \notin {"off", "loop", "accept", "ended"} => serving \in Peers
    /\ serving \in late /\ accepting = "write" => response # "rpc"
    /\ \A p \in Peers : peer[p] = "none" => p \notin late /\ p # serving /\ answer[p] = ""
    /\ MediaAddressOnceUp

LEMMA DaemonInvInit == DaemonInit => DaemonInv
BY PeersAssumption DEF DaemonInit, DaemonInv, MediaAddressOnceUp, WasUp

LEMMA DaemonInvNext == DaemonInv /\ [DaemonNext]_daemonVars => DaemonInv'
<1> SUFFICES ASSUME DaemonInv, [DaemonNext]_daemonVars PROVE DaemonInv'
  OBVIOUS
<1> USE PeersAssumption DEF DaemonInv, MediaAddressOnceUp, WasUp, rpcVars
<1>1. CASE StartListening \/ StartFails
  BY <1>1 DEF StartListening, StartFails
<1>2. CASE StartAccepting
  BY <1>2 DEF StartAccepting
<1>3. CASE StartReporting
  BY <1>3 DEF StartReporting
<1>4. CASE StopReporting \/ StopRunning \/ Join
  BY <1>4 DEF StopReporting, StopRunning, Join
<1>5. CASE CloseListener
  BY <1>5 DEF CloseListener
<1>6. CASE AcceptLoop \/ AcceptFails \/ Read
  BY <1>6 DEF AcceptLoop, AcceptFails, Read
<1>7. ASSUME NEW p \in Peers, Accept(p) PROVE DaemonInv'
  BY <1>7 DEF Accept
<1>8. CASE Dispatch
  BY <1>8 DEF Dispatch
<1>9. CASE Write
  BY <1>9 DEF Write
<1>10. CASE ReporterSteps
  BY <1>10 DEF ReporterSteps, ReportLoop, ReportsDone, Wake
<1>11. ASSUME NEW p \in Peers, Connect(p) PROVE DaemonInv'
  BY <1>11 DEF Connect
<1>12. ASSUME NEW p \in Peers, GiveUp(p) \/ \E how \in {"sent", "garbled"} : SendRequest(p, how)
       PROVE  DaemonInv'
  BY <1>12 DEF GiveUp, SendRequest
<1>13. CASE UNCHANGED daemonVars
  BY <1>13 DEF daemonVars
<1> QED
  BY <1>1, <1>2, <1>3, <1>4, <1>5, <1>6, <1>7, <1>8, <1>9, <1>10, <1>11, <1>12, <1>13
     DEF DaemonNext, MainSteps, AcceptSteps

\* For any number of connections, however they overlap with the start and the
\* stop of the process: a call made to a process that is up is told the address of
\* the media port (SfuDaemon::Start, RpcServer::Start, RpcService::Dispatch).
THEOREM MediaAddressLearned == DaemonInit /\ [][DaemonNext]_daemonVars => []MediaAddressOnceUp
BY DaemonInvInit, DaemonInvNext, PTL DEF DaemonInv

-----------------------------------------------------------------------------
(* The relay *)

\* What can be in the socket's queue.
TurnDatagrams ==
    {Media} \cup [kind : {"challenge", "allocated", "mismatch", "permitted"},
                  tx : Nat \X {"challenge", "allocate", "permit"} \X Nat]

\* What the client may still read, on its way or queued in the socket.
Queued(q) == {q[i] : i \in 1..Len(q)}
Unread == told \cup Queued(pending)

\* An answer that grants a relay is to a request of this set-up or an earlier
\* one.  If of this set-up, it is to the set-up's last request, and the peer has
\* been admitted, unless the allocation has ended since.
Granted(d) ==
    /\ d.tx[1] <= setups
    /\ d.tx[1] = setups =>
          /\ stage \in {"idle", "permit"}
          /\ stage = "permit" /\ allocated => setup.peer \in permitted

RelayTypes ==
    /\ stage \in {"idle", "challenge", "allocate", "permit"}
    /\ setups \in Nat /\ setup \in [peer : Sfus \cup {NoSfu}, attempt : Nat]
    /\ told \subseteq TurnDatagrams /\ pending \in Seq(TurnDatagrams)
    /\ allocated \in BOOLEAN

RelayInv == RelayTypes /\ \A d \in Unread : d.kind = "permitted" => Granted(d)

\* Media has no transaction, an answer has that of its request.
LEMMA TurnDatagram ==
    ASSUME NEW d \in TurnDatagrams, d.kind = "permitted"
    PROVE  d.tx[1] \in Nat
BY DEF TurnDatagrams, Media

\* What appending to the queue and taking its head do to what is queued.
LEMMA QueueEnds ==
    ASSUME NEW q \in Seq(TurnDatagrams)
    PROVE  /\ \A d \in TurnDatagrams : /\ Append(q, d) \in Seq(TurnDatagrams)
                                      /\ Queued(Append(q, d)) = Queued(q) \cup {d}
           /\ q # <<>> => /\ Head(q) \in Queued(q) /\ Head(q) \in TurnDatagrams
                          /\ Tail(q) \in Seq(TurnDatagrams) /\ Queued(Tail(q)) \subseteq Queued(q)
<1>1. ASSUME NEW d \in TurnDatagrams
      PROVE  Append(q, d) \in Seq(TurnDatagrams) /\ Queued(Append(q, d)) = Queued(q) \cup {d}
  BY DEF Queued
<1>2. ASSUME q # <<>> PROVE /\ Head(q) \in Queued(q) /\ Head(q) \in TurnDatagrams
                            /\ Tail(q) \in Seq(TurnDatagrams) /\ Queued(Tail(q)) \subseteq Queued(q)
  BY <1>2 DEF Queued
<1> QED
  BY <1>1, <1>2

\* Nothing is unread at the start.
LEMMA RelayInvInit == TrInit => RelayInv
<1> SUFFICES ASSUME TrInit PROVE RelayInv
  OBVIOUS
<1>1. told = {} /\ pending = <<>> /\ Len(pending) = 0
  BY DEF TrInit
<1>2. Unread = {}
  <2>1. 1..Len(pending) = {}
    BY <1>1
  <2> QED
    BY <1>1, <2>1 DEF Unread, Queued
<1>3. RelayTypes
  <2>1. setup \in [peer : Sfus \cup {NoSfu}, attempt : Nat]
    BY DEF TrInit, NoSetup
  <2>2. pending \in Seq(TurnDatagrams)
    BY <1>1
  <2> QED
    BY <1>1, <2>1, <2>2 DEF TrInit, RelayTypes
<1> QED
  BY <1>2, <1>3 DEF RelayInv

\* When a request is made, whatever grants a relay is to an earlier set-up: a new
\* set-up has begun, or this one has not asked for the permission yet.
LEMMA AskKeeps ==
    ASSUME RelayInv, NEW op \in {"challenge", "allocate", "permit"},
           NEW p \in Sfus \cup {NoSfu}, NEW a \in Nat,
           Ask(op, p, a),
           Queued(pending') \subseteq Queued(pending), pending' \in Seq(TurnDatagrams),
           setups' = setups + 1 \/ (setups' = setups /\ stage \in {"challenge", "allocate"})
    PROVE  RelayInv'
<1> USE DEF RelayInv
<1>1. setups' \in Nat /\ setups \in Nat /\ setups <= setups'
  BY DEF RelayTypes
<1> DEFINE tx == <<setups', op, a>>
<1>2. stage' = op /\ setup' = [peer |-> p, attempt |-> a] /\ ServeTurn(op, p, tx)
  BY DEF Ask
<1>3. PICK kind \in {"challenge", "allocated", "mismatch", "permitted"} :
         /\ told' \subseteq told \cup {[kind |-> kind, tx |-> tx]}
         /\ allocated' \in BOOLEAN
         /\ kind = "permitted" => op = "permit" /\ (told' \subseteq told \/ p \in permitted')
  <2>1. CASE UNCHANGED turnVars
    BY <2>1 DEF turnVars, RelayTypes
  <2>2. CASE ~UNCHANGED turnVars
    <3>1. PICK kind \in Answers(op), kept \in SUBSET told :
            /\ told' \in {told, kept \cup {[kind |-> kind, tx |-> tx]}}
            /\ allocated' = (allocated \/ kind = "allocated")
            /\ permitted' = IF kind = "permitted" THEN permitted \cup {p} ELSE permitted
      BY <1>2, <2>2 DEF ServeTurn
    <3>2. kind \in {"challenge", "allocated", "mismatch", "permitted"} /\ (kind = "permitted" => op = "permit")
      BY DEF Answers
    <3> QED
      BY <3>1, <3>2 DEF RelayTypes
  <2> QED
    BY <2>1, <2>2
<1>4. [kind |-> kind, tx |-> tx] \in TurnDatagrams
  BY <1>1 DEF TurnDatagrams
<1>5. RelayTypes'
  BY <1>1, <1>2, <1>3, <1>4 DEF RelayTypes
<1>6. ASSUME NEW d \in Unread, d.kind = "permitted" PROVE d.tx[1] \in Nat /\ d.tx[1] < setups'
  <2>1. d \in TurnDatagrams
    BY DEF Unread, RelayTypes, Queued
  <2> QED
    BY <1>1, <1>6, <2>1, TurnDatagram DEF Granted
<1>7. ASSUME NEW d \in Unread', d.kind = "permitted" PROVE Granted(d)'
  <2>1. CASE d \in Unread
    BY <1>1, <1>6, <1>7, <2>1 DEF Granted
  <2>2. CASE d \notin Unread
    <3>1. d = [kind |-> kind, tx |-> tx] /\ ~(told' \subseteq told)
      BY <1>3, <2>2 DEF Unread
    <3> QED
      BY <1>1, <1>2, <1>3, <1>7, <3>1 DEF Granted
  <2> QED
    BY <2>1, <2>2
<1> QED
  BY <1>5, <1>7

\* The inductive step, and the action property with it.
LEMMA RelayInvNext == RelayInv /\ [TrNext]_trVars => RelayInv' /\ RelayGranted
<1> SUFFICES ASSUME RelayInv, [TrNext]_trVars PROVE RelayInv' /\ RelayGranted
  OBVIOUS
<1>0. RelayTypes
  BY DEF RelayInv
<1>1. ASSUME UNCHANGED <<setups, allocated, permitted>>, told' \subseteq told,
             pending' \in Seq(TurnDatagrams), Unread' \subseteq Unread,
             UNCHANGED <<stage, setup>> \/ (stage' = "idle" /\ setup' = NoSetup)
      PROVE  RelayInv'
  <2>1. NoSetup \in [peer : Sfus \cup {NoSfu}, attempt : Nat]
    BY DEF NoSetup
  <2>2. RelayTypes'
    BY <1>0, <1>1, <2>1 DEF RelayTypes
  <2>3. ASSUME NEW d \in Unread', d.kind = "permitted" PROVE Granted(d)'
    <3>1. Granted(d)
      BY <1>1, <2>3 DEF RelayInv
    <3> QED
      BY <1>1, <3>1 DEF Granted
  <2> QED
    BY <2>2, <2>3 DEF RelayInv
<1>2. ASSUME NEW p \in Sfus, TrSetPeer(p) PROVE RelayInv' /\ RelayGranted
  BY <1>0, <1>1, <1>2 DEF TrSetPeer, turnVars, RelayGranted, RelayTypes, Unread, Queued
<1>3. ASSUME NEW p \in Sfus, Configure(p) PROVE RelayInv' /\ RelayGranted
  BY <1>0, <1>3, AskKeeps DEF Configure, sockVars, RelayGranted, RelayTypes
<1>4. CASE SetupRead
  <2> DEFINE d == Head(pending)
             done == stage = "permit" /\ Matches(d) /\ d.kind = "permitted"
  <2>1. /\ d \in Unread /\ pending' \in Seq(TurnDatagrams) /\ Queued(pending') \subseteq Queued(pending)
        /\ setups' = setups /\ setups \in Nat /\ relayed' = IF done THEN setup.peer ELSE relayed
    BY <1>0, <1>4, QueueEnds DEF SetupRead, RelayTypes, Unread
  <2>2. RelayGranted
    <3> SUFFICES ASSUME done, allocated PROVE setup.peer \in permitted
      BY <2>1 DEF RelayGranted
    <3> QED
      BY <2>1 DEF RelayInv, Granted, Matches
  <2>3. CASE \/ stage = "challenge" /\ Ask("allocate", setup.peer, setup.attempt)
             \/ stage = "allocate" /\ Ask("permit", setup.peer, setup.attempt)
    <3>1. setup.peer \in Sfus \cup {NoSfu} /\ setup.attempt \in Nat
      BY <1>0 DEF RelayTypes
    <3> QED
      BY <2>1, <2>2, <2>3, <3>1, AskKeeps
  <2>4. CASE SetupOver \/ UNCHANGED <<stage, setup, turnVars>>
    <3>1. told' = told /\ UNCHANGED <<allocated, permitted>>
      BY <2>4 DEF SetupOver, turnVars
    <3> QED
      BY <1>1, <2>1, <2>2, <2>4, <3>1 DEF SetupOver, Unread
  <2> QED
    BY <1>0, <1>4, <2>2, <2>3, <2>4 DEF SetupRead, ReadChallenge, ReadAllocated, ReadPermitted, RelayTypes
<1>5. CASE SetupTimeout
  <2>1. pending' = pending /\ setups' = setups /\ relayed' = relayed
    BY <1>5 DEF SetupTimeout, sockVars
  <2>2. CASE stage = "challenge" /\ Ask("challenge", setup.peer, setup.attempt + 1)
    <3>1. /\ setup.peer \in Sfus \cup {NoSfu} /\ setup.attempt + 1 \in Nat
          /\ pending' \in Seq(TurnDatagrams) /\ Queued(pending') \subseteq Queued(pending)
      BY <1>0, <2>1 DEF RelayTypes
    <3>2. RelayInv'
      BY <2>1, <2>2, <3>1, AskKeeps
    <3> QED
      BY <2>1, <3>2 DEF RelayGranted
  <2>3. CASE SetupOver
    BY <1>0, <1>1, <2>1, <2>3 DEF SetupOver, turnVars, Unread, RelayTypes, RelayGranted
  <2> QED
    BY <1>5, <2>2, <2>3 DEF SetupTimeout
<1>6. CASE TrRecvFrom
  <2>1. pending' \in Seq(TurnDatagrams) /\ Queued(pending') \subseteq Queued(pending)
    BY <1>0, <1>6, QueueEnds DEF TrRecvFrom, RelayTypes
  <2> QED
    BY <1>1, <1>6, <2>1 DEF TrRecvFrom, turnVars, Unread, RelayGranted
<1>7. ASSUME NEW d \in TurnDatagrams, d = Media \/ d \in told, Enqueue(d), told' \subseteq told
      PROVE  RelayInv' /\ RelayGranted
  <2>1. pending' \in Seq(TurnDatagrams) /\ Queued(pending') = Queued(pending) \cup {d}
    BY <1>0, <1>7, QueueEnds DEF Enqueue, RelayTypes
  <2>2. RelayTypes'
    BY <1>0, <1>7, <2>1 DEF Enqueue, RelayTypes
  <2>3. \A e \in Unread' : e.kind = "permitted" => e \in Unread
    BY <1>7, <2>1 DEF Unread, Media
  <2>4. \A e \in Unread : e.kind = "permitted" => Granted(e)'
    BY <1>7 DEF RelayInv, Granted, Enqueue
  <2> QED
    BY <1>7, <2>2, <2>3, <2>4 DEF RelayInv, Enqueue, RelayGranted
<1>8. CASE MediaArrives
  BY <1>7, <1>8 DEF MediaArrives, TurnDatagrams
<1>9. ASSUME NEW a \in told, NEW again \in BOOLEAN, AnswerArrives(a, again) PROVE RelayInv' /\ RelayGranted
  BY <1>0, <1>7, <1>9 DEF AnswerArrives, RelayTypes
<1>10. CASE Expire
  BY <1>0, <1>10 DEF Expire, sockVars, RelayInv, RelayTypes, Granted, Unread, Queued, RelayGranted
<1>11. CASE UNCHANGED trVars
  BY <1>0, <1>1, <1>11 DEF trVars, sockVars, turnVars, Unread, Queued, RelayTypes, RelayGranted
<1> QED
  BY <1>2, <1>3, <1>4, <1>5, <1>6, <1>8, <1>9, <1>10, <1>11 DEF TrNext

\* For any number of SFU nodes, set-ups and repeated requests, and any loss, delay,
\* repetition and reordering of requests and answers: a set-up that succeeds has
\* the permission for the peer it was made for, unless the allocation ended while
\* the answer was on its way (UdpPeerSocket::configureTurnRelay,
\* turnTransactionMatches).
THEOREM RelayIsGranted == TrInit /\ [][TrNext]_trVars => [][RelayGranted]_trVars
<1>1. TrInit => RelayInv
  BY RelayInvInit
<1>2. RelayInv /\ [TrNext]_trVars => RelayInv' /\ [RelayGranted]_trVars
  BY RelayInvNext
<1> QED
  BY <1>1, <1>2, PTL
=============================================================================
