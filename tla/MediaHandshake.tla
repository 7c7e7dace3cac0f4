--------------------------- MODULE MediaHandshake ---------------------------
(***************************************************************************)
(* How one client media session gets its SRTP keys from the SFU.           *)
(*                                                                         *)
(* The client (MeetingController, AudioCallSession, DtlsTransportClient,   *)
(* SRTPContext) opens a session with a socket of its own and offers it     *)
(* over the signaling connection.  The SFU (MediaIngress,                  *)
(* TransportRegistry, ParticipantTransport, DtlsTransport, SrtpSession)    *)
(* answers with a transport.  The client then sends ONE STUN probe, which  *)
(* makes the SFU select its endpoint, and starts DTLS; the SFU drops DTLS  *)
(* from an endpoint it has not selected.  Only the ClientHello is kept and *)
(* sent again, by the send loop, and only while the capture is not muted.  *)
(*                                                                         *)
(* A session is numbered; session s talks to the transport set up for      *)
(* offer s.  DTLS itself (OpenSSL) is external: the four flights are       *)
(*   hello (ClientHello), server (ServerHello .. ServerHelloDone),         *)
(*   finish (the client's last flight), finished (the SFU's last flight),  *)
(* a flight out of order is ignored, and a retransmission timer is only    *)
(* looked at when a datagram is fed to the handshake: neither side calls   *)
(* DTLSv1_handle_timeout.                                                  *)
(***************************************************************************)
EXTENDS Integers, Sequences, FiniteSets

CONSTANTS MaxSessions,  \* bound: sessions the client opens
          MaxLosses     \* bound: datagrams the network loses

ASSUME HandshakeAssumption == MaxSessions \in Nat

VARIABLES hsClient,   \* the client's media session
          hsServer,   \* the SFU's transport of the user and kind
          hsOffers,   \* offers on their way to the SFU (one TCP connection)
          hsAnswers,  \* answers on their way to the client
          hsCloses,   \* CloseTransport calls still to reach the SFU
          hsNet,      \* datagrams in flight
          hsLost,     \* history: the datagrams lost
          hsErased    \* history: offers whose transport was erased

hsVars == <<hsClient, hsServer, hsOffers, hsAnswers, hsCloses, hsNet, hsLost,
            hsErased>>

Sessions == 1..MaxSessions
NoKeys == [out |-> <<>>, in |-> <<>>]

\* The keying material of the handshake of session s: the client's write key
\* and the server's write key.
ClientKey(s) == <<"client", s>>
ServerKey(s) == <<"server", s>>

Stun(s, offer) == [kind |-> "stun", session |-> s, offer |-> offer]
Flight(kind, s) == [kind |-> kind, session |-> s, offer |-> s]
Datagrams ==
    {Stun(s, o) : s \in Sessions, o \in Sessions}
        \cup {Flight(k, s) : k \in {"hello", "server", "finish", "finished"},
                             s \in Sessions}
ToClient(d) == d.kind \in {"server", "finished"}

Closed(s) == [session |-> s, open |-> FALSE, muted |-> FALSE, tls |-> "idle",
              srtp |-> NoKeys]
NoTransport == [offer |-> 0, endpoint |-> 0, tls |-> "none", srtp |-> NoKeys]

HsInit ==
    /\ hsClient = Closed(0)
    /\ hsServer = NoTransport
    /\ hsOffers = <<>> /\ hsAnswers = <<>> /\ hsCloses = 0
    /\ hsNet = {} /\ hsLost = {} /\ hsErased = {}

-----------------------------------------------------------------------------
(* The client's session.                                                   *)

\* maybeStartAudioNegotiation makes a session with a fresh socket, identity
\* and DTLS client; sendAudioOfferToPeer offers it once.
OpenSession ==
    /\ ~hsClient.open
    /\ hsClient.session < MaxSessions
    /\ LET s == hsClient.session + 1 IN
         /\ hsClient' = [Closed(s) EXCEPT !.open = TRUE]
         /\ hsOffers' = Append(hsOffers, s)
    /\ UNCHANGED <<hsServer, hsAnswers, hsCloses, hsNet, hsLost, hsErased>>

\* resetMediaNegotiation: the session stops, its socket closes, and what was
\* on the way to that socket has nowhere to go.  The server's cleanup of the
\* user follows on its own.
CloseSession ==
    /\ hsClient.open
    /\ hsClient' = Closed(hsClient.session)
    /\ hsCloses' = hsCloses + 1
    /\ hsNet' = {d \in hsNet : ~ToClient(d)}
    /\ UNCHANGED <<hsServer, hsOffers, hsAnswers, hsLost, hsErased>>

SetCaptureMuted ==
    /\ hsClient.open
    /\ hsClient' = [hsClient EXCEPT !.muted = ~@]
    /\ UNCHANGED <<hsServer, hsOffers, hsAnswers, hsCloses, hsNet, hsLost,
                   hsErased>>

\* startDtlsSrtp: DtlsTransportClient::start runs the handshake up to the
\* ClientHello the first time and does nothing after that; the flight it
\* produced is what the send loop repeats.
StartDtlsSrtp(c) == IF c.tls = "idle" THEN [c EXCEPT !.tls = "hello"] ELSE c

\* handleMediaTransportAnswer: one STUN probe naming the answer's server ufrag
\* and the session's own ufrag, then DTLS.  An answer is not matched with the
\* offer it answers: a late one for an earlier session is used all the same.
HandleMediaTransportAnswer ==
    /\ hsAnswers # <<>>
    /\ hsAnswers' = Tail(hsAnswers)
    /\ IF hsClient.open
       THEN LET s == hsClient.session IN
              /\ hsClient' = StartDtlsSrtp(hsClient)
              /\ hsNet' = hsNet \cup {Stun(s, Head(hsAnswers))}
                            \cup (IF hsClient.tls = "idle"
                                  THEN {Flight("hello", s)} ELSE {})
       ELSE UNCHANGED <<hsClient, hsNet>>
    /\ UNCHANGED <<hsServer, hsOffers, hsCloses, hsLost, hsErased>>

MutantSendCachedDtlsHandshake ==
    /\ hsClient.open /\ ~hsClient.muted
    /\ hsClient.tls = "hello"
    /\ hsNet' = hsNet \cup {Flight("hello", hsClient.session)}
    /\ UNCHANGED <<hsClient, hsServer, hsOffers, hsAnswers, hsCloses, hsLost,
                   hsErased>>

\* sendLoop finds DTLS started and SRTP not ready: the frame is given up and
\* sendCachedDtlsHandshakeLocked repeats the ClientHello.  A muted frame is
\* dropped before this point.
SendCachedDtlsHandshake ==
    /\ hsClient.open /\ ~hsClient.muted
    /\ hsClient.tls # "idle" /\ hsClient.srtp = NoKeys
    /\ hsNet' = hsNet \cup {Flight("hello", hsClient.session)}
    /\ UNCHANGED <<hsClient, hsServer, hsOffers, hsAnswers, hsCloses, hsLost,
                   hsErased>>

\* configureSrtpLocked, once: the client writes with the client's key.
ConfigureClientSrtp(c) ==
    IF c.srtp = NoKeys
    THEN [c EXCEPT !.srtp = [out |-> ClientKey(c.session),
                             in |-> ServerKey(c.session)]]
    ELSE c

\* handleDtlsPacketLocked: the datagram drives the handshake one flight on.
\* `repeat`: the retransmission timer ran out, so the last flight goes again.
ClientHandshake(d, repeat) ==
    CASE d.kind = "server" /\ hsClient.tls = "hello" ->
           [c |-> [hsClient EXCEPT !.tls = "finish"],
            send |-> {Flight("finish", hsClient.session)}]
      [] d.kind = "server" /\ hsClient.tls = "finish" /\ repeat ->
           [c |-> hsClient, send |-> {Flight("finish", hsClient.session)}]
      [] d.kind = "finished" /\ hsClient.tls = "finish" ->
           [c |-> ConfigureClientSrtp([hsClient EXCEPT !.tls = "connected"]),
            send |-> {}]
      [] OTHER -> [c |-> hsClient, send |-> {}]

-----------------------------------------------------------------------------
(* The SFU's transport.                                                    *)

\* SetupTransport: a transport with new ICE credentials, a new DTLS server
\* and no SRTP replaces whatever was registered for the user and kind.
Upsert(offer) == [NoTransport EXCEPT !.offer = offer, !.tls = "accept"]

SetupTransport ==
    /\ hsOffers # <<>>
    /\ hsOffers' = Tail(hsOffers)
    /\ hsServer' = Upsert(Head(hsOffers))
    /\ hsAnswers' = Append(hsAnswers, Head(hsOffers))
    /\ UNCHANGED <<hsClient, hsCloses, hsNet, hsLost, hsErased>>

\* CloseTransport: EraseUserTransports takes whatever the user has by now.
CloseTransport ==
    /\ hsCloses > 0
    /\ hsCloses' = hsCloses - 1
    /\ hsServer' = NoTransport
    /\ hsErased' = hsErased \cup ({hsServer.offer} \ {0})
    /\ UNCHANGED <<hsClient, hsOffers, hsAnswers, hsNet, hsLost>>

\* HandleStunPacket: SelectEndpointForUsername takes the transport whose two
\* ufrags the username names and makes the sender its endpoint.
SelectEndpoint(d) ==
    IF hsServer.offer = d.offer /\ d.offer = d.session
    THEN [hsServer EXCEPT !.endpoint = d.session]
    ELSE hsServer

MutantExportSrtpKeyMaterial(s) == [out |-> ClientKey(s), in |-> ServerKey(s)]

\* ConfigureSrtpSessions, once: ExportSrtpKeyMaterial gives the server role
\* the server's key to write with and the client's to read with.
ExportSrtpKeyMaterial(s) == [out |-> ServerKey(s), in |-> ClientKey(s)]

ConfigureSrtpSessions(t) ==
    IF t.srtp = NoKeys
    THEN [t EXCEPT !.srtp = ExportSrtpKeyMaterial(t.offer)]
    ELSE t

\* HandleDtlsFromEndpoint: only the transport that selected the sender sees
\* the datagram.
ServerHandshake(d, repeat) ==
    LET mine(kind, tls) == hsServer.endpoint = d.session /\ d.kind = kind /\ hsServer.tls = tls IN
    CASE mine("hello", "accept") ->
           [t |-> [hsServer EXCEPT !.tls = "server"],
            send |-> {Flight("server", d.session)}]
      [] mine("hello", "server") /\ repeat ->
           [t |-> hsServer, send |-> {Flight("server", d.session)}]
      [] mine("finish", "server") ->
           [t |-> ConfigureSrtpSessions([hsServer EXCEPT !.tls = "connected"]),
            send |-> {Flight("finished", d.session)}]
      [] OTHER -> [t |-> hsServer, send |-> {}]

-----------------------------------------------------------------------------
(* The network.                                                            *)

\* What becomes of the network when d is received and `send` is sent; a
\* datagram that stays may arrive again.
Received(d, send) == \E rest \in {hsNet, hsNet \ {d}} : hsNet' = rest \cup send

ReceiveAtClient(d, repeat) ==
    /\ d \in hsNet /\ ToClient(d)
    /\ hsClient.open /\ hsClient.session = d.session
    /\ LET h == ClientHandshake(d, repeat) IN
         /\ hsClient' = h.c
         /\ Received(d, h.send)
    /\ UNCHANGED <<hsServer, hsOffers, hsAnswers, hsCloses, hsLost, hsErased>>

\* MediaIngress::HandlePacket hands STUN and DTLS to their handlers.
ReceiveAtServer(d, repeat) ==
    /\ d \in hsNet /\ ~ToClient(d)
    /\ IF d.kind = "stun"
       THEN hsServer' = SelectEndpoint(d) /\ Received(d, {})
       ELSE LET h == ServerHandshake(d, repeat) IN
              /\ hsServer' = h.t
              /\ Received(d, h.send)
    /\ UNCHANGED <<hsClient, hsOffers, hsAnswers, hsCloses, hsLost, hsErased>>

\* A datagram is lost at most once, and MaxLosses in all.
Lose(d) ==
    /\ d \in hsNet /\ d \notin hsLost
    /\ Cardinality(hsLost) < MaxLosses
    /\ hsNet' = hsNet \ {d}
    /\ hsLost' = hsLost \cup {d}
    /\ UNCHANGED <<hsClient, hsServer, hsOffers, hsAnswers, hsCloses, hsErased>>

HsNext ==
    \/ OpenSession \/ CloseSession \/ SetCaptureMuted
    \/ HandleMediaTransportAnswer \/ SendCachedDtlsHandshake
    \/ SetupTransport \/ CloseTransport
    \/ \E d \in hsNet : \/ Lose(d)
                        \/ \E repeat \in BOOLEAN : \/ ReceiveAtClient(d, repeat)
                                                 \/ ReceiveAtServer(d, repeat)

HsSpec == HsInit /\ [][HsNext]_hsVars

\* The event loops, the signaling connection and the send loop keep running;
\* a datagram that is not lost arrives; a timer that is looked at again and
\* again has run out at some time.  So Served, SendCachedDtlsHandshake and the
\* Arrivals are fair, strongly where a repeated flight may be taken away.
Arrival(kind) ==
    \E d \in hsNet : /\ d.kind = kind
                    /\ (ReceiveAtClient(d, TRUE) \/ ReceiveAtServer(d, TRUE))
Served == SetupTransport \/ CloseTransport \/ HandleMediaTransportAnswer

-----------------------------------------------------------------------------
(* Properties.                                                             *)

HsTypeOK ==
    /\ hsClient \in [session : 0..MaxSessions, open : BOOLEAN, muted : BOOLEAN,
                     tls : {"idle", "hello", "finish", "connected"},
                     srtp : {NoKeys} \cup {[out |-> ClientKey(s),
                                          in |-> ServerKey(s)] : s \in Sessions}]
    /\ hsServer.offer \in 0..MaxSessions /\ hsServer.endpoint \in 0..MaxSessions
    /\ hsServer.tls \in {"none", "accept", "server", "connected"}
    /\ hsOffers \in Seq(Sessions) /\ hsAnswers \in Seq(Sessions)
    /\ hsCloses \in 0..MaxSessions
    /\ hsNet \subseteq Datagrams /\ hsLost \subseteq Datagrams
    /\ hsErased \subseteq Sessions

\* Once both ends of a session have SRTP, each reads with the key the other
\* writes with - whatever was in flight, repeated or left over from the
\* session before when the transport was replaced.
KeysAgree ==
    hsClient.srtp # NoKeys /\ hsServer.srtp # NoKeys
        /\ hsClient.session = hsServer.offer
    => /\ hsClient.srtp.out = hsServer.srtp.in
       /\ hsClient.srtp.in = hsServer.srtp.out

\* The losses the code cannot make up for: the one STUN probe, and the SFU's
\* last flight (after it the SFU's handshake is over and repeats nothing).
Fatal(s) == {Stun(s, s), Flight("finished", s)}

\* A session that stays open and unmuted gets its keys at both ends - the
\* repeated ClientHello makes up for every lost or early flight - unless the
\* STUN probe or the SFU's last flight is lost, or a CloseTransport left over
\* from the session before erases the new transport.
HandshakeCompletes ==
    <>[](/\ hsClient.open /\ ~hsClient.muted
         /\ hsLost \cap Fatal(hsClient.session) = {} /\ hsClient.session \notin hsErased)
    => []<>(/\ hsClient.srtp # NoKeys
            /\ hsServer.srtp # NoKeys /\ hsServer.offer = hsClient.session)
=============================================================================
