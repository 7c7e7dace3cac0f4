----------------------------- MODULE RemoteVideo -----------------------------
(* Which remote picture the client shows where (app/MeetingController.cpp):   *)
(* the roster the signaling server sends tells who has a camera on or shares; *)
(* the client computes for each peer the SSRC the SFU forwards that peer's    *)
(* video under, filters and attributes decoded frames by it, and selects the  *)
(* peer and the share to show.  Decoded frames reach the interface thread     *)
(* through a queue, so that they meet a roster that has moved on.             *)
EXTENDS Naturals, Sequences, FiniteSets, SequencesExt

CONSTANTS
    Peers,          \* the other participants, in the order of the list: a sequence
    Nobody,         \* no user
    MaxChanges,     \* bound: changes of the meeting
    MaxFrames       \* bound: frames on their way

PeerSet == Range(Peers)
\* A participant is out of the meeting, in it without an SSRC, or registered with the SFU and
\* sending nothing, the camera, or the screen.
States == {"out", "new", "off", "cam", "share"}
Registered(st) == st \in {"off", "cam", "share"}
Sends(st) == st \in {"cam", "share"}

\* SSRCs: one's own, the one assigned to a peer, and the one it is rewritten to
Ssrc == {<<"none">>, <<"own">>} \cup ({"source", "rewritten"} \X PeerSet)
NoSsrc == <<"none">>

VARIABLES
    meeting,    \* the state of each peer, and whether this client is registered
    syncs,      \* StateSync messages and the answer with the assigned SSRC, in order
    roster,     \* m_participantModel: the state of each peer, and of oneself
    assigned,   \* m_assignedVideoSsrc is known
    share,      \* m_activeShareUserId
    active,     \* m_activeVideoPeerUserId
    chosen,     \* m_videoPeerUserId
    audio,      \* m_audioPeerUserId
    map,        \* m_remoteVideoSsrcByPeer
    expected,   \* m_expectedRemoteVideoSsrc of the session
    decoded,    \* decoded frames posted to the interface thread
    queue,      \* m_remoteVideoRenderQueue
    screen,     \* m_remoteScreenFrameStore: the frame it shows
    pictures,   \* m_remoteVideoFrameStoresByPeer
    main,       \* m_remoteVideoFrameStore
    changes     \* changes of the meeting so far

rvVars == <<meeting, syncs, roster, assigned, share, active, chosen, audio, map, expected,
            decoded, queue, screen, pictures, main, changes>>

NoFrame == [from |-> Nobody, fresh |-> FALSE]
Me == Nobody    \* the roster's entry for oneself

\* The client has joined: the others are registered and send nothing.
RvInit ==
    /\ meeting = [p \in PeerSet \cup {Me} |-> IF p = Me THEN "new" ELSE "off"]
    /\ syncs = <<>> /\ roster = meeting /\ assigned = FALSE
    /\ share = Nobody /\ active = Peers[1] /\ chosen = Peers[1] /\ audio = Peers[1]
    /\ map = [p \in PeerSet |-> NoSsrc] /\ expected = NoSsrc
    /\ decoded = <<>> /\ queue = <<>>
    /\ screen = NoFrame /\ pictures = [p \in PeerSet |-> NoFrame] /\ main = NoFrame
    /\ changes = 0

-----------------------------------------------------------------------------
(* The meeting and the SFU.                                                  *)

\* The SSRC the SFU forwards a peer's video under: its own for a client that publishes nothing,
\* a rewritten one when there are several publishers, which this client is one of.
Forwarded(p) == IF Registered(meeting[Me]) THEN <<"rewritten", p>> ELSE <<"source", p>>

Stale(fs) == [n \in DOMAIN fs |-> [fs[n] EXCEPT !.picture.fresh = FALSE]]

Changed ==
    /\ changes < MaxChanges /\ changes' = changes + 1
    /\ decoded' = Stale(decoded) /\ queue' = Stale(queue)
    /\ UNCHANGED <<roster, assigned, share, active, chosen, audio, map, expected, screen, pictures, main>>

PeerChanges(p, st) ==
    /\ st # meeting[p] /\ (meeting[p] = "out" => st = "new") /\ (st = "new" => meeting[p] = "out")
    /\ Changed
    /\ meeting' = [meeting EXCEPT ![p] = st]
    /\ syncs' = Append(syncs, meeting')

\* This client's video offer is served: the answer first, then a StateSync.
Register ==
    /\ meeting[Me] = "new" /\ Changed
    /\ meeting' = [meeting EXCEPT ![Me] = "off"]
    /\ syncs' = syncs \o <<<<>>, meeting'>>

\* A frame is sent, filtered by the receive thread (the expected SSRC, if any) and decoded.
Frame(p) ==
    /\ Sends(meeting[p]) /\ Len(decoded) + Len(queue) < MaxFrames
    /\ expected \in {NoSsrc, Forwarded(p)}
    /\ decoded' = Append(decoded, [picture |-> [from |-> p, fresh |-> syncs = <<>>],
                                   ssrc |-> Forwarded(p)])
    /\ UNCHANGED <<meeting, syncs, roster, assigned, share, active, chosen, audio, map, expected,
                   queue, screen, pictures, main, changes>>

-----------------------------------------------------------------------------
(* The selections, on a roster r, a selected share s and a chosen peer c.    *)

First(Test(_)) == LET n == SelectInSeq(Peers, Test) IN IF n = 0 THEN Nobody ELSE Peers[n]
HasVideo(r, p) == p # Nobody /\ Sends(r[p])
Present(r, p) == p # Nobody /\ r[p] # "out"

\* updateRemoteVideoSsrcMappings
MutantMapping(r, known) ==
    [p \in PeerSet |->
        IF ~Sends(r[p]) THEN NoSsrc
        ELSE IF ~known THEN <<"source", p>>
        ELSE IF Cardinality({q \in PeerSet : Registered(r[q])}) > 1
        THEN <<"rewritten", p>> ELSE <<"own">>]

Mapping(r, known) ==
    [p \in PeerSet |->
        IF ~Sends(r[p]) THEN NoSsrc
        ELSE IF ~known THEN <<"source", p>>
        ELSE IF Cardinality({q \in PeerSet \cup {Me} : Registered(r[q])}) > 1
        THEN <<"rewritten", p>> ELSE <<"own">>]

\* updateActiveShareSelection: the share selected, if it goes on, else the first one
ShareOf(r) ==
    IF share # Nobody /\ r[share] = "share" THEN share ELSE First(LAMBDA p : r[p] = "share")

\* currentAudioPeerUserId
AudioPeer(r) == IF Present(r, audio) THEN audio ELSE First(LAMBDA p : Present(r, p))

\* currentVideoPeerUserId while the user does not share: the share, the peer chosen if it sends,
\* the first one that does, the audio peer
VideoPeer(r, s, c) ==
    LET sender == First(LAMBDA p : HasVideo(r, p)) IN
    IF s # Nobody THEN s ELSE IF HasVideo(r, c) THEN c
    ELSE IF sender # Nobody THEN sender ELSE AudioPeer(r)

\* updateExpectedRemoteVideoSsrcForCurrentPeer
Expected(r, m, s, c) ==
    LET sending == {p \in PeerSet : m[p] # NoSsrc /\ HasVideo(r, p)}
        peer == VideoPeer(r, s, c) IN
    IF Cardinality(sending) > 1 \/ peer = Nobody THEN NoSsrc ELSE m[peer]

\* resolvePeerUserIdForRemoteVideoSsrc
PeerOfSsrc(ssrc) ==
    LET named == {p \in PeerSet : map[p] = ssrc} IN
    IF named # {}
    THEN CHOOSE p \in named : \A q \in named : HasVideo(roster, q) => HasVideo(roster, p)
    ELSE IF chosen # Nobody THEN chosen ELSE VideoPeer(roster, share, chosen)

-----------------------------------------------------------------------------
(* The interface thread.                                                     *)

\* invalidateRemoteVideoRenderQueue(true), if; else the main picture stays, under a share s unseen
Invalidate(if, s) ==
    /\ queue' = IF if THEN <<>> ELSE Stale(queue)
    /\ main' = IF if THEN NoFrame ELSE [main EXCEPT !.fresh = main.fresh /\ s = Nobody]

\* the mapping of the peer shown is changed
Remapped(r, m) ==
    \E p \in {active, VideoPeer(r, share, chosen)} \ {Nobody} : m[p] # map[p]

\* syncParticipantsChanged: the mappings, the stores of peers that stopped, the selections;
\* maybeStartVideoNegotiation makes the peer selected the chosen one.
OnStateSync ==
    /\ syncs # <<>> /\ Head(syncs) # <<>>
    /\ syncs' = Tail(syncs) /\ roster' = Head(syncs)
    /\ LET r == Head(syncs)
           m == Mapping(r, assigned)
           s == ShareOf(r)
           c == IF Present(r, chosen) THEN chosen ELSE Nobody
           peer == VideoPeer(r, s, c) IN
       /\ map' = m
       /\ pictures' = [p \in PeerSet |->
            IF ~HasVideo(r, p) \/ map[p] \notin {NoSsrc, m[p]} THEN NoFrame ELSE pictures[p]]
       /\ share' = s /\ active' = peer /\ audio' = AudioPeer(r)
       /\ chosen' = IF peer = Nobody THEN c ELSE peer
       /\ expected' = Expected(r, m, s, chosen')
       /\ Invalidate(Remapped(r, m) \/ (peer # active /\ s = Nobody), s)
    /\ decoded' = Stale(decoded) /\ screen' = [screen EXCEPT !.fresh = FALSE]
    /\ UNCHANGED <<meeting, assigned, changes>>

\* handleMediaTransportAnswer sets m_assignedVideoSsrc, opens the filter, updates the mappings.
OnAssigned ==
    /\ syncs # <<>> /\ Head(syncs) = <<>>
    /\ syncs' = Tail(syncs) /\ assigned' = TRUE
    /\ LET m == Mapping(roster, TRUE) IN
       /\ map' = m
       /\ pictures' = [p \in PeerSet |->
            IF map[p] \notin {NoSsrc, m[p]} THEN NoFrame ELSE pictures[p]]
       /\ expected' = IF m = map THEN NoSsrc ELSE Expected(roster, m, share, chosen)
       /\ Invalidate(Remapped(roster, m), share)
    /\ decoded' = Stale(decoded)
    /\ UNCHANGED <<meeting, roster, share, active, chosen, audio, screen, changes>>

\* The decoded frame callback: while somebody shares, every frame goes to the screen.
OnFrame ==
    /\ decoded # <<>>
    /\ decoded' = Tail(decoded)
    /\ LET f == Head(decoded)
           peer == PeerOfSsrc(f.ssrc)
           sharer == First(LAMBDA p : roster[p] = "share" /\ (share \in {p, Nobody} \/ peer = p)) IN
       IF sharer # Nobody
       THEN /\ share' = sharer /\ active' = IF share = sharer THEN active ELSE sharer
            /\ expected' = IF active' = active THEN expected
                           ELSE Expected(roster, map, sharer, chosen)
            /\ Invalidate(TRUE, sharer)
            /\ screen' = f.picture
       ELSE /\ screen' = NoFrame
            /\ queue' = Append(queue, [picture |-> f.picture, peer |-> peer])
            /\ UNCHANGED <<share, active, expected, main>>
    /\ UNCHANGED <<meeting, syncs, roster, assigned, chosen, audio, map, pictures, changes>>

\* drainRemoteVideoRenderQueue and the task of a frame
Render ==
    /\ queue # <<>>
    /\ IF share # Nobody
       THEN queue' = <<>> /\ UNCHANGED <<main, pictures>>
       ELSE /\ queue' = Tail(queue)
            /\ LET f == Head(queue) IN
               /\ main' = IF f.peer = Nobody \/ active \in {Nobody, f.peer} THEN f.picture ELSE main
               /\ pictures' = [p \in PeerSet |-> IF p = f.peer THEN f.picture ELSE pictures[p]]
    /\ UNCHANGED <<meeting, syncs, roster, assigned, share, active, chosen, audio, map, expected,
                   decoded, screen, changes>>

\* setActiveShareUserId and setActiveVideoPeerUserId: updateActiveVideoPeerSelection and
\* maybeStartVideoNegotiation
MutantChoose(s, c) ==
    LET peer == VideoPeer(roster, s, c) IN
    /\ share' = s /\ active' = peer /\ chosen' = peer
    /\ expected' = Expected(roster, map, s, peer)
    /\ decoded' = Stale(decoded) /\ screen' = [screen EXCEPT !.fresh = FALSE]
    /\ Invalidate(FALSE, s)
    /\ UNCHANGED <<meeting, syncs, roster, assigned, audio, map, pictures, changes>>

Choose(s, c) ==
    LET peer == VideoPeer(roster, s, c) IN
    /\ share' = s /\ active' = peer /\ chosen' = peer
    /\ expected' = Expected(roster, map, s, peer)
    /\ decoded' = Stale(decoded) /\ screen' = [screen EXCEPT !.fresh = FALSE]
    /\ Invalidate(peer # active /\ s = Nobody, s)
    /\ UNCHANGED <<meeting, syncs, roster, assigned, audio, map, pictures, changes>>

SelectShare(p) == roster[p] = "share" /\ share # p /\ Choose(p, chosen)
SelectPeer(p) == roster[p] = "cam" /\ ~(chosen = p /\ active = p) /\ Choose(share, p)

RvNext ==
    \/ \E p \in PeerSet, st \in States : PeerChanges(p, st)
    \/ \E p \in PeerSet : Frame(p) \/ SelectShare(p) \/ SelectPeer(p)
    \/ Register \/ OnStateSync \/ OnAssigned \/ OnFrame \/ Render

-----------------------------------------------------------------------------
(* Properties.                                                               *)

RvTypeOK ==
    /\ meeting \in [PeerSet \cup {Me} -> States] /\ roster \in [PeerSet \cup {Me} -> States]
    /\ share \in PeerSet \cup {Nobody} /\ active \in PeerSet \cup {Nobody}
    /\ map \in [PeerSet -> Ssrc] /\ expected \in Ssrc
    /\ Len(decoded) <= MaxFrames
    /\ \A p \in PeerSet : pictures[p].from \in PeerSet \cup {Nobody}

\* The client and the SFU agree on SSRCs: when the client has processed all it was sent, it
\* expects the video of every sending peer under the very SSRC the SFU rewrites it to, and
\* filters out none of those it has to show.
MappingAgrees ==
    syncs = <<>> =>
        \A p \in PeerSet : Sends(meeting[p]) =>
            map[p] = Forwarded(p) /\ (expected = NoSsrc \/ expected = map[VideoPeer(roster, share, chosen)])

\* A picture is shown under its sender's name: a frame that was sent, decoded and rendered
\* without a change of the meeting in between is in the store of its peer; in the main store only
\* while that peer is the active one; on the screen only when that peer is the one that shares.
\* Not so: while one peer shares, the frames of every other go to the screen too; the screen keeps
\* its last picture until a frame of the next share; the main store keeps its picture through a
\* share that another peer ends by turning to its camera.
ShownUnderItsName ==
    /\ \A p \in PeerSet : pictures[p].fresh => pictures[p].from = p
    /\ main.fresh /\ share = Nobody => main.from = active
    /\ screen.fresh /\ share # Nobody /\ Cardinality({p \in PeerSet : Sends(roster[p])}) < 2
        => screen.from = share
=============================================================================
