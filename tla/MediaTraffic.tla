---------------------------- MODULE MediaTraffic ----------------------------
(* What server/MediaIngress.cpp keeps per source and per publisher while     *)
(* packets flow: the address a source sends from, traffic counters, sender   *)
(* reports, and the throttles of key frame requests (PLI) and of bandwidth   *)
(* limits (REMB).  Three threads use it: the UDP thread handles packets, the *)
(* RPC thread binds and removes publishers, and the reporter of SfuDaemon    *)
(* takes snapshots of the counters and sends estimates.  Every map has a     *)
(* lock of its own, so the threads interleave between the maps.              *)
(*                                                                           *)
(* A user publishes one stream, under a new SSRC whenever it sets up a       *)
(* transport; where the streams go is in MediaRoutes, the protection of      *)
(* packets in MediaHandshake, the bit rates in BandwidthEstimator.  A time    *)
(* that was noted grows old at any moment.                                   *)
EXTENDS Integers, Sequences, FiniteSets, SequencesExt

CONSTANTS
    Publishing,     \* users who may publish
    Receivers,      \* addresses of subscribers
    TrafficSsrcs,   \* bound: 1..n, the SSRCs drawn, in order
    MaxPackets      \* bound: packets counted per publisher

VARIABLES
    source,     \* the room: per user, its SSRC or 0
    assigned,   \* number of SSRCs drawn
    router,     \* RtpRouter: registered sources
    sender,     \* publisherEndpoints_: sources whose address is known
    traffic,    \* publisherTraffic_: per user, packets counted, or -1
    reports,    \* senderReports_: sources
    pli,        \* pliForwardBySource_: sources
    cooling,    \* those of them whose time is less than kPliForwardCooldown ago
    remb,       \* rembFeedbackBySource_: per source, addresses
    estimate,   \* estimatedRembBySource_: sources
    calls,      \* per thread, what is left of what it does
    seen,       \* history: sources subscribers have got packets of
    unserved,   \* history: sources whose PLI was noted and could not be sent
    raced       \* history: sources replaced or removed while in use elsewhere

trafficVars == <<source, assigned, router, sender, traffic, reports, pli, cooling,
                 remb, estimate, calls, seen, unserved, raced>>
perSource == <<router, sender, traffic, reports, pli, cooling, remb, estimate>>
history == <<seen, unserved, raced>>

TrafficThreads == {"rpc", "udp", "reporter"}

TrafficInit ==
    /\ source = [u \in Publishing |-> 0]
    /\ assigned = 0
    /\ router = {} /\ sender = {} /\ reports = {}
    /\ traffic = [u \in Publishing |-> -1]
    /\ pli = {} /\ cooling = {} /\ estimate = {}
    /\ remb = [s \in TrafficSsrcs |-> {}]
    /\ calls = [t \in TrafficThreads |-> <<>>]
    /\ seen = {} /\ unserved = {} /\ raced = {}

Free(t) == calls[t] = <<>>
Doing(t, op) == ~Free(t) /\ Head(calls[t]).op = op
Job(t) == Head(calls[t])
Continue(t, steps) == calls' = [calls EXCEPT ![t] = steps \o Tail(@)]
Live == {source[u] : u \in Publishing} \ {0}
InUse(s) == s # 0 /\ \E t \in {"udp", "reporter"} : ~Free(t) /\ Job(t).ssrc = s

-----------------------------------------------------------------------------
(* The RPC thread *)

RemoveSteps(s) == <<[op |-> "unroute", ssrc |-> s], [op |-> "unsender", ssrc |-> s],
                    [op |-> "unpli", ssrc |-> s], [op |-> "unremb", ssrc |-> s]>>

MutantPublish(u, s) ==
    /\ Free("rpc") /\ s \in {source[u], assigned + 1} \cap TrafficSsrcs
    /\ assigned' = IF s > assigned THEN s ELSE assigned
    /\ source' = [source EXCEPT ![u] = s]
    /\ calls' = [calls EXCEPT !["rpc"] =
          (IF source[u] = 0 THEN <<>> ELSE RemoveSteps(source[u]))
          \o <<[op |-> "register", ssrc |-> s]>>]
    /\ raced' = IF source[u] # s /\ InUse(source[u]) THEN raced \cup {source[u]} ELSE raced
    /\ UNCHANGED <<perSource, seen, unserved>>

\* BindPublisher, with a new SSRC or with the one the user has.
Publish(u, s) ==
    /\ Free("rpc") /\ s \in {source[u], assigned + 1} \cap TrafficSsrcs
    /\ assigned' = IF s > assigned THEN s ELSE assigned
    /\ source' = [source EXCEPT ![u] = s]
    /\ calls' = [calls EXCEPT !["rpc"] =
          (IF source[u] \in {0, s} THEN <<>> ELSE RemoveSteps(source[u]))
          \o <<[op |-> "register", ssrc |-> s]>>]
    /\ raced' = IF source[u] # s /\ InUse(source[u]) THEN raced \cup {source[u]} ELSE raced
    /\ UNCHANGED <<perSource, seen, unserved>>

Register ==
    /\ Doing("rpc", "register")
    /\ router' = router \cup {Job("rpc").ssrc}
    /\ Continue("rpc", <<>>)
    /\ UNCHANGED <<source, assigned, sender, traffic, reports, pli, cooling, remb, estimate, history>>

\* RemovePublisher; the counters go last.
Unpublish(u) ==
    /\ Free("rpc") /\ source[u] # 0
    /\ source' = [source EXCEPT ![u] = 0]
    /\ calls' = [calls EXCEPT !["rpc"] = RemoveSteps(source[u])
                    \o <<[op |-> "untraffic", ssrc |-> source[u], user |-> u]>>]
    /\ raced' = IF InUse(source[u]) THEN raced \cup {source[u]} ELSE raced
    /\ UNCHANGED <<assigned, perSource, seen, unserved>>

\* RemovePublisherRoutes, a map after the other
Unroute ==
    /\ Doing("rpc", "unroute")
    /\ router' = router \ {Job("rpc").ssrc}
    /\ Continue("rpc", <<>>)
    /\ UNCHANGED <<source, assigned, sender, traffic, reports, pli, cooling, remb, estimate, history>>

MutantUnsender ==
    /\ Doing("rpc", "unsender")
    /\ Continue("rpc", <<>>)
    /\ UNCHANGED <<source, assigned, perSource, history>>

Unsender ==
    /\ Doing("rpc", "unsender")
    /\ sender' = sender \ {Job("rpc").ssrc}
    /\ Continue("rpc", <<>>)
    /\ UNCHANGED <<source, assigned, router, traffic, reports, pli, cooling, remb, estimate, history>>

Unpli ==
    /\ Doing("rpc", "unpli")
    /\ pli' = pli \ {Job("rpc").ssrc}
    /\ cooling' = cooling \ {Job("rpc").ssrc}
    /\ Continue("rpc", <<>>)
    /\ UNCHANGED <<source, assigned, router, sender, traffic, reports, remb, estimate, history>>

Unremb ==
    /\ Doing("rpc", "unremb")
    /\ remb' = [remb EXCEPT ![Job("rpc").ssrc] = {}]
    /\ estimate' = estimate \ {Job("rpc").ssrc}
    /\ Continue("rpc", <<>>)
    /\ UNCHANGED <<source, assigned, router, sender, traffic, reports, pli, cooling, history>>

Untraffic ==
    /\ Doing("rpc", "untraffic")
    /\ traffic' = [traffic EXCEPT ![Job("rpc").user] = -1]
    /\ reports' = reports \ {Job("rpc").ssrc}
    /\ Continue("rpc", <<>>)
    /\ UNCHANGED <<source, assigned, router, sender, pli, cooling, remb, estimate, history>>

-----------------------------------------------------------------------------
(* The UDP thread: HandlePacket, HandleControlPacket *)

\* A packet of the stream: ResolvePublisher finds its user.
Packet(u) ==
    /\ Free("udp") /\ source[u] # 0
    /\ LET s == source[u] IN
       calls' = [calls EXCEPT !["udp"] =
          <<[op |-> "sender", ssrc |-> s], [op |-> "count", ssrc |-> s, user |-> u],
            [op |-> "route", ssrc |-> s]>>]
    /\ UNCHANGED <<source, assigned, perSource, history>>

NoteSender ==
    /\ Doing("udp", "sender")
    /\ sender' = sender \cup {Job("udp").ssrc}
    /\ Continue("udp", <<>>)
    /\ UNCHANGED <<source, assigned, router, traffic, reports, pli, cooling, remb, estimate, history>>

Count ==
    /\ Doing("udp", "count")
    /\ LET u == Job("udp").user
           n == IF traffic[u] = -1 THEN 1 ELSE traffic[u] + 1
       IN traffic' = [traffic EXCEPT ![u] = IF n > MaxPackets THEN MaxPackets ELSE n]
    /\ Continue("udp", <<>>)
    /\ UNCHANGED <<source, assigned, router, sender, reports, pli, cooling, remb, estimate, history>>

Route ==
    /\ Doing("udp", "route")
    /\ seen' = IF Job("udp").ssrc \in router THEN seen \cup {Job("udp").ssrc} ELSE seen
    /\ Continue("udp", <<>>)
    /\ UNCHANGED <<source, assigned, perSource, unserved, raced>>

\* A sender report; the answer to it is left out.
SenderReport(u) ==
    /\ Free("udp") /\ source[u] # 0
    /\ calls' = [calls EXCEPT !["udp"] = <<[op |-> "report", ssrc |-> source[u]]>>]
    /\ UNCHANGED <<source, assigned, perSource, history>>

NoteReport ==
    /\ Doing("udp", "report")
    /\ reports' = reports \cup {Job("udp").ssrc}
    /\ Continue("udp", <<>>)
    /\ UNCHANGED <<source, assigned, router, sender, traffic, pli, cooling, remb, estimate, history>>

\* A receiver report makes the counters if there are none; the publisher is
\* looked up under the lock of the counters.
ReceptionReport(u) ==
    /\ Free("udp") /\ source[u] # 0
    /\ traffic' = [traffic EXCEPT ![u] = IF @ = -1 THEN 0 ELSE @]
    /\ UNCHANGED <<source, assigned, router, sender, reports, pli, cooling, remb, estimate, calls, history>>

\* A PLI of a subscriber who has got the stream.  ShouldForwardPli notes the
\* time before it is known whether the PLI can be sent.
Pli(s) ==
    /\ Free("udp") /\ s \in seen \cap Live
    /\ calls' = [calls EXCEPT !["udp"] = <<[op |-> "pli", ssrc |-> s]>>]
    /\ UNCHANGED <<source, assigned, perSource, history>>

ShouldForwardPli ==
    /\ Doing("udp", "pli")
    /\ LET s == Job("udp").ssrc IN
       IF s \in cooling
       THEN Continue("udp", <<>>) /\ UNCHANGED <<pli, cooling>>
       ELSE /\ pli' = pli \cup {s}
            /\ cooling' = cooling \cup {s}
            /\ Continue("udp", <<[op |-> "sendPli", ssrc |-> s]>>)
    /\ UNCHANGED <<source, assigned, router, sender, traffic, reports, remb, estimate, history>>

SendPli ==
    /\ Doing("udp", "sendPli")
    /\ LET s == Job("udp").ssrc
       IN unserved' = IF s \in sender THEN unserved \ {s} ELSE unserved \cup {s}
    /\ Continue("udp", <<>>)
    /\ UNCHANGED <<source, assigned, perSource, seen, raced>>

\* A REMB of a subscriber: ResolvePublisherEndpoint, then the least of the
\* rates that are not too old is sent on (SelectAggregatedRembForSource).
Remb(s, r) ==
    /\ Free("udp") /\ s \in seen \cap Live \cap sender
    /\ calls' = [calls EXCEPT !["udp"] = <<[op |-> "remb", ssrc |-> s, from |-> r]>>]
    /\ UNCHANGED <<source, assigned, perSource, history>>

Aggregate(old) ==
    /\ Doing("udp", "remb")
    /\ old \subseteq remb[Job("udp").ssrc]
    /\ remb' = [remb EXCEPT ![Job("udp").ssrc] = (@ \ old) \cup {Job("udp").from}]
    /\ Continue("udp", <<>>)
    /\ UNCHANGED <<source, assigned, router, sender, traffic, reports, pli, cooling, estimate, history>>

-----------------------------------------------------------------------------
(* The reporter thread: SnapshotPublisherTraffic, SendEstimatedRembToPublisher *)

\* Counters of those who no longer publish are dropped.
Snapshot ==
    /\ Free("reporter")
    /\ traffic' = [u \in Publishing |-> IF source[u] = 0 THEN -1 ELSE traffic[u]]
    /\ LET list == SetToSeq({u \in Publishing : traffic'[u] # -1})
       IN calls' = [calls EXCEPT !["reporter"] =
             [i \in DOMAIN list |-> [op |-> "resolve", ssrc |-> 0, user |-> list[i]]]]
    /\ UNCHANGED <<source, assigned, router, sender, reports, pli, cooling, remb, estimate, history>>

Resolve ==
    /\ Doing("reporter", "resolve")
    /\ LET s == source[Job("reporter").user] IN
       Continue("reporter",
          IF s \in sender THEN <<[op |-> "estimate", ssrc |-> s]>> ELSE <<>>)
    /\ UNCHANGED <<source, assigned, perSource, history>>

\* Sent or, when one of about the rate was just sent, not.
Estimate ==
    /\ Doing("reporter", "estimate")
    /\ estimate' = estimate \cup {Job("reporter").ssrc}
    /\ Continue("reporter", <<>>)
    /\ UNCHANGED <<source, assigned, router, sender, traffic, reports, pli, cooling, remb, history>>

-----------------------------------------------------------------------------
CoolDown(s) ==
    /\ s \in cooling
    /\ cooling' = cooling \ {s}
    /\ UNCHANGED <<source, assigned, router, sender, traffic, reports, pli, remb, estimate,
                   calls, history>>

TrafficRpc ==
    \/ \E u \in Publishing : Unpublish(u) \/ \E s \in TrafficSsrcs : Publish(u, s)
    \/ Register \/ Unroute \/ Unsender \/ Unpli \/ Unremb \/ Untraffic

TrafficUdp ==
    \/ \E u \in Publishing : Packet(u) \/ SenderReport(u) \/ ReceptionReport(u)
    \/ NoteSender \/ Count \/ Route \/ NoteReport \/ ShouldForwardPli \/ SendPli
    \/ \E s \in TrafficSsrcs : Pli(s) \/ \E r \in Receivers : Remb(s, r)
    \/ \E old \in SUBSET Receivers : Aggregate(old)

TrafficReporter == Snapshot \/ Resolve \/ Estimate

TrafficNext == TrafficRpc \/ TrafficUdp \/ TrafficReporter \/ \E s \in TrafficSsrcs : CoolDown(s)

-----------------------------------------------------------------------------
(* Properties *)

TrafficTypeOK ==
    /\ source \in [Publishing -> TrafficSsrcs \cup {0}]
    /\ traffic \in [Publishing -> -1..MaxPackets]
    /\ router \cup sender \cup reports \cup seen \cup raced \subseteq TrafficSsrcs
    /\ cooling \subseteq pli /\ pli \cup estimate \cup unserved \subseteq TrafficSsrcs
    /\ remb \in [TrafficSsrcs -> SUBSET Receivers]

\* What is kept of a source goes when its publisher is removed or gets another
\* SSRC, except for sources the UDP thread or the reporter was using then.
LeftoverOnlyRaced ==
    Free("rpc") =>
       \A s \in TrafficSsrcs \ (Live \cup raced) :
          s \notin router \cup sender \cup pli \cup estimate /\ remb[s] = {}

\* A PLI about a stream is held back only when its publisher was sent one
\* within the cooldown.
HeldBackIsServed == unserved \cap cooling \cap Live = {}
=============================================================================
