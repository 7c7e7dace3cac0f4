---------------------------- MODULE MediaRoutes ----------------------------
(* How an SFU keeps the forwarding routes of one room: Room, RtpRouter,      *)
(* TransportRegistry and the binding and refreshing of routes in             *)
(* server/MediaIngress.cpp.  Two threads do it.  The RPC thread serves one   *)
(* call of the signaling server after the other; the UDP thread handles the  *)
(* STUN binding requests that tell where a client is.  Locks cover a map     *)
(* operation each, so the threads interleave between them.                   *)
(*                                                                           *)
(* A client has a socket and a transport for each kind of media ("av"        *)
(* transports are not set up by the client of this repository).  SSRCs are   *)
(* random in the code; here they are drawn in order, and so do not collide.  *)
(* A subscriber gets a stream under an SSRC the SFU chose, and complains     *)
(* (NACK, PLI, REMB) of that one: feedbackRoutes_ leads back to the source.  *)
(* What else the same functions keep per source is in MediaTraffic.  A route *)
(* entry without targets is not told from no entry.                          *)
EXTENDS Integers, Sequences, FiniteSets, Functions

CONSTANTS
    Users,          \* participants
    Limits,         \* limits a room may have, at least 1 (CreateRoom refuses 0)
    MaxSsrc,        \* bound: transports set up, each with an SSRC of its own
    None            \* no address, no subscriber

ASSUME MediaRoutesAssumption ==
    IsFiniteSet(Users) /\ Limits \subseteq Nat \ {0} /\ MaxSsrc \in Nat

Kinds == {"audio", "video"}
Threads == {"rpc", "udp"}
Ssrcs == 1..MaxSsrc
Addresses == Users \X Kinds

VARIABLES
    room,       \* "none", "open" or "gone"
    limit,      \* maxPublishers_
    pub,        \* publishers_: per user and kind, an SSRC or 0
    sub,        \* subscribers_: per user, address and SSRC per kind, or None
    tr,         \* transports_: per user and kind, how far it is
    drawn,      \* number of SSRCs drawn (also when none is used)
    routes,     \* RtpRouter: per source, targets (a target that is there twice is numbered)
    feedback,   \* feedbackRoutes_: per address and SSRC, the source
    work,       \* per thread: what is left of its call
    ptr,        \* the UDP thread's subscriber, None when it has been replaced
    dirty,      \* history: per thread, the other one has interfered
    stale       \* history: sources whose last refresh met interference

vars == <<room, limit, pub, sub, tr, drawn, routes, feedback, work, ptr, dirty, stale>>
members == <<room, limit, pub, sub, ptr>>

\* The SSRCs streams are sent under: assigned ones, and the hashes of
\* MakeRouteRewriteSsrc, taken to differ from each other and from those.
Assigned(s) == <<None, s>>
Hashed(u, s) == <<u, s>>
Rewrites == {Assigned(s) : s \in Ssrcs} \cup {Hashed(u, s) : u \in Users, s \in Ssrcs}
Targets == [to : Addresses, as : Rewrites, copy : Nat]

NoRoutes == {}
NoSubscriber == [address |-> [k \in Kinds |-> None], ssrc |-> [k \in Kinds |-> 0]]

Init ==
    /\ room = "none"
    /\ limit \in Limits
    /\ pub = [u \in Users |-> [k \in Kinds |-> 0]]
    /\ sub = [u \in Users |-> None]
    /\ tr = [u \in Users |-> [k \in Kinds |-> "none"]]
    /\ drawn = 0
    /\ routes = [s \in Ssrcs |-> NoRoutes]
    /\ feedback = {}
    /\ work = [t \in Threads |-> <<>>]
    /\ ptr = None
    /\ dirty = [t \in Threads |-> FALSE]
    /\ stale = {}

-----------------------------------------------------------------------------
(* What a thread has to do is a sequence of steps; a step may put others in  *)
(* front of the rest.                                                        *)

Idle(t) == work[t] = <<>>
At(t, op) == ~Idle(t) /\ Head(work[t]).op = op
Arg(t) == Head(work[t])
Then(t, steps) == work' = [work EXCEPT ![t] = steps \o Tail(@)]
Other(t) == IF t = "rpc" THEN "udp" ELSE "rpc"
Refreshing(t) == \E op \in {"forget", "clear", "list", "add", "note"} : At(t, op)
Interfere(t) == dirty' = [dirty EXCEPT ![Other(t)] = Refreshing(Other(t))]

Subscribers == {u \in Users : sub[u] # None}
Publishers == {u \in Users : \E k \in Kinds : pub[u][k] # 0}
Sources == {pub[u][k] : u \in Publishers, k \in Kinds} \ {0}
Orders(S) == Bijection(1..Cardinality(S), S) \cap Seq(S)
RefreshRoom == [op |-> "refreshRoom"]
RoutesOff(s) == IF s = 0 THEN <<>> ELSE <<[op |-> "removeRoutes", ssrc |-> s]>>

\* Where a subscriber gets media of a kind: at the address of that kind, else
\* at the other one.
Target(address, k) ==
    LET other == CHOOSE j \in Kinds : j # k
    IN IF address[k] # None THEN address[k] ELSE address[other]

MutantRewritten(u, s, k, many) ==
    IF sub[u].ssrc[k] = 0 THEN Assigned(s) ELSE Assigned(sub[u].ssrc[k])

\* The SSRC under which u gets source s: that of u's own stream of the kind, if
\* any, unless several users publish the kind.
Rewritten(u, s, k, many) ==
    CASE sub[u].ssrc[k] = 0 -> Assigned(s)
      [] sub[u].ssrc[k] # 0 /\ many -> Hashed(u, s)
      [] OTHER -> Assigned(sub[u].ssrc[k])

-----------------------------------------------------------------------------
(* RefreshRoomRoutes, RefreshPublisherRoutes: both threads *)

\* Order: any, the maps are hashed.
DoRefreshRoom(t) ==
    /\ At(t, "refreshRoom")
    /\ \E list \in Orders(IF room = "open" THEN Sources ELSE {}) :
          Then(t, [i \in DOMAIN list |-> [op |-> "lookup", ssrc |-> list[i]]])
    /\ UNCHANGED <<members, tr, drawn, routes, feedback, dirty, stale>>

\* The source's user and kind, whether the user's own stream is skipped, and
\* whether several publish the kind.  A source that is not found counts as
\* audio of nobody.
Lookup(t) ==
    /\ At(t, "lookup")
    /\ LET s == Arg(t).ssrc
           k == IF \E u \in Users : pub[u]["video"] = s THEN "video" ELSE "audio"
           self == {u \in Users : Cardinality(Subscribers) > 1
                                  /\ \E j \in Kinds : pub[u][j] = s}
       IN IF room = "open"
          THEN Then(t, <<[op |-> "forget", ssrc |-> s, skip |-> self, kind |-> k,
                          many |-> Cardinality({u \in Users : pub[u][k] # 0}) > 1]>>)
          ELSE Then(t, <<>>)
    /\ dirty' = [dirty EXCEPT ![t] = Arg(t).ssrc \notin Sources]
    /\ UNCHANGED <<members, tr, drawn, routes, feedback, stale>>

Forget(t) ==
    /\ At(t, "forget")
    /\ feedback' = {f \in feedback : f.source # Arg(t).ssrc}
    /\ Then(t, <<[Arg(t) EXCEPT !.op = "clear"]>>)
    /\ Interfere(t)
    /\ UNCHANGED <<members, tr, drawn, routes, stale>>

\* RemoveSubscribers
Clear(t) ==
    /\ At(t, "clear")
    /\ routes' = [routes EXCEPT ![Arg(t).ssrc] = NoRoutes]
    /\ Then(t, <<[Arg(t) EXCEPT !.op = "list"]>>)
    /\ Interfere(t)
    /\ UNCHANGED <<members, tr, drawn, feedback, stale>>

\* SnapshotSubscribers; those without an address are passed over.
List(t) ==
    /\ At(t, "list")
    /\ LET s == Arg(t).ssrc
           k == Arg(t).kind
           to == {u \in Subscribers \ Arg(t).skip : Target(sub[u].address, k) # None}
           add(u) == [op |-> "add", ssrc |-> s, to |-> Target(sub[u].address, k),
                      as |-> Rewritten(u, s, k, Arg(t).many)]
       IN \E list \in Orders(to) :
             Then(t, [i \in DOMAIN list |-> add(list[i])])
    /\ stale' = IF dirty[t] THEN stale \cup {Arg(t).ssrc} ELSE stale \ {Arg(t).ssrc}
    /\ UNCHANGED <<members, tr, drawn, routes, feedback, dirty>>

\* RtpRouter::AddSubscriber makes the entry of the source if there is none.
Add(t) ==
    /\ At(t, "add")
    /\ LET same == {r \in routes[Arg(t).ssrc] : r.to = Arg(t).to /\ r.as = Arg(t).as}
       IN routes' = [routes EXCEPT ![Arg(t).ssrc] =
                        @ \cup {[to |-> Arg(t).to, as |-> Arg(t).as, copy |-> Cardinality(same)]}]
    /\ stale' = IF dirty[t] THEN stale \cup {Arg(t).ssrc} ELSE stale
    /\ Then(t, <<[Arg(t) EXCEPT !.op = "note"]>>)
    /\ Interfere(t)
    /\ UNCHANGED <<members, tr, drawn, feedback>>

Note(t) ==
    /\ At(t, "note")
    /\ feedback' = {f \in feedback : ~(f.at = Arg(t).to /\ f.as = Arg(t).as)}
                   \cup {[at |-> Arg(t).to, as |-> Arg(t).as, source |-> Arg(t).ssrc]}
    /\ stale' = IF dirty[t] THEN stale \cup {Arg(t).ssrc} ELSE stale
    /\ Then(t, <<>>)
    /\ Interfere(t)
    /\ UNCHANGED <<members, tr, drawn, routes>>

-----------------------------------------------------------------------------
(* The RPC thread *)

CreateRoom ==
    /\ Idle("rpc") /\ room = "none"
    /\ room' = "open"
    /\ UNCHANGED <<limit, pub, sub, ptr, tr, drawn, routes, feedback, work, dirty, stale>>

\* Routes, transports and what is kept per source stay behind.
DestroyRoom ==
    /\ Idle("rpc") /\ room = "open"
    /\ room' = "gone"
    /\ pub' = [u \in Users |-> [k \in Kinds |-> 0]]
    /\ sub' = [u \in Users |-> None]
    /\ ptr' = None
    /\ Interfere("rpc")
    /\ UNCHANGED <<limit, tr, drawn, routes, feedback, work, stale>>

\* SetupTransport; a transport that publishes nothing is of kind audio.
SetupTransport(u, k, publish) ==
    /\ Idle("rpc") /\ room = "open"
    /\ drawn < MaxSsrc
    /\ LET s == drawn + 1
           get == [op |-> "getSubscriber", user |-> u, kind |-> k, ssrc |-> IF publish THEN s ELSE 0]
       IN /\ drawn' = s
          /\ tr' = [tr EXCEPT ![u][k] = "new"]
          /\ work' = [work EXCEPT !["rpc"] =
                IF publish THEN <<get, [op |-> "bindPublisher", user |-> u, kind |-> k, ssrc |-> s]>>
                ELSE <<get, [op |-> "answer", user |-> u, kind |-> k]>>]
    /\ UNCHANGED <<members, routes, feedback, dirty, stale>>

\* BindSubscriber copies what is known of the subscriber it replaces.
GetSubscriber ==
    /\ At("rpc", "getSubscriber")
    /\ LET u == Arg("rpc").user
           old == IF sub[u] = None THEN NoSubscriber ELSE sub[u]
           new == IF Arg("rpc").ssrc = 0 THEN old
                  ELSE [old EXCEPT !.ssrc[Arg("rpc").kind] = Arg("rpc").ssrc]
       IN Then("rpc", <<[op |-> "addSubscriber", user |-> u, new |-> new], RefreshRoom>>)
    /\ UNCHANGED <<members, tr, drawn, routes, feedback, dirty, stale>>

AddSubscriber ==
    /\ At("rpc", "addSubscriber")
    /\ sub' = [sub EXCEPT ![Arg("rpc").user] = Arg("rpc").new]
    /\ ptr' = IF ptr = Arg("rpc").user THEN None ELSE ptr
    /\ Then("rpc", <<>>)
    /\ Interfere("rpc")
    /\ UNCHANGED <<room, limit, pub, tr, drawn, routes, feedback, stale>>

MutantBindPublisher ==
    /\ At("rpc", "bindPublisher")
    /\ LET u == Arg("rpc").user
           k == Arg("rpc").kind
           s == Arg("rpc").ssrc
       IN IF u \in Publishers \/ Cardinality(Publishers) < limit
          THEN /\ pub' = [pub EXCEPT ![u][k] = s]
               /\ Then("rpc", <<RefreshRoom, [op |-> "answer", user |-> u, kind |-> k]>>)
               /\ Interfere("rpc")
          ELSE Then("rpc", <<>>) /\ UNCHANGED <<pub, dirty>>
    /\ UNCHANGED <<room, limit, sub, ptr, tr, drawn, routes, feedback, stale>>

\* BindPublisher; when the room is full the call ends here.
BindPublisher ==
    /\ At("rpc", "bindPublisher")
    /\ LET u == Arg("rpc").user
           k == Arg("rpc").kind
           s == Arg("rpc").ssrc
           old == pub[u][k]
       IN IF u \in Publishers \/ Cardinality(Publishers) < limit
          THEN /\ pub' = [pub EXCEPT ![u][k] = s]
               /\ Then("rpc", RoutesOff(old) \o <<RefreshRoom, [op |-> "answer", user |-> u, kind |-> k]>>)
               /\ Interfere("rpc")
          ELSE Then("rpc", <<>>) /\ UNCHANGED <<pub, dirty>>
    /\ UNCHANGED <<room, limit, sub, ptr, tr, drawn, routes, feedback, stale>>

\* The answer tells the client where and as whom to send STUN requests.
Answer ==
    /\ At("rpc", "answer")
    /\ tr' = [tr EXCEPT ![Arg("rpc").user][Arg("rpc").kind] = "answered"]
    /\ Then("rpc", <<>>)
    /\ UNCHANGED <<members, drawn, routes, feedback, dirty, stale>>

\* RemovePublisherRoutes: RemoveSubscribers, UnregisterPublisher.
RemoveRoutes ==
    /\ At("rpc", "removeRoutes")
    /\ routes' = [routes EXCEPT ![Arg("rpc").ssrc] = NoRoutes]
    /\ Then("rpc", <<[Arg("rpc") EXCEPT !.op = "removeFeedback"]>>)
    /\ Interfere("rpc")
    /\ UNCHANGED <<members, tr, drawn, feedback, stale>>

RemoveFeedback ==
    /\ At("rpc", "removeFeedback")
    /\ feedback' = {f \in feedback : f.source # Arg("rpc").ssrc}
    /\ Then("rpc", <<>>)
    /\ Interfere("rpc")
    /\ UNCHANGED <<members, tr, drawn, routes, stale>>

\* CloseTransport; the RPCs RemoveSubscriber and RemovePublisher, which the
\* signaling server calls next, find nothing left to do.
CloseTransport(u) ==
    /\ Idle("rpc") /\ room = "open"
    /\ tr' = [tr EXCEPT ![u] = [k \in Kinds |-> "none"]]
    /\ work' = [work EXCEPT !["rpc"] = <<[op |-> "removeSubscriber", user |-> u],
                                         [op |-> "removePublisher", user |-> u]>>]
    /\ UNCHANGED <<members, drawn, routes, feedback, dirty, stale>>

RemoveSubscriber ==
    /\ At("rpc", "removeSubscriber")
    /\ LET u == Arg("rpc").user IN
       /\ sub' = [sub EXCEPT ![u] = None]
       /\ ptr' = IF ptr = u THEN None ELSE ptr
       /\ Then("rpc", IF sub[u] = None THEN <<>> ELSE <<RefreshRoom>>)
       /\ IF sub[u] = None THEN UNCHANGED dirty ELSE Interfere("rpc")
    /\ UNCHANGED <<room, limit, pub, tr, drawn, routes, feedback, stale>>

RemovePublisher ==
    /\ At("rpc", "removePublisher")
    /\ LET u == Arg("rpc").user
       IN /\ pub' = [pub EXCEPT ![u] = [k \in Kinds |-> 0]]
          /\ Then("rpc", RoutesOff(pub[u]["audio"]) \o RoutesOff(pub[u]["video"]))
          /\ IF u \in Publishers THEN Interfere("rpc") ELSE UNCHANGED dirty
    /\ UNCHANGED <<room, limit, sub, ptr, tr, drawn, routes, feedback, stale>>

-----------------------------------------------------------------------------
(* The UDP thread: HandleStunPacket *)

\* SelectEndpointForUsername
Stun(u, k) ==
    /\ Idle("udp") /\ tr[u][k] \in {"answered", "selected"}
    /\ tr' = [tr EXCEPT ![u][k] = "selected"]
    /\ work' = [work EXCEPT !["udp"] = <<[op |-> "find", user |-> u, kind |-> k]>>]
    /\ UNCHANGED <<members, drawn, routes, feedback, dirty, stale>>

\* GetRoomShared, GetSubscriber
Find ==
    /\ At("udp", "find")
    /\ LET u == Arg("udp").user IN
       IF room = "open" /\ sub[u] # None
       THEN ptr' = u /\ Then("udp", <<[Arg("udp") EXCEPT !.op = "set"], RefreshRoom>>)
       ELSE ptr' = None /\ Then("udp", <<>>)
    /\ UNCHANGED <<room, limit, pub, sub, tr, drawn, routes, feedback, dirty, stale>>

MutantSet ==
    /\ At("udp", "set")
    /\ sub' = IF ptr = None THEN sub
              ELSE [sub EXCEPT ![ptr].address[Arg("udp").kind] = <<ptr, Arg("udp").kind>>]
    /\ ptr' = None
    /\ work' = [work EXCEPT !["udp"] = <<>>]
    /\ Interfere("udp")
    /\ UNCHANGED <<room, limit, pub, tr, drawn, routes, feedback, stale>>

\* SetAudioEndpoint, SetVideoEndpoint: lost when the subscriber was replaced.
Set ==
    /\ At("udp", "set")
    /\ sub' = IF ptr = None THEN sub
              ELSE [sub EXCEPT ![ptr].address[Arg("udp").kind] = <<ptr, Arg("udp").kind>>]
    /\ ptr' = None
    /\ Then("udp", <<>>)
    /\ Interfere("udp")
    /\ UNCHANGED <<room, limit, pub, tr, drawn, routes, feedback, stale>>

-----------------------------------------------------------------------------
Rpc ==
    \/ CreateRoom \/ DestroyRoom
    \/ \E u \in Users :
          \/ SetupTransport(u, "audio", TRUE)
          \/ SetupTransport(u, "audio", FALSE)
          \/ SetupTransport(u, "video", TRUE)
          \/ CloseTransport(u)
    \/ GetSubscriber \/ AddSubscriber \/ BindPublisher \/ Answer
    \/ RemoveRoutes \/ RemoveFeedback \/ RemoveSubscriber \/ RemovePublisher

Udp == \/ \E u \in Users, k \in Kinds : Stun(u, k)
       \/ Find \/ Set

Refresh(t) ==
    DoRefreshRoom(t) \/ Lookup(t) \/ Forget(t) \/ Clear(t) \/ List(t) \/ Add(t) \/ Note(t)

Next == Rpc \/ Udp \/ \E t \in Threads : Refresh(t)

Spec == Init /\ [][Next]_vars

-----------------------------------------------------------------------------
(* Properties *)

TypeOK ==
    /\ room \in {"none", "open", "gone"} /\ limit \in Limits
    /\ pub \in [Users -> [Kinds -> 0..MaxSsrc]]
    /\ sub \in [Users -> [address : [Kinds -> Addresses \cup {None}],
                         ssrc : [Kinds -> 0..MaxSsrc]] \cup {None}]
    /\ tr \in [Users -> [Kinds -> {"none", "new", "answered", "selected"}]]
    /\ DOMAIN routes = Ssrcs /\ \A s \in Ssrcs : routes[s] \subseteq Targets
    /\ feedback \subseteq [at : Addresses, as : Rewrites, source : Ssrcs]
    /\ \A f, g \in feedback : f.at = g.at /\ f.as = g.as => f = g
    /\ ptr \in Users \cup {None}
    /\ dirty \in [Threads -> BOOLEAN]
    /\ stale \subseteq Ssrcs
    /\ Cardinality(Publishers) <= limit

Quiet == \A t \in Threads : Idle(t)

\* Where a source of kind k and user o ought to go.
Expected(o, k) ==
    LET to == {u \in Subscribers : ~(u = o /\ Cardinality(Subscribers) > 1)}
    IN {Target(sub[u].address, k) : u \in to} \ {None}

\* A source goes to these addresses, to each of them once.
GoesOnceTo(s, addresses) ==
    /\ {r.to : r \in routes[s]} = addresses
    /\ \A r, q \in routes[s] : r.to = q.to => r = q

\* Between calls every published stream goes once to every other subscriber
\* whose address is known, and to nobody else (a user who is alone hears
\* themselves); except for streams whose last refresh was interfered with by
\* the other thread.
RoutesAgree ==
    Quiet => \A u \in Publishers, k \in Kinds :
                pub[u][k] \notin stale \cup {0} => GoesOnceTo(pub[u][k], Expected(u, k))

\* Between calls, only sources of publishers have targets, unless a refresh
\* met the removal of its source, or the room is gone.
NoOrphanRoutes ==
    Quiet /\ room = "open" =>
       \A s \in Ssrcs \ (Sources \cup stale) : routes[s] = NoRoutes

\* ResolveNackSourceSsrc
ResolveNackSource(a, ssrc) ==
    IF \E s \in Sources : ssrc = Assigned(s) THEN {ssrc[2]}
    ELSE {f.source : f \in {g \in feedback : g.at = a /\ g.as = ssrc}}

\* Between calls, what a subscriber says of a stream under the SSRC it gets it
\* under reaches the publisher of that stream; unless a refresh was interfered
\* with.  (The SSRC may be that of the subscriber's own stream.)
FeedbackReachesSource ==
    Quiet /\ stale = {} =>
       \A s \in Sources : \A r \in routes[s] :
          ResolveNackSource(r.to, r.as) = {s}
=============================================================================
