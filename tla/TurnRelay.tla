----------------------------- MODULE TurnRelay -----------------------------
(* How the client sets up a relay on the TURN server: configureTurnRelay and *)
(* the sends of net/media/UdpPeerSocket.h, the messages of                   *)
(* net/ice/TurnClient.cpp, as MeetingController uses them.                   *)
(*                                                                           *)
(* The interface thread sends a request, then takes datagrams from the       *)
(* socket's queue until the answer is among them; the receiver takes them    *)
(* when no set-up is on.  Requests and answers are lost, late, repeated and  *)
(* reordered.                                                                *)
EXTENDS Integers, Sequences, FiniteSets

CONSTANTS
    Sfus,         \* media addresses of SFU nodes
    NoSfu,
    Attempts,     \* unauthenticated Allocate requests of a set-up, 3 in the code
    MaxSetups,    \* bound: relay set-ups
    MaxTold,      \* bound: answers of the TURN server that are on their way
    MaxPending    \* bound: datagrams queued in the socket

VARIABLES
    stage,        \* interface thread: request whose answer it waits for
    setup,        \* configureTurnRelay: logicalPeer, attempt
    setups,       \* set-ups begun
    sockPeer,     \* m_peer, NoSfu when ~m_peerValid
    relayed,      \* peer of m_turnRelay, NoSfu when not enabled
    pending,      \* m_pendingDatagrams
    told,         \* answers of the TURN server that are on their way
    allocated,    \* TURN server: the client's address has an allocation
    permitted     \* TURN server: peers admitted since the allocation was made

sockVars == <<sockPeer, relayed, pending>>
turnVars == <<told, allocated, permitted>>
trVars == <<stage, setup, setups, sockVars, turnVars>>

NoSetup == [peer |-> NoSfu, attempt |-> 0]
Media == [kind |-> "media", tx |-> <<>>]

TrInit ==
    /\ stage = "idle" /\ setup = NoSetup /\ setups = 0
    /\ sockPeer = NoSfu /\ relayed = NoSfu /\ pending = <<>>
    /\ told = {} /\ allocated = FALSE /\ permitted = {}

-----------------------------------------------------------------------------
(* The TURN server *)

\* It asks for credentials, may find them stale, and makes one allocation for
\* an address.
Answers(op) ==
    CASE op = "challenge" -> {"challenge"}
      [] op = "allocate" -> {"challenge", IF allocated THEN "mismatch" ELSE "allocated"}
      [] op = "permit" -> {IF allocated THEN "permitted" ELSE "mismatch"}

\* What happens to a request and its answer: one of them is lost, or the
\* answer, and others before it, are on their way.
ServeTurn(op, p, tx) ==
    \/ UNCHANGED turnVars
    \/ \E kind \in Answers(op), kept \in SUBSET told :
        /\ Cardinality(kept) < MaxTold
        /\ told' \in {told, kept \cup {[kind |-> kind, tx |-> tx]}}
        /\ allocated' = (allocated \/ kind = "allocated")
        /\ permitted' = IF kind = "permitted" THEN permitted \cup {p} ELSE permitted

\* The client never refreshes its allocation.
Expire ==
    /\ allocated
    /\ allocated' = FALSE /\ permitted' = {}
    /\ UNCHANGED <<stage, setup, setups, sockVars, told>>

-----------------------------------------------------------------------------
(* The interface thread *)

\* AudioCallSession::setPeer
TrSetPeer(p) ==
    /\ stage = "idle"
    /\ sockPeer' = p
    /\ relayed' = NoSfu
    /\ UNCHANGED <<stage, setup, setups, pending, turnVars>>

\* A request with a new transaction, named after its place.
Ask(op, p, attempt) ==
    /\ stage' = op
    /\ setup' = [peer |-> p, attempt |-> attempt]
    /\ ServeTurn(op, p, <<setups', op, attempt>>)

\* configureTurnRelay, up to the first Allocate request
Configure(p) ==
    /\ stage = "idle" /\ setups < MaxSetups
    /\ setups' = setups + 1
    /\ Ask("challenge", p, 1)
    /\ UNCHANGED sockVars

\* The set-up is over, successful or not.
SetupOver ==
    /\ stage' = "idle" /\ setup' = NoSetup
    /\ UNCHANGED turnVars

\* turnTransactionMatches
MutantMatches(d) == d # Media

Matches(d) == d.tx = <<setups, stage, setup.attempt>>

\* waitForTurnAllocateResponse for the first request: a challenge, with which
\* the request is made again.
ReadChallenge(d) ==
    IF Matches(d) /\ d.kind = "challenge" THEN Ask("allocate", setup.peer, setup.attempt)
    ELSE UNCHANGED <<stage, setup, turnVars>>

\* waitForTurnAllocateResponse for the authenticated request: another challenge
\* ends the set-up, other errors do not end the wait.
ReadAllocated(d) ==
    CASE Matches(d) /\ d.kind = "allocated" -> Ask("permit", setup.peer, setup.attempt)
      [] Matches(d) /\ d.kind = "challenge" -> SetupOver
      [] OTHER -> UNCHANGED <<stage, setup, turnVars>>

\* waitForTurnCreatePermissionResponse, and what follows it
ReadPermitted(d) ==
    IF Matches(d) /\ d.kind = "permitted" THEN SetupOver ELSE UNCHANGED <<stage, setup, turnVars>>

\* waitForRawDatagram: what does not answer the request is dropped, be it media.
SetupRead ==
    /\ stage # "idle" /\ pending # <<>>
    /\ pending' = Tail(pending)
    /\ UNCHANGED setups
    /\ LET d == Head(pending)
           done == stage = "permit" /\ Matches(d) /\ d.kind = "permitted"
       IN  /\ CASE stage = "challenge" -> ReadChallenge(d)
                [] stage = "allocate" -> ReadAllocated(d)
                [] stage = "permit" -> ReadPermitted(d)
           /\ sockPeer' = IF done THEN setup.peer ELSE sockPeer
           /\ relayed' = IF done THEN setup.peer ELSE relayed

\* No answer in time: the first request is repeated, the others are not.
SetupTimeout ==
    /\ stage # "idle"
    /\ UNCHANGED <<setups, sockVars>>
    /\ IF stage = "challenge" /\ setup.attempt < Attempts
       THEN Ask("challenge", setup.peer, setup.attempt + 1)
       ELSE SetupOver

-----------------------------------------------------------------------------
(* The receive thread and the network *)

\* recvFrom, which takes the set-up mutex
TrRecvFrom ==
    /\ stage = "idle" /\ pending # <<>>
    /\ pending' = Tail(pending)
    /\ UNCHANGED <<stage, setup, setups, sockPeer, relayed, turnVars>>

\* enqueuePendingDatagramsFromSocket
Enqueue(d) ==
    /\ Len(pending) < MaxPending
    /\ pending' = Append(pending, d)
    /\ UNCHANGED <<stage, setup, setups, sockPeer, relayed, allocated, permitted>>

MediaArrives == Enqueue(Media) /\ UNCHANGED told

\* An answer arrives, and may arrive again.
AnswerArrives(a, again) == Enqueue(a) /\ told' = IF again THEN told ELSE told \ {a}

TrNext ==
    \/ \E p \in Sfus : TrSetPeer(p) \/ Configure(p)
    \/ SetupRead \/ SetupTimeout
    \/ TrRecvFrom \/ MediaArrives
    \/ \E a \in told, again \in BOOLEAN : AnswerArrives(a, again)
    \/ Expire

-----------------------------------------------------------------------------
(* Properties *)

TrTypeOK ==
    /\ stage \in {"idle", "challenge", "allocate", "permit"}
    /\ (setup = NoSetup) = (stage = "idle")
    /\ sockPeer \in Sfus \cup {NoSfu} /\ relayed \in {NoSfu, sockPeer}
    /\ Len(pending) <= MaxPending /\ Cardinality(told) <= MaxTold
    /\ permitted \subseteq (IF allocated THEN Sfus ELSE {})

\* When a set-up succeeds, the TURN server relays to the new peer: no answer to
\* an earlier request is taken for the answer to a later one.  The one exception
\* is an allocation that ended while the answer was on its way.
RelayGranted == relayed' # relayed /\ relayed' # NoSfu /\ allocated => relayed' \in permitted
=============================================================================
