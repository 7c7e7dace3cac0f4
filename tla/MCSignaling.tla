---------------------------- MODULE MCSignaling ----------------------------
(* The meeting handlers of a node, and logins across nodes, for TLC, side by *)
(* side: a behaviour is one of MeetingService or one of Presence.            *)
(* A host and a guest, or a user who connects twice; a user who connects     *)
(* twice to node n1, which may crash, and once to n2.                        *)
EXTENDS MeetingService, TLC

CONSTANTS s1, s2, s3, host, guest, m1, m2, n1, n2, None

MCUsers == {host, guest}
HostAndGuest == (s1 :> host) @@ (s2 :> guest)
GuestTwice == (s1 :> guest) @@ (s2 :> guest)
MCAccounts == {HostAndGuest, GuestTwice}
Twice == {GuestTwice}
TwoSessions == {s1, s2}
OneMeeting == {m1}
MCMeetings == {m1, m2}

Three == {s1, s2, s3}
MCNodes == {n1, n2}
MCCrashing == {n1}
MCNode == (s1 :> n1) @@ (s2 :> n1) @@ (s3 :> n2)
Distinct == (s1 :> 1) @@ (s2 :> 2) @@ (s3 :> 3)

VARIABLES
    part,       \* "meetings" or "presence"
    reader, ended, reaped, existing, bound, presence, bus, crashed, seen

Presence == INSTANCE Presence
            WITH Sessions <- Three, Nodes <- MCNodes, Crashing <- MCCrashing, Node <- MCNode, Id <- Distinct,
                 pc <- reader, closed <- ended

presenceVars == <<reader, ended, reaped, existing, bound, presence, bus, crashed, seen>>

SignalingInit ==
    /\ part \in {"meetings", "presence"} /\ Init /\ Presence!Init
    /\ part = "presence" => account = HostAndGuest

SignalingNext ==
    /\ UNCHANGED part
    /\ IF part = "meetings" THEN Next ELSE UNCHANGED vars
    /\ IF part = "presence" THEN Presence!Next ELSE UNCHANGED presenceVars

SignalingSpec == SignalingInit /\ [][SignalingNext]_<<part, vars, presenceVars>>

\* The sessions and the store agree whenever nothing is under way, and a
\* closer can always go on (AgreeUnlessRaced and CloserNotStuck of
\* MeetingService).
HandlersAgree ==
    /\ IF part = "meetings" THEN TypeOK ELSE Presence!TypeOK
    /\ AgreeUnlessRaced /\ CloserNotStuck

\* KickHitsOlder of Presence.
KickHitsOlder == Presence!KickHitsOlder
=============================================================================
