------------------------- MODULE MCSessionRegistry -------------------------
(* The sessions of a node, and the presence record of a user, for TLC, side  *)
(* by side: a behaviour is one of SessionRegistry or one of Presence.        *)
(* Three connections of one user, so that a login displaces another one      *)
(* while a third races with both; a user who connects to two nodes, one of   *)
(* which may crash, with sessions numbered from 1 in each process.           *)
EXTENDS SessionRegistry, Naturals, TLC

CONSTANTS s1, s2, s3, u1, n1, n2, None

MCSessions == {s1, s2, s3}
OneUser == {u1}

MCNodes == {n1, n2}
MCCrashing == {n1}
TwoSessions == {s1, s3}
MCNode == (s1 :> n1) @@ (s3 :> n2)
PerProcess == (s1 :> 1) @@ (s3 :> 1)

VARIABLES
    part,       \* "sessions" or "presence"
    reader, ended, reaped, existing, bound, presence, bus, crashed, seen

Presence == INSTANCE Presence
            WITH Sessions <- TwoSessions, Nodes <- MCNodes, Crashing <- MCCrashing, Node <- MCNode,
                 Id <- PerProcess, pc <- reader, closed <- ended

presenceVars == <<reader, ended, reaped, existing, bound, presence, bus, crashed, seen>>

MCInit == part \in {"sessions", "presence"} /\ Init /\ Presence!Init

MCNext ==
    /\ UNCHANGED part
    /\ IF part = "sessions" THEN Next ELSE UNCHANGED vars
    /\ IF part = "presence" THEN Presence!Next ELSE UNCHANGED presenceVars

\* The fairness of SessionRegistry and of Presence.
MCSpec ==
    /\ MCInit /\ [][MCNext]_<<part, vars, presenceVars>>
    /\ \A s \in MCSessions :
          /\ WF_vars(part = "sessions" /\ Reader(s))
          /\ WF_vars(part = "sessions" /\ Remove(s))
    /\ \A s \in TwoSessions :
          /\ WF_presenceVars(part = "presence" /\ (Presence!Reader(s) \/ Presence!HandleHeartbeat(s)))
          /\ WF_presenceVars(part = "presence" /\ Presence!OnSessionClosed(s))
          /\ SF_presenceVars(part = "presence" /\ Presence!Heartbeat(s) /\ Presence!Upsert(s))

\* The property of Presence.
PresenceConverges == Presence!PresenceConverges
=============================================================================
