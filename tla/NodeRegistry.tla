---------------------------- MODULE NodeRegistry ----------------------------
(* The table of SFU nodes in Redis and how a meeting is placed on one of     *)
(* them: ReportSFUNode, RegisteredSFUNodes, EffectiveSFUNodes,               *)
(* RankedSFUNodes, quarantine and load in store/redis.go, the reports of the *)
(* SFU nodes (sfu/report_server.go), the poll (sfu/node_status_monitor.go),  *)
(* and allocateRoomRoute with what follows it in handler/meeting_handler.go. *)
(*                                                                           *)
(* A live SFU reports more often than the TTL of its entry, so entries of    *)
(* live nodes do not expire.  All signaling servers share the static list.   *)
EXTENDS Integers, Sequences, FiniteSets

CONSTANTS
    Meetings,   \* meetings that are created and ended, once each
    Nodes,      \* SFU nodes
    Order,      \* the nodes in the order of cfg.SFUNodes and of their ids
    Static,     \* nodes in cfg.SFUNodes, with their addresses; not empty
    Cap,        \* [Nodes -> Nat]: max_meetings in cfg.SFUNodes, 0 for no limit
    None,       \* no node, no answer
    Period,     \* bound of the allocation index: a multiple of every list length
    Crashing    \* bound: nodes that fail, once each

VARIABLES
    alive,      \* nodes whose process runs
    meta,       \* sfu_node_meta: "none", "full", or "blank" (no addresses)
    known,      \* the set sfu_nodes
    quarantine, \* sfu_node_quarantine
    load,       \* sfu_node_load
    seq,        \* sfu_alloc_seq, modulo Period
    rooms,      \* per node, the rooms the SFU has
    pc,         \* per meeting: what its create or its last leave is doing
    todo,       \* per meeting: ranked nodes not yet tried
    node,       \* per meeting: sfu_node_id
    poll,       \* nodes PollOnce has still to ask
    status      \* the answer to GetNodeStatus it has not stored yet

vars == <<alive, meta, known, quarantine, load, seq, rooms, pc, todo, node, poll, status>>
table == <<meta, known, quarantine, load>>
calls == <<pc, todo, node>>
monitor == <<poll, status>>

Init ==
    /\ alive = Nodes
    /\ meta = [n \in Nodes |-> "none"]
    /\ known = {}
    /\ quarantine = {}
    /\ load = [n \in Nodes |-> 0]
    /\ seq = 0
    /\ rooms = [n \in Nodes |-> {}]
    /\ pc = [m \in Meetings |-> "new"]
    /\ todo = [m \in Meetings |-> <<>>]
    /\ node = [m \in Meetings |-> None]
    /\ poll = {}
    /\ status = None

-----------------------------------------------------------------------------
(* Reading the table *)

\* RegisteredSFUNodes: an entry without addresses is skipped.
Registered == {n \in known : meta[n] = "full"}

\* EffectiveSFUNodes merges the static list and the registered nodes.
Effective == Static \cup Registered

Load(n) == IF load[n] > 0 THEN load[n] ELSE 0

\* A registered node replaces its entry of the static list, and the SFU reports
\* no limit.
MaxMeetings(n) == IF n \in Registered THEN 0 ELSE Cap[n]

UnderCapacity(n) == MaxMeetings(n) = 0 \/ Load(n) < MaxMeetings(n)

\* sfuNodePriorityTier
Tier(n) ==
    IF n \notin quarantine THEN (IF UnderCapacity(n) THEN 0 ELSE 1)
    ELSE IF UnderCapacity(n) THEN 2 ELSE 3

\* The order of EffectiveSFUNodes: the static list, then the other nodes.
Listed(nodes) ==
    SelectSeq(Order, LAMBDA n : n \in Static)
        \o SelectSeq(Order, LAMBDA n : n \in nodes \ Static)

\* The comparison of RankedSFUNodes; the rotation starts at the allocation
\* index and counts along the list.
Sooner(list, n, q) ==
    LET rank(x) == ((CHOOSE i \in DOMAIN list : list[i] = x) - 1 - seq) % Len(list) IN
    \/ Tier(n) < Tier(q)
    \/ Tier(n) = Tier(q) /\ Load(n) < Load(q)
    \/ Tier(n) = Tier(q) /\ Load(n) = Load(q) /\ rank(n) < rank(q)

\* RankedSFUNodes
Ranked(nodes) ==
    LET list == Listed(nodes)
    IN [i \in 1..Len(list) |->
           CHOOSE n \in nodes : Cardinality({q \in nodes : Sooner(list, q, n)}) = i - 1]

-----------------------------------------------------------------------------
(* Keeping the table *)

\* reportNodeStatus: ReportSFUNode with the addresses, ClearSFUNodeFailure.
Report(n) ==
    /\ n \in alive
    /\ meta' = [meta EXCEPT ![n] = "full"]
    /\ known' = known \cup {n}
    /\ load' = [load EXCEPT ![n] = Cardinality(rooms[n])]
    /\ quarantine' = quarantine \ {n}
    /\ UNCHANGED <<alive, seq, rooms, calls, monitor>>

\* PollOnce; RegisteredSFUNodes drops expired members of the set.
StartPoll ==
    /\ poll = {} /\ status = None
    /\ poll' = Effective
    /\ known' = {n \in known : meta[n] # "none"}
    /\ UNCHANGED <<alive, meta, quarantine, load, seq, rooms, calls, status>>

\* GetNodeStatus; a node that does not answer is quarantined.
AskNode(n) ==
    /\ n \in poll /\ status = None
    /\ poll' = poll \ {n}
    /\ IF n \in alive
       THEN status' = [node |-> n, count |-> Cardinality(rooms[n])] /\ UNCHANGED quarantine
       ELSE quarantine' = quarantine \cup {n} /\ UNCHANGED status
    /\ UNCHANGED <<alive, meta, known, load, seq, rooms, calls>>

MutantReportStatus ==
    /\ status # None
    /\ meta' = [meta EXCEPT ![status.node] = "blank"]
    /\ known' = known \cup {status.node}
    /\ quarantine' = quarantine \ {status.node}
    /\ status' = None
    /\ UNCHANGED <<alive, load, seq, rooms, calls, poll>>

\* ReportSFUNodeStatus writes the entry with an empty config.SFUNode, and the
\* room count of the answer; ClearSFUNodeFailure.
ReportStatus ==
    /\ status # None
    /\ meta' = [meta EXCEPT ![status.node] = "blank"]
    /\ known' = known \cup {status.node}
    /\ load' = [load EXCEPT ![status.node] = status.count]
    /\ quarantine' = quarantine \ {status.node}
    /\ status' = None
    /\ UNCHANGED <<alive, seq, rooms, calls, poll>>

ExpireMeta(n) ==
    /\ n \notin alive
    /\ meta[n] # "none"
    /\ meta' = [meta EXCEPT ![n] = "none"]
    /\ UNCHANGED <<alive, known, quarantine, load, seq, rooms, calls, monitor>>

ExpireQuarantine(n) ==
    /\ n \in quarantine
    /\ quarantine' = quarantine \ {n}
    /\ UNCHANGED <<alive, meta, known, load, seq, rooms, calls, monitor>>

\* The process of a node ends, and its rooms with it; it is started again.
Fail(n) ==
    /\ n \in alive \cap Crashing
    /\ alive' = alive \ {n}
    /\ rooms' = [rooms EXCEPT ![n] = {}]
    /\ UNCHANGED <<table, seq, calls, monitor>>

NodeRestarts(n) ==
    /\ n \in Nodes \ alive
    /\ alive' = alive \cup {n}
    /\ UNCHANGED <<table, seq, rooms, calls, monitor>>

-----------------------------------------------------------------------------
(* Placing a meeting: allocateRoomRoute, UpsertRoom *)

Rank(m) ==
    /\ pc[m] = "new"
    /\ Effective # {}
    /\ seq' = (seq + 1) % Period
    /\ todo' = [todo EXCEPT ![m] = Ranked(Effective)]
    /\ pc' = [pc EXCEPT ![m] = "create"]
    /\ known' = {n \in known : meta[n] # "none"}
    /\ UNCHANGED <<alive, meta, quarantine, load, rooms, node, monitor>>

\* CreateRoom on the next node; a node that does not answer is quarantined
\* (MarkSFUNodeFailure), and a create that has tried all of them fails.
CreateRoom(m) ==
    /\ pc[m] = "create"
    /\ IF todo[m] = <<>>
       THEN /\ pc' = [pc EXCEPT ![m] = "failed"]
            /\ UNCHANGED <<quarantine, rooms, todo, node>>
       ELSE LET n == Head(todo[m]) IN
            IF n \in alive
            THEN /\ rooms' = [rooms EXCEPT ![n] = @ \cup {m}]
                 /\ quarantine' = quarantine \ {n}
                 /\ node' = [node EXCEPT ![m] = n]
                 /\ pc' = [pc EXCEPT ![m] = "upsert"]
                 /\ UNCHANGED todo
            ELSE /\ quarantine' = quarantine \cup {n}
                 /\ todo' = [todo EXCEPT ![m] = Tail(@)]
                 /\ UNCHANGED <<rooms, node, pc>>
    /\ UNCHANGED <<alive, meta, known, load, seq, monitor>>

\* When Redis fails the create is rolled back in the store; the SFU keeps the
\* room.  When AddMember fails after it, the entry is deleted again.
UpsertRoom(m) ==
    /\ pc[m] = "upsert"
    /\ \/ /\ load' = [load EXCEPT ![node[m]] = @ + 1]
          /\ pc' \in {[pc EXCEPT ![m] = next] : next \in {"live", "delete"}}
       \/ pc' = [pc EXCEPT ![m] = "failed"] /\ UNCHANGED load
    /\ UNCHANGED <<alive, meta, known, quarantine, seq, rooms, todo, node, monitor>>

\* The last leave: destroySFURoom, DeleteRoom.
DestroyRoom(m) ==
    /\ pc[m] = "live"
    /\ rooms' = [rooms EXCEPT ![node[m]] = @ \ {m}]
    /\ pc' = [pc EXCEPT ![m] = "delete"]
    /\ UNCHANGED <<alive, table, seq, todo, node, monitor>>

DeleteRoom(m) ==
    /\ pc[m] = "delete"
    /\ load' = [load EXCEPT ![node[m]] = @ - 1]
    /\ pc' = [pc EXCEPT ![m] = "over"]
    /\ UNCHANGED <<alive, meta, known, quarantine, seq, rooms, todo, node, monitor>>

Handler(m) == CreateRoom(m) \/ UpsertRoom(m) \/ DeleteRoom(m)
Monitor == StartPoll \/ ReportStatus \/ \E n \in Nodes : AskNode(n)

Next ==
    \/ \E n \in Nodes :
          \/ Report(n)
          \/ ExpireMeta(n) \/ ExpireQuarantine(n) \/ Fail(n) \/ NodeRestarts(n)
    \/ Monitor
    \/ \E m \in Meetings : Rank(m) \/ Handler(m) \/ DestroyRoom(m)

\* Handlers run, and the monitor polls; their calls return.
Fairness == WF_vars(\E m \in Meetings : Handler(m)) /\ WF_vars(Monitor)

Spec == Init /\ [][Next]_vars
FairSpec == Spec /\ Fairness

-----------------------------------------------------------------------------
(* Properties *)

TypeOK ==
    /\ alive \subseteq Nodes
    /\ meta \in [Nodes -> {"none", "blank", "full"}]
    /\ known \subseteq Nodes /\ quarantine \subseteq Nodes /\ poll \subseteq Nodes
    /\ load \in [Nodes -> Int]
    /\ \A n \in Nodes : meta[n] # "none" => n \in known
    /\ \A m \in Meetings :
          pc[m] \in {"upsert", "live", "delete", "over"} => node[m] \in Nodes

Quiet == \A m \in Meetings : pc[m] \in {"live", "over", "failed"}

\* The load of a static node comes to be the number of rooms it has: creates,
\* ends and reports that overlap miscount, and the next poll puts it right.
LoadConverges ==
    \A n \in Static :
       <>[](Quiet /\ n \in alive) => <>[](load[n] = Cardinality(rooms[n]))
=============================================================================
