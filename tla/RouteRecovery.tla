---------------------------- MODULE RouteRecovery ----------------------------
(* Moving a meeting to another SFU node when a publisher cannot be added on  *)
(* the node its route names: registerPublisher and recoverPublisherRoute of  *)
(* handler/media_handler.go, with the recovery locks (one per signaling      *)
(* process, one in Redis with a TTL), SwitchRoomRoute of store/redis.go, and *)
(* the end of the meeting in handler/meeting_handler.go.                     *)
(*                                                                           *)
(* Locks, route and rooms are keyed by the meeting, so one meeting is        *)
(* modelled.  sfu_node_id and sfu_route are written together and are one     *)
(* variable.  The candidates are taken in any order: load, capacity and      *)
(* rotation rank them.                                                       *)
EXTENDS FiniteSets

CONSTANTS
    Readers,    \* goroutines in registerPublisher, for different publishers
    Servers,    \* signaling processes
    At,         \* [Readers -> Servers]
    Nodes,      \* SFU nodes
    Home,       \* the node the meeting was created on
    Default,    \* the node of the default client
    Refused,    \* pairs <<node, reader>>: AddPublisher without success
    Failing,    \* bound: SFU nodes that may fail
    None        \* no route, no owner, no node

ASSUME RecoveryAssumption ==
    Home \in Nodes /\ Default \in Nodes /\ At \in [Readers -> Servers] /\ None \notin Nodes \cup Readers

VARIABLES
    route,      \* room:<m>.sfu_node_id and sfu_route:<m>, None after DeleteRoom
    lock,       \* sfu_recovery_lock:<m>
    local,      \* per process, the holder of the meetingRecoveryLock
    up,         \* SFU nodes that answer
    rooms,      \* SFU nodes that have a room for the meeting
    pc,         \* where a reader is
    from,       \* its meta.SFUNodeID
    todo,       \* its candidates not yet tried
    cand,       \* its candidate
    ending,     \* where the last leave is
    ends,       \* the node it destroys the room on
    lapsed,     \* history: a failover went on without the Redis lock
    failed      \* history: nodes that have failed at some time

vars == <<route, lock, local, up, rooms, pc, from, todo, cand, ending, ends, lapsed, failed>>
sfu == <<up, rooms, failed>>
locals == <<from, todo, cand>>
leaving == <<ending, ends>>

Failover == {"locked", "meta", "next", "add", "rollback", "switch", "lost", "destroy", "again"}

Init ==
    /\ route = Home
    /\ lock = None
    /\ local = [p \in Servers |-> None]
    /\ up = Nodes
    /\ rooms = {Home}
    /\ pc = [r \in Readers |-> "add0"]
    /\ from = [r \in Readers |-> None]
    /\ todo = [r \in Readers |-> {}]
    /\ cand = [r \in Readers |-> None]
    /\ ending = "no"
    /\ ends = None
    /\ lapsed = FALSE
    /\ failed = {}

\* clientForMeeting
NodeOf(n) == IF n = None THEN Default ELSE n

\* What the SFU answers to AddPublisher; no answer counts as no success.
Added(n, r) == n \in up /\ n \in rooms /\ <<n, r>> \notin Refused

Goto(r, step) == pc' = [pc EXCEPT ![r] = step]

MutantReturn(r) ==
    /\ Goto(r, "done")
    /\ lock' = IF lock = r THEN None ELSE lock
    /\ UNCHANGED local

\* The deferred releases: the script deletes the Redis lock of its owner only.
Return(r) ==
    /\ Goto(r, "done")
    /\ local' = [local EXCEPT ![At[r]] = None]
    /\ lock' = IF lock = r THEN None ELSE lock

-----------------------------------------------------------------------------
(* registerPublisher and recoverPublisherRoute *)

RegisterPublisher(r) ==
    /\ pc[r] = "add0"
    /\ Goto(r, IF Added(NodeOf(route), r) THEN "done" ELSE "local")
    /\ UNCHANGED <<route, lock, local, sfu, locals, leaving, lapsed>>

AcquireLocal(r) ==
    /\ pc[r] = "local"
    /\ local[At[r]] = None
    /\ local' = [local EXCEPT ![At[r]] = r]
    /\ Goto(r, "retry")
    /\ UNCHANGED <<route, lock, sfu, locals, leaving, lapsed>>

\* AddPublisher once more on the latest route, at three places: under the
\* local lock, after waiting for another process, and under both locks.
Retry(r, step, next) ==
    /\ pc[r] = step
    /\ IF Added(NodeOf(route), r) THEN Return(r)
       ELSE Goto(r, next) /\ UNCHANGED <<lock, local>>
    /\ UNCHANGED <<route, sfu, locals, leaving, lapsed>>

MutantAcquireDistributed(r) ==
    /\ pc[r] = "dlock"
    /\ lock' = r
    /\ Goto(r, "locked")
    /\ UNCHANGED <<route, local, sfu, locals, leaving, lapsed>>

\* SetNX; when Redis fails, recovery goes on with the local lock only.
AcquireDistributed(r) ==
    /\ pc[r] = "dlock"
    /\ \/ /\ lock = None
          /\ lock' = r
          /\ Goto(r, "locked")
          /\ UNCHANGED lapsed
       \/ /\ lock # None
          /\ Goto(r, "followup")
          /\ UNCHANGED <<lock, lapsed>>
       \/ /\ lapsed' = TRUE
          /\ Goto(r, "locked")
          /\ UNCHANGED lock
    /\ UNCHANGED <<route, local, sfu, locals, leaving>>

FollowUp(r) ==
    /\ pc[r] = "followup"
    /\ Return(r)
    /\ UNCHANGED <<route, sfu, locals, leaving, lapsed>>

\* RoomMetadata and recoveryCandidates; no room or no candidate ends it.
ReadMetadata(r) ==
    /\ pc[r] = "meta"
    /\ IF route = None THEN Return(r) /\ UNCHANGED <<from, todo>>
       ELSE /\ from' = [from EXCEPT ![r] = route]
            /\ \E nodes \in SUBSET Nodes : todo' = [todo EXCEPT ![r] = nodes \ {route}]
            /\ Goto(r, "next")
            /\ UNCHANGED <<lock, local>>
    /\ UNCHANGED <<route, sfu, cand, leaving, lapsed>>

\* CreateRoom on the next candidate; CreateRoom of a room that exists succeeds.
CreateRoom(r) ==
    /\ pc[r] = "next"
    /\ \/ \E n \in todo[r] :
             /\ todo' = [todo EXCEPT ![r] = @ \ {n}]
             /\ cand' = [cand EXCEPT ![r] = n]
             /\ rooms' = IF n \in up THEN rooms \cup {n} ELSE rooms
             /\ Goto(r, IF n \in up THEN "add" ELSE "next")
             /\ UNCHANGED <<lock, local>>
       \/ todo[r] = {} /\ Return(r) /\ UNCHANGED <<todo, cand, rooms>>
    /\ UNCHANGED <<route, up, failed, from, leaving, lapsed>>

AddPublisher(r) ==
    /\ pc[r] = "add"
    /\ Goto(r, IF Added(cand[r], r) THEN "switch" ELSE "rollback")
    /\ UNCHANGED <<route, lock, local, sfu, locals, leaving, lapsed>>

MutantDestroy(r, step, next) ==
    /\ pc[r] = step
    /\ rooms' = rooms \ {NodeOf(route)}
    /\ Goto(r, next)
    /\ UNCHANGED <<route, lock, local, up, failed, locals, leaving, lapsed>>

\* DestroyRoom on the candidate.
Destroy(r, step, next) ==
    /\ pc[r] = step
    /\ rooms' = IF cand[r] \in up THEN rooms \ {cand[r]} ELSE rooms
    /\ Goto(r, next)
    /\ UNCHANGED <<route, lock, local, up, failed, locals, leaving, lapsed>>

\* SwitchRoomRoute: compare and set under WATCH; three lost races count as
\* not switched, a Redis error goes on with the next candidate.
SwitchRoomRoute(r) ==
    /\ pc[r] = "switch"
    /\ \/ route = from[r] /\ route' = cand[r] /\ Return(r)
       \/ route # from[r] /\ Goto(r, "lost") /\ UNCHANGED <<route, lock, local>>
       \/ Goto(r, "next") /\ UNCHANGED <<route, lock, local>>
    /\ UNCHANGED <<sfu, locals, leaving, lapsed>>

\* Not switched: roll back only when the latest route points elsewhere.
ReadLatest(r) ==
    /\ pc[r] = "lost"
    /\ Goto(r, IF route \notin {None, cand[r]} THEN "destroy" ELSE "again")
    /\ UNCHANGED <<route, lock, local, sfu, locals, leaving, lapsed>>

Recover(r) ==
    \/ AcquireLocal(r)
    \/ Retry(r, "retry", "dlock")
    \/ AcquireDistributed(r)
    \/ FollowUp(r)
    \/ Retry(r, "locked", "meta")
    \/ ReadMetadata(r)
    \/ CreateRoom(r)
    \/ AddPublisher(r)
    \/ Destroy(r, "rollback", "next")
    \/ SwitchRoomRoute(r)
    \/ ReadLatest(r)
    \/ Destroy(r, "destroy", "again")
    \/ Retry(r, "again", "next")

-----------------------------------------------------------------------------
(* The end of the meeting: leave with remaining = 0, by the closers of      *)
(* sessions whose readers are still in a handler.                           *)

LastLeave ==
    /\ ending = "no"
    /\ ending' = "destroy"
    /\ ends' = NodeOf(route)
    /\ UNCHANGED <<route, lock, local, sfu, pc, locals, lapsed>>

DestroySFURoom ==
    /\ ending = "destroy"
    /\ rooms' = IF ends \in up THEN rooms \ {ends} ELSE rooms
    /\ ending' = "delete"
    /\ UNCHANGED <<route, lock, local, up, failed, pc, locals, ends, lapsed>>

DeleteRoom ==
    /\ ending = "delete"
    /\ route' = None
    /\ ending' = "done"
    /\ UNCHANGED <<lock, local, sfu, pc, locals, ends, lapsed>>

End == DestroySFURoom \/ DeleteRoom

-----------------------------------------------------------------------------
(* What happens around it *)

\* The TTL of the Redis lock, longer than a recovery should take.
ExpireLock ==
    /\ lock # None
    /\ lock' = None
    /\ lapsed' = TRUE
    /\ UNCHANGED <<route, local, sfu, pc, locals, leaving>>

\* An SFU process ends and its rooms with it.
NodeFails(n) ==
    /\ n \in up \cap Failing
    /\ up' = up \ {n}
    /\ rooms' = rooms \ {n}
    /\ failed' = failed \cup {n}
    /\ UNCHANGED <<route, lock, local, pc, locals, leaving, lapsed>>

NodeReturns(n) ==
    /\ n \in Nodes \ up
    /\ up' = up \cup {n}
    /\ UNCHANGED <<route, lock, local, rooms, failed, pc, locals, leaving, lapsed>>

Reader == \E r \in Readers : RegisterPublisher(r) \/ Recover(r)

Next ==
    \/ Reader
    \/ LastLeave \/ End
    \/ ExpireLock
    \/ \E n \in Nodes : NodeFails(n) \/ NodeReturns(n)

\* Goroutines run; a reader takes finitely many steps.
Fairness == WF_vars(End) /\ WF_vars(Reader)

Spec == Init /\ [][Next]_vars
FairSpec == Spec /\ Fairness

-----------------------------------------------------------------------------
(* Properties *)

TypeOK ==
    /\ route \in Nodes \cup {None}
    /\ lock \in Readers \cup {None}
    /\ local \in [Servers -> Readers \cup {None}]
    /\ rooms \subseteq up /\ up \subseteq Nodes
    /\ \A r \in Readers :
          /\ pc[r] \in Failover \cup {"add0", "local", "retry", "dlock", "followup", "done"}
          /\ pc[r] \notin {"add0", "local", "done"} => local[At[r]] = r
          /\ todo[r] \subseteq Nodes
          /\ pc[r] \in {"add", "rollback", "switch", "lost", "destroy"} =>
                cand[r] \in Nodes \ {from[r]}

\* With the Redis lock held from the metadata to the switch, one failover
\* runs at a time, and the route it read stays what it is until it switches
\* it or the meeting ends.
FailoverOwnsRoute ==
    ~lapsed =>
       \A r \in Readers : pc[r] \in Failover =>
          /\ \A q \in Readers \ {r} : pc[q] \notin Failover
          /\ pc[r] \notin {"locked", "meta"} => route \in {from[r], None}

\* The route of a meeting that goes on names a node that has a room for it,
\* unless that node has failed: the room is created before the switch, and no
\* rollback takes it away again.
RouteHasRoom == (~lapsed /\ ending = "no" /\ route \notin failed) => route \in rooms

\* Rollback "only when route clearly points elsewhere": DestroyRoom after a
\* lost switch does not destroy the room the route names.
SelectedRoomSpared ==
    [][\A r \in Readers : Destroy(r, "destroy", "again") => route # cand[r]]_vars

\* Every recovery comes to an end and gives its locks back.
RecoveryEnds == []<>(\A r \in Readers : pc[r] \in {"add0", "done"} /\ lock # r)
=============================================================================
