--------------------------- MODULE MeetingRoster ---------------------------
(* What the meeting handler is promised by a MeetingLifecycleStore: a live  *)
(* meeting is a queue of users in the order in which they came in.  The     *)
(* head of the queue is the host, a user stands in it at most once, and the *)
(* meeting is gone as soon as the queue is empty.                           *)
(*                                                                          *)
(* A queue is the relation "is not behind": <<u, v>> when u is v or came in *)
(* before v.                                                                *)

CONSTANTS
    Users,      \* user ids
    Meetings    \* meeting numbers

VARIABLE
    roster      \* per meeting its queue; {} when there is no such meeting

In(queue) == {u \in Users : <<u, u>> \in queue}

\* The head of the queue.
IsHost(queue, u) == u \in In(queue) /\ \A v \in In(queue) : <<u, v>> \in queue

Init == roster = [m \in Meetings |-> {}]

\* The number of a new meeting is drawn without looking whether it is taken,
\* so a live meeting may be replaced.
Create(m, u) == roster' = [roster EXCEPT ![m] = {<<u, u>>}]

Join(m, u) ==
    /\ roster[m] # {}
    /\ u \notin In(roster[m])
    /\ roster' = [roster EXCEPT ![m] = @ \cup ((In(@) \cup {u}) \X {u})]

Leave(m, u) ==
    /\ u \in In(roster[m])
    /\ roster' = [roster EXCEPT ![m] = {p \in @ : p[1] # u /\ p[2] # u}]

Next == \E m \in Meetings, u \in Users : Create(m, u) \/ Join(m, u) \/ Leave(m, u)

Spec == Init /\ [][Next]_roster
=============================================================================
