---------------------------- MODULE MeetingStore ----------------------------
(* The meetings kept by store.MemoryStore (signaling/store/memory_store.go). *)
(* Every exported method runs under the store's mutex, so every action is a  *)
(* whole method; the callers are the handlers of all sessions, in any order  *)
(* and with any arguments.  A participant is reduced to its role: the media  *)
(* flags and the chat log do not decide who is in a meeting.                 *)
EXTENDS Naturals, FiniteSets, Functions

CONSTANTS
    Users,          \* ids a session may carry (session.UserID())
    Known,          \* the users in userByID
    Meetings,       \* numbers generateMeetingIDLocked can return
    Passwords,      \* meeting passwords
    NoPassword,     \* the empty password
    Capacities,     \* values of max_participants in a create request
    DefaultMax,     \* what a capacity of 0 is replaced by (16 in the code)
    MaxJoinSeq      \* bound: entries into meetings (joinSeq)

ASSUME StoreAssumption ==
    /\ Known \subseteq Users
    /\ NoPassword \in Passwords
    /\ Capacities \subseteq Nat
    /\ DefaultMax \in Nat \ {0}
    /\ MaxJoinSeq \in Nat

VARIABLES
    meetings,       \* meetings: number -> [host, password, max]
    participants,   \* participants: number -> user -> role (1 for the host)
    joinOrder,      \* joinOrder: number -> user -> sequence number of the entry
    joinSeq         \* joinSeq, an atomic counter

vars == <<meetings, participants, joinOrder, joinSeq>>

Meeting == [host : Users, password : Passwords, max : Nat \ {0}]

\* An empty Go map, m[k] = v and delete(m, k).
EmptyMap == [k \in {} |-> k]
Put(f, k, v) == [x \in DOMAIN f \cup {k} |-> IF x = k THEN v ELSE f[x]]
Drop(f, k) == Restrict(f, DOMAIN f \ {k})

Init ==
    /\ meetings = EmptyMap
    /\ participants = EmptyMap
    /\ joinOrder = EmptyMap
    /\ joinSeq = 0

MutantEffectiveMax(n) == n

EffectiveMax(n) == IF n = 0 THEN DefaultMax ELSE n

\* CreateMeeting: nothing checks whether the number drawn is taken.
CreateMeeting(m, pw, u, n) ==
    /\ u \in Known
    /\ joinSeq < MaxJoinSeq
    /\ meetings' = Put(meetings, m, [host |-> u, password |-> pw, max |-> EffectiveMax(n)])
    /\ participants' = Put(participants, m, Put(EmptyMap, u, 1))
    /\ joinOrder' = Put(joinOrder, m, Put(EmptyMap, u, joinSeq + 1))
    /\ joinSeq' = joinSeq + 1

MutantHasRoom(m) == Cardinality(DOMAIN participants[m]) <= meetings[m].max

HasRoom(m) == Cardinality(DOMAIN participants[m]) < meetings[m].max

MutantJoinMeeting(m, pw, u) ==
    /\ m \in DOMAIN meetings
    /\ meetings[m].password \in {NoPassword, pw}
    /\ HasRoom(m)
    /\ u \in Known
    /\ joinSeq < MaxJoinSeq
    /\ participants' = [participants EXCEPT ![m] = Put(@, u, 0)]
    /\ joinOrder' = [joinOrder EXCEPT ![m] = Put(@, u, joinSeq + 1)]
    /\ joinSeq' = joinSeq + 1
    /\ UNCHANGED meetings

\* JoinMeeting: the error returns, and the return for a user who is in
\* already, change nothing.
JoinMeeting(m, pw, u) ==
    /\ m \in DOMAIN meetings
    /\ meetings[m].password \in {NoPassword, pw}
    /\ HasRoom(m)
    /\ u \notin DOMAIN participants[m]
    /\ u \in Known
    /\ joinSeq < MaxJoinSeq
    /\ participants' = [participants EXCEPT ![m] = Put(@, u, 0)]
    /\ joinOrder' = [joinOrder EXCEPT ![m] = Put(@, u, joinSeq + 1)]
    /\ joinSeq' = joinSeq + 1
    /\ UNCHANGED meetings

MutantIsNextHost(u, order) == \A v \in DOMAIN order : order[u] >= order[v]

\* pickNextHostParticipant: the smallest sequence number.  The tie break on
\* the user id is never needed, sequence numbers come from one counter.
IsNextHost(u, order) == \A v \in DOMAIN order : order[u] <= order[v]

\* LeaveMeeting does not ask whether the user is in.
LeaveMeeting(m, u) ==
    /\ m \in DOMAIN meetings
    /\ LET members == Drop(participants[m], u)
           order == Drop(joinOrder[m], u)
       IN \/ /\ DOMAIN members = {}
             /\ participants' = Drop(participants, m)
             /\ joinOrder' = Drop(joinOrder, m)
             /\ meetings' = Drop(meetings, m)
          \/ /\ DOMAIN members # {}
             /\ meetings[m].host = u
             /\ \E v \in DOMAIN members :
                   /\ IsNextHost(v, order)
                   /\ participants' = [participants EXCEPT ![m] = Put(members, v, 1)]
                   /\ meetings' = [meetings EXCEPT ![m].host = v]
             /\ joinOrder' = [joinOrder EXCEPT ![m] = order]
          \/ /\ DOMAIN members # {}
             /\ meetings[m].host # u
             /\ participants' = [participants EXCEPT ![m] = members]
             /\ joinOrder' = [joinOrder EXCEPT ![m] = order]
             /\ UNCHANGED meetings
    /\ UNCHANGED joinSeq

Next ==
    \E m \in Meetings, u \in Users :
       \/ \E pw \in Passwords, n \in Capacities : CreateMeeting(m, pw, u, n)
       \/ \E pw \in Passwords : JoinMeeting(m, pw, u)
       \/ LeaveMeeting(m, u)

Spec == Init /\ [][Next]_vars

-----------------------------------------------------------------------------
(* Properties *)

Members(m) == DOMAIN participants[m]

\* The three maps have an entry for the same meetings and, within a meeting,
\* participants and joinOrder for the same users; the entries are well formed.
TypeOK ==
    /\ meetings \in [DOMAIN meetings -> Meeting]
    /\ DOMAIN meetings \subseteq Meetings
    /\ DOMAIN participants = DOMAIN meetings
    /\ DOMAIN joinOrder = DOMAIN meetings
    /\ \A m \in DOMAIN meetings :
          /\ participants[m] \in [Members(m) -> {0, 1}]
          /\ joinOrder[m] \in [Members(m) -> 1..joinSeq]
          /\ Members(m) \subseteq Known
    /\ joinSeq \in Nat

\* The host of a live meeting is in it, entered before everybody else who is
\* in it, and is the only participant whose role says host: however users
\* came, left and came back, LeaveMeeting has handed the meeting over to the
\* one who has been in longest, and no meeting is left without a host.
SeniorHost ==
    \A m \in DOMAIN meetings :
       LET host == meetings[m].host IN
       /\ host \in Members(m)
       /\ \A u \in Members(m) \ {host} : joinOrder[m][host] < joinOrder[m][u]
       /\ \A u \in Members(m) : participants[m][u] = 1 <=> u = host

\* No sequence of joins, leaves and re-joins puts more users into a meeting
\* than the capacity it was created with (JoinMeeting's len(members) check).
CapacityRespected ==
    \A m \in DOMAIN meetings : Cardinality(Members(m)) <= meetings[m].max

-----------------------------------------------------------------------------
(* The store implements MeetingRoster *)

\* The queue of a meeting: the members in the order of their entries.
Queue(m) ==
    IF m \in DOMAIN meetings
    THEN {p \in Members(m) \X Members(m) : joinOrder[m][p[1]] <= joinOrder[m][p[2]]}
    ELSE {}

Roster == INSTANCE MeetingRoster WITH roster <- [m \in Meetings |-> Queue(m)]

\* Every call of the store is a step of the queue the handlers are promised
\* (MeetingRoster): create starts one, join appends, leave removes, and
\* nothing else moves anybody; a repeated join does not lose the user's place.
ImplementsRoster == Roster!Spec
=============================================================================
