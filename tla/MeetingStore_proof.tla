------------------------- MODULE MeetingStore_proof -------------------------
(* Proofs about MeetingStore for any users, meetings, passwords and bounds.  *)
EXTENDS MeetingStore, FiniteSetTheorems, TLAPS

\* No two entries into a meeting have the same sequence number: what makes the
\* successor chosen by pickNextHostParticipant strictly senior to the rest.
DistinctEntries ==
    \A m \in DOMAIN meetings : \A u, v \in Members(m) :
       joinOrder[m][u] = joinOrder[m][v] => u = v

\* SeniorHost is not inductive: after the host leaves, its successor is only
\* known to be first among equals unless entries are distinct.
IInv == TypeOK /\ SeniorHost /\ DistinctEntries

\* The initial store is empty.
LEMMA InitIInv == Init => IInv
BY StoreAssumption DEF Init, IInv, TypeOK, SeniorHost, DistinctEntries, Members, Meeting, EmptyMap

\* CreateMeeting starts (or replaces) a meeting with its host alone in it.
LEMMA CreateIInv ==
    ASSUME IInv, NEW m \in Meetings, NEW pw \in Passwords, NEW u \in Users,
           NEW n \in Capacities, CreateMeeting(m, pw, u, n)
    PROVE  IInv'
<1> USE DEF CreateMeeting, Members, EmptyMap, Put
<1>1. EffectiveMax(n) \in Nat \ {0}
  BY StoreAssumption DEF EffectiveMax
<1>2. TypeOK'
  BY <1>1, StoreAssumption DEF IInv, TypeOK, Meeting
<1>3. SeniorHost'
  BY DEF IInv, TypeOK, SeniorHost
<1>4. DistinctEntries'
  BY DEF IInv, TypeOK, DistinctEntries
<1> QED
  BY <1>2, <1>3, <1>4 DEF IInv

\* JoinMeeting gives the newcomer a larger number than anybody has.
LEMMA JoinIInv ==
    ASSUME IInv, NEW m \in Meetings, NEW pw \in Passwords, NEW u \in Users,
           JoinMeeting(m, pw, u)
    PROVE  IInv'
<1> USE DEF JoinMeeting, Members, Put
<1>1. TypeOK'
  BY StoreAssumption DEF IInv, TypeOK, Meeting
<1>2. SeniorHost'
  BY DEF IInv, TypeOK, SeniorHost, Meeting
<1>3. DistinctEntries'
  BY DEF IInv, TypeOK, DistinctEntries
<1> QED
  BY <1>1, <1>2, <1>3 DEF IInv

\* LeaveMeeting ends the meeting, hands it over, or just lets the user go.
LEMMA LeaveIInv ==
    ASSUME IInv, NEW m \in Meetings, NEW u \in Users, LeaveMeeting(m, u)
    PROVE  IInv'
<1> DEFINE members == Drop(participants[m], u)
           order == Drop(joinOrder[m], u)
<1> USE DEF Members, Drop, Restrict
<1>1. CASE /\ DOMAIN members = {}
           /\ participants' = Drop(participants, m)
           /\ joinOrder' = Drop(joinOrder, m)
           /\ meetings' = Drop(meetings, m)
           /\ joinSeq' = joinSeq
  <2>1. TypeOK'
    BY <1>1 DEF IInv, TypeOK
  <2>2. SeniorHost'
    BY <1>1 DEF IInv, TypeOK, SeniorHost
  <2>3. DistinctEntries'
    BY <1>1 DEF IInv, TypeOK, DistinctEntries
  <2> QED
    BY <2>1, <2>2, <2>3 DEF IInv
<1>2. ASSUME meetings[m].host = u,
             NEW v \in DOMAIN members, IsNextHost(v, order),
             participants' = [participants EXCEPT ![m] = Put(members, v, 1)],
             meetings' = [meetings EXCEPT ![m].host = v],
             joinOrder' = [joinOrder EXCEPT ![m] = order],
             joinSeq' = joinSeq, m \in DOMAIN meetings
      PROVE  IInv'
  <2>1. TypeOK'
    BY <1>2, StoreAssumption DEF IInv, TypeOK, Meeting, Put
  <2>2. SeniorHost'
    <3>1. /\ m \in DOMAIN meetings
          /\ Members(m)' = Members(m) \ {u}
          /\ v \in Members(m) \ {u}
          /\ \A w \in Members(m) \ {u} : joinOrder'[m][w] = joinOrder[m][w]
          /\ \A w \in Members(m) \ {u} :
                participants'[m][w] = IF w = v THEN 1 ELSE participants[m][w]
          /\ meetings'[m].host = v
          /\ DOMAIN meetings' = DOMAIN meetings
      BY <1>2 DEF IInv, TypeOK, Put, Meeting
    <3>2. \A k \in DOMAIN meetings \ {m} :
             /\ Members(k)' = Members(k)
             /\ joinOrder'[k] = joinOrder[k]
             /\ participants'[k] = participants[k]
             /\ meetings'[k] = meetings[k]
      BY <1>2 DEF IInv, TypeOK
    <3>3. \A w \in Members(m) \ {u} : joinOrder[m][v] <= joinOrder[m][w]
      BY <1>2 DEF IInv, TypeOK, IsNextHost
    <3>4. \A w \in Members(m) \ {u, v} : joinOrder[m][v] < joinOrder[m][w]
      <4>1. \A w \in Members(m) : joinOrder[m][w] \in Nat
        BY <3>1 DEF IInv, TypeOK
      <4>2. \A w \in Members(m) \ {u, v} : joinOrder[m][v] # joinOrder[m][w]
        BY <3>1 DEF IInv, DistinctEntries
      <4> HIDE DEF Members, Drop, Restrict
      <4> QED
        BY <3>1, <3>3, <4>1, <4>2
    <3>5. \A w \in Members(m) \ {u} : participants[m][w] # 1
      BY <1>2, <3>1 DEF IInv, SeniorHost
    <3>6. ASSUME NEW k \in DOMAIN meetings, k # m
          PROVE  LET host == meetings'[k].host IN
                 /\ host \in Members(k)'
                 /\ \A w \in Members(k)' \ {host} : joinOrder'[k][host] < joinOrder'[k][w]
                 /\ \A w \in Members(k)' : participants'[k][w] = 1 <=> w = host
      BY <3>2, <3>6 DEF IInv, SeniorHost
    <3> HIDE DEF Members, Drop, Restrict
    <3> QED
      BY <3>1, <3>4, <3>5, <3>6 DEF SeniorHost
  <2>3. DistinctEntries'
    BY <1>2 DEF IInv, TypeOK, DistinctEntries, Put
  <2> QED
    BY <2>1, <2>2, <2>3 DEF IInv
<1>3. CASE /\ meetings[m].host # u
           /\ participants' = [participants EXCEPT ![m] = members]
           /\ joinOrder' = [joinOrder EXCEPT ![m] = order]
           /\ UNCHANGED <<meetings, joinSeq>>
           /\ m \in DOMAIN meetings
  <2>1. TypeOK'
    BY <1>3 DEF IInv, TypeOK
  <2>2. SeniorHost'
    BY <1>3 DEF IInv, TypeOK, SeniorHost
  <2>3. DistinctEntries'
    BY <1>3 DEF IInv, TypeOK, DistinctEntries
  <2> QED
    BY <2>1, <2>2, <2>3 DEF IInv
<1> QED
  BY <1>1, <1>2, <1>3 DEF LeaveMeeting

\* Every call of the store keeps the inductive invariant.
LEMMA NextIInv == IInv /\ [Next]_vars => IInv'
<1> SUFFICES ASSUME IInv, [Next]_vars PROVE IInv'
  OBVIOUS
<1>1. CASE Next
  BY <1>1, CreateIInv, JoinIInv, LeaveIInv DEF Next
<1>2. CASE UNCHANGED vars
  BY <1>2 DEF vars, IInv, TypeOK, SeniorHost, DistinctEntries, Members
<1> QED
  BY <1>1, <1>2

\* The inductive invariant holds in every reachable state.
THEOREM IInvariance == Spec => []IInv
BY InitIInv, NextIInv, PTL DEF Spec

\* The maps of the store agree with each other, whatever the calls.
THEOREM TypeCorrect == Spec => []TypeOK
<1>1. IInv => TypeOK
  BY DEF IInv
<1> QED
  BY <1>1, IInvariance, PTL

\* The host of every live meeting is its longest-standing member and the only
\* one with the host role, for any number of users, meetings and calls.
THEOREM HostIsSenior == Spec => []SeniorHost
<1>1. IInv => SeniorHost
  BY DEF IInv
<1> QED
  BY <1>1, IInvariance, PTL

-----------------------------------------------------------------------------
(* Capacity *)

\* Finitely many members, at most as many as the capacity.
CapInv ==
    \A m \in DOMAIN meetings :
       IsFiniteSet(Members(m)) /\ Cardinality(Members(m)) <= meetings[m].max

\* One call keeps the number of members within the capacity.
LEMMA NextCapInv == IInv /\ CapInv /\ [Next]_vars => CapInv'
<1> SUFFICES ASSUME IInv, CapInv, [Next]_vars PROVE CapInv'
  OBVIOUS
<1>1. ASSUME NEW m \in Meetings, NEW u \in Users, NEW pw \in Passwords, NEW n \in Capacities,
             CreateMeeting(m, pw, u, n)
      PROVE  CapInv'
  <2>1. EffectiveMax(n) \in Nat /\ EffectiveMax(n) >= 1
    BY StoreAssumption DEF EffectiveMax
  <2>2. IsFiniteSet({u}) /\ Cardinality({u}) = 1
    BY FS_Singleton
  <2>3. Members(m)' = {u} /\ meetings'[m].max = EffectiveMax(n)
    BY <1>1 DEF CreateMeeting, Members, Put, EmptyMap
  <2>4. \A k \in DOMAIN meetings' \ {m} :
           k \in DOMAIN meetings /\ Members(k)' = Members(k) /\ meetings'[k] = meetings[k]
    BY <1>1 DEF CreateMeeting, Members, Put, IInv, TypeOK
  <2> QED
    BY <2>1, <2>2, <2>3, <2>4 DEF CapInv
<1>2. ASSUME NEW m \in Meetings, NEW u \in Users, NEW pw \in Passwords, JoinMeeting(m, pw, u)
      PROVE  CapInv'
  <2>1. /\ Members(m)' = Members(m) \cup {u}
        /\ u \notin Members(m)
        /\ meetings' = meetings
        /\ \A k \in DOMAIN meetings \ {m} : Members(k)' = Members(k)
    BY <1>2 DEF JoinMeeting, Members, Put, IInv, TypeOK
  <2>2. /\ m \in DOMAIN meetings
        /\ meetings[m].max \in Nat
        /\ Cardinality(Members(m)) < meetings[m].max
    BY <1>2 DEF JoinMeeting, HasRoom, Members, IInv, TypeOK, Meeting
  <2>3. IsFiniteSet(Members(m)) /\ Cardinality(Members(m)) \in Nat
    BY <2>2, FS_CardinalityType DEF CapInv
  <2>4. /\ IsFiniteSet(Members(m) \cup {u})
        /\ Cardinality(Members(m) \cup {u}) = Cardinality(Members(m)) + 1
    BY <2>1, <2>3, FS_AddElement
  <2> QED
    BY <2>1, <2>2, <2>3, <2>4 DEF CapInv
<1>3. ASSUME NEW m \in Meetings, NEW u \in Users, LeaveMeeting(m, u)
      PROVE  CapInv'
  <2>1. \A k \in DOMAIN meetings' :
           /\ k \in DOMAIN meetings
           /\ Members(k)' \subseteq Members(k)
           /\ meetings'[k].max = meetings[k].max
    <3> USE DEF Members, Drop, Restrict, IInv, TypeOK
    <3>1. CASE meetings' = Drop(meetings, m) /\ participants' = Drop(participants, m)
      BY <3>1
    <3>2. ASSUME m \in DOMAIN meetings, NEW v \in Members(m) \ {u},
                 participants' = [participants EXCEPT ![m] = Put(Drop(participants[m], u), v, 1)],
                 meetings' = [meetings EXCEPT ![m].host = v]
          PROVE  \A k \in DOMAIN meetings' :
                    /\ k \in DOMAIN meetings
                    /\ Members(k)' \subseteq Members(k)
                    /\ meetings'[k].max = meetings[k].max
      BY <3>2 DEF Put, Meeting
    <3>3. CASE /\ m \in DOMAIN meetings
               /\ participants' = [participants EXCEPT ![m] = Drop(participants[m], u)]
               /\ meetings' = meetings
      BY <3>3
    <3> QED
      BY <1>3, <3>1, <3>2, <3>3 DEF LeaveMeeting
  <2>2. ASSUME NEW k \in DOMAIN meetings'
        PROVE  IsFiniteSet(Members(k)') /\ Cardinality(Members(k)') <= meetings'[k].max
    <3>1. IsFiniteSet(Members(k)) /\ Cardinality(Members(k)) <= meetings[k].max
      BY <2>1, <2>2 DEF CapInv
    <3>2. IsFiniteSet(Members(k)') /\ Cardinality(Members(k)') <= Cardinality(Members(k))
      BY <2>1, <2>2, <3>1, FS_Subset
    <3>3. /\ Cardinality(Members(k)) \in Nat
          /\ Cardinality(Members(k)') \in Nat
          /\ meetings[k].max \in Nat
      BY <2>1, <2>2, <3>1, <3>2, FS_CardinalityType DEF IInv, TypeOK, Meeting
    <3> QED
      BY <2>1, <2>2, <3>1, <3>2, <3>3
  <2> QED
    BY <2>2 DEF CapInv
<1>4. CASE UNCHANGED vars
  BY <1>4 DEF vars, CapInv, Members
<1> QED
  BY <1>1, <1>2, <1>3, <1>4 DEF Next

\* No meeting ever has more members than its capacity, for any capacity.
THEOREM CapacityIsRespected == Spec => []CapacityRespected
<1>1. Init => CapInv
  BY DEF Init, CapInv, EmptyMap
<1>2. CapInv => CapacityRespected
  BY DEF CapInv, CapacityRespected
<1> QED
  BY <1>1, <1>2, NextCapInv, IInvariance, PTL DEF Spec

-----------------------------------------------------------------------------
(* The store implements MeetingRoster *)

\* Who is in the queue of a live meeting is who is in the meeting.
LEMMA QueueMembers ==
    ASSUME IInv, NEW m \in DOMAIN meetings
    PROVE  Roster!In(Queue(m)) = Members(m)
<1>1. /\ Members(m) \subseteq Users
      /\ \A u \in Members(m) : joinOrder[m][u] \in Nat
  BY StoreAssumption DEF IInv, TypeOK
<1>2. \A u \in Users : <<u, u>> \in Queue(m) <=> u \in Members(m)
  BY <1>1 DEF Queue
<1> QED
  BY <1>1, <1>2 DEF Roster!In

\* The queue of a meeting depends on its own entries only.
LEMMA QueueKept ==
    ASSUME IInv, NEW m,
           m \in DOMAIN meetings' <=> m \in DOMAIN meetings,
           m \in DOMAIN meetings => /\ Members(m)' = Members(m)
                                    /\ joinOrder'[m] = joinOrder[m]
    PROVE  Queue(m)' = Queue(m)
BY DEF Queue

\* CreateMeeting starts a queue of one.
LEMMA CreateIsCreate ==
    ASSUME IInv, NEW m \in Meetings, NEW pw \in Passwords, NEW u \in Users,
           NEW n \in Capacities, CreateMeeting(m, pw, u, n)
    PROVE  Roster!Create(m, u)
<1>1. /\ m \in DOMAIN meetings'
      /\ Members(m)' = {u}
      /\ joinOrder'[m][u] = joinSeq + 1
  BY DEF CreateMeeting, Members, Put, EmptyMap
<1>2. Queue(m)' = {<<u, u>>}
  BY <1>1 DEF Queue, IInv, TypeOK
<1>3. ASSUME NEW k \in Meetings, k # m
      PROVE  Queue(k)' = Queue(k)
  <2>1. /\ k \in DOMAIN meetings' <=> k \in DOMAIN meetings
        /\ k \in DOMAIN meetings => /\ Members(k)' = Members(k)
                                    /\ joinOrder'[k] = joinOrder[k]
    BY <1>3 DEF CreateMeeting, Members, Put, IInv, TypeOK
  <2> QED
    BY <2>1, QueueKept
<1> QED
  BY <1>2, <1>3 DEF Roster!Create

\* JoinMeeting puts the newcomer behind everybody in the queue.
LEMMA JoinIsJoin ==
    ASSUME IInv, NEW m \in Meetings, NEW pw \in Passwords, NEW u \in Users,
           JoinMeeting(m, pw, u)
    PROVE  Roster!Join(m, u)
<1>1. /\ m \in DOMAIN meetings
      /\ DOMAIN meetings' = DOMAIN meetings
      /\ u \notin Members(m)
      /\ Members(m)' = Members(m) \cup {u}
      /\ joinOrder'[m][u] = joinSeq + 1
      /\ \A v \in Members(m) : joinOrder'[m][v] = joinOrder[m][v]
      /\ \A v \in Members(m) : joinOrder[m][v] \in 1..joinSeq
      /\ joinSeq \in Nat
  BY DEF JoinMeeting, Members, Put, IInv, TypeOK
<1>2. Roster!In(Queue(m)) = Members(m)
  BY <1>1, QueueMembers
<1>3. Queue(m)' = Queue(m) \cup ((Members(m) \cup {u}) \X {u})
  <2>1. ASSUME NEW p \in (Members(m) \cup {u}) \X (Members(m) \cup {u})
        PROVE  joinOrder'[m][p[1]] <= joinOrder'[m][p[2]]
                 <=> p[2] = u \/ (p \in Queue(m))
    <3>1. CASE p[2] = u
      BY <1>1, <2>1, <3>1
    <3>2. CASE p[2] # u /\ p[1] = u
      BY <1>1, <2>1, <3>2 DEF Queue
    <3>3. CASE p[2] # u /\ p[1] # u
      BY <1>1, <2>1, <3>3 DEF Queue
    <3> QED
      BY <3>1, <3>2, <3>3
  <2>2. Queue(m)' = {p \in (Members(m) \cup {u}) \X (Members(m) \cup {u}) :
                       joinOrder'[m][p[1]] <= joinOrder'[m][p[2]]}
    BY <1>1 DEF Queue
  <2>3. Queue(m) \subseteq Members(m) \X Members(m)
    BY DEF Queue
  <2> QED
    BY <2>1, <2>2, <2>3
<1>4. Queue(m) # {}
  <2>1. PICK h \in Users : h \in Members(m)
    BY <1>1, StoreAssumption DEF IInv, SeniorHost, TypeOK, Meeting
  <2> QED
    BY <1>2, <2>1 DEF Roster!In
<1>5. ASSUME NEW k \in Meetings, k # m
      PROVE  Queue(k)' = Queue(k)
  <2>1. /\ k \in DOMAIN meetings' <=> k \in DOMAIN meetings
        /\ k \in DOMAIN meetings => /\ Members(k)' = Members(k)
                                    /\ joinOrder'[k] = joinOrder[k]
    BY <1>5 DEF JoinMeeting, Members, IInv, TypeOK
  <2> QED
    BY <2>1, QueueKept
<1> QED
  BY <1>1, <1>2, <1>3, <1>4, <1>5 DEF Roster!Join

\* What the three ways to leave have in common: the meeting goes with its last
\* member, the others keep their entries, other meetings are not touched.
LEMMA LeaveKeepsEntries ==
    ASSUME IInv, NEW m \in Meetings, NEW u \in Users, LeaveMeeting(m, u)
    PROVE  /\ m \in DOMAIN meetings
           /\ m \in DOMAIN meetings' => /\ Members(m)' = Members(m) \ {u}
                                        /\ \A v \in Members(m) \ {u} : joinOrder'[m][v] = joinOrder[m][v]
           /\ m \notin DOMAIN meetings' => Members(m) \ {u} = {}
           /\ \A k \in Meetings \ {m} :
                 /\ k \in DOMAIN meetings' <=> k \in DOMAIN meetings
                 /\ k \in DOMAIN meetings => /\ Members(k)' = Members(k)
                                             /\ joinOrder'[k] = joinOrder[k]
<1> DEFINE members == Drop(participants[m], u)
           order == Drop(joinOrder[m], u)
<1> USE DEF Members, Drop, Restrict, IInv, TypeOK
<1>1. CASE /\ DOMAIN members = {}
           /\ participants' = Drop(participants, m)
           /\ joinOrder' = Drop(joinOrder, m)
           /\ meetings' = Drop(meetings, m)
           /\ m \in DOMAIN meetings
  BY <1>1
<1>2. ASSUME NEW v \in DOMAIN members,
             participants' = [participants EXCEPT ![m] = Put(members, v, 1)],
             meetings' = [meetings EXCEPT ![m].host = v],
             joinOrder' = [joinOrder EXCEPT ![m] = order],
             m \in DOMAIN meetings
      PROVE  /\ DOMAIN meetings' = DOMAIN meetings
             /\ Members(m)' = Members(m) \ {u}
             /\ \A w \in Members(m) \ {u} : joinOrder'[m][w] = joinOrder[m][w]
             /\ \A k \in DOMAIN meetings \ {m} : Members(k)' = Members(k) /\ joinOrder'[k] = joinOrder[k]
  BY <1>2 DEF Put
<1>3. CASE /\ participants' = [participants EXCEPT ![m] = members]
           /\ joinOrder' = [joinOrder EXCEPT ![m] = order]
           /\ UNCHANGED meetings
           /\ m \in DOMAIN meetings
  BY <1>3
<1> QED
  BY <1>1, <1>2, <1>3 DEF LeaveMeeting

\* LeaveMeeting takes the user out of the queue, or changes nothing.
LEMMA LeaveIsLeave ==
    ASSUME IInv, NEW m \in Meetings, NEW u \in Users, LeaveMeeting(m, u)
    PROVE  Roster!Leave(m, u) \/ UNCHANGED [k \in Meetings |-> Queue(k)]
<1>1. m \in DOMAIN meetings /\ Roster!In(Queue(m)) = Members(m)
  BY LeaveKeepsEntries, QueueMembers
<1>2. \A k \in Meetings \ {m} : Queue(k)' = Queue(k)
  BY LeaveKeepsEntries, QueueKept
<1>3. Queue(m)' = {p \in Queue(m) : p[1] # u /\ p[2] # u}
  <2>1. CASE m \in DOMAIN meetings'
    <3>1. /\ Members(m)' = Members(m) \ {u}
          /\ \A v \in Members(m) \ {u} : joinOrder'[m][v] = joinOrder[m][v]
      BY <2>1, LeaveKeepsEntries
    <3>2. Queue(m)' = {p \in (Members(m) \ {u}) \X (Members(m) \ {u}) :
                         joinOrder[m][p[1]] <= joinOrder[m][p[2]]}
      BY <2>1, <3>1 DEF Queue
    <3> QED
      BY <1>1, <3>2 DEF Queue
  <2>2. CASE m \notin DOMAIN meetings'
    <3>1. Members(m) \ {u} = {}
      BY <2>2, LeaveKeepsEntries
    <3> QED
      BY <1>1, <2>2, <3>1 DEF Queue
  <2> QED
    BY <2>1, <2>2
<1>4. CASE u \in Members(m)
  BY <1>1, <1>2, <1>3, <1>4 DEF Roster!Leave
<1>5. CASE u \notin Members(m)
  <2>1. Queue(m)' = Queue(m)
    BY <1>1, <1>3, <1>5 DEF Queue
  <2> QED
    BY <1>2, <2>1
<1> QED
  BY <1>4, <1>5

\* The memory store is an implementation of the roster of queues, for any
\* number of users, meetings and calls: create, join and leave are its create,
\* join and leave, and a leave by somebody who is not in changes nothing.
THEOREM StoreImplementsRoster == Spec => ImplementsRoster
<1>1. Init => Roster!Init
  BY DEF Init, Roster!Init, Queue, EmptyMap
<1>2. IInv /\ [Next]_vars => [Roster!Next]_([m \in Meetings |-> Queue(m)])
  <2> SUFFICES ASSUME IInv, [Next]_vars
               PROVE  Roster!Next \/ UNCHANGED [m \in Meetings |-> Queue(m)]
    OBVIOUS
  <2>1. CASE Next
    BY <2>1, CreateIsCreate, JoinIsJoin, LeaveIsLeave DEF Next, Roster!Next
  <2>2. CASE UNCHANGED vars
    BY <2>2 DEF vars, Queue, Members
  <2> QED
    BY <2>1, <2>2
<1> QED
  BY <1>1, <1>2, IInvariance, PTL DEF Spec, ImplementsRoster, Roster!Spec
=============================================================================
