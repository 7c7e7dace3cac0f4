----------------------- MODULE RepoMeetingStore_proof -----------------------
(* Proofs about RepoMeetingStore for any number of callers, users and        *)
(* meetings, and any interleaving of their statements.                       *)
EXTENDS RepoMeetingStore, FiniteSetTheorems, TLAPS

CallRecord ==
    [step : Steps, meeting : Ids \cup {None}, user : People \cup {None},
     host : People \cup {None}, at : Nat, next : People \cup {None}]

RowRecord == [id : 1..lastRow, meeting : created, user : People, role : {0, 1}, at : 0..clock]

Shape ==
    /\ host \in [Ids -> People \cup {None}]
    /\ \A m \in Ids : host[m] # None => m \in created
    /\ created \subseteq Ids
    /\ lastRow \in Nat /\ clock \in Nat
    /\ rows \subseteq RowRecord
    /\ \A r, q \in rows : r.id = q.id => r = q
    /\ call \in [Callers -> CallRecord]
    /\ \A c \in Callers :
          /\ call[c].step # "idle" => call[c].meeting \in created /\ call[c].user \in People
          /\ call[c].step = "joinAdd" => call[c].at \in 0..clock
          /\ call[c].step = "transferWrite" => call[c].next \in People

\* There is no row and no call in the beginning.
LEMMA InitShape == RepoInit => Shape
BY DEF RepoInit, Shape, CallRecord, RowRecord, Steps, Idle, Call

\* Every statement keeps the shape of the tables and of the callers.
LEMMA NextShape == Shape /\ [RepoNext]_repoVars => Shape'
<1> SUFFICES ASSUME Shape, [RepoNext]_repoVars PROVE Shape'
  OBVIOUS
<1> USE DEF Shape, CallRecord, RowRecord, Steps
<1>1. CASE Tick
  BY <1>1 DEF Tick
<1>2. ASSUME NEW c \in Callers, NEW m \in Ids, NEW u \in People, RepoCreate(c, m, u)
      PROVE  Shape'
  BY <1>2 DEF RepoCreate, Insert, Row
<1>3. ASSUME NEW c \in Callers, NEW m \in Ids, NEW u \in People,
             JoinFind(c, m, u) \/ LeaveFind(c, m, u)
      PROVE  Shape'
  BY <1>3 DEF JoinFind, LeaveFind, Call
<1>4. ASSUME NEW c \in Callers, JoinList(c)
      PROVE  Shape'
  BY <1>4 DEF JoinList, Return, Idle, Call
<1>5. ASSUME NEW c \in Callers, JoinAdd(c)
      PROVE  Shape'
  BY <1>5 DEF JoinAdd, Insert, Row, Return, Idle, Call
<1>6. ASSUME NEW c \in Callers, LeaveMark(c)
      PROVE  Shape'
  BY <1>6 DEF LeaveMark, Return, Goto, Idle, Call
<1>7. ASSUME NEW c \in Callers, LeaveList(c)
      PROVE  Shape'
  BY <1>7 DEF LeaveList, Return, Goto, Idle, Call
<1>8. ASSUME NEW c \in Callers, DeleteMeeting(c)
      PROVE  Shape'
  BY <1>8 DEF DeleteMeeting, Return, Idle, Call
<1>9. ASSUME NEW c \in Callers, TransferRead(c)
      PROVE  Shape'
  BY <1>9 DEF TransferRead, Active, Return, Idle, Call
<1>10. ASSUME NEW c \in Callers, TransferWrite(c)
       PROVE  Shape'
  BY <1>10 DEF TransferWrite, Return, Idle, Call
<1>11. CASE UNCHANGED repoVars
  BY <1>11 DEF repoVars
<1> QED
  BY <1>1, <1>2, <1>3, <1>4, <1>5, <1>6, <1>7, <1>8, <1>9, <1>10, <1>11 DEF RepoNext, Statement

\* Rows and calls are well formed whatever the callers do: ids are not used twice,
\* a call is on a meeting that was created, a transfer has found a successor.
THEOREM RepoTypeCorrect == RepoSpec => []RepoTypeOK
<1>1. Shape => RepoTypeOK
  BY DEF Shape, RepoTypeOK, CallRecord, RowRecord
<1> QED
  BY <1>1, InitShape, NextShape, PTL DEF RepoSpec

-----------------------------------------------------------------------------
(* Empty meetings *)

\* A meeting without rows is about to be found empty, or to be deleted.
EmptyIsNoticed ==
    \A m \in Ids : host[m] # None =>
       \/ Active(m) # {}
       \/ \E c \in Callers : call[c].meeting = m /\ call[c].step \in {"leaveList", "delete"}

\* TransferWrite changes no more of a row than its role.
LEMMA TransferKeepsRows ==
    ASSUME Shape, NEW c \in Callers, TransferWrite(c)
    PROVE  /\ \A r \in rows : \E q \in rows' :
                 /\ q.id = r.id /\ q.meeting = r.meeting /\ q.user = r.user /\ q.at = r.at
                 /\ q.role = IF r.meeting = call[c].meeting /\ r.user = call[c].next THEN 1 ELSE r.role
           /\ \A q \in rows' : \E r \in rows :
                 /\ q.id = r.id /\ q.meeting = r.meeting /\ q.user = r.user /\ q.at = r.at
                 /\ q.role = IF r.meeting = call[c].meeting /\ r.user = call[c].next THEN 1 ELSE r.role
           /\ \A p, q \in rows' : p.id = q.id => p = q
<1> DEFINE isNext(r) == r.meeting = call[c].meeting /\ r.user = call[c].next
           after(r) == IF isNext(r) THEN [r EXCEPT !.role = 1] ELSE r
<1>1. rows' = {after(r) : r \in rows}
  BY DEF TransferWrite
<1>2. \A r \in rows :
         /\ after(r).id = r.id /\ after(r).meeting = r.meeting
         /\ after(r).user = r.user /\ after(r).at = r.at
         /\ after(r).role = IF isNext(r) THEN 1 ELSE r.role
  BY DEF Shape, RowRecord
<1>3. \A r, q \in rows : r.id = q.id => r = q
  BY DEF Shape
<1> HIDE DEF after
<1> QED
  BY <1>1, <1>2, <1>3

\* Every statement keeps EmptyIsNoticed: who marks the last row lists the rows
\* afterwards.
LEMMA NextEmpty == Shape /\ EmptyIsNoticed /\ [RepoNext]_repoVars => EmptyIsNoticed'
<1> SUFFICES ASSUME Shape, EmptyIsNoticed, [RepoNext]_repoVars, NEW m \in Ids, host'[m] # None
             PROVE  \/ Active(m)' # {}
                    \/ \E c \in Callers : call'[c].meeting = m /\ call'[c].step \in {"leaveList", "delete"}
  BY DEF EmptyIsNoticed
<1> DEFINE Goal == \/ Active(m)' # {}
                   \/ \E c \in Callers : call'[c].meeting = m /\ call'[c].step \in {"leaveList", "delete"}
<1> USE DEF EmptyIsNoticed, Active, Shape, CallRecord
<1>1. CASE Tick
  BY <1>1 DEF Tick
<1>2. ASSUME NEW c \in Callers, NEW n \in Ids, NEW u \in People, RepoCreate(c, n, u)
      PROVE  Goal
  <2>1. CASE n = m
    <3>1. Row(lastRow + 1, m, u, 1, clock) \in rows'
      BY <1>2, <2>1 DEF RepoCreate, Insert
    <3>2. Row(lastRow + 1, m, u, 1, clock).meeting = m
      BY DEF Row
    <3> QED
      BY <3>1, <3>2
  <2>2. CASE n # m
    BY <1>2, <2>2 DEF RepoCreate, Insert
  <2> QED
    BY <2>1, <2>2
<1>3. ASSUME NEW c \in Callers, NEW n \in Ids, NEW u \in People,
             JoinFind(c, n, u) \/ LeaveFind(c, n, u)
      PROVE  Goal
  <2>1. /\ rows' = rows /\ host' = host
        /\ call[c].step = "idle"
        /\ \A d \in Callers \ {c} : call'[d] = call[d]
    BY <1>3 DEF JoinFind, LeaveFind
  <2> QED
    BY <2>1
<1>4. ASSUME NEW c \in Callers, JoinList(c)
      PROVE  Goal
  BY <1>4 DEF JoinList, Return, Idle, Call
<1>5. ASSUME NEW c \in Callers, JoinAdd(c)
      PROVE  Goal
  BY <1>5 DEF JoinAdd, Insert, Row, Return, Idle, Call
<1>6. ASSUME NEW c \in Callers, LeaveMark(c)
      PROVE  Goal
  <2>1. CASE call[c].meeting = m
    BY <1>6, <2>1 DEF LeaveMark, Return, Goto, Idle, Call
  <2>2. CASE call[c].meeting # m
    BY <1>6, <2>2 DEF LeaveMark, Return, Goto, Idle, Call
  <2> QED
    BY <2>1, <2>2
<1>7. ASSUME NEW c \in Callers, LeaveList(c)
      PROVE  Goal
  BY <1>7 DEF LeaveList, Return, Goto, Idle, Call
<1>8. ASSUME NEW c \in Callers, DeleteMeeting(c)
      PROVE  Goal
  BY <1>8 DEF DeleteMeeting, Return, Idle, Call
<1>9. ASSUME NEW c \in Callers, TransferRead(c)
      PROVE  Goal
  BY <1>9 DEF TransferRead, Return, Idle, Call
<1>10. ASSUME NEW c \in Callers, TransferWrite(c)
       PROVE  Goal
  <2>1. host[m] # None
    BY <1>10 DEF TransferWrite
  <2>2. CASE Active(m) # {}
    BY <1>10, <2>2, TransferKeepsRows
  <2>3. CASE Active(m) = {}
    BY <1>10, <2>1, <2>3 DEF TransferWrite, Return, Idle, Call
  <2> QED
    BY <2>2, <2>3
<1>11. CASE UNCHANGED repoVars
  BY <1>11 DEF repoVars
<1> QED
  BY <1>1, <1>2, <1>3, <1>4, <1>5, <1>6, <1>7, <1>8, <1>9, <1>10, <1>11 DEF RepoNext, Statement

\* A meeting everybody has left is deleted, however the leaves of any number
\* of callers interleave.
THEOREM EmptyIsDeleted == RepoSpec => []NoEmptyMeeting
<1>1. RepoInit => EmptyIsNoticed
  BY DEF RepoInit, EmptyIsNoticed
<1>2. EmptyIsNoticed => NoEmptyMeeting
  BY DEF EmptyIsNoticed, NoEmptyMeeting, Quiet
<1> QED
  BY <1>1, <1>2, InitShape, NextShape, NextEmpty, PTL DEF RepoSpec

-----------------------------------------------------------------------------
(* Calls that do not overlap *)

On(c, m) == call[c].step # "idle" /\ call[c].meeting = m

\* u is the user of the first active row.
IsFirst(m, u) == \E r \in Active(m) : r.user = u /\ \A q \in Active(m) \ {r} : Before(r, q)

\* The host is, and has the role.
HostFirst(m) ==
    \E r \in Active(m) : r.user = host[m] /\ r.role = 1 /\ \A q \in Active(m) \ {r} : Before(r, q)

OneRowEach(m) == \A r, q \in Active(m) : r.user = q.user => r = q

\* What a caller who is alone on a meeting can rely on, by where it is.
Relies(c, m) ==
    /\ host[m] # None
    /\ call[c].step \in {"joinList", "joinAdd", "leaveMark"} => HostFirst(m)
    /\ call[c].step = "joinAdd" => \A r \in Active(m) : r.at <= call[c].at /\ r.user # call[c].user
    /\ call[c].step \in {"leaveMark", "leaveList"} => call[c].host = host[m]
    /\ call[c].step = "leaveList" /\ call[c].user # host[m] => Active(m) = {} \/ HostFirst(m)
    /\ call[c].step = "delete" => Active(m) = {}
    /\ call[c].step = "transferRead" => Active(m) # {}
    /\ call[c].step = "transferWrite" => IsFirst(m, call[c].next)

\* A meeting on which no two calls have overlapped: one call at a time is
\* under way, and between calls the host is first.
Serial(m) ==
    /\ \A c, d \in Callers : On(c, m) /\ On(d, m) => c = d
    /\ OneRowEach(m)
    /\ \A c \in Callers : On(c, m) => Relies(c, m)
    /\ (host[m] # None /\ \A c \in Callers : ~On(c, m)) => HostFirst(m)

SerialInv == \A m \in Ids \ overlapped : Serial(m)

\* Where nothing of a meeting changes, it stays serial.
LEMMA Elsewhere ==
    ASSUME NEW m \in Ids, Serial(m),
           Active(m)' = Active(m), host'[m] = host[m],
           \A c \in Callers : call'[c] = call[c] \/ ~(On(c, m) \/ On(c, m)')
    PROVE  Serial(m)'
<1>1. \A c \in Callers : On(c, m)' => On(c, m) /\ call'[c] = call[c]
  BY DEF On
<1>2. \A c \in Callers : On(c, m) => On(c, m)' /\ call'[c] = call[c]
  BY DEF On
<1>3. OneRowEach(m)' /\ (HostFirst(m) => HostFirst(m)')
  BY DEF Serial, OneRowEach, HostFirst, Before
<1>4. ASSUME NEW c \in Callers, On(c, m)'
      PROVE  Relies(c, m)'
  <2>1. Relies(c, m) /\ call'[c] = call[c]
    BY <1>1, <1>4 DEF Serial
  <2> QED
    BY <1>3, <2>1 DEF Relies, IsFirst, Before
<1> QED
  BY <1>1, <1>2, <1>3, <1>4 DEF Serial

\* A statement of the only caller on a meeting.
LEMMA Alone ==
    ASSUME NEW m \in Ids, NEW c \in Callers,
           \A d \in Callers \ {c} : ~On(d, m)',
           OneRowEach(m)',
           On(c, m)' => Relies(c, m)',
           ~On(c, m)' /\ host'[m] # None => HostFirst(m)'
    PROVE  Serial(m)'
BY DEF Serial

\* JoinMeeting of a caller who is alone: the new row is behind the others.
LEMMA JoinSerial ==
    ASSUME Shape, NEW m \in Ids, Serial(m), NEW c \in Callers, On(c, m), JoinList(c) \/ JoinAdd(c)
    PROVE  Serial(m)'
<1>1. \A d \in Callers \ {c} : ~On(d, m)'
  BY DEF Serial, On, Shape, JoinList, JoinAdd, Return
<1>2. Relies(c, m) /\ OneRowEach(m)
  BY DEF Serial
<1>3. CASE JoinList(c)
  <2>1. Active(m)' = Active(m) /\ host'[m] = host[m] /\ HostFirst(m)
    BY <1>2, <1>3 DEF JoinList, Active, Relies
  <2>2. OneRowEach(m)' /\ HostFirst(m)'
    BY <1>2, <2>1 DEF OneRowEach, HostFirst, Before
  <2>3. On(c, m)' => /\ call'[c].step = "joinAdd"
                     /\ \A r \in Active(m) : r.at <= call'[c].at /\ r.user # call'[c].user
    BY <1>3 DEF JoinList, On, Return, Idle, Call, Shape, RowRecord, CallRecord, Active
  <2> QED
    BY <1>1, <1>2, <2>1, <2>2, <2>3, Alone DEF Relies
<1>4. CASE JoinAdd(c)
  <2> DEFINE new == Row(lastRow + 1, m, call[c].user, 0, call[c].at)
  <2>1. /\ rows' = rows \cup {new} /\ host'[m] = host[m]
        /\ call[c].step = "joinAdd" /\ call'[c].step = "idle"
    BY <1>4 DEF JoinAdd, Insert, On, Return, Idle, Call, Shape
  <2>2. /\ new.meeting = m /\ new.user = call[c].user
        /\ new.id = lastRow + 1 /\ new.at = call[c].at
    BY DEF Row
  <2> HIDE DEF new
  <2>3. Active(m)' = Active(m) \cup {new}
    BY <2>1, <2>2 DEF Active
  <2>4. \A r \in Active(m) : Before(r, new) /\ r.user # new.user
    <3>1. \A r \in Active(m) : r.at <= new.at /\ r.user # new.user
      BY <1>2, <2>1, <2>2 DEF Relies
    <3>2. new.at \in Nat /\ lastRow \in Nat
      BY <2>1, <2>2 DEF Shape, CallRecord
    <3>3. \A r \in Active(m) : r.at \in Nat /\ r.id \in 1..lastRow
      BY DEF Active, Shape, RowRecord
    <3> QED
      BY <2>2, <3>1, <3>2, <3>3 DEF Before
  <2>5. HostFirst(m)'
    <3>1. PICK r \in Active(m) : r.user = host[m] /\ r.role = 1 /\ \A q \in Active(m) \ {r} : Before(r, q)
      BY <1>2, <2>1 DEF Relies, HostFirst
    <3> QED
      BY <2>1, <2>3, <2>4, <3>1 DEF HostFirst, Before
  <2>6. OneRowEach(m)'
    BY <1>2, <2>3, <2>4 DEF OneRowEach
  <2> QED
    BY <1>1, <2>1, <2>5, <2>6, Alone DEF On
<1> QED
  BY <1>3, <1>4

\* LeaveMeeting of a caller who is alone, up to the hand-over.
LEMMA LeaveSerial ==
    ASSUME Shape, NEW m \in Ids, Serial(m), NEW c \in Callers, On(c, m),
           LeaveMark(c) \/ LeaveList(c) \/ DeleteMeeting(c)
    PROVE  Serial(m)'
<1>1. \A d \in Callers \ {c} : ~On(d, m)'
  BY DEF Serial, On, Shape, LeaveMark, LeaveList, DeleteMeeting, Return, Goto
<1>2. Relies(c, m) /\ OneRowEach(m)
  BY DEF Serial
<1>3. CASE LeaveMark(c)
  <2>1. Active(m)' = {r \in Active(m) : r.user # call[c].user}
    BY <1>3 DEF LeaveMark, Active, On
  <2>2. host'[m] = host[m] /\ host[m] # None /\ call[c].host = host[m] /\ HostFirst(m)
    BY <1>2, <1>3 DEF LeaveMark, Relies
  <2>3. OneRowEach(m)'
    BY <1>2, <2>1 DEF OneRowEach
  <2>4. call[c].user # host[m] => HostFirst(m)'
    <3>1. PICK r \in Active(m) : r.user = host[m] /\ r.role = 1 /\ \A q \in Active(m) \ {r} : Before(r, q)
      BY <2>2 DEF HostFirst
    <3> QED
      BY <2>1, <2>2, <3>1 DEF HostFirst, Before
  <2>5. \/ call'[c].step = "idle" /\ call[c].user # host[m]
        \/ /\ call'[c].step = "leaveList" /\ call'[c].user = call[c].user
           /\ call'[c].host = call[c].host /\ call'[c].meeting = m
    <3>1. CASE \E r \in Active(m) : r.user = call[c].user
      BY <1>3, <3>1 DEF LeaveMark, Goto, On, Shape, CallRecord
    <3>2. CASE ~\E r \in Active(m) : r.user = call[c].user
      BY <1>3, <2>2, <3>2 DEF LeaveMark, Return, Idle, Call, On, Shape, CallRecord, HostFirst
    <3> QED
      BY <3>1, <3>2
  <2> QED
    BY <1>1, <2>2, <2>3, <2>4, <2>5, Alone DEF On, Relies
<1>4. CASE LeaveList(c)
  <2>1. Active(m)' = Active(m) /\ host'[m] = host[m] /\ host[m] # None /\ call[c].host = host[m]
    BY <1>2, <1>4 DEF LeaveList, Active, Relies
  <2>2. OneRowEach(m)' /\ (HostFirst(m) => HostFirst(m)')
    BY <1>2, <2>1 DEF OneRowEach, HostFirst, Before
  <2>3. \/ Active(m) = {} /\ call'[c].step = "delete"
        \/ Active(m) # {} /\ call[c].user # host[m] /\ call'[c].step = "idle"
        \/ Active(m) # {} /\ call'[c].step = "transferRead"
    BY <1>4, <2>1 DEF LeaveList, Goto, Return, Idle, Call, On, Shape, CallRecord
  <2>4. Active(m) # {} /\ call[c].user # host[m] => HostFirst(m)
    BY <1>2, <1>4 DEF Relies, LeaveList
  <2>5. On(c, m)' => Relies(c, m)'
    BY <2>1, <2>3 DEF On, Relies
  <2>6. ~On(c, m)' => HostFirst(m)'
    <3>1. call'[c].meeting = call[c].meeting \/ call'[c].step = "idle"
      BY <1>4 DEF LeaveList, Goto, Return, Idle, Call, Shape, CallRecord
    <3> QED
      BY <2>2, <2>3, <2>4, <3>1 DEF On
  <2> QED
    BY <1>1, <2>2, <2>5, <2>6, Alone
<1>5. CASE DeleteMeeting(c)
  <2>1. host'[m] = None /\ call'[c].step = "idle" /\ Active(m)' = {}
    BY <1>5 DEF DeleteMeeting, Return, Idle, Call, On, Shape, Active
  <2> QED
    BY <1>1, <2>1, Alone DEF On, OneRowEach
<1> QED
  BY <1>3, <1>4, <1>5

\* The hand-over by a caller who is alone: the row read is still first when
\* the new host is written.
LEMMA TransferSerial ==
    ASSUME Shape, NEW m \in Ids, Serial(m), NEW c \in Callers, On(c, m),
           TransferRead(c) \/ TransferWrite(c)
    PROVE  Serial(m)'
<1>1. \A d \in Callers \ {c} : ~On(d, m)'
  BY DEF Serial, On, Shape, TransferRead, TransferWrite, Return
<1>2. Relies(c, m) /\ OneRowEach(m)
  BY DEF Serial
<1>3. CASE TransferRead(c)
  <2>1. /\ Active(m)' = Active(m) /\ host'[m] = host[m] /\ host[m] # None /\ Active(m) # {}
    BY <1>2, <1>3 DEF TransferRead, Active, Relies
  <2>2. /\ call'[c].step = "transferWrite" /\ call'[c].meeting = m
        /\ IsFirst(m, call'[c].next)
    BY <1>3, <2>1 DEF TransferRead, On, Shape, CallRecord, IsFirst
  <2>3. OneRowEach(m)' /\ IsFirst(m, call[c].next)'
    BY <1>2, <2>1, <2>2 DEF OneRowEach, IsFirst, Before
  <2>4. On(c, m)' /\ Relies(c, m)'
    BY <2>1, <2>2, <2>3 DEF On, Relies
  <2> QED
    BY <1>1, <2>3, <2>4, Alone
<1>4. CASE TransferWrite(c)
  <2>1. host'[m] = call[c].next /\ call'[c].step = "idle" /\ call[c].meeting = m
    BY <1>2, <1>4 DEF TransferWrite, Return, Idle, Call, On, Relies, Shape
  <2>2. PICK r \in Active(m) : r.user = call[c].next /\ \A q \in Active(m) \ {r} : Before(r, q)
    BY <1>2, <1>4 DEF Relies, TransferWrite, IsFirst
  <2>3. PICK s \in rows' : /\ s.id = r.id /\ s.meeting = r.meeting /\ s.user = r.user /\ s.at = r.at
                           /\ s.role = 1
    BY <1>4, <2>1, <2>2, TransferKeepsRows DEF Active
  <2>4. \A q \in Active(m)' : \E p \in Active(m) :
           q.id = p.id /\ q.user = p.user /\ q.at = p.at
    BY <1>4, TransferKeepsRows DEF Active
  <2>5. \A p, q \in rows' : p.id = q.id => p = q
    BY <1>4, TransferKeepsRows
  <2>6. s \in Active(m)' /\ \A q \in Active(m)' \ {s} : Before(s, q)
    <3>1. s \in Active(m)'
      BY <2>2, <2>3 DEF Active
    <3>2. ASSUME NEW q \in Active(m)', q # s
          PROVE  Before(s, q)
      <4>1. PICK p \in Active(m) : q.id = p.id /\ q.user = p.user /\ q.at = p.at
        BY <2>4
      <4>2. p # r
        BY <2>3, <2>5, <3>2, <4>1 DEF Active
      <4> QED
        BY <2>2, <2>3, <4>1, <4>2 DEF Before
    <3> QED
      BY <3>1, <3>2
  <2>7. HostFirst(m)'
    BY <2>1, <2>2, <2>3, <2>6 DEF HostFirst, Before
  <2>8. OneRowEach(m)'
    <3>1. ASSUME NEW p \in Active(m)', NEW q \in Active(m)', p.user = q.user
          PROVE  p = q
      <4>1. PICK p1 \in Active(m) : p.id = p1.id /\ p.user = p1.user /\ p.at = p1.at
        BY <2>4
      <4>2. PICK q1 \in Active(m) : q.id = q1.id /\ q.user = q1.user /\ q.at = q1.at
        BY <2>4
      <4>3. p1 = q1
        BY <1>2, <3>1, <4>1, <4>2 DEF OneRowEach
      <4> QED
        BY <2>5, <4>1, <4>2, <4>3 DEF Active
    <3> QED
      BY <3>1 DEF OneRowEach
  <2> QED
    BY <1>1, <2>1, <2>7, <2>8, Alone DEF On
<1> QED
  BY <1>3, <1>4

\* The statements of a call are on the call's meeting, and leave rows, host
\* and callers of every other meeting alone.
LEMMA StatementsElsewhere ==
    ASSUME Shape, NEW m \in Ids, Serial(m), NEW c \in Callers, call[c].meeting # m,
           \/ JoinList(c) \/ JoinAdd(c) \/ LeaveMark(c) \/ LeaveList(c) \/ DeleteMeeting(c)
           \/ TransferRead(c) \/ TransferWrite(c)
    PROVE  Serial(m)'
<1>1. \A d \in Callers : call'[d] = call[d] \/ ~(On(d, m) \/ On(d, m)')
  BY DEF JoinList, JoinAdd, LeaveMark, LeaveList, DeleteMeeting, TransferRead, TransferWrite,
         Return, Goto, Idle, Call, On, Shape, CallRecord
<1>2. host'[m] = host[m]
  BY DEF JoinList, JoinAdd, LeaveMark, LeaveList, DeleteMeeting, TransferRead, TransferWrite, Shape
<1>3. Active(m)' = Active(m)
  <2>1. CASE JoinAdd(c)
    BY <2>1 DEF JoinAdd, Insert, Row, Active
  <2>2. CASE TransferWrite(c)
    BY <2>2 DEF TransferWrite, Active, Shape, RowRecord
  <2>3. CASE LeaveMark(c) \/ DeleteMeeting(c)
    BY <2>3 DEF LeaveMark, DeleteMeeting, Active
  <2> QED
    BY <2>1, <2>2, <2>3 DEF JoinList, LeaveList, TransferRead, Active
<1> QED
  BY <1>1, <1>2, <1>3, Elsewhere

\* A call begins, or a meeting.
LEMMA BeginSerial ==
    ASSUME Shape, Track, NEW m \in Ids \ overlapped', Serial(m),
           NEW c \in Callers, NEW n \in Ids, NEW u \in People,
           RepoCreate(c, n, u) \/ JoinFind(c, n, u) \/ LeaveFind(c, n, u)
    PROVE  Serial(m)'
<1>1. CASE RepoCreate(c, n, u)
  <2> DEFINE new == Row(lastRow + 1, n, u, 1, clock)
  <2>1. rows' = rows \cup {new} /\ call' = call /\ n \notin created
    BY <1>1 DEF RepoCreate, Insert
  <2>2. new.meeting = n /\ new.user = u /\ new.role = 1
    BY DEF Row
  <2> HIDE DEF new
  <2>3. CASE n = m
    <3>0. \A r \in rows : r.meeting # m
      BY <2>1, <2>3 DEF Shape, RowRecord
    <3>1. Active(m)' = {new} /\ host'[m] = u
      <4>1. Active(m)' = {new}
        BY <2>1, <2>2, <2>3, <3>0 DEF Active
      <4>2. host'[m] = u
        BY <1>1, <2>3 DEF RepoCreate, Shape
      <4> QED
        BY <4>1, <4>2
    <3>2. \A d \in Callers : ~On(d, m)'
      BY <2>1, <2>3 DEF On, Shape
    <3>3. HostFirst(m)' /\ OneRowEach(m)'
      BY <2>2, <3>1 DEF HostFirst, OneRowEach
    <3> QED
      BY <3>2, <3>3 DEF Serial
  <2>4. CASE n # m
    <3>1. Active(m)' = Active(m) /\ host'[m] = host[m]
      BY <1>1, <2>1, <2>2, <2>4 DEF Active, RepoCreate, Shape
    <3> QED
      BY <2>1, <3>1, Elsewhere
  <2> QED
    BY <2>3, <2>4
<1>2. CASE JoinFind(c, n, u) \/ LeaveFind(c, n, u)
  <2>1. /\ Active(m)' = Active(m) /\ host'[m] = host[m] /\ host[n] # None
        /\ call[c].step = "idle" /\ call'[c].meeting = n /\ call'[c].step \in {"joinList", "leaveMark"}
        /\ call'[c].step = "leaveMark" => call'[c].host = host[n]
        /\ \A d \in Callers \ {c} : call'[d] = call[d]
    BY <1>2 DEF JoinFind, LeaveFind, Active, Call, Shape
  <2>2. CASE n = m
    <3>1. \A d \in Callers \ {c} : call'[d].meeting # m
      BY <2>1, <2>2 DEF Track
    <3>2. \A d \in Callers : ~On(d, m)
      BY <2>1, <3>1 DEF On
    <3>3. HostFirst(m)' /\ OneRowEach(m)'
      BY <2>1, <2>2, <3>2 DEF Serial, HostFirst, OneRowEach, Before
    <3>4. Relies(c, m)'
      BY <2>1, <2>2, <3>3 DEF Relies
    <3>5. \A d \in Callers \ {c} : ~On(d, m)'
      BY <3>1 DEF On
    <3>6. On(c, m)'
      BY <2>1, <2>2 DEF On
    <3> QED
      BY <3>3, <3>4, <3>5, <3>6, Alone
  <2>3. CASE n # m
    <3>1. \A d \in Callers : call'[d] = call[d] \/ ~(On(d, m) \/ On(d, m)')
      BY <2>1, <2>3 DEF On
    <3> QED
      BY <2>1, <3>1, Elsewhere
  <2> QED
    BY <2>2, <2>3
<1> QED
  BY <1>1, <1>2

\* Every statement keeps the meetings serial on which no calls overlap.
LEMMA NextSerial == Shape /\ SerialInv /\ [RepoNext]_repoVars => SerialInv'
<1> SUFFICES ASSUME Shape, SerialInv, [RepoNext]_repoVars, NEW m \in Ids \ overlapped'
             PROVE  Serial(m)'
  BY DEF SerialInv
<1>1. Serial(m)
  BY DEF SerialInv, RepoNext, Track, repoVars
<1>2. CASE UNCHANGED <<host, rows, call>>
  BY <1>1, <1>2, Elsewhere DEF Active
<1>3. ASSUME NEW c \in Callers,
             \/ JoinList(c) \/ JoinAdd(c) \/ LeaveMark(c) \/ LeaveList(c) \/ DeleteMeeting(c)
             \/ TransferRead(c) \/ TransferWrite(c)
      PROVE  Serial(m)'
  <2>1. CASE call[c].meeting = m
    <3>1. On(c, m)
      BY <1>3, <2>1 DEF On, JoinList, JoinAdd, LeaveMark, LeaveList, DeleteMeeting, TransferRead, TransferWrite
    <3> QED
      BY <1>1, <1>3, <3>1, JoinSerial, LeaveSerial, TransferSerial
  <2>2. CASE call[c].meeting # m
    BY <1>1, <1>3, <2>2, StatementsElsewhere
  <2> QED
    BY <2>1, <2>2
<1> QED
  BY <1>1, <1>2, <1>3, BeginSerial DEF RepoNext, Statement, Tick, repoVars

\* No two calls have overlapped in the beginning, and nothing is there.
LEMMA InitSerial == RepoInit => SerialInv
BY DEF RepoInit, SerialInv, Serial, On, OneRowEach, Active, Idle, Call

\* As long as no two calls overlap on a meeting its host is, between calls, the
\* earliest of those who are in, whatever happens to other meetings.
THEOREM HostWithoutOverlap == RepoSpec => []HostIsEarliest
<1>1. SerialInv => HostIsEarliest
  BY DEF SerialInv, Serial, HostIsEarliest, HostFirst, Quiet, On
<1> QED
  BY <1>1, InitShape, InitSerial, NextShape, NextSerial, PTL DEF RepoSpec

-----------------------------------------------------------------------------
(* The store implements MeetingRoster while calls do not overlap *)

\* Who is not behind whom in a set of rows.
Pairs(A) == {<<p[1].user, p[2].user>> : p \in {p \in A \X A : ~Before(p[2], p[1])}}

\* The same, row by row.
LEMMA PairsRows ==
    ASSUME NEW A
    PROVE  \A p : p \in Pairs(A) <=> \E r, q \in A : p = <<r.user, q.user>> /\ ~Before(q, r)
<1>1. ASSUME NEW r \in A, NEW q \in A, ~Before(q, r)
      PROVE  <<r.user, q.user>> \in Pairs(A)
  <2>1. <<r, q>> \in {p \in A \X A : ~Before(p[2], p[1])}
    BY <1>1
  <2> QED
    BY <2>1 DEF Pairs
<1>2. ASSUME NEW p \in Pairs(A)
      PROVE  \E r, q \in A : p = <<r.user, q.user>> /\ ~Before(q, r)
  BY DEF Pairs
<1> QED
  BY <1>1, <1>2

\* A queue in terms of rows.
LEMMA QueuePairs ==
    ASSUME NEW m
    PROVE  /\ host[m] = None => RowQueue(m) = {}
           /\ host[m] # None => \A p : p \in RowQueue(m) <=>
                 \E r, q \in Active(m) : p = <<r.user, q.user>> /\ ~Before(q, r)
BY PairsRows DEF RowQueue, Pairs

\* The users in the queue of a live meeting are those of its rows.
LEMMA QueueUsers ==
    ASSUME Shape, NEW m \in Ids, host[m] # None
    PROVE  \A u \in People : u \in RepoRoster!In(RowQueue(m)) <=> \E r \in Active(m) : r.user = u
<1>1. \A r \in Active(m) : r.at \in Nat /\ r.id \in Nat
  BY DEF Active, Shape, RowRecord
<1>2. \A r \in Active(m) : ~Before(r, r)
  BY <1>1 DEF Before
<1> QED
  BY <1>2, QueuePairs DEF RepoRoster!In

\* The insertion of a row is a join.
LEMMA AddIsJoin ==
    ASSUME Shape, NEW m \in Ids, Serial(m), NEW c \in Callers, On(c, m), JoinAdd(c)
    PROVE  RepoRoster!Join(m, call[c].user)
<1> DEFINE u == call[c].user
           new == Row(lastRow + 1, m, u, 0, call[c].at)
<1>1. /\ rows' = rows \cup {new} /\ host' = host
      /\ call[c].step = "joinAdd"
  BY DEF JoinAdd, Insert, On
<1>2. /\ new.meeting = m /\ new.user = u
      /\ new.id = lastRow + 1 /\ new.at = call[c].at
  BY DEF Row
<1> HIDE DEF new
<1>3. Relies(c, m) /\ u \in People
  BY <1>1 DEF Serial, Shape
<1>4. Active(m)' = Active(m) \cup {new}
  BY <1>1, <1>2 DEF Active
<1>5. /\ \A r \in Active(m) : Before(r, new) /\ ~Before(new, r) /\ r.user # u
      /\ ~Before(new, new)
  <2>0. \A r \in Active(m) : r.at <= new.at /\ r.user # u
    BY <1>1, <1>2, <1>3 DEF Relies
  <2>1. \A r \in Active(m) : r.at \in Nat /\ r.id \in 1..lastRow
    BY DEF Active, Shape, RowRecord
  <2>2. new.at \in Nat /\ lastRow \in Nat
    BY <1>1, <1>2 DEF Shape, CallRecord
  <2> QED
    BY <1>2, <2>0, <2>1, <2>2 DEF Before
<1>6. host[m] # None /\ HostFirst(m)
  BY <1>1, <1>3 DEF Relies
<1>7. RowQueue(m) # {} /\ u \notin RepoRoster!In(RowQueue(m))
  <2>1. PICK r \in Active(m) : r.user = host[m]
    BY <1>6 DEF HostFirst
  <2>2. host[m] \in People
    BY <1>6 DEF Shape
  <2>3. host[m] \in RepoRoster!In(RowQueue(m)) /\ u \notin RepoRoster!In(RowQueue(m))
    BY <1>3, <1>5, <1>6, <2>1, <2>2, QueueUsers
  <2>4. <<host[m], host[m]>> \in RowQueue(m)
    BY <2>3 DEF RepoRoster!In
  <2> QED
    BY <2>3, <2>4
<1>8. \A p : p \in RowQueue(m)' <=> \E r, q \in Active(m)' : p = <<r.user, q.user>> /\ ~Before(q, r)
  <2>1. RowQueue(m)' = Pairs(Active(m)')
    BY <1>1, <1>6 DEF RowQueue, Pairs, Before
  <2> QED
    BY <2>1, PairsRows
<1>9. RowQueue(m)' = RowQueue(m) \cup ((RepoRoster!In(RowQueue(m)) \cup {u}) \X {u})
  <2>1. ASSUME NEW r \in Active(m)', NEW q \in Active(m)', ~Before(q, r)
        PROVE  <<r.user, q.user>> \in RowQueue(m) \cup ((RepoRoster!In(RowQueue(m)) \cup {u}) \X {u})
    <3>1. \A x \in Active(m) : x.user \in People
      BY DEF Active, Shape, RowRecord
    <3>2. CASE q = new
      BY <1>2, <1>4, <1>6, <2>1, <3>1, <3>2, QueueUsers
    <3>3. CASE q # new
      BY <1>4, <1>5, <1>6, <2>1, <3>3, QueuePairs
    <3> QED
      BY <3>2, <3>3
  <2>2. RowQueue(m) \subseteq RowQueue(m)'
    BY <1>4, <1>6, <1>8, QueuePairs
  <2>3. ASSUME NEW v \in RepoRoster!In(RowQueue(m)) \cup {u}
        PROVE  <<v, u>> \in RowQueue(m)'
    <3>1. PICK r \in Active(m)' : r.user = v
      <4>1. CASE v = u
        BY <1>2, <1>4, <4>1
      <4>2. CASE v # u
        <5>1. v \in RepoRoster!In(RowQueue(m)) /\ v \in People
          BY <2>3, <4>2 DEF RepoRoster!In
        <5> QED
          BY <1>4, <1>6, <5>1, QueueUsers
      <4> QED
        BY <4>1, <4>2
    <3> QED
      BY <1>2, <1>4, <1>5, <1>8, <3>1
  <2> QED
    BY <1>8, <2>1, <2>2, <2>3
<1>10. \A k \in Ids \ {m} : RowQueue(k)' = RowQueue(k)
  BY <1>1, <1>2 DEF RowQueue, Active, Before
<1> QED
  BY <1>7, <1>9, <1>10 DEF RepoRoster!Join, queues

\* Marking the rows of a user is a leave, or nothing if there are none.
LEMMA MarkIsLeave ==
    ASSUME Shape, NEW m \in Ids, host[m] # None, NEW c \in Callers, On(c, m), LeaveMark(c)
    PROVE  RepoRoster!Leave(m, call[c].user) \/ UNCHANGED queues
<1> DEFINE u == call[c].user
<1>1. /\ rows' = {r \in rows : ~(r.meeting = m /\ r.user = u)} /\ host' = host
      /\ u \in People
  BY DEF LeaveMark, Active, On, Shape
<1>2. Active(m)' = {r \in Active(m) : r.user # u}
  BY <1>1 DEF Active
<1>3. RowQueue(m)' = {p \in RowQueue(m) : p[1] # u /\ p[2] # u}
  <2>1. RowQueue(m)' = Pairs(Active(m)') /\ RowQueue(m) = Pairs(Active(m))
    BY <1>1 DEF RowQueue, Pairs, Before
  <2>2. ASSUME NEW p
        PROVE  p \in Pairs(Active(m)') <=> p \in Pairs(Active(m)) /\ p[1] # u /\ p[2] # u
    <3>1. ASSUME p \in Pairs(Active(m)')
          PROVE  p \in Pairs(Active(m)) /\ p[1] # u /\ p[2] # u
      BY <1>2, <3>1, PairsRows
    <3>2. ASSUME p \in Pairs(Active(m)), p[1] # u, p[2] # u
          PROVE  p \in Pairs(Active(m)')
      <4>1. PICK r \in Active(m), q \in Active(m) : p = <<r.user, q.user>> /\ ~Before(q, r)
        BY <3>2, PairsRows
      <4>2. r \in Active(m)' /\ q \in Active(m)'
        BY <1>2, <3>2, <4>1
      <4> QED
        BY <4>1, <4>2, PairsRows
    <3> QED
      BY <3>1, <3>2
  <2> QED
    BY <2>1, <2>2
<1>4. \A k \in Ids \ {m} : RowQueue(k)' = RowQueue(k)
  BY <1>1 DEF RowQueue, Active, Before
<1>5. CASE u \in RepoRoster!In(RowQueue(m))
  BY <1>3, <1>4, <1>5 DEF RepoRoster!Leave, queues
<1>6. CASE u \notin RepoRoster!In(RowQueue(m))
  <2>1. Active(m)' = Active(m)
    BY <1>1, <1>2, <1>6, QueueUsers DEF Active
  <2>2. RowQueue(m)' = RowQueue(m)
    BY <1>1, <2>1 DEF RowQueue, Before
  <2> QED
    BY <1>4, <2>2 DEF queues
<1> QED
  BY <1>5, <1>6

\* The insertion of the host's row with a new meeting is a create.
LEMMA CreateIsCreate ==
    ASSUME Shape, None \notin People, NEW c \in Callers, NEW m \in Ids, NEW u \in People,
           RepoCreate(c, m, u)
    PROVE  RepoRoster!Create(m, u)
<1> DEFINE new == Row(lastRow + 1, m, u, 1, clock)
<1>1. rows' = rows \cup {new} /\ m \notin created /\ host' = [host EXCEPT ![m] = u]
  BY DEF RepoCreate, Insert
<1>2. new.meeting = m /\ new.user = u /\ new.at = clock /\ new.id = lastRow + 1
  BY DEF Row
<1> HIDE DEF new
<1>3. Active(m)' = {new} /\ host'[m] # None
  BY <1>1, <1>2 DEF Active, Shape, RowRecord
<1>4. ~Before(new, new)
  BY <1>2 DEF Before, Shape
<1>5. RowQueue(m)' = {<<u, u>>}
  <2>1. RowQueue(m)' = Pairs({new})
    BY <1>3 DEF RowQueue, Pairs, Before
  <2> QED
    BY <1>2, <1>4, <2>1, PairsRows
<1>6. \A k \in Ids \ {m} : RowQueue(k)' = RowQueue(k)
  BY <1>1, <1>2 DEF RowQueue, Active, Before, Shape
<1> QED
  BY <1>5, <1>6 DEF RepoRoster!Create, queues

\* Deleting a meeting without rows, and the change of roles, move nobody.
LEMMA RestKeepsQueues ==
    ASSUME Shape, None \notin People, NEW m \in Ids, Serial(m), NEW c \in Callers, On(c, m),
           DeleteMeeting(c) \/ TransferWrite(c)
    PROVE  UNCHANGED queues
<1>1. Relies(c, m)
  BY DEF Serial
<1>2. CASE DeleteMeeting(c)
  <2>1. Active(m) = {} /\ rows' = rows /\ host' = [host EXCEPT ![m] = None]
    BY <1>1, <1>2 DEF Relies, DeleteMeeting, On
  <2>2. RowQueue(m) = {} /\ RowQueue(m)' = {}
    BY <1>1, <2>1, QueuePairs DEF RowQueue, Shape, Relies
  <2>3. \A k \in Ids \ {m} : RowQueue(k)' = RowQueue(k)
    BY <2>1 DEF RowQueue, Active, Before, Shape
  <2> QED
    BY <2>2, <2>3 DEF queues
<1>3. CASE TransferWrite(c)
  <2>1. /\ host'[m] = call[c].next /\ call[c].next \in People /\ host[m] # None
        /\ \A k \in Ids \ {m} : host'[k] = host[k]
    BY <1>1, <1>3 DEF Relies, TransferWrite, On, Shape
  <2>2. ASSUME NEW k \in Ids
        PROVE  Pairs(Active(k)') = Pairs(Active(k))
    <3>0. /\ \A r \in Active(k) : \E r1 \in Active(k)' : r.id = r1.id /\ r.user = r1.user /\ r.at = r1.at
          /\ \A r \in Active(k)' : \E r1 \in Active(k) : r.id = r1.id /\ r.user = r1.user /\ r.at = r1.at
      <4>1. /\ \A r \in rows : \E q \in rows' :
                 r.id = q.id /\ q.meeting = r.meeting /\ r.user = q.user /\ r.at = q.at
            /\ \A q \in rows' : \E r \in rows :
                 q.id = r.id /\ q.meeting = r.meeting /\ q.user = r.user /\ q.at = r.at
        BY <1>3, TransferKeepsRows
      <4> QED
        BY <4>1 DEF Active
    <3>1. ASSUME NEW p, p \in Pairs(Active(k)')
          PROVE  p \in Pairs(Active(k))
      <4>1. PICK r \in Active(k)', q \in Active(k)' : p = <<r.user, q.user>> /\ ~Before(q, r)
        BY <3>1, PairsRows
      <4>2. PICK r1 \in Active(k) : r.id = r1.id /\ r.user = r1.user /\ r.at = r1.at
        BY <3>0
      <4>3. PICK q1 \in Active(k) : q.id = q1.id /\ q.user = q1.user /\ q.at = q1.at
        BY <3>0
      <4>4. p = <<r1.user, q1.user>> /\ ~Before(q1, r1)
        BY <4>1, <4>2, <4>3 DEF Before
      <4> QED
        BY <4>4, PairsRows
    <3>2. ASSUME NEW p, p \in Pairs(Active(k))
          PROVE  p \in Pairs(Active(k)')
      <4>1. PICK r \in Active(k), q \in Active(k) : p = <<r.user, q.user>> /\ ~Before(q, r)
        BY <3>2, PairsRows
      <4>2. PICK r1 \in Active(k)' : r.id = r1.id /\ r.user = r1.user /\ r.at = r1.at
        BY <3>0
      <4>3. PICK q1 \in Active(k)' : q.id = q1.id /\ q.user = q1.user /\ q.at = q1.at
        BY <3>0
      <4>4. p = <<r1.user, q1.user>> /\ ~Before(q1, r1)
        BY <4>1, <4>2, <4>3 DEF Before
      <4> QED
        BY <4>4, PairsRows
    <3> QED
      BY <3>1, <3>2
  <2>3. \A k \in Ids : RowQueue(k)' = RowQueue(k)
    <3> SUFFICES ASSUME NEW k \in Ids PROVE RowQueue(k)' = RowQueue(k)
      OBVIOUS
    <3>1. host'[k] = None <=> host[k] = None
      BY <2>1
    <3>2. /\ RowQueue(k) = IF host[k] # None THEN Pairs(Active(k)) ELSE {}
          /\ RowQueue(k)' = IF host'[k] # None THEN Pairs(Active(k)') ELSE {}
      BY DEF RowQueue, Pairs, Before
    <3> QED
      BY <2>2, <3>1, <3>2
  <2> QED
    BY <2>3 DEF queues
<1> QED
  BY <1>2, <1>3

\* As long as no two calls overlap, the repo-backed store implements the same
\* roster of queues as the memory store, whatever the order of the statements
\* of calls on different meetings.
THEOREM RepoIsRoster ==
    ASSUME None \notin People
    PROVE  RepoSpec => RepoImplementsRoster
<1>1. RepoInit => RepoRoster!Init
  BY DEF RepoInit, RepoRoster!Init, queues, RowQueue
<1>2. Shape /\ SerialInv /\ [RepoNext]_repoVars => [overlapped' # {} \/ RepoRoster!Next]_queues
  <2> SUFFICES ASSUME Shape, SerialInv, [RepoNext]_repoVars, overlapped' = {}
               PROVE  RepoRoster!Next \/ UNCHANGED queues
    OBVIOUS
  <2>1. overlapped = {}
    BY DEF RepoNext, Track, repoVars
  <2>2. \A m \in Ids : Serial(m)
    BY <2>1 DEF SerialInv
  <2>3. CASE UNCHANGED <<host, rows>>
    BY <2>3 DEF queues, RowQueue, Active, Before
  <2>4. ASSUME NEW c \in Callers, NEW m \in Ids, NEW u \in People, RepoCreate(c, m, u)
        PROVE  RepoRoster!Next
    BY <2>4, CreateIsCreate DEF RepoRoster!Next
  <2>5. ASSUME NEW c \in Callers,
               JoinAdd(c) \/ LeaveMark(c) \/ DeleteMeeting(c) \/ TransferWrite(c)
        PROVE  RepoRoster!Next \/ UNCHANGED queues
    <3> DEFINE m == call[c].meeting
    <3>1. m \in Ids /\ call[c].user \in People /\ On(c, m)
      BY <2>5 DEF On, Shape, JoinAdd, LeaveMark, DeleteMeeting, TransferWrite
    <3>2. Serial(m) /\ host[m] # None
      BY <2>2, <3>1 DEF Serial, Relies
    <3> HIDE DEF m
    <3>3. CASE JoinAdd(c)
      BY <3>1, <3>2, <3>3, AddIsJoin DEF RepoRoster!Next
    <3>4. CASE LeaveMark(c)
      BY <3>1, <3>2, <3>4, MarkIsLeave DEF RepoRoster!Next
    <3>5. CASE DeleteMeeting(c) \/ TransferWrite(c)
      BY <3>1, <3>2, <3>5, RestKeepsQueues
    <3> QED
      BY <2>5, <3>3, <3>4, <3>5
  <2> QED
    BY <2>3, <2>4, <2>5
       DEF RepoNext, Statement, Tick, JoinFind, LeaveFind, JoinList, LeaveList, TransferRead, repoVars
<1> QED
  BY <1>1, <1>2, InitShape, InitSerial, NextShape, NextSerial, PTL DEF RepoSpec, RepoImplementsRoster

-----------------------------------------------------------------------------
(* Capacity *)

\* The callers who have counted and not yet inserted.
Joining(m) == {c \in Callers : call[c].step = "joinAdd" /\ call[c].meeting = m}

\* Members and those who are about to be; nobody but the last to count can
\* have found room, so the callers are as many as can be above the capacity.
Counted ==
    /\ IsFiniteSet(rows)
    /\ \A m \in Ids :
          Cardinality(Active(m)) + Cardinality(Joining(m)) <= Capacity + Cardinality(Callers) - 1

\* Without overlap, whoever is about to insert has found room that is still
\* there.
CountedAlone(m) ==
    /\ Cardinality(Active(m)) <= Capacity
    /\ Joining(m) # {} => Cardinality(Active(m)) < Capacity

CapInv == Counted /\ \A m \in Ids \ overlapped : CountedAlone(m)

\* The rows of a meeting are finitely many, and so are those about to join.
LEMMA FinitelyMany ==
    ASSUME IsFiniteSet(Callers), Counted, NEW m
    PROVE  /\ IsFiniteSet(Active(m)) /\ Cardinality(Active(m)) \in Nat
           /\ IsFiniteSet(Joining(m)) /\ Cardinality(Joining(m)) \in Nat
           /\ Cardinality(Joining(m)) <= Cardinality(Callers) /\ Cardinality(Callers) \in Nat
<1>1. Active(m) \in SUBSET rows /\ Joining(m) \in SUBSET Callers
  BY DEF Active, Joining
<1>2. IsFiniteSet(Active(m)) /\ IsFiniteSet(Joining(m)) /\ Cardinality(Joining(m)) <= Cardinality(Callers)
  BY <1>1, FS_Subset DEF Counted
<1> QED
  BY <1>2, FS_CardinalityType

\* Statements that add no row to a meeting and bring nobody closer to adding one.
Lessens(m) ==
    /\ IsFiniteSet(Active(m)') /\ Cardinality(Active(m)') <= Cardinality(Active(m))
    /\ Joining(m)' \subseteq Joining(m)

\* They keep the bound.
LEMMA LessensKeeps ==
    ASSUME IsFiniteSet(Callers), Capacity \in Nat \ {0}, CapInv, NEW m \in Ids, Lessens(m)
    PROVE  /\ Cardinality(Active(m)') + Cardinality(Joining(m)') <= Capacity + Cardinality(Callers) - 1
           /\ CountedAlone(m) => CountedAlone(m)'
<1>1. /\ Cardinality(Active(m)) \in Nat /\ Cardinality(Joining(m)) \in Nat
      /\ IsFiniteSet(Joining(m)) /\ Cardinality(Callers) \in Nat
  BY FinitelyMany DEF CapInv
<1>2. Cardinality(Active(m)') \in Nat
  BY FS_CardinalityType DEF Lessens
<1>3. Joining(m)' \in SUBSET Joining(m)
  BY DEF Lessens
<1>4. Cardinality(Joining(m)') \in Nat /\ Cardinality(Joining(m)') <= Cardinality(Joining(m))
  BY <1>1, <1>3, FS_Subset, FS_CardinalityType
<1>5. Cardinality(Active(m)') <= Cardinality(Active(m))
  BY DEF Lessens
<1>6. Cardinality(Active(m)) + Cardinality(Joining(m)) <= Capacity + Cardinality(Callers) - 1
  BY DEF CapInv, Counted
<1>7. CountedAlone(m) => CountedAlone(m)'
  BY <1>1, <1>2, <1>3, <1>5 DEF CountedAlone
<1>8. Cardinality(Active(m)') + Cardinality(Joining(m)') <= Capacity + Cardinality(Callers) - 1
  BY <1>1, <1>2, <1>4, <1>5, <1>6
<1> QED
  BY <1>7, <1>8

\* A statement other than an insertion adds no row.
LEMMA FewerRows ==
    ASSUME Shape, IsFiniteSet(rows), NEW m \in Ids, NEW c \in Callers,
           LeaveMark(c) \/ DeleteMeeting(c) \/ TransferWrite(c)
    PROVE  /\ IsFiniteSet(rows')
           /\ IsFiniteSet(Active(m)')
           /\ Cardinality(Active(m)') <= Cardinality(Active(m))
<1>1. IsFiniteSet(Active(m))
  BY FS_Subset DEF Active
<1>2. CASE LeaveMark(c) \/ DeleteMeeting(c)
  <2>1. rows' \in SUBSET rows
    BY <1>2 DEF LeaveMark, DeleteMeeting
  <2>2. Active(m)' \in SUBSET Active(m)
    BY <2>1 DEF Active
  <2> QED
    BY <1>1, <2>1, <2>2, FS_Subset
<1>3. CASE TransferWrite(c)
  <2> DEFINE isNext(r) == r.meeting = call[c].meeting /\ r.user = call[c].next
             after == [r \in rows |-> IF isNext(r) THEN [r EXCEPT !.role = 1] ELSE r]
             afterM == [r \in Active(m) |-> after[r]]
  <2>1. rows' = {after[r] : r \in rows}
    BY <1>3 DEF TransferWrite
  <2>2. \A r \in rows : after[r].meeting = r.meeting
    BY DEF Shape, RowRecord
  <2> HIDE DEF after
  <2>3. after \in [rows -> rows'] /\ \A q \in rows' : \E r \in rows : after[r] = q
    BY <2>1 DEF after
  <2>4. after \in Surjection(rows, rows')
    BY <2>3 DEF Surjection
  <2>5. Active(m)' = {after[r] : r \in Active(m)}
    BY <2>1, <2>2 DEF Active
  <2>6. afterM \in Surjection(Active(m), Active(m)')
    BY <2>5 DEF Surjection
  <2> QED
    BY <1>1, <2>4, <2>6, FS_Surjection
<1> QED
  BY <1>2, <1>3

\* RepoCreate inserts the only row of its meeting.
LEMMA CreateCounts ==
    ASSUME Shape, IsFiniteSet(Callers), Capacity \in Nat \ {0}, CapInv, Track,
           NEW c \in Callers, NEW n \in Ids, NEW u \in People, RepoCreate(c, n, u)
    PROVE  CapInv'
<1> DEFINE new == Row(lastRow + 1, n, u, 1, clock)
<1>1. rows' = rows \cup {new} /\ call' = call /\ n \notin created
  BY DEF RepoCreate, Insert
<1>2. new.meeting = n
  BY DEF Row
<1> HIDE DEF new
<1>3. IsFiniteSet(rows')
  BY <1>1, FS_AddElement DEF CapInv, Counted
<1>4. Active(n)' = {new} /\ Joining(n)' = {}
  BY <1>1, <1>2 DEF Active, Joining, Shape, RowRecord
<1>5. Cardinality(Active(n)') = 1 /\ Cardinality(Joining(n)') = 0
  BY <1>4, FS_Singleton, FS_EmptySet
<1>6. Cardinality(Callers) \in Nat /\ Cardinality(Callers) # 0
  BY FS_CardinalityType, FS_EmptySet
<1>7. \A m \in Ids \ {n} : Lessens(m)
  <2> SUFFICES ASSUME NEW m \in Ids, m # n PROVE Lessens(m)
    OBVIOUS
  <2>1. Active(m)' = Active(m) /\ Joining(m)' = Joining(m)
    BY <1>1, <1>2 DEF Active, Joining
  <2> QED
    BY <2>1, FinitelyMany DEF Lessens, CapInv
<1>8. Cardinality(Active(n)') + Cardinality(Joining(n)') <= Capacity + Cardinality(Callers) - 1
  BY <1>5, <1>6
<1>9. CountedAlone(n)'
  BY <1>4, <1>5 DEF CountedAlone
<1>10. overlapped \subseteq overlapped'
  BY DEF Track
<1> QED
  BY <1>3, <1>7, <1>8, <1>9, <1>10, LessensKeeps DEF CapInv, Counted

\* JoinList: who goes on has found room.
LEMMA JoinListCounts ==
    ASSUME Shape, IsFiniteSet(Callers), Capacity \in Nat \ {0}, CapInv, Track,
           NEW c \in Callers, JoinList(c)
    PROVE  CapInv'
<1>0. PICK n \in Ids : n = call[c].meeting
  BY DEF JoinList, Shape
<1>1. rows' = rows /\ \A d \in Callers \ {c} : call'[d] = call[d]
  BY DEF JoinList, Return, Shape
<1>2. \A m \in Ids : Active(m)' = Active(m)
  BY <1>1 DEF Active
<1>3. \A m \in Ids : Cardinality(Active(m)) \in Nat /\ IsFiniteSet(Active(m))
  BY FinitelyMany DEF CapInv
<1>4. IsFiniteSet(rows')
  BY <1>1 DEF CapInv, Counted
<1>5. overlapped \subseteq overlapped'
  BY DEF Track
<1>6. CASE call'[c].step = "joinAdd"
  <2>1. Cardinality(Active(n)) < Capacity /\ call'[c].meeting = n
    BY <1>0, <1>3, <1>6 DEF JoinList, Return, Idle, Call, Shape, CallRecord
  <2>2. Joining(n)' \in SUBSET Callers
    BY DEF Joining
  <2>3. /\ Cardinality(Joining(n)') <= Cardinality(Callers)
        /\ Cardinality(Joining(n)') \in Nat /\ Cardinality(Callers) \in Nat
    BY <2>2, FS_Subset, FS_CardinalityType
  <2>4. Cardinality(Active(n)') + Cardinality(Joining(n)') <= Capacity + Cardinality(Callers) - 1
    BY <1>2, <1>3, <2>1, <2>3
  <2>5. CountedAlone(n)'
    BY <1>2, <1>3, <2>1 DEF CountedAlone
  <2>6. ASSUME NEW m \in Ids \ {n} PROVE Lessens(m)
    <3>1. Joining(m)' \subseteq Joining(m)
      BY <1>1, <2>1 DEF Joining
    <3> QED
      BY <1>2, <1>3, <3>1 DEF Lessens
  <2> QED
    BY <1>4, <1>5, <2>1, <2>4, <2>5, <2>6, LessensKeeps DEF CapInv, Counted
<1>7. CASE call'[c].step # "joinAdd"
  <2>1. ASSUME NEW m \in Ids PROVE Lessens(m)
    <3>1. Joining(m)' \subseteq Joining(m)
      BY <1>1, <1>7 DEF Joining
    <3> QED
      BY <1>2, <1>3, <3>1 DEF Lessens
  <2> QED
    BY <1>4, <1>5, <2>1, LessensKeeps DEF CapInv, Counted
<1> QED
  BY <1>6, <1>7

\* JoinAdd: one more row and one fewer to come.
LEMMA JoinAddCounts ==
    ASSUME Shape, SerialInv, IsFiniteSet(Callers), Capacity \in Nat \ {0}, CapInv, Track,
           NEW c \in Callers, JoinAdd(c)
    PROVE  CapInv'
<1>0. PICK n \in Ids : n = call[c].meeting
  BY DEF JoinAdd, Shape
<1> DEFINE new == Row(lastRow + 1, n, call[c].user, 0, call[c].at)
<1>1. /\ rows' = rows \cup {new}
      /\ call[c].step = "joinAdd" /\ call'[c].step = "idle"
      /\ \A d \in Callers \ {c} : call'[d] = call[d]
  BY <1>0 DEF JoinAdd, Insert, Return, Idle, Call, Shape
<1>2. new.meeting = n /\ new.id = lastRow + 1
  BY DEF Row
<1> HIDE DEF new
<1>3. new \notin rows
  BY <1>2 DEF Shape, RowRecord
<1>4. IsFiniteSet(rows')
  BY <1>1, FS_AddElement DEF CapInv, Counted
<1>5. overlapped \subseteq overlapped'
  BY DEF Track
<1>6. Active(n)' = Active(n) \cup {new} /\ new \notin Active(n)
  BY <1>1, <1>2, <1>3 DEF Active
<1>7. Joining(n)' = Joining(n) \ {c} /\ c \in Joining(n)
  BY <1>0, <1>1 DEF Joining
<1>8. /\ IsFiniteSet(Active(n)) /\ Cardinality(Active(n)) \in Nat
      /\ IsFiniteSet(Joining(n)) /\ Cardinality(Joining(n)) \in Nat
      /\ Cardinality(Callers) \in Nat
  BY FinitelyMany DEF CapInv
<1>9. /\ Cardinality(Active(n)') = Cardinality(Active(n)) + 1
      /\ Cardinality(Joining(n)') = Cardinality(Joining(n)) - 1
  <2>1. Cardinality(Active(n) \cup {new}) = Cardinality(Active(n)) + 1
    BY <1>6, <1>8, FS_AddElement
  <2>2. Cardinality(Joining(n) \ {c}) = Cardinality(Joining(n)) - 1
    BY <1>7, <1>8, FS_RemoveElement
  <2> QED
    BY <1>6, <1>7, <2>1, <2>2
<1>10. Cardinality(Active(n)) + Cardinality(Joining(n)) <= Capacity + Cardinality(Callers) - 1
  BY <1>1 DEF CapInv, Counted
<1>11. Cardinality(Active(n)') + Cardinality(Joining(n)') <= Capacity + Cardinality(Callers) - 1
  BY <1>8, <1>9, <1>10
<1>12. n \notin overlapped' => CountedAlone(n)'
  <2> SUFFICES ASSUME n \notin overlapped' PROVE CountedAlone(n)'
    OBVIOUS
  <2>1. CountedAlone(n) /\ Serial(n)
    BY <1>1, <1>5 DEF CapInv, SerialInv
  <2>2. \A d \in Callers \ {c} : d \notin Joining(n)
    BY <1>0, <1>1, <2>1 DEF Serial, On, Joining
  <2>3. Joining(n)' = {}
    BY <1>7, <2>2 DEF Joining
  <2> QED
    BY <1>7, <1>8, <1>9, <2>1, <2>3 DEF CountedAlone
<1>13. \A m \in Ids \ {n} : Lessens(m)
  <2> SUFFICES ASSUME NEW m \in Ids, m # n PROVE Lessens(m)
    OBVIOUS
  <2>1. Active(m)' = Active(m) /\ Joining(m)' = Joining(m)
    BY <1>0, <1>1, <1>2 DEF Active, Joining
  <2> QED
    BY <2>1, FinitelyMany DEF Lessens, CapInv
<1> QED
  BY <1>1, <1>4, <1>5, <1>11, <1>12, <1>13, LessensKeeps DEF CapInv, Counted

\* Every statement keeps the bound.
LEMMA NextCounts ==
    ASSUME IsFiniteSet(Callers), Capacity \in Nat \ {0}
    PROVE  Shape /\ SerialInv /\ CapInv /\ [RepoNext]_repoVars => CapInv'
<1> SUFFICES ASSUME Shape, SerialInv, CapInv, [RepoNext]_repoVars PROVE CapInv'
  OBVIOUS
<1>1. overlapped \subseteq overlapped'
  BY DEF RepoNext, Track, repoVars
<1>2. ASSUME IsFiniteSet(rows'), \A m \in Ids : Lessens(m)
      PROVE  CapInv'
  BY <1>1, <1>2, LessensKeeps DEF CapInv, Counted
<1>3. CASE rows' = rows /\ \A d \in Callers : call'[d].step = "joinAdd" => call'[d] = call[d]
  <2>1. \A m \in Ids : Active(m)' = Active(m) /\ Joining(m)' \subseteq Joining(m)
    BY <1>3 DEF Active, Joining
  <2>2. ASSUME NEW m \in Ids PROVE Lessens(m)
    <3>1. IsFiniteSet(Active(m)) /\ Cardinality(Active(m)) \in Nat
      BY FinitelyMany DEF CapInv
    <3> QED
      BY <2>1, <3>1 DEF Lessens
  <2> QED
    BY <1>2, <1>3, <2>2 DEF CapInv, Counted
<1>4. ASSUME NEW c \in Callers, LeaveMark(c) \/ DeleteMeeting(c) \/ TransferWrite(c)
      PROVE  CapInv'
  <2>1. \A d \in Callers : call'[d].step = "joinAdd" => call'[d] = call[d]
    BY <1>4 DEF LeaveMark, DeleteMeeting, TransferWrite, Goto, Return, Idle, Call, Shape, CallRecord
  <2>2. \A m \in Ids : Joining(m)' \subseteq Joining(m)
    BY <2>1 DEF Joining
  <2>3. IsFiniteSet(rows)
    BY DEF CapInv, Counted
  <2>4. \A m \in Ids : Lessens(m)
    BY <1>4, <2>2, <2>3, FewerRows DEF Lessens
  <2>5. IsFiniteSet(rows')
    <3>1. CASE Ids = {}
      BY <1>4, <3>1 DEF LeaveMark, DeleteMeeting, TransferWrite, Shape
    <3>2. CASE Ids # {}
      BY <1>4, <2>3, <3>2, FewerRows
    <3> QED
      BY <3>1, <3>2
  <2> QED
    BY <1>2, <2>4, <2>5
<1>5. ASSUME NEW c \in Callers, NEW m \in Ids, NEW u \in People,
             JoinFind(c, m, u) \/ LeaveFind(c, m, u)
      PROVE  CapInv'
  BY <1>3, <1>5 DEF JoinFind, LeaveFind, Call, Shape
<1>6. ASSUME NEW c \in Callers, LeaveList(c) \/ TransferRead(c)
      PROVE  CapInv'
  BY <1>3, <1>6 DEF LeaveList, TransferRead, Goto, Return, Idle, Call, Shape, CallRecord
<1>7. CASE UNCHANGED <<rows, call>>
  BY <1>3, <1>7
<1> QED
  BY <1>4, <1>5, <1>6, <1>7, CreateCounts, JoinListCounts, JoinAddCounts DEF RepoNext, Statement, Tick, repoVars

\* A meeting has at most as many members as its capacity; with overlapping
\* joins, at most one more for every other caller, however often they overlap.
THEOREM CapacityIsBounded ==
    ASSUME IsFiniteSet(Callers), Callers # {}, Capacity \in Nat \ {0}
    PROVE  RepoSpec => []RepoCapacityRespected
<1>1. RepoInit => CapInv
  <2> SUFFICES ASSUME RepoInit PROVE CapInv
    OBVIOUS
  <2>1. \A m \in Ids : Active(m) = {} /\ Joining(m) = {}
    BY DEF RepoInit, Active, Joining, Idle, Call
  <2>2. Cardinality({}) = 0 /\ IsFiniteSet({})
    BY FS_EmptySet
  <2>3. Cardinality(Callers) \in Nat /\ Cardinality(Callers) # 0
    BY FS_CardinalityType, FS_EmptySet
  <2>4. \A m \in Ids : Cardinality(Active(m)) = 0 /\ Cardinality(Joining(m)) = 0
    BY <2>1, <2>2
  <2>5. 0 + 0 <= Capacity + Cardinality(Callers) - 1 /\ 0 < Capacity
    BY <2>3
  <2> QED
    BY <2>1, <2>2, <2>4, <2>5 DEF RepoInit, CapInv, Counted, CountedAlone
<1>2. CapInv /\ Shape => RepoCapacityRespected
  <2> SUFFICES ASSUME CapInv, Shape, NEW m \in Ids
               PROVE  Cardinality(Active(m)) <=
                         Capacity + (IF m \in overlapped THEN Cardinality(Callers) - 1 ELSE 0)
    BY DEF RepoCapacityRespected
  <2>1. Cardinality(Active(m)) \in Nat /\ Cardinality(Joining(m)) \in Nat /\ Cardinality(Callers) \in Nat
    BY FinitelyMany DEF CapInv
  <2>2. Cardinality(Active(m)) + Cardinality(Joining(m)) <= Capacity + Cardinality(Callers) - 1
    BY DEF CapInv, Counted
  <2>3. m \notin overlapped => Cardinality(Active(m)) <= Capacity
    BY DEF CapInv, CountedAlone
  <2> QED
    BY <2>1, <2>2, <2>3
<1> QED
  BY <1>1, <1>2, InitShape, InitSerial, NextShape, NextSerial, NextCounts, PTL DEF RepoSpec
=============================================================================
