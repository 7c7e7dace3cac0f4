-------------------------- MODULE RepoMeetingStore --------------------------
(* The repo-backed MeetingLifecycleStore (store/meeting_lifecycle.go) over   *)
(* store/meeting_repo.go and store/participant_repo.go.  Its calls are made  *)
(* by the handlers of all signaling nodes and are not transactions: each is  *)
(* a sequence of statements, and only TransferHost and DeleteMeeting group   *)
(* some of them.  A step is one statement, except that the two statements of *)
(* a create are one step, since nobody knows the number before they are      *)
(* done.  Passwords are MeetingStore's subject; rows with left_at set are    *)
(* never looked at again and are dropped.                                    *)
EXTENDS Naturals, FiniteSets

CONSTANTS
    Callers,    \* goroutines inside a call of the store
    People,     \* user ids
    Ids,        \* primary keys of the meetings table, never reused
    Capacity,   \* max_participants
    None,       \* no user, no meeting, no caller's snapshot
    MaxRows,    \* bound: rows ever inserted into meeting_participants
    MaxClock    \* bound: ticks of the clock

VARIABLES
    host,       \* meetings table: host_user_id, None when there is no row
    rows,       \* meeting_participants: the rows with left_at NULL
    lastRow,    \* the auto increment of meeting_participants
    created,    \* primary keys handed out
    clock,      \* time.Now(), as joined_at stores it
    call,       \* what each caller is doing, and its local variables
    overlapped  \* history: meetings on which two calls were under way at once

repoVars == <<host, rows, lastRow, created, clock, call, overlapped>>

Row(id, m, u, role, at) == [id |-> id, meeting |-> m, user |-> u, role |-> role, at |-> at]
Call(step, m, u) ==
    [step |-> step, meeting |-> m, user |-> u, host |-> None, at |-> 0, next |-> None]
Idle == Call("idle", None, None)

\* ListActiveParticipants
Active(m) == {r \in rows : r.meeting = m}

\* Its order: joined_at, id.  pickNextHostCandidate takes the first.
Before(r, q) == r.at < q.at \/ (r.at = q.at /\ r.id < q.id)

RepoInit ==
    /\ host = [m \in Ids |-> None]
    /\ rows = {}
    /\ lastRow = 0
    /\ created = {}
    /\ clock = 0
    /\ call = [c \in Callers |-> Idle]
    /\ overlapped = {}

Goto(c, step) == call' = [call EXCEPT ![c].step = step]
Return(c) == call' = [call EXCEPT ![c] = Idle]

Tick == clock < MaxClock /\ clock' = clock + 1 /\ UNCHANGED <<host, rows, lastRow, created, call>>

Insert(m, u, role, at) ==
    /\ lastRow < MaxRows
    /\ lastRow' = lastRow + 1
    /\ rows' = rows \cup {Row(lastRow + 1, m, u, role, at)}

RepoCreate(c, m, u) ==
    /\ call[c].step = "idle"
    /\ m \in Ids \ created
    /\ created' = created \cup {m}
    /\ host' = [host EXCEPT ![m] = u]
    /\ Insert(m, u, 1, clock)
    /\ UNCHANGED <<clock, call>>

-----------------------------------------------------------------------------
(* JoinMeeting *)

\* FindByMeetingNo; a meeting that is not there is an error.
JoinFind(c, m, u) ==
    /\ call[c].step = "idle"
    /\ host[m] # None
    /\ call' = [call EXCEPT ![c] = Call("joinList", m, u)]
    /\ UNCHANGED <<host, rows, lastRow, created, clock>>

MutantJoinCapacity(c) ==
    /\ call[c].step = "joinList"
    /\ LET active == Active(call[c].meeting) IN
       IF Cardinality(active) > Capacity \/ \E r \in active : r.user = call[c].user
       THEN Return(c)
       ELSE call' = [call EXCEPT ![c].step = "joinAdd", ![c].at = clock]
    /\ UNCHANGED <<host, rows, lastRow, created, clock>>

\* ListActiveParticipants, the capacity, a user who is in already, time.Now().
JoinList(c) ==
    /\ call[c].step = "joinList"
    /\ LET active == Active(call[c].meeting) IN
       IF Cardinality(active) >= Capacity \/ \E r \in active : r.user = call[c].user
       THEN Return(c)
       ELSE call' = [call EXCEPT ![c].step = "joinAdd", ![c].at = clock]
    /\ UNCHANGED <<host, rows, lastRow, created, clock>>

MutantJoinAdd(c) ==
    /\ call[c].step = "joinAdd"
    /\ Insert(call[c].meeting, call[c].user, 0, 0)
    /\ Return(c)
    /\ UNCHANGED <<host, created, clock>>

\* AddParticipant: no constraint ties the row to a meeting or keeps it unique.
JoinAdd(c) ==
    /\ call[c].step = "joinAdd"
    /\ Insert(call[c].meeting, call[c].user, 0, call[c].at)
    /\ Return(c)
    /\ UNCHANGED <<host, created, clock>>

-----------------------------------------------------------------------------
(* LeaveMeeting *)

\* FindByMeetingNo: the row, with its host, is read once.
LeaveFind(c, m, u) ==
    /\ call[c].step = "idle"
    /\ host[m] # None
    /\ call' = [call EXCEPT ![c] = [Call("leaveMark", m, u) EXCEPT !.host = host[m]]]
    /\ UNCHANGED <<host, rows, lastRow, created, clock>>

\* MarkParticipantLeft; no row affected is an error.
LeaveMark(c) ==
    /\ call[c].step = "leaveMark"
    /\ LET mine == {r \in Active(call[c].meeting) : r.user = call[c].user} IN
       /\ rows' = rows \ mine
       /\ IF mine = {} THEN Return(c) ELSE Goto(c, "leaveList")
    /\ UNCHANGED <<host, lastRow, created, clock>>

MutantLeaveList(c) ==
    /\ call[c].step = "leaveList"
    /\ IF call[c].host # call[c].user THEN Return(c)
       ELSE IF Active(call[c].meeting) = {} THEN Goto(c, "delete")
       ELSE Goto(c, "transferRead")
    /\ UNCHANGED <<host, rows, lastRow, created, clock>>

\* ListActiveParticipants again, and what follows from it.
LeaveList(c) ==
    /\ call[c].step = "leaveList"
    /\ IF Active(call[c].meeting) = {} THEN Goto(c, "delete")
       ELSE IF call[c].host # call[c].user THEN Return(c)
       ELSE Goto(c, "transferRead")
    /\ UNCHANGED <<host, rows, lastRow, created, clock>>

\* DeleteMeeting: one transaction.
DeleteMeeting(c) ==
    /\ call[c].step = "delete"
    /\ rows' = rows \ Active(call[c].meeting)
    /\ host' = [host EXCEPT ![call[c].meeting] = None]
    /\ Return(c)
    /\ UNCHANGED <<lastRow, created, clock>>

\* TransferHost: its reads see one snapshot; without a meeting or a candidate
\* it is rolled back.
TransferRead(c) ==
    /\ call[c].step = "transferRead"
    /\ LET m == call[c].meeting IN
       \/ /\ host[m] # None
          /\ \E r \in Active(m) :
                /\ \A q \in Active(m) \ {r} : Before(r, q)
                /\ call' = [call EXCEPT ![c].step = "transferWrite", ![c].next = r.user]
       \/ (host[m] = None \/ Active(m) = {}) /\ Return(c)
    /\ UNCHANGED <<host, rows, lastRow, created, clock>>

MutantTransferWrite(c) ==
    /\ call[c].step = "transferWrite"
    /\ LET m == call[c].meeting
           isNext(r) == r.meeting = m /\ r.user = call[c].next
       IN /\ host' = [host EXCEPT ![m] = IF @ = None THEN None ELSE call[c].next]
          /\ rows' = {IF isNext(r) THEN r ELSE [r EXCEPT !.role = 0] : r \in rows}
    /\ Return(c)
    /\ UNCHANGED <<lastRow, created, clock>>

\* TransferHost: its updates see what is there now.
TransferWrite(c) ==
    /\ call[c].step = "transferWrite"
    /\ LET m == call[c].meeting
           isNext(r) == r.meeting = m /\ r.user = call[c].next
       IN /\ host' = [host EXCEPT ![m] = IF @ = None THEN None ELSE call[c].next]
          /\ rows' = {IF isNext(r) THEN [r EXCEPT !.role = 1] ELSE r : r \in rows}
    /\ Return(c)
    /\ UNCHANGED <<lastRow, created, clock>>

-----------------------------------------------------------------------------

Statement(c) ==
    \/ \E m \in Ids, u \in People :
          RepoCreate(c, m, u) \/ JoinFind(c, m, u) \/ LeaveFind(c, m, u)
    \/ JoinList(c) \/ JoinAdd(c)
    \/ LeaveMark(c) \/ LeaveList(c) \/ DeleteMeeting(c) \/ TransferRead(c) \/ TransferWrite(c)

Track ==
    overlapped' = overlapped \cup
        {m \in Ids : \E c, d \in Callers :
            c # d /\ call'[c].meeting = m /\ call'[d].meeting = m}

RepoNext == (Tick \/ \E c \in Callers : Statement(c)) /\ Track

RepoSpec == RepoInit /\ [][RepoNext]_repoVars

-----------------------------------------------------------------------------
(* Properties *)

Steps == {"idle", "joinList", "joinAdd", "leaveMark", "leaveList", "delete",
          "transferRead", "transferWrite"}

RepoTypeOK ==
    /\ host \in [Ids -> People \cup {None}]
    /\ \A m \in Ids : host[m] # None => m \in created
    /\ rows \subseteq [id : 1..lastRow, meeting : created, user : People, role : {0, 1}, at : 0..clock]
    /\ \A r, q \in rows : r.id = q.id => r = q
    /\ \A c \in Callers :
          /\ call[c].step \in Steps
          /\ call[c].step # "idle" => call[c].meeting \in created /\ call[c].user \in People
          /\ call[c].step = "transferWrite" => call[c].next \in People

Quiet(m) == \A c \in Callers : call[c].meeting # m

\* A meeting everybody has left is deleted, also when the last ones leave at
\* the same time, on different nodes: whoever marks the last row finds the
\* list empty afterwards.
NoEmptyMeeting == \A m \in Ids : (Quiet(m) /\ host[m] # None) => Active(m) # {}

\* Host promotion follows the earliest active join time: with no call under
\* way, host_user_id names the first of ListActiveParticipants, and its role
\* says so too; as long as no two calls have overlapped on the meeting.
HostIsEarliest ==
    \A m \in Ids \ overlapped : (Quiet(m) /\ host[m] # None) =>
       \E r \in Active(m) :
          r.user = host[m] /\ r.role = 1 /\ \A q \in Active(m) \ {r} : Before(r, q)

\* The host_user_id TransferHost leaves behind names an active participant,
\* with no call under way.
HostIsActive ==
    \A m \in Ids : (Quiet(m) /\ host[m] # None) => \E r \in Active(m) : r.user = host[m]

\* JoinMeeting admits no more participants than max_participants.  Overlapping
\* joins that have all counted before any of them inserts exceed it by one each
\* at most, and the excess does not add up over time.
RepoCapacityRespected ==
    \A m \in Ids :
       Cardinality(Active(m)) <=
          Capacity + (IF m \in overlapped THEN Cardinality(Callers) - 1 ELSE 0)

-----------------------------------------------------------------------------
(* What the store does, against MeetingRoster *)

\* The queue of a meeting: the users of its active rows in the order of the
\* list.
RowQueue(m) ==
    IF host[m] # None
    THEN {<<p[1].user, p[2].user>> : p \in {p \in Active(m) \X Active(m) : ~Before(p[2], p[1])}}
    ELSE {}

queues == [m \in Ids |-> RowQueue(m)]

RepoRoster == INSTANCE MeetingRoster WITH Meetings <- Ids, Users <- People, roster <- queues

\* The repo-backed store keeps the promise the in-memory store keeps, as long
\* as no two calls have overlapped on a meeting: every call is a step of
\* MeetingRoster, taken when the row is inserted or marked.
RepoImplementsRoster == RepoRoster!Init /\ [][overlapped' # {} \/ RepoRoster!Next]_queues
=============================================================================
