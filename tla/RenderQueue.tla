----------------------------- MODULE RenderQueue -----------------------------
(* The client's queue of remote video frames to render                        *)
(* (app/MeetingController.cpp, av/sync/AVSync.h).  Decoded frames of every    *)
(* peer wait in one queue, ordered by the time they are due; a timer drains   *)
(* it, orders what is due by presentation time, skips what is older than the  *)
(* last frame rendered, and puts off what the audio clock or the cadence of   *)
(* the video asks to put off.                                                 *)
EXTENDS Naturals, Sequences, FiniteSets, SequencesExt

CONSTANTS
    Senders,        \* the peers whose frames are rendered
    BaseOf,         \* a peer's first RTP timestamp, in units of time
    TimestampWrap,  \* RTP timestamps are modulo this (2^32 ticks in the code)
    Depth,          \* maxRemoteQueueDepth
    PeerDepth,      \* maxPerPeerQueueDepth
    PerDrain,       \* maxVideoFramesPerDrain
    Cadence,        \* the bounds of the cadence: <<minVideoCadenceMs, maxVideoCadenceMs>>
    MaxDelay,       \* maxAudioDrivenRenderDelayMs
    Horizon,        \* bound: units of time
    MaxPictures     \* bound: frames of a peer

VARIABLES
    now,        \* the time
    pending,    \* m_remoteVideoRenderQueue
    last,       \* m_lastRenderedVideoPts90k, m_lastVideoRenderAtMs; none after invalidation
    frames,     \* frames each peer has sent
    shown,      \* the number of the frame each peer's store shows
    oddly       \* what has happened that explains a peer's newest frame not being shown

rqVars == <<now, pending, last, frames, shown, oddly>>

Delays == {0, MaxDelay}
NoLast == [pts |-> 0, at |-> 0, any |-> FALSE]
PtsOf(p, n) == (BaseOf[p] + n) % TimestampWrap
Between(x, bounds) == IF x < bounds[1] THEN bounds[1] ELSE IF x > bounds[2] THEN bounds[2] ELSE x

RqInit ==
    /\ now = 1 /\ pending = <<>> /\ last = NoLast
    /\ frames = [p \in Senders |-> 0] /\ shown = [p \in Senders |-> 0]
    /\ oddly = {}

-----------------------------------------------------------------------------

\* Insertion before the first task due later: tasks due at the same time stay in order.
Insert(q, task) ==
    LET after == SelectInSeq(q, LAMBDA t : task.due < t.due) IN
    IF after = 0 THEN Append(q, task) ELSE InsertAt(q, after, task)

\* The per-peer bound, then the bound of the queue: what is due first goes.  That is not the
\* oldest frame when the audio clock has put off an earlier one.
Trim(q, p) ==
    LET one == IF Len(SelectSeq(q, LAMBDA t : t.peer = p)) > PeerDepth
               THEN RemoveFirstMatch(q, LAMBDA t : t.peer = p) ELSE q IN
    IF Len(one) > Depth THEN Tail(one) ELSE one

\* Frames removed although an older frame of their peer stays
Inverted(q, trimmed) ==
    \E t \in Range(q) \ Range(trimmed) : \E u \in Range(trimmed) : u.peer = t.peer /\ u.n < t.n

\* enqueueRemoteVideoRenderTask: frame of p, put off by d (suggestRemoteVideoRenderDelayMs...)
Enqueue(p, d) ==
    /\ frames[p] < MaxPictures
    /\ frames' = [frames EXCEPT ![p] = @ + 1]
    /\ LET n == frames[p] + 1
           q == Insert(pending, [due |-> now + d, deadline |-> now + d + MaxDelay,
                                 pts |-> PtsOf(p, n), peer |-> p, n |-> n]) IN
       /\ pending' = Trim(q, p)
       /\ oddly' = oddly \cup (IF Inverted(q, pending') THEN {"inverted"} ELSE {})
                         \cup (IF PtsOf(p, n) < PtsOf(p, frames[p]) THEN {"wrapped"} ELSE {})
                         \cup (IF \E o \in Senders \ {p} : frames[o] > 0 THEN {"mixed"} ELSE {})
    /\ UNCHANGED <<now, last, shown>>

\* The next step of a drain, on state s, for one task that is due; d is what the audio clock asks.
MutantRenderDue(d, s, task) ==
    IF s.last.any /\ task.pts <= s.last.pts THEN s
    ELSE IF d > 0 THEN [s EXCEPT !.later = Append(@, [task EXCEPT !.due = now + d])]
    ELSE LET gap == Between(task.pts - s.last.pts, Cadence) IN
         IF s.last.any /\ now - s.last.at < gap
         THEN [s EXCEPT !.later = Append(@, [task EXCEPT !.due = now + gap - (now - s.last.at)])]
         ELSE [s EXCEPT !.last = [pts |-> task.pts, at |-> now, any |-> TRUE],
                        !.shown[task.peer] = task.n]

RenderDue(d, s, task) ==
    IF s.last.any /\ task.pts <= s.last.pts THEN s
    ELSE IF d > 0 /\ now + d < task.deadline
    THEN [s EXCEPT !.later = Append(@, [task EXCEPT !.due = now + d])]
    ELSE LET gap == Between(task.pts - s.last.pts, Cadence) IN
         IF s.last.any /\ now - s.last.at < gap
         THEN [s EXCEPT !.later = Append(@, [task EXCEPT !.due = now + gap - (now - s.last.at)])]
         ELSE [s EXCEPT !.last = [pts |-> task.pts, at |-> now, any |-> TRUE],
                        !.shown[task.peer] = task.n]

\* Of a backlog, the newest are rendered.
MutantNewest(due) == SubSeq(due, 1, IF Len(due) > PerDrain THEN PerDrain ELSE Len(due))
Newest(due) == SubSeq(due, IF Len(due) > PerDrain THEN Len(due) - PerDrain + 1 ELSE 1, Len(due))

\* drainRemoteVideoRenderQueue
Drain(d) ==
    /\ pending # <<>>
    /\ LET due == SortSeq(SelectSeq(pending, LAMBDA t : t.due <= now), LAMBDA t, u : t.pts < u.pts)
           done == FoldLeft(LAMBDA s, t : RenderDue(d, s, t),
                            [last |-> last, shown |-> shown, later |-> <<>>], Newest(due))
           waiting == SelectSeq(pending, LAMBDA t : t.due > now)
           q == FoldLeft(Insert, waiting, done.later) IN
       /\ due # <<>>
       /\ last' = done.last /\ shown' = done.shown
       /\ pending' = IF Len(q) > Depth THEN SubSeq(q, Len(q) - Depth + 1, Len(q)) ELSE q
       /\ oddly' = oddly \cup (IF Inverted(q, pending') THEN {"inverted"} ELSE {})
    /\ UNCHANGED <<now, frames>>

\* invalidateRemoteVideoRenderQueue: a new ticket, an empty queue
DropAll ==
    /\ pending # <<>>
    /\ pending' = <<>> /\ last' = NoLast
    /\ oddly' = oddly \cup {"invalidated"}
    /\ UNCHANGED <<now, frames, shown>>

\* The timer fires each unit of time: it does not pass before what is due has been drained.
Tick ==
    /\ now < Horizon /\ \A t \in Range(pending) : t.due > now
    /\ now' = now + 1
    /\ UNCHANGED <<pending, last, frames, shown, oddly>>

RqNext ==
    \/ \E p \in Senders, d \in Delays : Enqueue(p, d)
    \/ \E d \in Delays : Drain(d)
    \/ DropAll \/ Tick

-----------------------------------------------------------------------------
(* Properties.                                                               *)

RqTypeOK ==
    /\ Len(pending) <= Depth
    /\ \A p \in Senders : Cardinality({t \in Range(pending) : t.peer = p}) <= PeerDepth
    /\ \A i \in 2..Len(pending) : pending[i - 1].due <= pending[i].due

\* The newest picture wins: once the queue is empty, each store shows the last frame its peer
\* sent.  Dropping for the bounds, for a backlog or for staleness only loses frames that a newer
\* one replaces - unless the audio clock put an older frame behind a newer one that was then
\* dropped, the timestamps wrapped round, or two peers, whose timestamps have nothing to do with
\* one another, share the queue.
NewestShown ==
    pending = <<>> /\ oddly = {} => \A p \in Senders : shown[p] = frames[p]

\* Rendering is late by a bounded time: no frame waits beyond the delay the audio clock may
\* impose, its deadline, by more than one cadence.
DelayBounded ==
    \A t \in Range(pending) : now <= t.deadline + Cadence[2]
=============================================================================
