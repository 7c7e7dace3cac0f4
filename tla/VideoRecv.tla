------------------------------- MODULE VideoRecv -------------------------------
(* The receiving half of the client's video session for one remote stream:    *)
(* the receive thread (recvLoop) hands packets to the worker of the stream;   *)
(* its thread takes them from a jitter buffer, assembles access units and     *)
(* hands them to a decode thread; gaps become NACK requests and decoding      *)
(* failures key frame requests, which the receive thread sends.  A packet is  *)
(* its index in the stream; the 16-bit sequence number wraps.                 *)
EXTENDS Naturals, Sequences, FiniteSets, Functions

CONSTANTS
    SeqNumbers,     \* sequence numbers there are: 2^16 in the code
    FirstSeq,       \* sequence number before the first packet
    UnitSize,       \* packets per access unit
    MaxPackets,     \* bound: packets the sender sends
    JitterMax,      \* kMaxRecvPeerQueuedPackets
    JitterMin,      \* kMinRecvPeerBufferedPackets
    QueueMax,       \* kMaxPendingDecodeTasks and kMaxPendingDecodeResults
    NackAttempts,   \* kNackAttemptsBeforePli
    MaxTroubles     \* bound: packets lost, sends that fail, streams reset

VARIABLES
    sent,       \* packets the sender has sent so far
    keys,       \* access units that are key frames
    askedKey,   \* a PLI has reached the sender since its last key frame
    air,        \* packets on their way to the client
    jb,         \* the worker's JitterBuffer
    asm,        \* the stream's H264AccessUnitAssembler
    tasks, results,     \* the queues of VideoRecvDecodeWorker
    worker,     \* what the worker's thread does
    decoder,    \* the last unit decoded, and whether a reference picture is missing
    nack,       \* pendingNackRequests of the stream: missing packets and attempts
    pli,        \* pendingKeyFrameRequests holds one of the stream
    limited,    \* the cooldown of VideoRecvKeyFramePipeline runs
    lastOut,    \* history: the packet that left the jitter buffer last
    lapses,     \* history: what stands in the way of the properties below
    troubles    \* troubles so far

vrVars == <<sent, keys, askedKey, air, jb, asm, tasks, results, worker, decoder, nack, pli,
            limited, lastOut, lapses, troubles>>

Packets == 1..MaxPackets
SequenceNumber(i) == (FirstSeq + i) % SeqNumbers
UnitOf(i) == (i - 1) \div UnitSize + 1
UnitPackets(u) == {i \in Packets : UnitOf(i) = u}
Marker(i) == i % UnitSize = 0
Starts(i) == i % UnitSize = 1
Fragmented(i) == UnitOf(i) % 2 = 0      \* one NAL unit in fragments, or one per packet

None == SeqNumbers      \* no sequence number expected
NoJitter == [held |-> {}, expected |-> None, playing |-> FALSE]
NoAssembly == [expected |-> None, unit |-> 0, parts |-> {}, fragment |-> {}, corrupted |-> FALSE]
NewDecoder == [last |-> 0, lost |-> TRUE]
NoNack == [missing |-> {}, attempts |-> 0]

VrInit ==
    /\ sent = 0 /\ keys = {1} /\ askedKey = FALSE /\ air = {}
    /\ jb = NoJitter /\ asm = NoAssembly /\ tasks = <<>> /\ results = <<>>
    /\ worker = "ready" /\ decoder = NewDecoder
    /\ nack = NoNack /\ pli = FALSE /\ limited = FALSE
    /\ lastOut = 0 /\ lapses = {} /\ troubles = 0

Trouble == troubles < MaxTroubles /\ troubles' = troubles + 1

-----------------------------------------------------------------------------
(* JitterBuffer: a std::map ordered by the sequence number as a number.      *)

Lowest(held) == CHOOSE i \in held : \A j \in held : SequenceNumber(i) <= SequenceNumber(j)

\* push, with trimLocked
JitterPush(b, i) ==
    LET held == b.held \cup {i} IN
    [b EXCEPT !.held = IF Cardinality(held) > JitterMax THEN held \ {Lowest(held)} ELSE held,
              !.expected = IF @ = None THEN SequenceNumber(i) ELSE @]

MutantNextOut(b) == Lowest(b.held)

\* popLocked: the packet expected, or else the one with the lowest number
NextOut(b) ==
    LET expected == {i \in b.held : SequenceNumber(i) = b.expected} IN
    IF expected # {} THEN CHOOSE i \in expected : TRUE ELSE Lowest(b.held)

\* readyToPopLocked.  A gap is skipped when the buffer is full, or when its timer runs out:
\* the worker restarts that timer before each wait, so it need not run out in any of them.
Playing(b, min) == b.playing \/ Cardinality(b.held) >= min
Ready(b, min, timedOut) ==
    /\ b.held # {} /\ Playing(b, min)
    /\ \/ \E i \in b.held : SequenceNumber(i) = b.expected
       \/ Cardinality(b.held) >= JitterMax
       \/ timedOut

\* History: a gap is skipped while the buffer holds packets from both sides of the wrap.
Straddles(b) ==
    /\ \A i \in b.held : SequenceNumber(i) # b.expected
    /\ \E i, j \in b.held : i < j /\ SequenceNumber(i) > SequenceNumber(j)

-----------------------------------------------------------------------------
(* H264AccessUnitAssembler::consume.                                         *)

Forward(expected, actual) ==
    LET delta == (actual + SeqNumbers - expected) % SeqNumbers IN
    delta # 0 /\ 2 * delta < SeqNumbers

\* The packets from the expected one up to i, reported as missing
Missing(a, i) ==
    {j \in Packets : j < i /\ i - j <= (SequenceNumber(i) + SeqNumbers - a.expected) % SeqNumbers}

\* The NAL unit of a packet.  A fragment without the first one of its NAL unit is dropped.
Collect(a, i) ==
    IF ~Fragmented(i)
    THEN [a EXCEPT !.parts = @ \cup {i}, !.fragment = {}, !.corrupted = @ \/ a.fragment # {}]
    ELSE LET f == (IF Starts(i) THEN {} ELSE a.fragment) \cup {i} IN
         IF ~Starts(i) /\ a.fragment = {} THEN [a EXCEPT !.corrupted = TRUE]
         ELSE IF Marker(i) THEN [a EXCEPT !.parts = @ \cup f, !.fragment = {}]
         ELSE [a EXCEPT !.fragment = f]

Assembled(a, done, loss, missing) ==
    [asm |-> a, done |-> done, loss |-> loss, missing |-> missing]

MutantConsume(a, i) ==
    LET gap == a.expected # None /\ a.expected # SequenceNumber(i)
        stale == gap /\ ~Forward(a.expected, SequenceNumber(i))
        next == UnitOf(i) # a.unit
        left == gap \/ (next /\ a.unit # 0 /\ (a.parts # {} \/ a.fragment # {}))
        b == Collect([expected  |-> (SequenceNumber(i) + 1) % SeqNumbers,
                      unit      |-> UnitOf(i),
                      parts     |-> IF next THEN {} ELSE a.parts,
                      fragment  |-> IF next \/ gap THEN {} ELSE a.fragment,
                      corrupted |-> ~next /\ a.corrupted], i)
        missing == IF gap THEN Missing(a, i) ELSE {}
        orphan == Fragmented(i) /\ b.fragment = {} /\ i \notin b.parts
        empty == [b EXCEPT !.parts = {}, !.fragment = {}, !.corrupted = FALSE]
    IN  CASE stale                       -> Assembled(a, {}, FALSE, {})
          [] ~stale /\ orphan            -> Assembled(b, {}, TRUE, missing)
          [] ~stale /\ ~orphan /\ (~Marker(i) \/ b.parts = {})
                                         -> Assembled(b, {}, left, missing)
          [] OTHER -> IF b.corrupted THEN Assembled(empty, {}, TRUE, missing)
                      ELSE Assembled(empty, b.parts, left, missing)

\* A packet from before the expected one is dropped.  One from beyond it marks the unit as
\* corrupted, but a packet with a new timestamp starts a unit that is not.
Consume(a, i) ==
    LET gap == a.expected # None /\ a.expected # SequenceNumber(i)
        stale == gap /\ ~Forward(a.expected, SequenceNumber(i))
        next == UnitOf(i) # a.unit
        left == gap \/ (next /\ a.unit # 0 /\ (a.parts # {} \/ a.fragment # {}))
        b == Collect([expected  |-> (SequenceNumber(i) + 1) % SeqNumbers,
                      unit      |-> UnitOf(i),
                      parts     |-> IF next THEN {} ELSE a.parts,
                      fragment  |-> IF next \/ gap THEN {} ELSE a.fragment,
                      corrupted |-> ~next /\ (a.corrupted \/ gap)], i)
        missing == IF gap THEN Missing(a, i) ELSE {}
        orphan == Fragmented(i) /\ b.fragment = {} /\ i \notin b.parts
        empty == [b EXCEPT !.parts = {}, !.fragment = {}, !.corrupted = FALSE]
    IN  CASE stale                       -> Assembled(a, {}, FALSE, {})
          [] ~stale /\ orphan            -> Assembled(b, {}, TRUE, missing)
          [] ~stale /\ ~orphan /\ (~Marker(i) \/ b.parts = {})
                                         -> Assembled(b, {}, left, missing)
          [] OTHER -> IF b.corrupted THEN Assembled(empty, {}, TRUE, missing)
                      ELSE Assembled(empty, b.parts, left, missing)

-----------------------------------------------------------------------------
(* The worker's thread.                                                      *)

\* handleConsumeOutcome for decode results taken from the queue: a frame is delivered and the
\* stream's NACK request dropped, an error asks for a key frame.
Deliver(rs, also) ==
    LET frame == "frame" \in Range(rs) IN
    /\ pli' = (pli \/ "error" \in Range(rs))
    /\ nack' = IF frame THEN NoNack ELSE nack
    /\ lapses' = also \cup lapses \cup (IF frame /\ nack # NoNack THEN {"cleared"} ELSE {})

\* consumePacket and handleConsumeOutcome when no unit is complete: a decode result that is
\* ready is looked at instead of the loss, which is then not asked for.
Report(loss, missing, also) ==
    IF results # <<>>
    THEN /\ Deliver(<<Head(results)>>, also \cup (IF loss THEN {"swallowed"} ELSE {}))
         /\ results' = Tail(results)
    ELSE /\ nack' = IF loss THEN [nack EXCEPT !.missing = @ \cup missing] ELSE nack
         /\ pli' = (pli \/ (loss /\ missing = {}))
         /\ lapses' = lapses \cup also
         /\ UNCHANGED results

VrWorker == UNCHANGED <<sent, keys, askedKey, air, decoder, limited, troubles>>

\* processPacket up to the wait for the decode thread
TakePacket(timedOut) ==
    /\ worker \in {"ready", "stopping"}
    /\ LET min == IF worker = "stopping" THEN 1 ELSE JitterMin IN
       /\ Ready(jb, min, timedOut)
       /\ LET i == NextOut(jb)
              r == Consume(asm, i)
              also == IF Straddles(jb) THEN {"wrap"} ELSE {} IN
          /\ jb' = [held |-> jb.held \ {i}, expected |-> (SequenceNumber(i) + 1) % SeqNumbers,
                    playing |-> TRUE]
          /\ asm' = r.asm
          /\ lastOut' = i
          /\ IF r.done # {}
             THEN /\ tasks' = Append(IF Len(tasks) >= QueueMax THEN Tail(tasks) ELSE tasks,
                                     [unit |-> UnitOf(i), parts |-> r.done])
                  /\ worker' = IF worker = "stopping" THEN "lastWait" ELSE "wait"
                  /\ lapses' = lapses \cup also
                                      \cup (IF r.missing # {} THEN {"swallowed"} ELSE {})
                  /\ UNCHANGED <<results, nack, pli>>
             ELSE /\ worker' = IF worker = "stopping" THEN "lastPoll" ELSE "poll"
                  /\ UNCHANGED tasks
                  /\ Report(r.loss, r.missing, also)
    /\ VrWorker

\* waitDequeue: a result within 4 ms, or none
AwaitDecoder ==
    /\ worker \in {"wait", "lastWait"}
    /\ worker' = IF worker = "wait" THEN "poll" ELSE "lastPoll"
    /\ \/ /\ results # <<>>
          /\ Deliver(<<Head(results)>>, {})
          /\ results' = Tail(results)
       \/ UNCHANGED <<results, nack, pli, lapses>>
    /\ UNCHANGED <<jb, asm, tasks, lastOut>> /\ VrWorker

\* pollDecodedFrames: up to two results after a packet or a wait in vain
PollDecodedFrames ==
    /\ worker \in {"poll", "lastPoll"} \/ (worker = "ready" /\ results # <<>>)
    /\ LET n == IF Len(results) < 2 THEN Len(results) ELSE 2 IN
       /\ Deliver(SubSeq(results, 1, n), {})
       /\ results' = SubSeq(results, n + 1, Len(results))
    /\ worker' = IF worker = "lastPoll" THEN "stopping" ELSE "ready"
    /\ UNCHANGED <<jb, asm, tasks, lastOut>> /\ VrWorker

\* VideoRecvDecodeWorker::run.  A decoder that misses a reference picture fails, or conceals it.
Decode ==
    /\ tasks # <<>>
    /\ LET u == Head(tasks).unit
           lost == u \notin keys /\ (decoder.lost \/ decoder.last + 1 # u) IN
       \E r \in IF lost THEN {"frame", "error"} ELSE {"frame"} :
           /\ results' = Append(IF Len(results) >= QueueMax THEN Tail(results) ELSE results, r)
           /\ decoder' = [last |-> u, lost |-> lost]
           /\ lapses' = lapses
                  \cup (IF lost /\ r = "frame" THEN {"concealed"} ELSE {})
                  \cup (IF Len(results) >= QueueMax /\ Head(results) = "error"
                        THEN {"overflow"} ELSE {})
    /\ tasks' = Tail(tasks)
    /\ UNCHANGED <<sent, keys, askedKey, air, jb, asm, worker, nack, pli, limited, lastOut,
                   troubles>>

-----------------------------------------------------------------------------
(* The receive thread, which stands still while it joins a worker.           *)

VrReceive == UNCHANGED <<asm, tasks, results, decoder, lastOut>>
Joining == worker \in {"stopping", "lastWait", "lastPoll"}

Arrive(i) ==
    /\ i \in air /\ ~Joining
    /\ air' = air \ {i}
    /\ jb' = JitterPush(jb, i)
    /\ lapses' = lapses \cup (IF jb.expected # None /\ Forward(SequenceNumber(i), jb.expected)
                              THEN {"late"} ELSE {})
    /\ UNCHANGED <<sent, keys, askedKey, worker, nack, pli, limited, troubles>> /\ VrReceive

\* flushPendingNackRequests: the packets are asked for at intervals, and after three times and
\* a second a key frame instead.  The sender retransmits what it still has.
SendNack ==
    /\ nack.missing # {} /\ nack.attempts < NackAttempts /\ ~Joining
    /\ nack' = [nack EXCEPT !.attempts = @ + 1]
    /\ \/ air' = air \cup nack.missing /\ UNCHANGED troubles
       \/ Trouble /\ UNCHANGED air
    /\ UNCHANGED <<sent, keys, askedKey, jb, worker, pli, limited, lapses>> /\ VrReceive

MutantGiveUpNack ==
    /\ nack.missing # {} /\ nack.attempts >= NackAttempts /\ ~Joining
    /\ nack' = NoNack /\ pli' = pli
    /\ UNCHANGED <<sent, keys, askedKey, air, jb, worker, limited, lapses, troubles>> /\ VrReceive

GiveUpNack ==
    /\ nack.missing # {} /\ nack.attempts >= NackAttempts /\ ~Joining
    /\ nack' = NoNack /\ pli' = TRUE
    /\ UNCHANGED <<sent, keys, askedKey, air, jb, worker, limited, lapses, troubles>> /\ VrReceive

\* flushPendingKeyFrameRequests: the request is gone also when it is not sent.
SendPli ==
    /\ pli /\ ~Joining
    /\ pli' = FALSE
    /\ \/ limited /\ lapses' = lapses \cup {"limited"} /\ UNCHANGED <<askedKey, limited, troubles>>
       \/ ~limited /\ askedKey' = TRUE /\ limited' = TRUE /\ UNCHANGED <<lapses, troubles>>
       \/ /\ ~limited /\ Trouble
          /\ lapses' = lapses \cup {"unsent"}
          /\ UNCHANGED <<askedKey, limited>>
    /\ UNCHANGED <<sent, keys, air, jb, worker, nack>> /\ VrReceive

CooldownOver ==
    /\ limited /\ limited' = FALSE
    /\ UNCHANGED <<sent, keys, askedKey, air, jb, worker, nack, pli, lapses, troubles>> /\ VrReceive

\* resetRequestedRecvPeerWorkers and pruneRecvPeerWorkers stop the worker; its thread takes what
\* is left in the jitter buffer first.
StopWorker ==
    /\ ~Joining /\ worker = "ready" /\ Trouble
    /\ worker' = "stopping"
    /\ UNCHANGED <<sent, keys, askedKey, air, jb, nack, pli, limited, lapses>> /\ VrReceive

\* The worker is destroyed with its assembler and decoder; the next packet gets a new one.
NewWorker ==
    /\ worker = "stopping" /\ jb.held = {}
    /\ worker' = "ready"
    /\ jb' = NoJitter /\ asm' = NoAssembly /\ tasks' = <<>> /\ results' = <<>>
    /\ decoder' = NewDecoder /\ lastOut' = 0
    /\ Deliver(results, {})
    /\ UNCHANGED <<sent, keys, askedKey, air, limited, troubles>>

-----------------------------------------------------------------------------
(* The sender and the network.                                               *)

SendPacket ==
    /\ sent < MaxPackets /\ Cardinality(air) < 2
    /\ sent' = sent + 1
    /\ \/ air' = air \cup {sent + 1} /\ UNCHANGED troubles
       \/ Trouble /\ UNCHANGED air
    /\ keys' = keys \cup (IF askedKey /\ Starts(sent + 1) THEN {UnitOf(sent + 1)} ELSE {})
    /\ askedKey' = (askedKey /\ ~Starts(sent + 1))
    /\ UNCHANGED <<jb, worker, nack, pli, limited, lapses>> /\ VrReceive

VrNext ==
    \/ \E timedOut \in BOOLEAN : TakePacket(timedOut)
    \/ AwaitDecoder \/ PollDecodedFrames \/ Decode
    \/ \E i \in Packets : Arrive(i)
    \/ SendNack \/ GiveUpNack \/ SendPli \/ CooldownOver \/ StopWorker \/ NewWorker
    \/ SendPacket

-----------------------------------------------------------------------------
(* Properties.                                                               *)

VrTypeOK ==
    /\ sent \in 0..MaxPackets /\ keys \subseteq Nat /\ askedKey \in BOOLEAN /\ air \subseteq Packets
    /\ jb.held \subseteq Packets /\ jb.expected \in 0..None /\ jb.playing \in BOOLEAN
    /\ Cardinality(jb.held) <= JitterMax
    /\ asm.parts \subseteq Packets /\ asm.fragment \subseteq UnitPackets(asm.unit)
    /\ Len(tasks) <= QueueMax /\ Len(results) <= QueueMax
    /\ worker \in {"ready", "wait", "poll", "stopping", "lastWait", "lastPoll"}
    /\ nack.missing \subseteq Packets /\ nack.attempts \in 0..NackAttempts
    /\ pli \in BOOLEAN /\ limited \in BOOLEAN

\* The jitter buffer lets packets out in the order of the stream, unless a packet came in after
\* the buffer had passed its place ("late": as a retransmitted packet is, and the first
\* packets of a stream are when they change places) or a gap is
\* skipped while the sequence numbers wrap ("wrap": the lowest number is then not the oldest).
JitterInOrder ==
    lastOut' >= lastOut \/ lastOut' = 0 \/ lapses' \cap {"late", "wrap"} # {}

\* What reaches the decoder is an access unit without a hole and with its end: at most its first
\* packets are missing, since a gap before a new timestamp does not mark the new unit.
UnitsUnbroken ==
    \A n \in DOMAIN tasks :
        LET t == tasks[n] IN
        /\ t.parts \subseteq UnitPackets(t.unit)
        /\ \A i \in t.parts : \A j \in UnitPackets(t.unit) : j > i => j \in t.parts

\* A loss does not go unanswered: when the last packet sent has come through, nothing is under
\* way any more and the newest picture is not there or misses a reference, a key frame has been
\* requested of the sender.  The lapses of the code that leave the picture broken are recorded:
\* a loss seen while a decode result was waiting, or along with a complete unit ("swallowed"), a
\* frame delivered after the loss, or concealed, that drops the NACK request ("cleared",
\* "concealed"), a full queue ("overflow") and a request that the cooldown or a failed send
\* consumed ("limited", "unsent").
LossAnswered ==
    /\ air = {} /\ jb.held = {} /\ tasks = <<>> /\ results = <<>> /\ worker = "ready"
    /\ nack = NoNack /\ ~pli
    /\ asm.expected = SequenceNumber(sent + 1) /\ Marker(sent)
    /\ decoder.lost \/ decoder.last # UnitOf(sent)
    /\ lapses \subseteq {"late", "wrap"}
    => askedKey
=============================================================================
