----------------------------- MODULE AudioPath -----------------------------
(* The way of a participant's audio from the microphone of one client to the *)
(* loudspeaker of another: capture (av/capture/AudioCapture.cpp, its ring    *)
(* common/RingBuffer.h), the send loop with encoder and RTP sender, a        *)
(* network that loses and reorders packets, the jitter buffer of the         *)
(* receiver, the decoder, the assembler of playout frames                    *)
(* (AudioCallSession.cpp), the player's queue and the clock that video       *)
(* follows (av/sync/AVSync.h).                                               *)
(*                                                                           *)
(* Audio is counted in chunks: the samples one call of the encoder takes.  A *)
(* captured frame and a played frame are perFrame of them, which depends on  *)
(* the encoder found on the machine.  A chunk is named by the start of the   *)
(* device it comes from (run) and its time stamp (at).                       *)
EXTENDS Integers, Sequences, FiniteSets, SequencesExt, FiniteSetsExt

CONSTANTS
    ChunksPerFrame,   \* chunks a frame may have
    Devices,          \* names of input devices
    RingMax,          \* capacity of the capture ring: 32
    JitterLimit,      \* packets the jitter buffer holds: 32
    JitterStart,      \* packets it waits for before playout: 3
    PlayerMax,        \* m_maxQueuedFrames: 32
    ReferenceMax,     \* maxQueuedRenderFrames of the echo canceller
    MaxFrames,        \* bound: frames captured
    MaxAir,           \* bound: packets under way
    MaxRuns           \* bound: starts of the capture device

VARIABLES
    perFrame,   \* chunks of a frame
    device,     \* preferredDeviceName
    capture,    \* AudioCapture::Impl: running, number of starts, nextPts
    captured,   \* frames captured so far
    ring,       \* m_ringBuffer: frames
    muted,      \* m_captureMuted
    seqNo,      \* RTPSender: next sequence number
    air,        \* packets under way
    jitter,     \* JitterBuffer
    assembler,  \* m_playoutAssembler: chunks, pts
    playout,    \* AudioPlayer: m_inputFrames
    clock,      \* AVSync: m_audioPts
    reference,  \* AcousticEchoCanceller: renderFifo
    decoded,    \* history: chunks decoded, newest first, ReferenceMax of them
    disorder    \* history: packets that came after the buffer had passed them

apVars == <<perFrame, device, capture, captured, ring, muted, seqNo, air, jitter, assembler,
            playout, clock, reference, decoded, disorder>>
sendVars == <<device, capture, captured, ring, muted, seqNo>>
playVars == <<assembler, playout, clock, reference, decoded>>

NoClock == -1
EmptyJitter == [held |-> {}, expected |-> -1, playing |-> FALSE, waiting |-> FALSE]

ApInit ==
    /\ perFrame \in ChunksPerFrame
    /\ device \in Devices
    /\ capture = [on |-> TRUE, run |-> 1, pts |-> 0]
    /\ captured = 0 /\ ring = <<>> /\ muted = FALSE
    /\ seqNo = 0 /\ air = {}
    /\ jitter = EmptyJitter
    /\ assembler = [chunks |-> <<>>, pts |-> 0]
    /\ playout = <<>> /\ clock = NoClock
    /\ reference = <<>> /\ decoded = <<>> /\ disorder = FALSE

-----------------------------------------------------------------------------
(* The sender *)

\* RingBuffer::push: a full ring takes nothing.
RingPush(frames, f) == IF Len(frames) < RingMax THEN Append(frames, f) ELSE frames

\* AudioCapture::Impl::drainFrames: the time stamp advances also when the ring
\* is full and the frame is lost.
DrainFrames ==
    /\ capture.on /\ captured < MaxFrames
    /\ captured' = captured + 1
    /\ ring' = RingPush(ring, [run |-> capture.run, pts |-> capture.pts])
    /\ capture' = [capture EXCEPT !.pts = @ + perFrame]
    /\ UNCHANGED <<perFrame, device, muted, seqNo, air, jitter, playVars, disorder>>

\* stopDevice, startDevice: time starts again.
StartedCapture(c) == [on |-> TRUE, run |-> c.run + 1, pts |-> 0]
Stopped(c) == [c EXCEPT !.on = FALSE, !.pts = 0]

\* AudioCapture::setPreferredDeviceName: the device is switched, or, when the
\* new one does not start, the old one is started again; when that fails too
\* there is none.
SetPreferredDeviceName(name) ==
    /\ name # device
    /\ IF ~capture.on
       THEN device' = name /\ UNCHANGED capture
       ELSE /\ capture.run < MaxRuns
            /\ \/ device' = name /\ capture' = StartedCapture(capture)
               \/ device' = device /\ capture' \in {StartedCapture(capture), Stopped(capture)}
    /\ UNCHANGED <<perFrame, captured, ring, muted, seqNo, air, jitter, playVars, disorder>>

MutantSetCaptureMuted ==
    /\ muted' = ~muted
    /\ capture' = [capture EXCEPT !.pts = IF muted THEN 0 ELSE @]
    /\ UNCHANGED <<perFrame, device, captured, ring, seqNo, air, jitter, playVars, disorder>>

\* AudioCallSession::setCaptureMuted
SetCaptureMuted ==
    /\ muted' = ~muted
    /\ UNCHANGED <<perFrame, device, capture, captured, ring, seqNo, air, jitter, playVars, disorder>>

\* AcousticEchoCanceller::processCaptureFrame takes the oldest reference.
TakeReference == IF reference = <<>> THEN <<>> ELSE Tail(reference)

\* AudioEncoder::encode of a chunk, and its RTP packet (encodeAndSend): the
\* time stamp is that of its first sample.
Encode(frame, i) == [run |-> frame.run, at |-> frame.pts + i]
Packet(seq, chunk) == [seq |-> seq, run |-> chunk.run, at |-> chunk.at]

\* AudioDecoder::decode of a packet
Decode(p) == [run |-> p.run, at |-> p.at]

\* sendLoop: a frame is dropped when capture is muted; else it is cut into
\* chunks, and sending stops at the first that fails (before the transport is
\* secure, that is the first one).  Packets may be lost on their way.
SendFrame(n, lost) ==
    /\ ring # <<>> /\ lost \subseteq 0..(n - 1)
    /\ Cardinality(air) + n - Cardinality(lost) <= MaxAir
    /\ ring' = Tail(ring)
    /\ IF muted
       THEN n = 0 /\ UNCHANGED <<seqNo, air, reference>>
       ELSE /\ reference' = TakeReference
            /\ seqNo' = seqNo + n
            /\ air' = air \cup {Packet(seqNo + i, Encode(Head(ring), i)) : i \in (0..(n - 1)) \ lost}
    /\ UNCHANGED <<perFrame, device, capture, captured, muted, jitter, assembler, playout, clock,
                   decoded, disorder>>

-----------------------------------------------------------------------------
(* The receiver *)

Lowest(held) == CHOOSE p \in held : \A q \in held : p.seq <= q.seq
Seqs(held) == {p.seq : p \in held}

\* JitterBuffer::push
Push(b, p) ==
    LET all == b.held \cup {p} IN
    [b EXCEPT !.held = IF Cardinality(all) > JitterLimit THEN all \ {Lowest(all)} ELSE all,
              !.expected = IF @ = -1 THEN p.seq ELSE @]

\* JitterBuffer::pop in drainReceivedPackets, until it returns false: packets
\* in sequence, after the lowest one if a gap is skipped.  A gap is skipped
\* when the buffer is full or when it was there 20 ms before (late).
Playable(b) == b.playing \/ Cardinality(b.held) >= JitterStart \/ Cardinality(b.held) >= JitterLimit
ReadyToSkip(b, late) ==
    /\ b.expected \notin Seqs(b.held)
    /\ Cardinality(b.held) >= JitterLimit \/ (b.waiting /\ late)
InSequence(held, from) ==
    {p \in held : p.seq >= from /\ \A s \in from..p.seq : s \in Seqs(held)}
Popped(b, late) ==
    IF ~Playable(b) THEN {}
    ELSE IF ReadyToSkip(b, late) THEN LET first == Lowest(b.held) IN
        {first} \cup InSequence(b.held, first.seq + 1)
    ELSE InSequence(b.held, b.expected)
AfterPop(b, out) ==
    LET left == b.held \ out IN
    [held |-> left,
     expected |-> IF out = {} THEN b.expected ELSE Max(Seqs(out)) + 1,
     playing |-> Playable(b),
     waiting |-> Playable(b) /\ left # {}]

\* AcousticEchoCanceller::pushRenderFrame takes whole frames only.
MutantPushRenderFrame(fifo, chunk) ==
    IF perFrame > 1 \/ Len(fifo) = ReferenceMax THEN fifo ELSE Append(fifo, chunk)

PushRenderFrame(fifo, chunk) ==
    IF perFrame > 1 THEN fifo
    ELSE Append(IF Len(fifo) = ReferenceMax THEN Tail(fifo) ELSE fifo, chunk)

\* AudioPlayer::enqueueFrame: the oldest frame makes room.
EnqueueFrame(frames, f) == Append(IF Len(frames) = PlayerMax THEN Tail(frames) ELSE frames, f)

\* AudioCallSession::queueDecodedFrameForPlayback: chunks are collected until
\* they are a frame; an empty assembler takes the time of the chunk.
MutantQueueDecoded(s, chunk) ==
    LET chunks == Append(s.asm.chunks, chunk)
        full == Len(chunks) = perFrame IN
    [asm |-> [chunks |-> IF full THEN <<>> ELSE chunks,
              pts |-> IF full THEN s.asm.pts + perFrame ELSE s.asm.pts],
     out |-> IF full THEN EnqueueFrame(s.out, [chunks |-> chunks, pts |-> s.asm.pts]) ELSE s.out,
     ref |-> PushRenderFrame(s.ref, chunk),
     dec |-> SubSeq(<<chunk>> \o s.dec, 1, Min({ReferenceMax, Len(s.dec) + 1}))]

QueueDecoded(s, chunk) ==
    LET chunks == Append(s.asm.chunks, chunk)
        pts == IF s.asm.chunks = <<>> THEN chunk.at ELSE s.asm.pts
        full == Len(chunks) = perFrame IN
    [asm |-> [chunks |-> IF full THEN <<>> ELSE chunks,
              pts |-> IF full THEN chunk.at + 1 ELSE pts],
     out |-> IF full THEN EnqueueFrame(s.out, [chunks |-> chunks, pts |-> pts]) ELSE s.out,
     ref |-> PushRenderFrame(s.ref, chunk),
     dec |-> SubSeq(<<chunk>> \o s.dec, 1, Min({ReferenceMax, Len(s.dec) + 1}))]

\* drainReceivedPackets, for the packets out of the jitter buffer
DrainReceivedPackets(out) ==
    LET packets == SetToSortSeq(out, LAMBDA x, y : x.seq < y.seq) IN
    FoldLeft(QueueDecoded,
             [asm |-> assembler, out |-> playout, ref |-> reference, dec |-> decoded],
             [i \in DOMAIN packets |-> Decode(packets[i])])

\* recvLoop: a packet comes in, and what can be is taken out of the jitter
\* buffer and decoded.  A packet that cannot be decoded is dropped.
Receive(p, late, spoilt) ==
    LET b == Push(jitter, p)
        out == Popped(b, late)
        s == DrainReceivedPackets(IF spoilt THEN out \ {p} ELSE out) IN
    /\ air' = air \ {p}
    /\ jitter' = AfterPop(b, out)
    /\ assembler' = s.asm /\ playout' = s.out /\ reference' = s.ref /\ decoded' = s.dec
    /\ disorder' = (disorder \/ (jitter.expected # -1 /\ p.seq < jitter.expected))
    /\ UNCHANGED <<perFrame, sendVars, clock>>

\* AudioPlayer::playbackLoop, when a frame was written or there is no device:
\* AVSync::update.
PlayFrame ==
    /\ playout # <<>>
    /\ clock' = Head(playout).pts + perFrame
    /\ playout' = Tail(playout)
    /\ UNCHANGED <<perFrame, sendVars, air, jitter, assembler, reference, decoded, disorder>>

ApNext ==
    \/ DrainFrames \/ SetCaptureMuted
    \/ \E name \in Devices : SetPreferredDeviceName(name)
    \/ \E n \in 0..perFrame : \E lost \in SUBSET (0..(n - 1)) : SendFrame(n, lost)
    \/ \E p \in air : \E late, spoilt \in BOOLEAN : Receive(p, late, spoilt)
    \/ PlayFrame

-----------------------------------------------------------------------------
(* Properties *)

ApTypeOK ==
    /\ capture.on \in BOOLEAN /\ capture.run \in 1..MaxRuns /\ capture.pts \in Nat
    /\ Len(ring) <= RingMax /\ Len(playout) <= PlayerMax
    /\ Cardinality(jitter.held) < JitterLimit
    /\ Len(assembler.chunks) < perFrame
    /\ \A i \in DOMAIN playout : Len(playout[i].chunks) = perFrame

\* A frame to be played carries the time of its first sample, whatever was
\* lost before or within it: losses do not add up in the clock.
PlayoutStamped ==
    \A i \in DOMAIN playout : playout[i].pts = Head(playout[i].chunks).at

\* The clock that video follows goes back only when the speaker's capture
\* device was started anew, which starts its time stamps anew, or when the
\* jitter buffer let a packet out that had come too late.
ClockBackForCause ==
    [][clock' >= clock \/ capture.run > 1 \/ disorder]_clock

\* What the echo canceller is given as reference is among the newest frames
\* handed to the player, also after a mute, during which nothing takes any.
ReferenceRecent == ToSet(reference) \subseteq ToSet(decoded)
=============================================================================
