--------------------------- MODULE MediaFeedback ---------------------------
(* Two things receivers' feedback needs, each a state machine of its own.    *)
(*                                                                           *)
(* rtp/NackBuffer.cpp of the SFU: the last packets of a source, kept to be   *)
(* sent again.  Packets are numbered 0, 1, 2, ... as they are sent; on the   *)
(* wire a packet has only its 16-bit sequence number (here modulo            *)
(* SequenceNumbers), some packets are lost on the way, and some arrive       *)
(* again or late.                                                            *)
(*                                                                           *)
(* How a round trip time is measured: MediaIngress::ComputeRttMs in the SFU, *)
(* the same arithmetic in the client's handleRtcpPacketLocked.  The last     *)
(* sender report is noted with the time it passed; a receiver report names   *)
(* the sender report it answers and how long that was held.  Both may be     *)
(* delayed, overtaken or lost.  Times on the wire are compact NTP: 32 bits   *)
(* that wrap (here Wrap), compared with sums that are 64 bits wide.          *)
EXTENDS Integers, Sequences, FiniteSets

CONSTANTS
    Capacity,           \* capacity_
    SequenceNumbers,    \* 2^16 in the code
    LastPacket,         \* bound: packets sent
    LateBy              \* bound: how late a packet may be

VARIABLES
    order,      \* order_
    packets,    \* packets_: per sequence number the packet, or -1
    sent,       \* packets sent so far
    arrivals,   \* history: packets in the order they arrived, but duplicates
    refreshed   \* history: packets that replaced another of their number

nackVars == <<order, packets, sent, arrivals, refreshed>>

SequenceOf(n) == n % SequenceNumbers

\* Contains
Held(s) == packets[s] # -1
Size == Cardinality({s \in DOMAIN packets : Held(s)})

NackInit ==
    /\ order = <<>>
    /\ packets = [s \in 0..(SequenceNumbers - 1) |-> -1]
    /\ sent = 0 /\ arrivals = <<>> /\ refreshed = {}

MutantStore(n) ==
    LET s == SequenceOf(n) IN
    /\ order' = Append(IF Size >= Capacity /\ ~Held(s) THEN Tail(order) ELSE order, s)
    /\ packets' = [t \in DOMAIN packets |->
          IF t = s THEN n
          ELSE IF ~Held(s) /\ Size >= Capacity /\ t = Head(order) THEN -1
          ELSE packets[t]]

\* Store: a number that is there gets the new packet and keeps its place in
\* the order of eviction.
Store(n) ==
    LET s == SequenceOf(n) IN
    IF Held(s)
    THEN packets' = [packets EXCEPT ![s] = n] /\ UNCHANGED order
    ELSE LET full == Size >= Capacity /\ order # <<>> IN
         /\ order' = Append(IF full THEN Tail(order) ELSE order, s)
         /\ packets' = [t \in DOMAIN packets |->
               IF t = s THEN n ELSE IF full /\ t = Head(order) THEN -1 ELSE packets[t]]

Arrive(n) ==
    /\ Store(n)
    /\ IF packets[SequenceOf(n)] = n
       THEN UNCHANGED <<arrivals, refreshed>>
       ELSE /\ arrivals' = Append(arrivals, n)
            /\ refreshed' = IF Held(SequenceOf(n)) THEN refreshed \cup {n} ELSE refreshed

\* The next packet arrives, or is lost; an earlier one arrives late or twice.
NextArrives == sent < LastPacket /\ Arrive(sent) /\ sent' = sent + 1
NextLost == sent < LastPacket /\ sent' = sent + 1 /\ UNCHANGED <<order, packets, arrivals, refreshed>>
Late(n) == n \in (sent - LateBy)..(sent - 1) /\ n >= 0 /\ Arrive(n) /\ UNCHANGED sent

NackNext == NextArrives \/ NextLost \/ \E n \in 0..(LastPacket - 1) : Late(n)

-----------------------------------------------------------------------------
NackTypeOK ==
    /\ packets \in [0..(SequenceNumbers - 1) -> -1..(LastPacket - 1)]
    /\ sent \in 0..LastPacket
    /\ \A i \in DOMAIN order : order[i] \in 0..(SequenceNumbers - 1)

\* The capacity holds, and what is to be evicted is what is stored: each
\* number once, so that eviction always frees a place.
NackOrder ==
    /\ Size <= Capacity
    /\ {order[i] : i \in DOMAIN order} = {s \in DOMAIN packets : Held(s)}
    /\ Len(order) = Size

\* Each of the last Capacity packets to arrive can be sent again, or a newer
\* packet of its number can (a duplicate of one that is held does not count);
\* except one that took the place of a packet a whole cycle of numbers older,
\* which inherits that packet's turn to be evicted.
NackServesRecent ==
    \A i \in DOMAIN arrivals :
        i > Len(arrivals) - Capacity /\ arrivals[i] \notin refreshed
        => packets[SequenceOf(arrivals[i])] >= arrivals[i]

-----------------------------------------------------------------------------
(* The round trip time *)

CONSTANTS
    Wrap,       \* 2^32 in the code
    Offset,     \* compact NTP at tick 0
    Interval,   \* least ticks between two sender reports (500 ms)
    Horizon     \* bound: ticks; less than Wrap

VARIABLES
    now,        \* the clock
    ledger,     \* m_localSenderReport or senderReports_[ssrc]: when, -1 if none
    srs,        \* sender reports under way: when they passed
    answers,    \* receiver reports under way: the report named and dlsr
    result      \* the last measurement: report named, dlsr, when, value

rttVars == <<now, ledger, srs, answers, result>>

Unmeasured == [of |-> -1, dlsr |-> 0, at |-> -1, last |-> -1, value |-> 0]

RttInit ==
    /\ now = 0 /\ ledger = -1
    /\ srs = {} /\ answers = {} /\ result = Unmeasured

CompactNtp(t) == (Offset + t) % Wrap

MutantComputeRttMs(lsr, dlsr) ==
    LET compact == IF ledger = -1 THEN 0 ELSE CompactNtp(ledger)
        arrival == (compact + (now - ledger)) % Wrap
    IN IF compact = 0 \/ lsr = 0 \/ now <= ledger \/ arrival <= lsr + dlsr
       THEN 0
       ELSE arrival - (lsr + dlsr)

ComputeRttMs(lsr, dlsr) ==
    LET compact == IF ledger = -1 THEN 0 ELSE CompactNtp(ledger)
        arrival == (compact + (now - ledger)) % Wrap
    IN IF \/ compact = 0 \/ lsr = 0 \/ compact # lsr \/ now <= ledger
          \/ arrival <= lsr + dlsr
       THEN 0
       ELSE arrival - (lsr + dlsr)

Tick == now < Horizon /\ now' = now + 1 /\ UNCHANGED <<ledger, srs, answers, result>>

\* sendSenderReportLocked, and the SFU noting one on its way to the receiver
SendSenderReport ==
    /\ ledger = -1 \/ now - ledger >= Interval
    /\ ledger' = now /\ srs' = srs \cup {now}
    /\ UNCHANGED <<now, answers, result>>

\* The receiver answers a report, having held it for some ticks.
SendReceiverReport(t, held) ==
    /\ t \in srs /\ t + held <= now
    /\ srs' = srs \ {t}
    /\ answers' = IF CompactNtp(t) = 0 THEN answers ELSE answers \cup {[of |-> t, dlsr |-> held]}
    /\ UNCHANGED <<now, ledger, result>>

\* handleRtcpPacketLocked on a receiver report
HandleReceiverReport(a) ==
    /\ a \in answers
    /\ answers' = answers \ {a}
    /\ result' = [of |-> a.of, dlsr |-> a.dlsr, at |-> now, last |-> ledger,
                  value |-> ComputeRttMs(CompactNtp(a.of), a.dlsr)]
    /\ UNCHANGED <<now, ledger, srs>>

LoseReport ==
    \/ /\ \E t \in srs : srs' = srs \ {t}
       /\ UNCHANGED <<now, ledger, answers, result>>
    \/ /\ \E a \in answers : answers' = answers \ {a}
       /\ UNCHANGED <<now, ledger, srs, result>>

RttNext ==
    \/ Tick
    \/ SendSenderReport
    \/ \E t \in 0..Horizon, held \in 0..1 : SendReceiverReport(t, held)
    \/ \E a \in answers : HandleReceiverReport(a)
    \/ LoseReport

-----------------------------------------------------------------------------
RttTypeOK ==
    /\ now \in 0..Horizon /\ ledger \in -1..Horizon
    /\ srs \subseteq 0..Horizon
    /\ \A a \in answers : a.of \in 0..Horizon /\ a.dlsr \in 0..1
    /\ result.value \in 0..Horizon

\* A measurement is the round trip there was, or none: reports that were
\* overtaken by the next sender report and the wrap of the compact clock cost
\* a measurement and never make up one.  It is none only for these reasons,
\* so a path slower than Interval is never measured.
RttExactOrNone ==
    LET trip == result.at - result.of - result.dlsr
        superseded == result.last # result.of
        wrapped == CompactNtp(result.of) + (result.at - result.of) >= Wrap
    IN result.of # -1 =>
         result.value = IF superseded \/ wrapped THEN 0 ELSE trip

\* Feedback is answered with what was asked for, or not at all: the buffer's
\* packets and the measured round trip.
FeedbackExact == NackOrder /\ NackServesRecent /\ RttExactOrNone
=============================================================================
