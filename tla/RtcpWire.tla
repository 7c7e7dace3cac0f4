------------------------------ MODULE RtcpWire ------------------------------
(* RTCP datagrams: what the client and the SFU write into them               *)
(* (net/media/RTCPHandler.h, av/session/VideoRtcpActionPipeline.cpp,         *)
(* sfu/server/MediaIngress.cpp) and what each of them reads                  *)
(* (RTCPHandler.h with VideoRtcpFeedbackPipeline.cpp, sfu/rtp/RtcpHandler.   *)
(* cpp).  The two sides were written separately.                             *)
(*                                                                           *)
(* A datagram is a sequence of 32-bit words; a word is a record of the       *)
(* fields that share it, fields no property tells apart are left out of      *)
(* their word.  Field widths are constants.                                  *)
EXTENDS Integers, Sequences, FiniteSets, FiniteSetsExt
LOCAL INSTANCE SequencesExt

CONSTANTS
    SeqBits,        \* bits of a sequence number (16)
    BlpBits,        \* packets a NACK block covers after its first (16)
    RateBits,       \* bits of a rate (32)
    MantissaBits,   \* bits of a REMB mantissa (18)
    MaxExp,         \* largest REMB exponent (63)
    LostBits,       \* bits of a cumulative loss count (24)
    Losses,         \* cumulative loss counts that are reported
    Ssrcs,          \* stream numbers, none of them 0
    MaxCompound     \* packets in a datagram

VARIABLES
    wire,           \* the datagram
    said,           \* what was written into it, per packet
    cut             \* its end was lost

rtVars == <<wire, said, cut>>

RtInit == wire = <<>> /\ said = <<>> /\ cut = FALSE

Sequences16 == 0 .. 2^SeqBits - 1
Rates == 0 .. 2^RateBits - 2

-----------------------------------------------------------------------------
(* Writing *)

Header(fmt, pt, n) == [v |-> 2, fmt |-> fmt, pt |-> pt, len |-> n - 1]
Word(s) == [ssrc |-> s]
Filler(n) == [i \in 1 .. n |-> [zero |-> 0]]

\* A report block, six words.
Block(b) == <<Word(b.about), [lost |-> b.lost % 2^LostBits]>> \o Filler(2)
            \o <<[lsr |-> b.lsr]>> \o Filler(1)

BuildSenderReport(r) ==
    <<Header(Len(r.blocks), 200, 7 + 6 * Len(r.blocks)), Word(r.from), [ntp |-> r.ntp]>> \o Filler(4)
    \o (IF r.blocks = <<>> THEN <<>> ELSE Block(r.blocks[1]))

BuildReceiverReport(r) ==
    <<Header(Len(r.blocks), 201, 2 + 6 * Len(r.blocks)), Word(r.from)>>
    \o (IF r.blocks = <<>> THEN <<>> ELSE Block(r.blocks[1]))

\* The SFU's answer to a sender report: itself unnamed, nothing lost.
BuildReceiverReportPacket(s, lsr) ==
    <<Header(1, 201, 8), Word(0), Word(s)>> \o Filler(3) \o <<[lsr |-> lsr]>> \o Filler(1)

BuildPictureLossIndication(r) == <<Header(1, 206, 3), Word(r.from), Word(r.about)>>

\* The sorted sequence numbers, greedily: a block takes those that follow its
\* first within BlpBits.  A block does not reach over the wrap.
MutantNackBlock(lost) ==
    LET pid == Min(lost)
    IN  [pid |-> pid,
         blp |-> {s - pid - 1 : s \in {t \in lost : t > pid /\ t - pid <= BlpBits + 1}} \cap 0 .. BlpBits - 1,
         covered |-> {t \in lost : t - pid <= BlpBits + 1}]

NackBlock(lost) ==
    LET pid == Min(lost)
    IN  [pid |-> pid,
         blp |-> {s - pid - 1 : s \in {t \in lost : t > pid /\ t - pid <= BlpBits}} \cap 0 .. BlpBits - 1,
         covered |-> {t \in lost : t - pid <= BlpBits}]

RECURSIVE NackBlocks(_)
NackBlocks(lost) ==
    IF lost = {} THEN <<>>
    ELSE LET b == NackBlock(lost)
         IN  <<[pid |-> b.pid, blp |-> b.blp]>> \o NackBlocks(lost \ b.covered)

BuildNackFeedback(r) ==
    LET blocks == NackBlocks(r.lost)
    IN  <<Header(1, 205, 3 + Len(blocks)), Word(r.from), Word(r.about)>> \o blocks

\* mantissa and exponent, rounding up at every halving.
RECURSIVE Halved(_, _)
Halved(m, e) ==
    IF m >= 2^MantissaBits /\ e < MaxExp THEN Halved(((m + 1) % 2^RateBits) \div 2, e + 1)
    ELSE <<e, m % 2^MantissaBits>>

EncodeRembBitrate(rate) == Halved(rate, 0)

BuildRembPacket(r) ==
    LET em == EncodeRembBitrate(r.rate)
    IN  <<Header(15, 206, 6), Word(0), Word(r.about), [name |-> "REMB"],
          [count |-> 1, exp |-> em[1], mantissa |-> em[2]], Word(r.about)>>

-----------------------------------------------------------------------------
(* Reading *)

\* A header whose packet fits into what is left of the datagram.
ParseHeader(d) ==
    /\ Len(d) >= 1
    /\ "v" \in DOMAIN d[1] /\ d[1].v = 2
    /\ d[1].len + 1 <= Len(d)

Rest(d, n) == SubSeq(d, n + 1, Len(d))

\* The client: every packet of the datagram, or none.
RECURSIVE ParseCompoundPacket(_)
MutantParseCompoundPacket(d) ==
    IF d = <<>> THEN <<>>
    ELSE IF ~("v" \in DOMAIN d[1] /\ d[1].v = 2) THEN <<>>
    ELSE LET n == Min({d[1].len + 1, Len(d)})
         IN  <<SubSeq(d, 1, n)>> \o ParseCompoundPacket(Rest(d, n))
ParseCompoundPacket(d) ==
    IF ~ParseHeader(d) THEN <<>>
    ELSE LET n == d[1].len + 1
             more == ParseCompoundPacket(Rest(d, n))
         IN  IF n = Len(d) THEN <<d>>
             ELSE IF more = <<>> THEN <<>>
             ELSE <<SubSeq(d, 1, n)>> \o more

\* The SFU: the packets up to the first that does not fit.
RECURSIVE ParseCompound(_)
ParseCompound(d) ==
    IF ~ParseHeader(d) THEN <<>>
    ELSE LET n == d[1].len + 1
         IN  <<SubSeq(d, 1, n)>> \o ParseCompound(Rest(d, n))

\* A count of LostBits bits with its sign.
ReadSigned(x) == IF x >= 2^(LostBits - 1) THEN x - 2^LostBits ELSE x

BlockAt(p, o) == [about |-> p[o].ssrc,
                  lost |-> IF "lost" \in DOMAIN p[o + 1] THEN ReadSigned(p[o + 1].lost) ELSE 0,
                  lsr |-> p[o + 4].lsr]

\* The report blocks that start at word o of packet p and fit into it.
BlocksFrom(p, o) ==
    LET fit == {i \in 1 .. p[1].fmt : o + 6 * i - 1 <= Len(p)}
    IN  [i \in 1 .. Cardinality(fit) |-> BlockAt(p, o + 6 * (i - 1))]

\* The client drops a report with a block that does not fit, the SFU keeps the
\* blocks before it.
ParseSenderReport(p) ==
    IF Len(p) < 7 \/ Len(BlocksFrom(p, 8)) < p[1].fmt THEN <<>>
    ELSE <<[k |-> "sr", from |-> p[2].ssrc, ntp |-> p[3].ntp, blocks |-> BlocksFrom(p, 8)]>>

ParseReceiverReport(p) ==
    IF Len(p) < 2 \/ Len(BlocksFrom(p, 3)) < p[1].fmt THEN <<>>
    ELSE <<[k |-> "rr", from |-> p[2].ssrc, blocks |-> BlocksFrom(p, 3)]>>

ParseSenderReports(p) ==
    IF Len(p) < 7 THEN <<>>
    ELSE <<[k |-> "sr", from |-> p[2].ssrc, ntp |-> p[3].ntp, blocks |-> BlocksFrom(p, 8)]>>

ParseReceptionReports(p) ==
    IF Len(p) < 2 THEN <<>>
    ELSE <<[k |-> "rr", from |-> p[2].ssrc, blocks |-> BlocksFrom(p, 3)]>>

\* Feedback is read alike by both sides, from their own code.
ParseNackFeedback(p) ==
    LET lost == UNION {{p[i].pid} \cup {(p[i].pid + b + 1) % 2^SeqBits : b \in p[i].blp} : i \in 4 .. Len(p)}
    IN  IF Len(p) < 3 \/ lost = {} THEN <<>>
        ELSE <<[k |-> "nack", from |-> p[2].ssrc, about |-> p[3].ssrc, lost |-> lost]>>

ParsePliFeedback(p) ==
    IF Len(p) < 3 THEN <<>> ELSE <<[k |-> "pli", from |-> p[2].ssrc, about |-> p[3].ssrc]>>

\* mantissa << exp, no more than a rate can hold.
BitrateBps(w) == Min({w.mantissa * 2^w.exp, 2^RateBits - 1})

ParseRembFeedback(p) ==
    IF Len(p) < 5 \/ p[4] # [name |-> "REMB"] \/ Len(p) < 5 + p[5].count THEN <<>>
    ELSE <<[k |-> "remb", from |-> p[2].ssrc, about |-> p[6].ssrc, rate |-> BitrateBps(p[5])]>>

Kind(p) == <<p[1].pt, p[1].fmt>>

ClientReadsPacket(p) ==
    CASE p[1].pt = 200 -> ParseSenderReport(p)
      [] p[1].pt = 201 -> ParseReceiverReport(p)
      [] Kind(p) = <<205, 1>> -> ParseNackFeedback(p)
      [] Kind(p) = <<206, 1>> -> ParsePliFeedback(p)
      [] Kind(p) = <<206, 15>> -> ParseRembFeedback(p)

SfuReadsPacket(p) ==
    CASE p[1].pt = 200 -> ParseSenderReports(p)
      [] p[1].pt = 201 -> ParseReceptionReports(p)
      [] Kind(p) = <<205, 1>> -> ParseNackFeedback(p)
      [] Kind(p) = <<206, 1>> -> ParsePliFeedback(p)
      [] Kind(p) = <<206, 15>> -> ParseRembFeedback(p)

ClientReads(d) == LET ps == ParseCompoundPacket(d) IN FlattenSeq([i \in DOMAIN ps |-> ClientReadsPacket(ps[i])])
SfuReads(d) == LET ps == ParseCompound(d) IN FlattenSeq([i \in DOMAIN ps |-> SfuReadsPacket(ps[i])])

\* VideoRtcpFeedbackPipeline::parseFeedback: what concerns the client's own
\* stream.
ParseFeedback(d, local) ==
    LET mine(r) == CASE r.k = "rr" -> \E i \in DOMAIN r.blocks : r.blocks[i].about = local
                     [] r.k \in {"nack", "pli"} -> r.about \in {0, local}
                     [] r.k = "remb" -> r.about = local
                     [] OTHER -> FALSE
    IN  SelectSeq(ClientReads(d), mine)

-----------------------------------------------------------------------------
(* A datagram is put together, and its end may be lost *)

Add(packet, r) ==
    /\ ~cut /\ Len(said) < MaxCompound
    /\ wire' = wire \o packet
    /\ said' = Append(said, r)
    /\ UNCHANGED cut

Reports == {[about |-> s, lost |-> n, lsr |-> 1] : s \in Ssrcs, n \in Losses}
BlockLists == {<<>>} \cup {<<b>> : b \in Reports}

\* Every set of sequence numbers and every rate is tried as the first packet;
\* what follows a packet is a report or a picture loss.
SaySenderReport(s) == \E bs \in BlockLists :
    LET r == [k |-> "sr", from |-> s, ntp |-> 1, blocks |-> bs] IN Add(BuildSenderReport(r), r)
SayReceiverReport(s) == \E bs \in BlockLists :
    LET r == [k |-> "rr", from |-> s, blocks |-> bs] IN Add(BuildReceiverReport(r), r)
SayReceived(s) == Add(BuildReceiverReportPacket(s, 1),
                      [k |-> "rr", from |-> 0, blocks |-> <<[about |-> s, lost |-> 0, lsr |-> 1]>>])
SayPli(s, t) == LET r == [k |-> "pli", from |-> s, about |-> t] IN Add(BuildPictureLossIndication(r), r)
SayNack(s) == said = <<>> /\ \E lost \in SUBSET Sequences16 \ {{}} :
    LET r == [k |-> "nack", from |-> s, about |-> s, lost |-> lost] IN Add(BuildNackFeedback(r), r)
SayRemb(s) == said = <<>> /\ \E rate \in Rates :
    LET r == [k |-> "remb", from |-> 0, about |-> s, rate |-> rate] IN Add(BuildRembPacket(r), r)

LoseEnd ==
    /\ ~cut /\ \E n \in 0 .. Len(wire) - 1 : wire' = SubSeq(wire, 1, n)
    /\ cut' = TRUE
    /\ UNCHANGED said

RtNext ==
    \/ \E s \in Ssrcs : SaySenderReport(s) \/ SayReceiverReport(s) \/ SayReceived(s) \/ SayNack(s) \/ SayRemb(s)
    \/ \E s, t \in Ssrcs : SayPli(s, t)
    \/ LoseEnd

-----------------------------------------------------------------------------
(* Properties *)

RtTypeOK ==
    /\ Len(said) <= MaxCompound /\ cut \in BOOLEAN
    /\ \A i \in DOMAIN wire : "v" \in DOMAIN wire[i] => wire[i].len \in 1 .. 12 + 2^SeqBits

\* The same words; a rate may be read up to a mantissa's precision too high,
\* never too low.
Same(read, meant) ==
    IF meant.k # "remb" THEN read = meant
    ELSE /\ read = [meant EXCEPT !.rate = read.rate]
         /\ read.rate \in meant.rate .. meant.rate + (meant.rate \div 2^(MantissaBits - 1))

SameAll(read, meant) ==
    Len(read) = Len(meant) /\ \A i \in DOMAIN read : Same(read[i], meant[i])

\* What of said is about stream s and meant for its sender.
About(s) == SelectSeq(said, LAMBDA r : \/ r.k \in {"nack", "pli", "remb"} /\ r.about = s
                                       \/ r.k = "rr" /\ \E i \in DOMAIN r.blocks : r.blocks[i].about = s)

\* A datagram that arrives whole is read as it was meant, by the client and by
\* the SFU, whichever of them wrote it: a NACK asks for the packets that are
\* missing and no other, a limit is not read as a lower one, a count keeps its
\* sign, and the sender of a stream overlooks nothing about it.
ReadAsMeant ==
    ~cut => /\ SameAll(SfuReads(wire), said)
            /\ SameAll(ClientReads(wire), said)
            /\ \A s \in Ssrcs : SameAll(ParseFeedback(wire, s), About(s))

\* Of a datagram that lost its end the SFU reads whole packets from the front;
\* the client reads just those, or nothing unless the cut is between packets.
CutReadsWhole ==
    cut => LET sfu == SfuReads(wire)
               client == ClientReads(wire)
           IN  /\ Len(sfu) <= Len(said) /\ SameAll(sfu, SubSeq(said, 1, Len(sfu)))
               /\ client \in {<<>>, sfu}
=============================================================================
