---------------------------- MODULE AdaptiveVideo ----------------------------
(* The loop that adapts the client's video to the network: the receive thread *)
(* of the client applies receiver reports and the SFU's REMB to the policy    *)
(* (VideoBwePolicy) and publishes the target in atomics, one after the other; *)
(* the send thread reads them, one after the other, before each frame and     *)
(* reconfigures the encoder; the SFU measures what arrives and estimates the  *)
(* next REMB (BandwidthEstimator).  Rates are in kbit/s.                      *)
EXTENDS BandwidthEstimator, Sequences

CONSTANTS
    MinVideo,       \* kMinVideoBitrateBps
    SevereVideo,    \* kSevereVideoBitrateBps
    Baseline,       \* the configured bit rate
    MaxBad          \* bound: reports while the network is bad

VARIABLES
    policy,     \* m_policyBitrateBps and m_rembLimitBps (0: none)
    target,     \* VideoBwePolicy::target
    out,        \* the atomics the target is published in
    toStore,    \* stores of publishAdaptiveTarget still to come
    seen,       \* what the send thread has read for the current frame
    toRead,     \* reads still to come
    encoder,    \* shape and bit rate of the encoder
    sending,    \* frames are sent: video is not suspended
    badReports  \* reports so far while the network is bad

avVars == <<kbps, calm, policy, target, out, toStore, seen, toRead, encoder, sending, badReports>>

\* The shape of the video is its size and frame rate: as configured, with fifteen frames per
\* second, or also reduced to 360 lines.
Shapes == {"full", "slow", "small"}
Slowed(shape) == IF shape = "small" THEN "small" ELSE "slow"
Full == [shape |-> "full", bitrate |-> Baseline, suspended |-> FALSE]
Stores == <<"bitrate", "suspended", "shape">>
Reads == <<"shape", "bitrate", "suspended">>
Loss == {"over30", "over15", "over5", "over2", "low"}

AvInit ==
    /\ BweInit
    /\ policy = [bitrate |-> Baseline, remb |-> 0]
    /\ target = Full /\ out = Full /\ toStore = <<>>
    /\ seen = Full /\ toRead = Reads
    /\ encoder = [shape |-> "full", bitrate |-> Baseline] /\ sending = TRUE
    /\ badReports = 0

-----------------------------------------------------------------------------
(* VideoBwePolicy.                                                           *)

ReduceByThirtyPercent(b) == Larger(MinVideo, (b * 70) \div 100)
RestoreByTenPercent(b) == Smaller(Baseline, (b * 110 + 99) \div 100)

EffectiveBitrate(p) ==
    LET b == Larger(MinVideo, Smaller(Baseline, p.bitrate)) IN
    IF p.remb >= MinVideo THEN Smaller(b, p.remb) ELSE b

PublishTarget(p, shape, suspended) ==
    [shape |-> shape, suspended |-> suspended,
     bitrate |-> IF suspended THEN 0 ELSE EffectiveBitrate(p)]

\* Every branch of onReceiverReport; "elapsed" is whether five seconds have passed since the
\* bit rate was last raised.
NextPolicy(loss, elapsed) ==
    [policy EXCEPT !.bitrate =
        CASE loss = "over15" -> Smaller(@, SevereVideo)
          [] loss = "over5"  -> ReduceByThirtyPercent(@)
          [] loss = "low"    -> IF elapsed THEN RestoreByTenPercent(@) ELSE @
          [] OTHER           -> @]

MutantNextTarget(p, loss) ==
    CASE loss = "over30" -> PublishTarget(p, Slowed(target.shape), TRUE)
      [] loss = "over15" -> PublishTarget(p, "small", FALSE)
      [] loss = "over5"  -> PublishTarget(p, "slow", FALSE)
      [] loss = "over2"  -> target
      [] loss = "low"    -> IF p.bitrate >= Baseline
                            THEN PublishTarget(p, "full", target.suspended)
                            ELSE PublishTarget(p, Slowed(target.shape), target.suspended)

\* Between two and five per cent nothing changes: a suspended video stays suspended.
NextTarget(p, loss) ==
    CASE loss = "over30" -> PublishTarget(p, Slowed(target.shape), TRUE)
      [] loss = "over15" -> PublishTarget(p, "small", FALSE)
      [] loss = "over5"  -> PublishTarget(p, "slow", FALSE)
      [] loss = "over2"  -> target
      [] loss = "low"    -> IF p.bitrate >= Baseline
                            THEN PublishTarget(p, "full", FALSE)
                            ELSE PublishTarget(p, Slowed(target.shape), FALSE)

-----------------------------------------------------------------------------
(* The receive thread: applyRtcpDispatchPlanLocked.                          *)

\* Reports come in while the network is bad, and for ever once it is good.
Reported(fine) ==
    \/ calm /\ fine /\ UNCHANGED badReports
    \/ ~calm /\ badReports < MaxBad /\ badReports' = badReports + 1

OnReceiverReport(loss, elapsed) ==
    /\ toStore = <<>> /\ Reported(loss = "low")
    /\ policy' = NextPolicy(loss, elapsed)
    /\ target' = NextTarget(policy', loss)
    /\ toStore' = Stores
    /\ UNCHANGED <<kbps, calm, out, seen, toRead, encoder, sending>>

\* A report of the SFU and the REMB that follows from it: onRembTarget
OnRembTarget(grade) ==
    /\ toStore = <<>> /\ Reported(grade = "good")
    /\ kbps' = Recommend(grade, IF sending THEN encoder.bitrate ELSE 0)
    /\ policy' = [policy EXCEPT !.remb = Larger(MinVideo, kbps')]
    /\ target' = PublishTarget(policy', target.shape, target.suspended)
    /\ toStore' = Stores
    /\ UNCHANGED <<calm, out, seen, toRead, encoder, sending>>

StoreNext ==
    /\ toStore # <<>>
    /\ out' = [out EXCEPT ![Head(toStore)] = target[Head(toStore)]]
    /\ toStore' = Tail(toStore)
    /\ UNCHANGED <<kbps, calm, policy, target, seen, toRead, encoder, sending, badReports>>

-----------------------------------------------------------------------------
(* The send thread, before a frame.                                          *)

ReadNext ==
    /\ toRead # <<>>
    /\ seen' = [seen EXCEPT ![Head(toRead)] = out[Head(toRead)]]
    /\ toRead' = Tail(toRead)
    /\ UNCHANGED <<kbps, calm, policy, target, out, toStore, encoder, sending, badReports>>

\* maybeApplyAdaptiveEncoderProfile, unless the video is suspended
ApplyProfile ==
    /\ toRead = <<>>
    /\ sending' = ~seen.suspended
    /\ encoder' = IF seen.suspended THEN encoder
                  ELSE [shape |-> seen.shape, bitrate |-> Larger(MinVideo, seen.bitrate)]
    /\ toRead' = Reads
    /\ UNCHANGED <<kbps, calm, policy, target, out, toStore, seen, badReports>>

GoodNetwork ==
    /\ ~calm /\ calm' = TRUE
    /\ UNCHANGED <<kbps, policy, target, out, toStore, seen, toRead, encoder, sending, badReports>>

CalmReceiverReport == calm /\ OnReceiverReport("low", TRUE)
CalmRemb == calm /\ OnRembTarget("good")

AvNext ==
    \/ \E loss \in Loss, elapsed \in BOOLEAN : OnReceiverReport(loss, elapsed)
    \/ \E grade \in Grades : OnRembTarget(grade)
    \/ StoreNext \/ ReadNext \/ ApplyProfile \/ GoodNetwork

-----------------------------------------------------------------------------
(* Properties.                                                               *)

AvTypeOK ==
    /\ BweTypeOK
    /\ policy.bitrate \in MinVideo..Baseline /\ policy.remb \in {0} \cup MinVideo..MaxKbps
    /\ target.shape \in Shapes /\ encoder.shape \in Shapes
    /\ target.bitrate \in 0..Baseline /\ target.suspended = (target.bitrate = 0)
    /\ encoder.bitrate \in MinVideo..Baseline
    /\ sending \in BOOLEAN /\ badReports \in 0..MaxBad

\* The video comes back: once the network is good, the client sends at full size, frame rate
\* and bit rate again, from whatever the loss before had reduced it to.  The two controllers,
\* the policy of the client and the estimator of the SFU that follows what the client sends, do
\* not hold each other down, and no mixture of an old and a new target stays in the encoder.
VideoRecovers ==
    <>[](calm => sending /\ encoder = [shape |-> "full", bitrate |-> Baseline])
=============================================================================
