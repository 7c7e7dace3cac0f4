---------------------------- MODULE MCClientLive ----------------------------
(* The video threads of the client and the control of its bit rate for TLC,  *)
(* side by side: a behaviour is one of VideoSend or one of AdaptiveVideo.    *)
EXTENDS VideoSend, AdaptiveVideo

VARIABLE part

LiveInit ==
    /\ part \in {"video", "adaptive"} /\ VsInit /\ AvInit
    /\ part # "video" => hardware

LiveNext ==
    /\ UNCHANGED part
    /\ IF part = "video" THEN VsNext ELSE UNCHANGED vsVars
    /\ IF part = "adaptive" THEN AvNext ELSE UNCHANGED avVars

\* Threads run.  On a calm network reports keep coming, and some of them when
\* the controller is not in the middle of storing a target.
LiveSpec ==
    /\ LiveInit /\ [][LiveNext]_<<part, vsVars, avVars>>
    /\ WF_vsVars(part = "video" /\ UiSteps)
    /\ WF_vsVars(part = "video" /\ CaptureSteps)
    /\ WF_vsVars(part = "video" /\ SendSteps)
    /\ SF_avVars(part = "adaptive" /\ CalmReceiverReport)
    /\ SF_avVars(part = "adaptive" /\ CalmRemb)
    /\ WF_avVars(part = "adaptive" /\ StoreNext)
    /\ WF_avVars(part = "adaptive" /\ ReadNext)
    /\ WF_avVars(part = "adaptive" /\ ApplyProfile)

LiveTypeOK == VsTypeOK /\ AvTypeOK

\* Video that is switched on is sent, with the key frames its receivers wait for
\* (SenderAlive and KeyFrameOwed of VideoSend).
VideoSent == LiveTypeOK /\ SenderAlive /\ KeyFrameOwed
=============================================================================
