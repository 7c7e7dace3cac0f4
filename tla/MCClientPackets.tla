--------------------------- MODULE MCClientPackets ---------------------------
(* Parts of the client that packets and frames pass through, for TLC, side   *)
(* by side: a behaviour is a behaviour of one part, and the others keep      *)
(* their initial state.  Video that is received (sequence numbers wrap, one  *)
(* packet is lost or one send fails), whose it is (two peers), the camera's  *)
(* frames, RTCP and the relay.                                               *)
EXTENDS VideoRecv, RemoteVideo, CameraFeed, RtcpWire, TurnRelay

CONSTANTS p1, p2

MCPeers == <<p1, p2>>
MCOrders == {<<"dshow", "ffmpeg", "qt">>, <<"qt">>}
MCLosses == {0, -2}

VARIABLE part   \* which part

Parts == {"received", "remote", "camera", "rtcp", "relay"}

PacketsInit ==
    /\ part \in Parts
    /\ VrInit /\ RvInit /\ CfInit /\ RtInit /\ TrInit
    /\ part # "camera" => order = <<"qt">>

PacketsNext ==
    /\ UNCHANGED part
    /\ IF part = "received" THEN VrNext ELSE UNCHANGED vrVars
    /\ IF part = "remote" THEN RvNext ELSE UNCHANGED rvVars
    /\ IF part = "camera" THEN CfNext ELSE UNCHANGED cfVars
    /\ IF part = "rtcp" THEN RtNext ELSE UNCHANGED rtVars
    /\ IF part = "relay" THEN TrNext ELSE UNCHANGED trVars

packetsVars == <<part, vrVars, rvVars, cfVars, rtVars, trVars>>

PacketsSpec == PacketsInit /\ [][PacketsNext]_packetsVars

PacketsTypeOK ==
    CASE part = "received" -> VrTypeOK
      [] part = "remote" -> RvTypeOK
      [] part = "camera" -> CfTypeOK
      [] part = "rtcp" -> RtTypeOK
      [] part = "relay" -> TrTypeOK

\* Video that arrives is decoded whole, or a key frame is asked for, and shown
\* under its sender's name (UnitsUnbroken and LossAnswered of VideoRecv,
\* MappingAgrees and ShownUnderItsName of RemoteVideo).
VideoArrives ==
    PacketsTypeOK /\ UnitsUnbroken /\ LossAnswered /\ MappingAgrees /\ ShownUnderItsName

\* Frames of a camera that was switched off are not sent, and starting one never
\* runs over the thread of another (QueueIsCurrent and NoThreadLost of CameraFeed).
CameraCurrent == QueueIsCurrent /\ NoThreadLost

\* RTCP means to the reader what the writer meant, also cut short (ReadAsMeant and
\* CutReadsWhole of RtcpWire).
ReportsRead == ReadAsMeant /\ CutReadsWhole

\* What a step may never do: let packets out of order (JitterInOrder of VideoRecv),
\* feed the encoder backwards (StampsForward of CameraFeed), take a relay for
\* granted that is not (RelayGranted of TurnRelay).
NoStepBack == [][JitterInOrder /\ StampsForward /\ RelayGranted]_packetsVars
==============================================================================
