---------------------------- MODULE MCClientState ----------------------------
(* Parts of the client that follow the servers and the peers, for TLC, side  *)
(* by side: a behaviour is a behaviour of one part, and the others keep      *)
(* their initial state.  The meeting as the client sees it, its chat, its    *)
(* offers of media (the room is on n1), the queue of pictures to show (the   *)
(* two peers' time stamps start apart and wrap), and the way of an audio     *)
(* frame from a microphone to a loudspeaker.                                 *)
EXTENDS ClientMeeting, ClientChat, MediaNegotiation, RenderQueue, AudioPath

CONSTANTS n1, n2, p1, p2, d1, d2

MCNodes == {n1, n2}
MCSenders == {p1, p2}
MCDevices == {d1, d2}
MCBase == (p1 :> 6) @@ (p2 :> 5)
MCCadence == <<1, 2>>

VARIABLE part   \* which part

Parts == {"meeting", "chat", "negotiation", "pictures", "audio"}

StateInit ==
    /\ part \in Parts
    /\ MtInit /\ ChInit /\ MnInit /\ RqInit /\ ApInit
    /\ room = n1
    /\ part # "audio" => perFrame = 1 /\ device = d1

StateNext ==
    /\ UNCHANGED part
    /\ IF part = "meeting" THEN MtNext ELSE UNCHANGED mtVars
    /\ IF part = "chat" THEN ChNext ELSE UNCHANGED chVars
    /\ IF part = "negotiation" THEN MnNext ELSE UNCHANGED mnVars
    /\ IF part = "pictures" THEN RqNext ELSE UNCHANGED rqVars
    /\ IF part = "audio" THEN ApNext ELSE UNCHANGED apVars

StateSpec == StateInit /\ [][StateNext]_<<part, mtVars, chVars, mnVars, rqVars, apVars>>

StateTypeOK ==
    CASE part = "meeting" -> MtTypeOK
      [] part = "chat" -> ChTypeOK
      [] part = "negotiation" -> MnTypeOK
      [] part = "pictures" -> RqTypeOK
      [] part = "audio" -> ApTypeOK

\* What the client shows of a meeting and of its chat is what the server has
\* (RosterAgrees, CallLogClosed and SignedOutForCause of ClientMeeting, ChatPairs
\* and HistoryComplete of ClientChat).
MeetingFollowed ==
    /\ StateTypeOK
    /\ RosterAgrees /\ CallLogClosed /\ SignedOutForCause /\ ChatPairs /\ HistoryComplete

\* What is offered, sent and shown of media agrees with what the user switched on
\* (MediaStateAgrees, SourceIsSent and TransportsInPlace of MediaNegotiation).
MediaFollowed == MediaStateAgrees /\ SourceIsSent /\ TransportsInPlace

\* Pictures and sound are played for the time they were taken at (NewestShown and
\* DelayBounded of RenderQueue, PlayoutStamped and ReferenceRecent of AudioPath).
PlayedInTime == NewestShown /\ DelayBounded /\ PlayoutStamped /\ ReferenceRecent
==============================================================================
