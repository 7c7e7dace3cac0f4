----------------------------- MODULE ClientChat -----------------------------
(* The chat of a meeting: app/MeetingController.cpp (sending, receiving and  *)
(* paging through the history), app/ChatMessageListModel.cpp (what is shown) *)
(* and storage/MessageRepository.cpp (what is kept), against                 *)
(* handler/chat_handler.go.  A message is known by its place in the server's *)
(* log; two messages may have the same time stamp.                           *)
EXTENDS Integers, Sequences, FiniteSets, SequencesExt

CONSTANTS
    Page,           \* m_chatHistoryPageSize, and the rows that loadLocalChatHistory reads
    MaxMessages,    \* bound: messages in the server's log
    MaxAsks         \* bound: requests of the user (join, send, older messages)

VARIABLES
    ch,         \* the client: m_inMeeting, m_pendingChatMessages, the list shown,
                \* m_chatHistoryLoading, m_chatHistoryLoadingOlder, m_chatHistoryHasOlder,
                \* and whether it waits for a reply to its leave request
    kept,       \* the messages in the local database
    chLog,      \* the server's messages: sender, text and time stamp
    unsent,     \* messages of the peer that are saved and not broadcast yet
    chUp, chDown,
    present,    \* the client's session is in the meeting
    skipped,    \* history: why older messages may be out of reach
    chAsks

chVars == <<ch, kept, chLog, unsent, chUp, chDown, present, skipped, chAsks>>

ChInit ==
    /\ ch = [in |-> FALSE, pend |-> <<>>, list |-> <<>>, loading |-> FALSE, older |-> FALSE,
             hasOlder |-> TRUE, leaving |-> FALSE]
    /\ kept = {} /\ chLog = <<>> /\ unsent = {}
    /\ chUp = <<>> /\ chDown = <<>>
    /\ present = FALSE /\ skipped = {}
    /\ chAsks = 0

\* A frame or request: ids of messages, a text, and the stamp of a history request.
Msg(kind, ids, text, before) == [kind |-> kind, ids |-> ids, text |-> text, before |-> before]
Entry(i, text) == [id |-> i, text |-> text]
Ids(list) == {list[k].id : k \in DOMAIN list}
StampOf(i) == chLog[i].stamp

\* The newest `Page` of a set of messages, in order: MessageRepo.ListByMeeting on the server,
\* MessageRepository::listByMeeting in the client.
LatestPage(ids) ==
    SetToSortSeq({i \in ids : Cardinality({j \in ids : j > i}) < Page}, <)

Entries(ids) == [k \in DOMAIN ids |-> Entry(ids[k], chLog[ids[k]].text)]

-----------------------------------------------------------------------------
(* The client.                                                               *)

\* ChatMessageListModel::appendMessages and appendMessage: what is shown already is left out.
AppendMessages(list, more) == list \o SelectSeq(more, LAMBDA e : e.id \notin Ids(list))
PrependMessages(list, more) == SelectSeq(more, LAMBDA e : e.id \notin Ids(list)) \o list

\* requestRemoteChatHistory
RequestHistory(c, before) ==
    [c EXCEPT !.loading = TRUE, !.older = (before > 0)]

\* joinMeetingFinished, with loadLocalChatHistory
OnJoinRsp(c) ==
    RequestHistory([c EXCEPT !.in = TRUE, !.leaving = FALSE, !.loading = FALSE, !.older = FALSE,
                             !.hasOlder = TRUE, !.list = Entries(LatestPage(kept))], 0)

\* resetMeetingState
OnLeaveRsp(c) ==
    [c EXCEPT !.in = FALSE, !.leaving = FALSE, !.pend = <<>>, !.list = <<>>, !.loading = FALSE,
              !.older = FALSE, !.hasOlder = TRUE]

MutantOnChatSendRsp(c, f) ==
    IF f.kind = "sendFailed" THEN c
    ELSE [c EXCEPT !.pend = IF @ = <<>> THEN @ ELSE Tail(@),
                   !.list = IF c.pend = <<>> THEN @
                            ELSE AppendMessages(@, <<Entry(Head(f.ids), Head(c.pend))>>)]

\* chatSendFinished: the reply belongs to the oldest message that has none.
OnChatSendRsp(c, f) ==
    LET popped == [c EXCEPT !.pend = IF @ = <<>> THEN @ ELSE Tail(@)]
    IN  IF f.kind = "sendFailed" \/ c.pend = <<>> THEN popped
        ELSE [popped EXCEPT !.list = AppendMessages(@, <<Entry(Head(f.ids), Head(c.pend))>>)]

\* chatReceived, appendAndPersistChatMessage
OnChatRecv(c, f) ==
    IF c.in THEN [c EXCEPT !.list = AppendMessages(@, Entries(f.ids))] ELSE c

MutantOnChatHistoryRsp(c, f) ==
    IF ~c.loading THEN c
    ELSE [c EXCEPT !.list = IF c.older THEN PrependMessages(@, Entries(f.ids))
                            ELSE AppendMessages(@, Entries(f.ids)),
                   !.hasOlder = (@ /\ Len(f.ids) > Page),
                   !.loading = FALSE, !.older = FALSE]

\* chatHistoryReceived and chatHistoryFinished
OnChatHistoryRsp(c, f) ==
    IF ~c.loading THEN c
    ELSE [c EXCEPT !.list = IF c.older THEN PrependMessages(@, Entries(f.ids))
                            ELSE AppendMessages(@, Entries(f.ids)),
                   !.hasOlder = (@ /\ Len(f.ids) = Page),
                   !.loading = FALSE, !.older = FALSE]

ChHandled(c, f) ==
    CASE f.kind = "joinRsp" -> OnJoinRsp(c)
      [] f.kind = "leaveRsp" -> OnLeaveRsp(c)
      [] f.kind \in {"sendRsp", "sendFailed"} -> OnChatSendRsp(c, f)
      [] f.kind = "chatRecv" -> OnChatRecv(c, f)
      [] f.kind = "historyRsp" -> OnChatHistoryRsp(c, f)

\* Why the pages may miss messages: one was shown before the first page arrived, or the first
\* page does not reach down to what an earlier visit had kept.
Skips(c, f) ==
    (IF f.kind \in {"chatRecv", "sendRsp"} /\ c.loading /\ ~c.older THEN {"overtaken"} ELSE {})
    \union (IF /\ f.kind = "historyRsp" /\ c.loading /\ ~c.older
               /\ \E i \in DOMAIN chLog : /\ \E j \in Ids(c.list) : i > j
                                          /\ i \notin Ids(c.list)
                                          /\ \A j \in ToSet(f.ids) : i < j
            THEN {"gap"} ELSE {})

\* SignalingClient::handlePayload on one frame; what is shown is saved (persistChatRecord).
ChHandle ==
    /\ chDown # <<>>
    /\ LET f == Head(chDown)
           new == ChHandled(ch, f)
       IN  /\ ch' = new
           /\ kept' = kept \union Ids(new.list)
           /\ chUp' = IF f.kind = "joinRsp" THEN Append(chUp, Msg("history", <<>>, 0, 0)) ELSE chUp
           /\ skipped' = IF f.kind = "leaveRsp" THEN {} ELSE skipped \union Skips(ch, f)
    /\ chDown' = Tail(chDown)
    /\ UNCHANGED <<chLog, unsent, present, chAsks>>

ChServer == <<chLog, unsent, present>>

JoinChat ==
    /\ ~ch.in /\ chUp = <<>> /\ chDown = <<>> /\ chAsks < MaxAsks
    /\ chUp' = <<Msg("join", <<>>, 0, 0)>>
    /\ chAsks' = chAsks + 1
    /\ UNCHANGED <<ch, kept, chDown, ChServer, skipped>>

LeaveChat ==
    /\ ch.in /\ ~ch.leaving
    /\ ch' = [ch EXCEPT !.leaving = TRUE]
    /\ chUp' = Append(chUp, Msg("leave", <<>>, 0, 0))
    /\ UNCHANGED <<kept, chDown, ChServer, skipped, chAsks>>

\* sendChat; the texts are numbered.
SendChat ==
    /\ ch.in /\ ~ch.leaving /\ chAsks < MaxAsks
    /\ chAsks' = chAsks + 1
    /\ ch' = [ch EXCEPT !.pend = Append(@, chAsks)]
    /\ chUp' = Append(chUp, Msg("send", <<>>, chAsks, 0))
    /\ UNCHANGED <<kept, chDown, ChServer, skipped>>

\* loadOlderChatHistory: from the stamp of the first message of the list.
LoadOlder ==
    /\ ch.in /\ ~ch.leaving /\ ~ch.loading /\ ch.hasOlder /\ ch.list # <<>> /\ chAsks < MaxAsks
    /\ LET before == StampOf(Head(ch.list).id)
       IN  /\ ch' = RequestHistory(ch, before)
           /\ chUp' = Append(chUp, Msg("history", <<>>, 0, before))
           /\ skipped' = skipped \union
                (IF \E i \in DOMAIN chLog : StampOf(i) = before /\ i \notin Ids(ch.list)
                                            /\ i < Head(ch.list).id
                 THEN {"tie"} ELSE {})
    /\ chAsks' = chAsks + 1
    /\ UNCHANGED <<kept, chDown, ChServer>>

-----------------------------------------------------------------------------
(* The server.                                                               *)

LastStamp == IF chLog = <<>> THEN 1 ELSE chLog[Len(chLog)].stamp

\* saveMessage
SaveMessage(text, stamp) ==
    /\ Len(chLog) < MaxMessages /\ stamp \in {LastStamp, LastStamp + 1}
    /\ chLog' = Append(chLog, [text |-> text, stamp |-> stamp])

\* listMessages, ListByMeeting
ListMessages(before) ==
    LatestPage({i \in DOMAIN chLog : before = 0 \/ StampOf(i) < before})

\* HandleSend, HandleHistory, HandleJoin and HandleLeave for the client
ChHandleRequest ==
    /\ chUp # <<>>
    /\ chUp' = Tail(chUp)
    /\ LET r == Head(chUp)
           reply(f) == chDown' = Append(chDown, f)
       IN  \/ /\ r.kind = "join" /\ present' = TRUE /\ reply(Msg("joinRsp", <<>>, 0, 0))
              /\ UNCHANGED chLog
           \/ /\ r.kind = "leave" /\ present' = FALSE /\ reply(Msg("leaveRsp", <<>>, 0, 0))
              /\ UNCHANGED chLog
           \/ /\ r.kind = "send"
              /\ \E stamp \in {LastStamp, LastStamp + 1} : SaveMessage(r.text, stamp)
              /\ reply(Msg("sendRsp", <<Len(chLog) + 1>>, 0, 0))
              /\ UNCHANGED present
           \/ r.kind = "send" /\ reply(Msg("sendFailed", <<>>, 0, 0)) /\ UNCHANGED <<chLog, present>>
           \/ /\ r.kind = "history" /\ reply(Msg("historyRsp", ListMessages(r.before), 0, 0))
              /\ UNCHANGED <<chLog, present>>
    /\ UNCHANGED <<ch, kept, unsent, skipped, chAsks>>

\* HandleSend for the peer: the message is saved, then broadcast to the meeting.
PeerSaves ==
    /\ unsent = {}
    /\ \E stamp \in {LastStamp, LastStamp + 1} : SaveMessage(0, stamp)
    /\ unsent' = {Len(chLog) + 1}
    /\ UNCHANGED <<ch, kept, chUp, chDown, present, skipped, chAsks>>

PeerBroadcasts ==
    /\ unsent # {}
    /\ unsent' = {}
    /\ chDown' = IF present THEN Append(chDown, Msg("chatRecv", SetToSeq(unsent), 0, 0)) ELSE chDown
    /\ UNCHANGED <<ch, kept, chLog, chUp, present, skipped, chAsks>>

ChNext ==
    \/ ChHandle \/ JoinChat \/ LeaveChat \/ LoadOlder \/ SendChat
    \/ ChHandleRequest \/ PeerSaves \/ PeerBroadcasts

-----------------------------------------------------------------------------
(* Properties.                                                               *)

\* The client and the log are well formed, and no message is shown twice.
ChTypeOK ==
    /\ \A k, l \in DOMAIN ch.list : ch.list[k].id = ch.list[l].id => k = l
    /\ Ids(ch.list) \subseteq kept /\ kept \subseteq DOMAIN chLog
    /\ ch.older => ch.loading
    /\ skipped \subseteq {"overtaken", "gap", "tie"}

\* A message is shown with the text that the server has under its number, however many sends
\* were outstanding and whichever of them failed (the replies carry no text).
ChatPairs == \A k \in DOMAIN ch.list : ch.list[k].text = chLog[ch.list[k].id].text

\* Once the client says there is nothing older, it shows the whole log, unless a
\* message was shown before the first page, the page left a gap above what was kept, or
\* a page ended between messages of one stamp.
HistoryComplete ==
    ch.in /\ ~ch.loading /\ ~ch.hasOlder /\ unsent = {} /\ chDown = <<>> /\ chUp = <<>>
    /\ skipped = {} => Ids(ch.list) = DOMAIN chLog

=============================================================================
