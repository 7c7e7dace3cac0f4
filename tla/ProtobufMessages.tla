-------------------------- MODULE ProtobufMessages --------------------------
(***************************************************************************)
(* The messages of the system as the generated classes treat them: those   *)
(* between a client and the signaling server (plasma-hawking/proto/pb) and *)
(* those of the remote procedures of a media node                          *)
(* (meeting-server/sfu/proto/pb).  Of message M, M gives the fields of the *)
(* class and their kinds (the .pb.h), and MCode what its functions do with *)
(* them (the .pb.cc): the wire type and the field of number 1, 2, ... in   *)
(* _InternalParse, the same in _InternalSerialize, the fields that         *)
(* ByteSizeLong counts and the ones that MergeFrom merges.                 *)
(*                                                                         *)
(* Text stands for string and bytes, Number for the integer types: the     *)
(* code treats the members of each alike.                                  *)
(***************************************************************************)
Text    == [of |-> "text"]
Number  == [of |-> "number"]
Flag    == [of |-> "flag"]
Real    == [of |-> "real"]
Strings == [of |-> "strings"]
One(message)  == [of |-> "one", message |-> message]
Many(message) == [of |-> "many", message |-> message]

Varint(field)    == [type |-> 0, field |-> field]
Delimited(field) == [type |-> 2, field |-> field]
Fixed(field)     == [type |-> 5, field |-> field]

Code(parse, write, size, merge) == [parse |-> parse, write |-> write, size |-> size, merge |-> merge]

Message(fields, code) ==
    [fields |-> fields, parse |-> code.parse, write |-> code.write, size |-> code.size,
     merge |-> code.merge]

-----------------------------------------------------------------------------
(* signaling.proto *)

ErrorInfo == [code |-> Number, message |-> Text]
ErrorInfoCode == Code(
    <<Varint("code"), Delimited("message")>>,
    <<Varint("code"), Delimited("message")>>,
    {"message", "code"}, {"message", "code"})

AuthLoginReq == [username |-> Text, password_hash |-> Text, device_id |-> Text,
                 platform |-> Text, resume_token |-> Text]
AuthLoginReqCode == Code(
    <<Delimited("username"), Delimited("password_hash"), Delimited("device_id"),
      Delimited("platform"), Delimited("resume_token")>>,
    <<Delimited("username"), Delimited("password_hash"), Delimited("device_id"),
      Delimited("platform"), Delimited("resume_token")>>,
    {"username", "password_hash", "device_id", "platform", "resume_token"},
    {"username", "password_hash", "device_id", "platform", "resume_token"})

AuthLoginRsp == [success |-> Flag, error |-> One("ErrorInfo"), token |-> Text,
                 user_id |-> Text, display_name |-> Text, avatar_url |-> Text]
AuthLoginRspCode == Code(
    <<Varint("success"), Delimited("error"), Delimited("token"), Delimited("user_id"),
      Delimited("display_name"), Delimited("avatar_url")>>,
    <<Varint("success"), Delimited("error"), Delimited("token"), Delimited("user_id"),
      Delimited("display_name"), Delimited("avatar_url")>>,
    {"token", "user_id", "display_name", "avatar_url", "error", "success"},
    {"token", "user_id", "display_name", "avatar_url", "error", "success"})

AuthLogoutReq == [f \in {} |-> Number]
AuthLogoutReqCode == Code(<<>>, <<>>, {}, {})

AuthLogoutRsp == [success |-> Flag]
AuthLogoutRspCode == Code(
    <<Varint("success")>>,
    <<Varint("success")>>,
    {"success"}, {"success"})

AuthHeartbeatReq == [client_timestamp |-> Number]
AuthHeartbeatReqCode == Code(
    <<Varint("client_timestamp")>>,
    <<Varint("client_timestamp")>>,
    {"client_timestamp"}, {"client_timestamp"})

AuthHeartbeatRsp == [server_timestamp |-> Number]
AuthHeartbeatRspCode == Code(
    <<Varint("server_timestamp")>>,
    <<Varint("server_timestamp")>>,
    {"server_timestamp"}, {"server_timestamp"})

AuthKickNotify == [reason |-> Text]
AuthKickNotifyCode == Code(
    <<Delimited("reason")>>,
    <<Delimited("reason")>>,
    {"reason"}, {"reason"})

MeetCreateReq == [title |-> Text, password |-> Text, max_participants |-> Number]
MeetCreateReqCode == Code(
    <<Delimited("title"), Delimited("password"), Varint("max_participants")>>,
    <<Delimited("title"), Delimited("password"), Varint("max_participants")>>,
    {"title", "password", "max_participants"}, {"title", "password", "max_participants"})

MeetCreateRsp == [success |-> Flag, error |-> One("ErrorInfo"), meeting_id |-> Text]
MeetCreateRspCode == Code(
    <<Varint("success"), Delimited("error"), Delimited("meeting_id")>>,
    <<Varint("success"), Delimited("error"), Delimited("meeting_id")>>,
    {"meeting_id", "error", "success"}, {"meeting_id", "error", "success"})

MeetJoinReq == [meeting_id |-> Text, password |-> Text]
MeetJoinReqCode == Code(
    <<Delimited("meeting_id"), Delimited("password")>>,
    <<Delimited("meeting_id"), Delimited("password")>>,
    {"meeting_id", "password"}, {"meeting_id", "password"})

IceServer == [urls |-> Text, username |-> Text, credential |-> Text]
IceServerCode == Code(
    <<Delimited("urls"), Delimited("username"), Delimited("credential")>>,
    <<Delimited("urls"), Delimited("username"), Delimited("credential")>>,
    {"urls", "username", "credential"}, {"urls", "username", "credential"})

Participant == [user_id |-> Text, display_name |-> Text, avatar_url |-> Text, role |-> Number,
                is_audio_on |-> Flag, is_video_on |-> Flag, is_sharing |-> Flag,
                audio_ssrc |-> Number, video_ssrc |-> Number]
ParticipantCode == Code(
    <<Delimited("user_id"), Delimited("display_name"), Delimited("avatar_url"),
      Varint("role"), Varint("is_audio_on"), Varint("is_video_on"), Varint("is_sharing"),
      Varint("audio_ssrc"), Varint("video_ssrc")>>,
    <<Delimited("user_id"), Delimited("display_name"), Delimited("avatar_url"),
      Varint("role"), Varint("is_audio_on"), Varint("is_video_on"), Varint("is_sharing"),
      Varint("audio_ssrc"), Varint("video_ssrc")>>,
    {"user_id", "display_name", "avatar_url", "role", "is_audio_on", "is_video_on",
     "is_sharing", "audio_ssrc", "video_ssrc"},
    {"user_id", "display_name", "avatar_url", "role", "is_audio_on", "is_video_on",
     "is_sharing", "audio_ssrc", "video_ssrc"})

MeetJoinRsp == [success |-> Flag, error |-> One("ErrorInfo"), meeting_id |-> Text,
                title |-> Text, sfu_address |-> Text, ice_servers |-> Many("IceServer"),
                participants |-> Many("Participant")]
MeetJoinRspCode == Code(
    <<Varint("success"), Delimited("error"), Delimited("meeting_id"), Delimited("title"),
      Delimited("sfu_address"), Delimited("ice_servers"), Delimited("participants")>>,
    <<Varint("success"), Delimited("error"), Delimited("meeting_id"), Delimited("title"),
      Delimited("sfu_address"), Delimited("ice_servers"), Delimited("participants")>>,
    {"ice_servers", "participants", "meeting_id", "title", "sfu_address", "error",
     "success"},
    {"ice_servers", "participants", "meeting_id", "title", "sfu_address", "error",
     "success"})

MeetLeaveReq == [f \in {} |-> Number]
MeetLeaveReqCode == Code(<<>>, <<>>, {}, {})

MeetLeaveRsp == [success |-> Flag]
MeetLeaveRspCode == Code(
    <<Varint("success")>>,
    <<Varint("success")>>,
    {"success"}, {"success"})

MeetKickReq == [target_user_id |-> Text]
MeetKickReqCode == Code(
    <<Delimited("target_user_id")>>,
    <<Delimited("target_user_id")>>,
    {"target_user_id"}, {"target_user_id"})

MeetKickRsp == [success |-> Flag, error |-> One("ErrorInfo")]
MeetKickRspCode == Code(
    <<Varint("success"), Delimited("error")>>,
    <<Varint("success"), Delimited("error")>>,
    {"error", "success"}, {"error", "success"})

MeetMuteAllReq == [mute |-> Flag]
MeetMuteAllReqCode == Code(<<Varint("mute")>>, <<Varint("mute")>>, {"mute"}, {"mute"})

MeetMuteAllRsp == [success |-> Flag]
MeetMuteAllRspCode == Code(
    <<Varint("success")>>,
    <<Varint("success")>>,
    {"success"}, {"success"})

MeetStateSyncNotify == [meeting_id |-> Text, title |-> Text, host_id |-> Text,
                        participants |-> Many("Participant")]
MeetStateSyncNotifyCode == Code(
    <<Delimited("meeting_id"), Delimited("title"), Delimited("host_id"),
      Delimited("participants")>>,
    <<Delimited("meeting_id"), Delimited("title"), Delimited("host_id"),
      Delimited("participants")>>,
    {"participants", "meeting_id", "title", "host_id"},
    {"participants", "meeting_id", "title", "host_id"})

MeetParticipantJoinNotify == [participant |-> One("Participant")]
MeetParticipantJoinNotifyCode == Code(
    <<Delimited("participant")>>,
    <<Delimited("participant")>>,
    {"participant"}, {"participant"})

MeetParticipantLeaveNotify == [user_id |-> Text, reason |-> Text]
MeetParticipantLeaveNotifyCode == Code(
    <<Delimited("user_id"), Delimited("reason")>>,
    <<Delimited("user_id"), Delimited("reason")>>,
    {"user_id", "reason"}, {"user_id", "reason"})

MeetHostChangedNotify == [new_host_id |-> Text, new_host_name |-> Text]
MeetHostChangedNotifyCode == Code(
    <<Delimited("new_host_id"), Delimited("new_host_name")>>,
    <<Delimited("new_host_id"), Delimited("new_host_name")>>,
    {"new_host_id", "new_host_name"}, {"new_host_id", "new_host_name"})

MediaOffer == [meeting_id |-> Text, publish_audio |-> Flag, publish_video |-> Flag,
               client_ice_ufrag |-> Text, client_ice_pwd |-> Text,
               client_dtls_fingerprint |-> Text, client_candidates |-> Strings]
MediaOfferCode == Code(
    <<Delimited("meeting_id"), Varint("publish_audio"), Varint("publish_video"),
      Delimited("client_ice_ufrag"), Delimited("client_ice_pwd"),
      Delimited("client_dtls_fingerprint"), Delimited("client_candidates")>>,
    <<Delimited("meeting_id"), Varint("publish_audio"), Varint("publish_video"),
      Delimited("client_ice_ufrag"), Delimited("client_ice_pwd"),
      Delimited("client_dtls_fingerprint"), Delimited("client_candidates")>>,
    {"client_candidates", "meeting_id", "client_ice_ufrag", "client_ice_pwd",
     "client_dtls_fingerprint", "publish_audio", "publish_video"},
    {"client_candidates", "meeting_id", "client_ice_ufrag", "client_ice_pwd",
     "client_dtls_fingerprint", "publish_audio", "publish_video"})

MediaAnswer == [meeting_id |-> Text, server_ice_ufrag |-> Text, server_ice_pwd |-> Text,
                server_dtls_fingerprint |-> Text, server_candidates |-> Strings,
                assigned_audio_ssrc |-> Number, assigned_video_ssrc |-> Number]
MediaAnswerCode == Code(
    <<Delimited("meeting_id"), Delimited("server_ice_ufrag"), Delimited("server_ice_pwd"),
      Delimited("server_dtls_fingerprint"), Delimited("server_candidates"),
      Varint("assigned_audio_ssrc"), Varint("assigned_video_ssrc")>>,
    <<Delimited("meeting_id"), Delimited("server_ice_ufrag"), Delimited("server_ice_pwd"),
      Delimited("server_dtls_fingerprint"), Delimited("server_candidates"),
      Varint("assigned_audio_ssrc"), Varint("assigned_video_ssrc")>>,
    {"server_candidates", "meeting_id", "server_ice_ufrag", "server_ice_pwd",
     "server_dtls_fingerprint", "assigned_audio_ssrc", "assigned_video_ssrc"},
    {"server_candidates", "meeting_id", "server_ice_ufrag", "server_ice_pwd",
     "server_dtls_fingerprint", "assigned_audio_ssrc", "assigned_video_ssrc"})

MediaIceCandidate == [meeting_id |-> Text, candidate |-> Text, sdp_mid |-> Text,
                      sdp_mline_index |-> Number, end_of_candidates |-> Flag]
MediaIceCandidateCode == Code(
    <<Delimited("meeting_id"), Delimited("candidate"), Delimited("sdp_mid"),
      Varint("sdp_mline_index"), Varint("end_of_candidates")>>,
    <<Delimited("meeting_id"), Delimited("candidate"), Delimited("sdp_mid"),
      Varint("sdp_mline_index"), Varint("end_of_candidates")>>,
    {"meeting_id", "candidate", "sdp_mid", "sdp_mline_index", "end_of_candidates"},
    {"meeting_id", "candidate", "sdp_mid", "sdp_mline_index", "end_of_candidates"})

MediaMuteToggle == [media_type |-> Number, muted |-> Flag]
MediaMuteToggleCode == Code(
    <<Varint("media_type"), Varint("muted")>>,
    <<Varint("media_type"), Varint("muted")>>,
    {"media_type", "muted"}, {"media_type", "muted"})

MediaScreenShare == [sharing |-> Flag]
MediaScreenShareCode == Code(
    <<Varint("sharing")>>,
    <<Varint("sharing")>>,
    {"sharing"}, {"sharing"})

ChatSendReq == [type |-> Number, content |-> Text, reply_to_id |-> Text]
ChatSendReqCode == Code(
    <<Varint("type"), Delimited("content"), Delimited("reply_to_id")>>,
    <<Varint("type"), Delimited("content"), Delimited("reply_to_id")>>,
    {"content", "reply_to_id", "type"}, {"content", "reply_to_id", "type"})

ChatSendRsp == [success |-> Flag, error |-> One("ErrorInfo"), message_id |-> Text,
                timestamp |-> Number]
ChatSendRspCode == Code(
    <<Varint("success"), Delimited("error"), Delimited("message_id"),
      Varint("timestamp")>>,
    <<Varint("success"), Delimited("error"), Delimited("message_id"),
      Varint("timestamp")>>,
    {"message_id", "error", "timestamp", "success"},
    {"message_id", "error", "timestamp", "success"})

ChatRecvNotify == [message_id |-> Text, sender_id |-> Text, sender_name |-> Text,
                   type |-> Number, content |-> Text, reply_to_id |-> Text,
                   timestamp |-> Number]
ChatRecvNotifyCode == Code(
    <<Delimited("message_id"), Delimited("sender_id"), Delimited("sender_name"),
      Varint("type"), Delimited("content"), Delimited("reply_to_id"),
      Varint("timestamp")>>,
    <<Delimited("message_id"), Delimited("sender_id"), Delimited("sender_name"),
      Varint("type"), Delimited("content"), Delimited("reply_to_id"),
      Varint("timestamp")>>,
    {"message_id", "sender_id", "sender_name", "content", "reply_to_id", "timestamp",
     "type"},
    {"message_id", "sender_id", "sender_name", "content", "reply_to_id", "timestamp",
     "type"})

ChatHistoryReq == [meeting_id |-> Text, limit |-> Number, before_timestamp |-> Number]
ChatHistoryReqCode == Code(
    <<Delimited("meeting_id"), Varint("limit"), Varint("before_timestamp")>>,
    <<Delimited("meeting_id"), Varint("limit"), Varint("before_timestamp")>>,
    {"meeting_id", "before_timestamp", "limit"},
    {"meeting_id", "before_timestamp", "limit"})

ChatHistoryRsp == [success |-> Flag, error |-> One("ErrorInfo"),
                   messages |-> Many("ChatRecvNotify")]
ChatHistoryRspCode == Code(
    <<Varint("success"), Delimited("error"), Delimited("messages")>>,
    <<Varint("success"), Delimited("error"), Delimited("messages")>>,
    {"messages", "error", "success"}, {"messages", "error", "success"})

FileOfferReq == [file_name |-> Text, file_size |-> Number, file_hash |-> Text]
FileOfferReqCode == Code(
    <<Delimited("file_name"), Varint("file_size"), Delimited("file_hash")>>,
    <<Delimited("file_name"), Varint("file_size"), Delimited("file_hash")>>,
    {"file_name", "file_hash", "file_size"}, {"file_name", "file_hash", "file_size"})

FileOfferRsp == [success |-> Flag, error |-> One("ErrorInfo"), transfer_id |-> Text]
FileOfferRspCode == Code(
    <<Varint("success"), Delimited("error"), Delimited("transfer_id")>>,
    <<Varint("success"), Delimited("error"), Delimited("transfer_id")>>,
    {"transfer_id", "error", "success"}, {"transfer_id", "error", "success"})

FileAcceptReq == [transfer_id |-> Text, accepted |-> Flag]
FileAcceptReqCode == Code(
    <<Delimited("transfer_id"), Varint("accepted")>>,
    <<Delimited("transfer_id"), Varint("accepted")>>,
    {"transfer_id", "accepted"}, {"transfer_id", "accepted"})

FileChunkData == [transfer_id |-> Text, offset |-> Number, data |-> Text]
FileChunkDataCode == Code(
    <<Delimited("transfer_id"), Varint("offset"), Delimited("data")>>,
    <<Delimited("transfer_id"), Varint("offset"), Delimited("data")>>,
    {"transfer_id", "data", "offset"}, {"transfer_id", "data", "offset"})

FileCompleteNotify == [transfer_id |-> Text, success |-> Flag, file_hash |-> Text]
FileCompleteNotifyCode == Code(
    <<Delimited("transfer_id"), Varint("success"), Delimited("file_hash")>>,
    <<Delimited("transfer_id"), Varint("success"), Delimited("file_hash")>>,
    {"transfer_id", "file_hash", "success"}, {"transfer_id", "file_hash", "success"})

SignalingMessages ==
    [ErrorInfo |-> Message(ErrorInfo, ErrorInfoCode),
     AuthLoginReq |-> Message(AuthLoginReq, AuthLoginReqCode),
     AuthLoginRsp |-> Message(AuthLoginRsp, AuthLoginRspCode),
     AuthLogoutReq |-> Message(AuthLogoutReq, AuthLogoutReqCode),
     AuthLogoutRsp |-> Message(AuthLogoutRsp, AuthLogoutRspCode),
     AuthHeartbeatReq |-> Message(AuthHeartbeatReq, AuthHeartbeatReqCode),
     AuthHeartbeatRsp |-> Message(AuthHeartbeatRsp, AuthHeartbeatRspCode),
     AuthKickNotify |-> Message(AuthKickNotify, AuthKickNotifyCode),
     MeetCreateReq |-> Message(MeetCreateReq, MeetCreateReqCode),
     MeetCreateRsp |-> Message(MeetCreateRsp, MeetCreateRspCode),
     MeetJoinReq |-> Message(MeetJoinReq, MeetJoinReqCode),
     IceServer |-> Message(IceServer, IceServerCode),
     Participant |-> Message(Participant, ParticipantCode),
     MeetJoinRsp |-> Message(MeetJoinRsp, MeetJoinRspCode),
     MeetLeaveReq |-> Message(MeetLeaveReq, MeetLeaveReqCode),
     MeetLeaveRsp |-> Message(MeetLeaveRsp, MeetLeaveRspCode),
     MeetKickReq |-> Message(MeetKickReq, MeetKickReqCode),
     MeetKickRsp |-> Message(MeetKickRsp, MeetKickRspCode),
     MeetMuteAllReq |-> Message(MeetMuteAllReq, MeetMuteAllReqCode),
     MeetMuteAllRsp |-> Message(MeetMuteAllRsp, MeetMuteAllRspCode),
     MeetStateSyncNotify |-> Message(MeetStateSyncNotify, MeetStateSyncNotifyCode),
     MeetParticipantJoinNotify |-> Message(MeetParticipantJoinNotify, MeetParticipantJoinNotifyCode),
     MeetParticipantLeaveNotify |-> Message(MeetParticipantLeaveNotify, MeetParticipantLeaveNotifyCode),
     MeetHostChangedNotify |-> Message(MeetHostChangedNotify, MeetHostChangedNotifyCode),
     MediaOffer |-> Message(MediaOffer, MediaOfferCode),
     MediaAnswer |-> Message(MediaAnswer, MediaAnswerCode),
     MediaIceCandidate |-> Message(MediaIceCandidate, MediaIceCandidateCode),
     MediaMuteToggle |-> Message(MediaMuteToggle, MediaMuteToggleCode),
     MediaScreenShare |-> Message(MediaScreenShare, MediaScreenShareCode),
     ChatSendReq |-> Message(ChatSendReq, ChatSendReqCode),
     ChatSendRsp |-> Message(ChatSendRsp, ChatSendRspCode),
     ChatRecvNotify |-> Message(ChatRecvNotify, ChatRecvNotifyCode),
     ChatHistoryReq |-> Message(ChatHistoryReq, ChatHistoryReqCode),
     ChatHistoryRsp |-> Message(ChatHistoryRsp, ChatHistoryRspCode),
     FileOfferReq |-> Message(FileOfferReq, FileOfferReqCode),
     FileOfferRsp |-> Message(FileOfferRsp, FileOfferRspCode),
     FileAcceptReq |-> Message(FileAcceptReq, FileAcceptReqCode),
     FileChunkData |-> Message(FileChunkData, FileChunkDataCode),
     FileCompleteNotify |-> Message(FileCompleteNotify, FileCompleteNotifyCode)]

-----------------------------------------------------------------------------
(* sfu_rpc.proto *)

CreateRoomReq == [meeting_id |-> Text, max_publishers |-> Number]
CreateRoomReqCode == Code(
    <<Delimited("meeting_id"), Varint("max_publishers")>>,
    <<Delimited("meeting_id"), Varint("max_publishers")>>,
    {"meeting_id", "max_publishers"}, {"meeting_id", "max_publishers"})

CreateRoomRsp == [success |-> Flag, sfu_address |-> Text]
CreateRoomRspCode == Code(
    <<Varint("success"), Delimited("sfu_address")>>,
    <<Varint("success"), Delimited("sfu_address")>>,
    {"sfu_address", "success"}, {"sfu_address", "success"})

DestroyRoomReq == [meeting_id |-> Text]
DestroyRoomReqCode == Code(
    <<Delimited("meeting_id")>>,
    <<Delimited("meeting_id")>>,
    {"meeting_id"}, {"meeting_id"})

DestroyRoomRsp == [success |-> Flag]
DestroyRoomRspCode == Code(
    <<Varint("success")>>,
    <<Varint("success")>>,
    {"success"}, {"success"})

AddPublisherReq == [meeting_id |-> Text, user_id |-> Text, audio_ssrc |-> Number,
                    video_ssrc |-> Number]
AddPublisherReqCode == Code(
    <<Delimited("meeting_id"), Delimited("user_id"), Varint("audio_ssrc"),
      Varint("video_ssrc")>>,
    <<Delimited("meeting_id"), Delimited("user_id"), Varint("audio_ssrc"),
      Varint("video_ssrc")>>,
    {"meeting_id", "user_id", "audio_ssrc", "video_ssrc"},
    {"meeting_id", "user_id", "audio_ssrc", "video_ssrc"})

AddPublisherRsp == [success |-> Flag]
AddPublisherRspCode == Code(
    <<Varint("success")>>,
    <<Varint("success")>>,
    {"success"}, {"success"})

SetupTransportReq == [meeting_id |-> Text, user_id |-> Text, publish_audio |-> Flag,
                      publish_video |-> Flag, client_ice_ufrag |-> Text,
                      client_ice_pwd |-> Text, client_dtls_fingerprint |-> Text,
                      client_candidates |-> Strings]
SetupTransportReqCode == Code(
    <<Delimited("meeting_id"), Delimited("user_id"), Varint("publish_audio"),
      Varint("publish_video"), Delimited("client_ice_ufrag"), Delimited("client_ice_pwd"),
      Delimited("client_dtls_fingerprint"), Delimited("client_candidates")>>,
    <<Delimited("meeting_id"), Delimited("user_id"), Varint("publish_audio"),
      Varint("publish_video"), Delimited("client_ice_ufrag"), Delimited("client_ice_pwd"),
      Delimited("client_dtls_fingerprint"), Delimited("client_candidates")>>,
    {"client_candidates", "meeting_id", "user_id", "client_ice_ufrag", "client_ice_pwd",
     "client_dtls_fingerprint", "publish_audio", "publish_video"},
    {"client_candidates", "meeting_id", "user_id", "client_ice_ufrag", "client_ice_pwd",
     "client_dtls_fingerprint", "publish_audio", "publish_video"})

SetupTransportRsp == [success |-> Flag, server_ice_ufrag |-> Text, server_ice_pwd |-> Text,
                      server_dtls_fingerprint |-> Text, server_candidates |-> Strings,
                      assigned_audio_ssrc |-> Number, assigned_video_ssrc |-> Number]
SetupTransportRspCode == Code(
    <<Varint("success"), Delimited("server_ice_ufrag"), Delimited("server_ice_pwd"),
      Delimited("server_dtls_fingerprint"), Delimited("server_candidates"),
      Varint("assigned_audio_ssrc"), Varint("assigned_video_ssrc")>>,
    <<Varint("success"), Delimited("server_ice_ufrag"), Delimited("server_ice_pwd"),
      Delimited("server_dtls_fingerprint"), Delimited("server_candidates"),
      Varint("assigned_audio_ssrc"), Varint("assigned_video_ssrc")>>,
    {"server_candidates", "server_ice_ufrag", "server_ice_pwd", "server_dtls_fingerprint",
     "success", "assigned_audio_ssrc", "assigned_video_ssrc"},
    {"server_candidates", "server_ice_ufrag", "server_ice_pwd", "server_dtls_fingerprint",
     "success", "assigned_audio_ssrc", "assigned_video_ssrc"})

TrickleIceCandidateReq == [meeting_id |-> Text, user_id |-> Text, candidate |-> Text,
                           sdp_mid |-> Text, sdp_mline_index |-> Number,
                           end_of_candidates |-> Flag]
TrickleIceCandidateReqCode == Code(
    <<Delimited("meeting_id"), Delimited("user_id"), Delimited("candidate"),
      Delimited("sdp_mid"), Varint("sdp_mline_index"), Varint("end_of_candidates")>>,
    <<Delimited("meeting_id"), Delimited("user_id"), Delimited("candidate"),
      Delimited("sdp_mid"), Varint("sdp_mline_index"), Varint("end_of_candidates")>>,
    {"meeting_id", "user_id", "candidate", "sdp_mid", "sdp_mline_index",
     "end_of_candidates"},
    {"meeting_id", "user_id", "candidate", "sdp_mid", "sdp_mline_index",
     "end_of_candidates"})

TrickleIceCandidateRsp == [success |-> Flag]
TrickleIceCandidateRspCode == Code(
    <<Varint("success")>>,
    <<Varint("success")>>,
    {"success"}, {"success"})

CloseTransportReq == [meeting_id |-> Text, user_id |-> Text]
CloseTransportReqCode == Code(
    <<Delimited("meeting_id"), Delimited("user_id")>>,
    <<Delimited("meeting_id"), Delimited("user_id")>>,
    {"meeting_id", "user_id"}, {"meeting_id", "user_id"})

CloseTransportRsp == [success |-> Flag]
CloseTransportRspCode == Code(
    <<Varint("success")>>,
    <<Varint("success")>>,
    {"success"}, {"success"})

AddSubscriberReq == [meeting_id |-> Text, user_id |-> Text, audio_ssrc |-> Number,
                     video_ssrc |-> Number]
AddSubscriberReqCode == Code(
    <<Delimited("meeting_id"), Delimited("user_id"), Varint("audio_ssrc"),
      Varint("video_ssrc")>>,
    <<Delimited("meeting_id"), Delimited("user_id"), Varint("audio_ssrc"),
      Varint("video_ssrc")>>,
    {"meeting_id", "user_id", "audio_ssrc", "video_ssrc"},
    {"meeting_id", "user_id", "audio_ssrc", "video_ssrc"})

AddSubscriberRsp == [success |-> Flag]
AddSubscriberRspCode == Code(
    <<Varint("success")>>,
    <<Varint("success")>>,
    {"success"}, {"success"})

RemovePublisherReq == [meeting_id |-> Text, user_id |-> Text]
RemovePublisherReqCode == Code(
    <<Delimited("meeting_id"), Delimited("user_id")>>,
    <<Delimited("meeting_id"), Delimited("user_id")>>,
    {"meeting_id", "user_id"}, {"meeting_id", "user_id"})

RemovePublisherRsp == [success |-> Flag]
RemovePublisherRspCode == Code(
    <<Varint("success")>>,
    <<Varint("success")>>,
    {"success"}, {"success"})

RemoveSubscriberReq == [meeting_id |-> Text, user_id |-> Text]
RemoveSubscriberReqCode == Code(
    <<Delimited("meeting_id"), Delimited("user_id")>>,
    <<Delimited("meeting_id"), Delimited("user_id")>>,
    {"meeting_id", "user_id"}, {"meeting_id", "user_id"})

RemoveSubscriberRsp == [success |-> Flag]
RemoveSubscriberRspCode == Code(
    <<Varint("success")>>,
    <<Varint("success")>>,
    {"success"}, {"success"})

GetNodeStatusReq == [probe |-> Flag]
GetNodeStatusReqCode == Code(<<Varint("probe")>>, <<Varint("probe")>>, {"probe"}, {"probe"})

GetNodeStatusRsp == [success |-> Flag, sfu_address |-> Text, media_port |-> Number,
                     room_count |-> Number, publisher_count |-> Number,
                     packet_count |-> Number]
GetNodeStatusRspCode == Code(
    <<Varint("success"), Delimited("sfu_address"), Varint("media_port"),
      Varint("room_count"), Varint("publisher_count"), Varint("packet_count")>>,
    <<Varint("success"), Delimited("sfu_address"), Varint("media_port"),
      Varint("room_count"), Varint("publisher_count"), Varint("packet_count")>>,
    {"sfu_address", "success", "media_port", "room_count", "publisher_count",
     "packet_count"},
    {"sfu_address", "success", "media_port", "room_count", "publisher_count",
     "packet_count"})

ReportNodeStatusReq == [node_id |-> Text, rpc_address |-> Text, sfu_address |-> Text,
                        max_meetings |-> Number, media_port |-> Number, room_count |-> Number,
                        publisher_count |-> Number, packet_count |-> Number]
ReportNodeStatusReqCode == Code(
    <<Delimited("node_id"), Delimited("rpc_address"), Delimited("sfu_address"),
      Varint("max_meetings"), Varint("media_port"), Varint("room_count"),
      Varint("publisher_count"), Varint("packet_count")>>,
    <<Delimited("node_id"), Delimited("rpc_address"), Delimited("sfu_address"),
      Varint("max_meetings"), Varint("media_port"), Varint("room_count"),
      Varint("publisher_count"), Varint("packet_count")>>,
    {"node_id", "rpc_address", "sfu_address", "max_meetings", "media_port", "room_count",
     "publisher_count", "packet_count"},
    {"node_id", "rpc_address", "sfu_address", "max_meetings", "media_port", "room_count",
     "publisher_count", "packet_count"})

ReportNodeStatusRsp == [success |-> Flag]
ReportNodeStatusRspCode == Code(
    <<Varint("success")>>,
    <<Varint("success")>>,
    {"success"}, {"success"})

QualityReport == [meeting_id |-> Text, user_id |-> Text, packet_loss |-> Real,
                  rtt_ms |-> Number, jitter_ms |-> Number, bitrate_kbps |-> Number]
QualityReportCode == Code(
    <<Delimited("meeting_id"), Delimited("user_id"), Fixed("packet_loss"),
      Varint("rtt_ms"), Varint("jitter_ms"), Varint("bitrate_kbps")>>,
    <<Delimited("meeting_id"), Delimited("user_id"), Fixed("packet_loss"),
      Varint("rtt_ms"), Varint("jitter_ms"), Varint("bitrate_kbps")>>,
    {"meeting_id", "user_id", "packet_loss", "rtt_ms", "jitter_ms", "bitrate_kbps"},
    {"meeting_id", "user_id", "packet_loss", "rtt_ms", "jitter_ms", "bitrate_kbps"})

KeyframeRequest == [meeting_id |-> Text, user_id |-> Text]
KeyframeRequestCode == Code(
    <<Delimited("meeting_id"), Delimited("user_id")>>,
    <<Delimited("meeting_id"), Delimited("user_id")>>,
    {"meeting_id", "user_id"}, {"meeting_id", "user_id"})

SfuRpcMessages ==
    [CreateRoomReq |-> Message(CreateRoomReq, CreateRoomReqCode),
     CreateRoomRsp |-> Message(CreateRoomRsp, CreateRoomRspCode),
     DestroyRoomReq |-> Message(DestroyRoomReq, DestroyRoomReqCode),
     DestroyRoomRsp |-> Message(DestroyRoomRsp, DestroyRoomRspCode),
     AddPublisherReq |-> Message(AddPublisherReq, AddPublisherReqCode),
     AddPublisherRsp |-> Message(AddPublisherRsp, AddPublisherRspCode),
     SetupTransportReq |-> Message(SetupTransportReq, SetupTransportReqCode),
     SetupTransportRsp |-> Message(SetupTransportRsp, SetupTransportRspCode),
     TrickleIceCandidateReq |-> Message(TrickleIceCandidateReq, TrickleIceCandidateReqCode),
     TrickleIceCandidateRsp |-> Message(TrickleIceCandidateRsp, TrickleIceCandidateRspCode),
     CloseTransportReq |-> Message(CloseTransportReq, CloseTransportReqCode),
     CloseTransportRsp |-> Message(CloseTransportRsp, CloseTransportRspCode),
     AddSubscriberReq |-> Message(AddSubscriberReq, AddSubscriberReqCode),
     AddSubscriberRsp |-> Message(AddSubscriberRsp, AddSubscriberRspCode),
     RemovePublisherReq |-> Message(RemovePublisherReq, RemovePublisherReqCode),
     RemovePublisherRsp |-> Message(RemovePublisherRsp, RemovePublisherRspCode),
     RemoveSubscriberReq |-> Message(RemoveSubscriberReq, RemoveSubscriberReqCode),
     RemoveSubscriberRsp |-> Message(RemoveSubscriberRsp, RemoveSubscriberRspCode),
     GetNodeStatusReq |-> Message(GetNodeStatusReq, GetNodeStatusReqCode),
     GetNodeStatusRsp |-> Message(GetNodeStatusRsp, GetNodeStatusRspCode),
     ReportNodeStatusReq |-> Message(ReportNodeStatusReq, ReportNodeStatusReqCode),
     ReportNodeStatusRsp |-> Message(ReportNodeStatusRsp, ReportNodeStatusRspCode),
     QualityReport |-> Message(QualityReport, QualityReportCode),
     KeyframeRequest |-> Message(KeyframeRequest, KeyframeRequestCode)]
=============================================================================
