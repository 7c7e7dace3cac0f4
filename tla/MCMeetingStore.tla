--------------------------- MODULE MCMeetingStore ---------------------------
(* The two meeting stores, and the messages that requests arrive in, for     *)
(* TLC, side by side: a behaviour is one of the in-memory store, one of the  *)
(* repo-backed store or one of a message's reader.                           *)
(* In memory: three users the store knows and one it does not, two meeting   *)
(* numbers (so that a number is drawn while it is live and while another     *)
(* meeting is), a capacity that fills up and the default one.                *)
(* Over the repositories: two calls at a time on one meeting.                *)
(* Messages: every message of signaling.proto and of sfu_rpc.proto.          *)
EXTENDS MeetingStore, RepoMeetingStore, Protobuf

CONSTANTS u1, u2, u3, stranger, m1, m2, pw, c1, c2, id1

MCUsers == {u1, u2, u3, stranger}
MCKnown == {u1, u2, u3}
MCMeetings == {m1, m2}
MCPasswords == {NoPassword, pw}
MCCapacities == {0, 2}
Two == {c1, c2}
OneMeeting == {id1}

MCMessages == SignalingMessages @@ SfuRpcMessages

VARIABLE part   \* which part

StoresInit == part \in {"memory", "repo", "message"} /\ Init /\ RepoInit /\ PbInit

StoresNext ==
    /\ UNCHANGED part
    /\ IF part = "memory" THEN Next ELSE UNCHANGED vars
    /\ IF part = "repo" THEN RepoNext ELSE UNCHANGED repoVars
    /\ IF part = "message" THEN PbNext ELSE UNCHANGED pbVars

StoresSpec == StoresInit /\ [][StoresNext]_<<part, vars, repoVars, pbVars>>

PartsTypeOK == TypeOK /\ RepoTypeOK /\ PbTypeOK

Symmetry == Permutations(MCKnown) \cup Permutations(MCMeetings) \cup Permutations(Two)
=============================================================================
