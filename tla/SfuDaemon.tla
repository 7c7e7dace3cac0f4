----------------------------- MODULE SfuDaemon -----------------------------
(* The threads of an SFU process: main.cpp, server/SfuDaemon.cpp, the accept *)
(* thread of server/RpcServer.cpp with RpcService::Dispatch, and the         *)
(* reporter.  The accept thread serves one connection after the other, and   *)
(* reads without a timeout; the reporter exchanges a frame per report with   *)
(* the signaling server, with timeouts.  Stop joins both.                    *)
(*                                                                           *)
(* Peers are the connections of the signaling server: each sends a request,  *)
(* or gives up.  What requests do to rooms and routes is in MediaRoutes;     *)
(* here a request asks where media is to be sent to (CreateRoom,             *)
(* GetNodeStatus and SetupTransport tell) or cannot be decoded.              *)
EXTENDS Integers, FiniteSets

CONSTANTS
    Peers,      \* connections made to the RPC port
    NoPeer

ASSUME PeersAssumption == NoPeer \notin Peers

VARIABLES
    main,       \* main thread: how far starting and stopping is
    running,    \* RpcServer: running
    listening,  \* RpcServer: listenSocket is open
    advertised, \* RpcService: advertisedAddress_
    accepting,  \* accept thread: what it does
    serving,    \* accept thread: its connection, or NoPeer
    reporting,  \* reporterRunning_
    reporter,   \* reporter thread: what it does
    peer,       \* per connection: its state
    response,   \* accept thread: the response to write
    answer,     \* per connection: what it was told, "" before
    late        \* history: connections made when the process was up

daemonVars == <<main, running, listening, advertised, accepting, serving, reporting,
                reporter, peer, response, answer, late>>
rpcVars == <<running, listening, advertised>>

DaemonInit ==
    /\ main = "off"
    /\ running = FALSE /\ listening = FALSE
    /\ advertised = "unset"
    /\ accepting = "off" /\ serving = NoPeer
    /\ reporting = FALSE /\ reporter = "off"
    /\ peer = [p \in Peers |-> "none"]
    /\ answer = [p \in Peers |-> ""]
    /\ response = "" /\ late = {}

-----------------------------------------------------------------------------
(* The main thread *)

\* RpcServer::Start: the socket listens, then the address of the RPC port is
\* advertised, then the accept thread starts.
StartListening ==
    /\ main = "off"
    /\ running' = TRUE /\ listening' = TRUE
    /\ main' = "listening"
    /\ UNCHANGED <<advertised, accepting, serving, reporting, reporter, peer, response, answer, late>>

\* socket, bind, listen or getsockname fails: RpcServer::Stop, and main returns.
StartFails ==
    /\ main = "off"
    /\ main' = "failed"
    /\ UNCHANGED <<rpcVars, accepting, serving, reporting, reporter, peer, response, answer, late>>

StartAccepting ==
    /\ main = "listening"
    /\ advertised' = "rpc"
    /\ accepting' = "loop"
    /\ main' = "rpcStarted"
    /\ UNCHANGED <<running, listening, serving, reporting, reporter, peer, response, answer, late>>

MutantStartReporting ==
    /\ main = "rpcStarted"
    /\ reporting' = TRUE /\ reporter' = "loop"
    /\ main' = "up"
    /\ UNCHANGED <<rpcVars, accepting, serving, peer, response, answer, late>>

\* The rest of SfuDaemon::Start.
StartReporting ==
    /\ main = "rpcStarted"
    /\ advertised' = "media"
    /\ reporting' = TRUE /\ reporter' = "loop"
    /\ main' = "up"
    /\ UNCHANGED <<running, listening, accepting, serving, peer, response, answer, late>>

\* SIGINT or SIGTERM; SfuDaemon::Stop, RpcServer::Stop.
StopReporting ==
    /\ main = "up"
    /\ reporting' = FALSE
    /\ main' = "stopping"
    /\ UNCHANGED <<rpcVars, accepting, serving, reporter, peer, response, answer, late>>

StopRunning ==
    /\ main = "stopping" /\ running
    /\ running' = FALSE
    /\ UNCHANGED <<main, listening, advertised, accepting, serving, reporting, reporter, peer, response, answer, late>>

MutantCloseListener ==
    /\ main = "stopping" /\ ~running /\ listening
    /\ main' = "joining"
    /\ peer' = [p \in Peers |-> IF peer[p] = "queued" THEN "closed" ELSE peer[p]]
    /\ UNCHANGED <<rpcVars, accepting, serving, reporting, reporter, response, answer, late>>

\* shutdown wakes the accept thread; connections in the backlog are reset.
CloseListener ==
    /\ main = "stopping" /\ ~running /\ listening
    /\ listening' = FALSE
    /\ main' = "joining"
    /\ peer' = [p \in Peers |-> IF peer[p] = "queued" THEN "closed" ELSE peer[p]]
    /\ UNCHANGED <<running, advertised, accepting, serving, reporting, reporter, response, answer, late>>

Join ==
    /\ main = "joining" /\ accepting = "ended" /\ reporter = "ended"
    /\ main' = "stopped"
    /\ UNCHANGED <<rpcVars, accepting, serving, reporting, reporter, peer, response, answer, late>>

-----------------------------------------------------------------------------
(* The accept thread *)

AcceptLoop ==
    /\ accepting = "loop"
    /\ accepting' = IF running THEN "accept" ELSE "ended"
    /\ UNCHANGED <<main, rpcVars, serving, reporting, reporter, peer, response, answer, late>>

\* accept blocks until there is a connection.
Accept(p) ==
    /\ accepting = "accept" /\ listening /\ peer[p] = "queued"
    /\ peer' = [peer EXCEPT ![p] = "open"]
    /\ serving' = p
    /\ accepting' = "read"
    /\ UNCHANGED <<main, rpcVars, reporting, reporter, response, answer, late>>

\* The socket is gone: back to the test of running.
AcceptFails ==
    /\ accepting = "accept" /\ ~listening
    /\ accepting' = "loop"
    /\ UNCHANGED <<main, rpcVars, serving, reporting, reporter, peer, response, answer, late>>

\* ReadExact: blocks until the request is there or the peer has closed.
Read ==
    /\ accepting = "read" /\ peer[serving] \in {"sent", "garbled", "closed"}
    /\ accepting' = IF peer[serving] = "sent" THEN "dispatch" ELSE "refuse"
    /\ UNCHANGED <<main, rpcVars, serving, reporting, reporter, peer, response, answer, late>>

\* RpcService::Dispatch
Dispatch ==
    /\ accepting \in {"dispatch", "refuse"}
    /\ response' = IF accepting = "dispatch" THEN advertised ELSE "error"
    /\ accepting' = "write"
    /\ UNCHANGED <<main, rpcVars, serving, reporting, reporter, peer, answer, late>>

\* WriteExact, CloseSocket; nothing reaches a peer that has closed.
Write ==
    /\ accepting = "write"
    /\ answer' = IF peer[serving] = "closed" THEN answer
                 ELSE [answer EXCEPT ![serving] = response]
    /\ peer' = [peer EXCEPT ![serving] = "closed"]
    /\ serving' = NoPeer
    /\ response' = ""
    /\ accepting' = "loop"
    /\ UNCHANGED <<main, rpcVars, reporting, reporter, late>>

-----------------------------------------------------------------------------
(* The reporter thread *)

ReportLoop ==
    /\ reporter = "loop"
    /\ reporter' = IF reporting THEN "exchange" ELSE "ended"
    /\ UNCHANGED <<main, rpcVars, accepting, serving, reporting, peer, response, answer, late>>

\* Node status and quality reports; an exchange that fails or times out is
\* forgotten.
ReportsDone ==
    /\ reporter = "exchange"
    /\ reporter' = "sleep"
    /\ UNCHANGED <<main, rpcVars, accepting, serving, reporting, peer, response, answer, late>>

\* In slices of 100 ms, so that Stop does not wait for the interval.
Wake ==
    /\ reporter = "sleep"
    /\ reporter' = "loop"
    /\ UNCHANGED <<main, rpcVars, accepting, serving, reporting, peer, response, answer, late>>

-----------------------------------------------------------------------------
(* The signaling server *)

Connect(p) ==
    /\ peer[p] = "none" /\ listening
    /\ peer' = [peer EXCEPT ![p] = "queued"]
    /\ late' = IF main = "up" THEN late \cup {p} ELSE late
    /\ UNCHANGED <<main, rpcVars, accepting, serving, reporting, reporter, response, answer>>

\* A request, in one piece or not, or a frame that is not one.
SendRequest(p, how) ==
    /\ peer[p] = "open"
    /\ peer' = [peer EXCEPT ![p] = how]
    /\ UNCHANGED <<main, rpcVars, accepting, serving, reporting, reporter, response, answer, late>>

\* Its deadline has passed.
GiveUp(p) ==
    /\ peer[p] \in {"queued", "open", "sent"}
    /\ peer' = [peer EXCEPT ![p] = "closed"]
    /\ UNCHANGED <<main, rpcVars, accepting, serving, reporting, reporter, response, answer, late>>

\* Threads run, and a call of the signaling server has a deadline: these are
\* fair, as is GiveUp.
MainSteps == StartAccepting \/ StartReporting \/ StopRunning \/ CloseListener \/ Join
AcceptSteps == AcceptLoop \/ (\E p \in Peers : Accept(p)) \/ AcceptFails \/ Read \/ Dispatch \/ Write
ReporterSteps == ReportLoop \/ ReportsDone \/ Wake

DaemonNext ==
    \/ StartListening \/ StartFails \/ StopReporting
    \/ MainSteps \/ AcceptSteps \/ ReporterSteps
    \/ \E p \in Peers : Connect(p) \/ GiveUp(p) \/ \E how \in {"sent", "garbled"} : SendRequest(p, how)

-----------------------------------------------------------------------------
(* Properties *)

DaemonTypeOK ==
    /\ main \in {"off", "failed", "listening", "rpcStarted", "up", "stopping", "joining", "stopped"}
    /\ running \in BOOLEAN /\ listening \in BOOLEAN /\ reporting \in BOOLEAN
    /\ advertised \in {"unset", "rpc", "media"}
    /\ accepting \in {"off", "loop", "accept", "read", "dispatch", "refuse", "write", "ended"}
    /\ serving \in Peers \cup {NoPeer}
    /\ (serving # NoPeer) = (accepting \in {"read", "dispatch", "refuse", "write"})
    /\ reporter \in {"off", "loop", "exchange", "sleep", "ended"}
    /\ peer \in [Peers -> {"none", "queued", "open", "sent", "garbled", "closed"}]
    /\ answer \in [Peers -> {"", "error", "rpc", "media"}]

\* A process told to stop ends: no thread is left waiting, be it for a
\* connection, a request or a report.
StopCompletes == []<>(main \notin {"stopping", "joining"})

\* A call made to a process that is up is never told to send media to the RPC
\* port, which RpcServer::Start advertises for a moment.
MediaAddressOnceUp == \A p \in late : answer[p] # "rpc"
=============================================================================
