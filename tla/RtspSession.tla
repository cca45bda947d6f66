----------------------------- MODULE RtspSession -----------------------------
(***************************************************************************)
(* espp::RtspSession (src/components/rtsp/include/rtsp_session.hpp): one  *)
(* RTSP control session and the four activities that share its state.     *)
(*                                                                         *)
(*  - the control task (control_task_fn), which checks closed_ and the     *)
(*    socket, blocks in receive, and dispatches one request per receive;   *)
(*  - the owner (the outer server), which may call play(), pause(),        *)
(*    teardown() and finally runs the destructor (teardown, then stop and  *)
(*    join the control task);                                             *)
(*  - frame producers, which consult is_active() and then call             *)
(*    send_rtp_packet / send_rtcp_packet;                                  *)
(*  - the peer at the other end of the TCP control connection.             *)
(*                                                                         *)
(* Requests are abstracted to what the parser tells apart: the method, the *)
(* state of the CSeq header and, for SETUP, of the Transport header.       *)
(* Replies carry the status code and, for a successful SETUP, the echoed   *)
(* client ports.  A std::stoi that throws in the task thread is an         *)
(* uncaught exception: the firmware aborts (variable crashed).             *)
(***************************************************************************)
EXTENDS Naturals, Sequences

CONSTANTS
  Ports,        \* client port numbers a SETUP may carry
  Producers,    \* the external threads that push frames
  OwnerOps,     \* which of play(), pause(), teardown() the owner calls
  Requests,     \* the abstract requests the peer may send
  MaxRequests,  \* bound: number of requests the peer sends
  Uninit,       \* the indeterminate value of a client port never set
  NoRequest     \* the peer waits for no reply

Methods == {"OPTIONS", "DESCRIBE", "SETUP", "PLAY", "PAUSE", "TEARDOWN",
            "OTHER",     \* a well-formed request line with another method
            "BADLINE",   \* a request line without two spaces and a CR
            "TRUNCATED"} \* a receive that ends with the CR of the request
                         \* line: TCP keeps no message boundaries
CSeqKinds == {"num", "absent", "garbage"}          \* "garbage": stoi throws
TransportKinds == {"udp", "tcp", "absent", "garbage"}
PortPairs == Ports \X Ports

RequestUniverse ==
  [method : Methods, cseq : CSeqKinds, transport : TransportKinds,
   ports : PortPairs]

\* a reply: status code, and the client ports echoed by a SETUP 200
Replies == [code : {200, 400, 461}, ports : PortPairs \cup {<<>>}]
Reply(code) == [code |-> code, ports |-> <<>>]

ASSUME PortsAssumption == Ports # {} /\ Uninit \notin Ports
ASSUME RequestsAssumption == Requests \subseteq RequestUniverse
ASSUME MaxRequestsAssumption == MaxRequests \in Nat
ASSUME OwnerOpsAssumption == OwnerOps \subseteq {"play", "pause", "teardown"}
ASSUME NoRequestAssumption == NoRequest \notin RequestUniverse

VARIABLES
  closed,            \* closed_
  session_active,    \* session_active_
  client_rtp_port,   \* client_rtp_port_
  client_rtcp_port,  \* client_rtcp_port_
  connected,         \* control_socket_->is_connected()
  readerPc,          \* control task: "top" of control_task_fn, blocked in
                     \* "recv", or "exited" (callback returned true)
  ownerPc,           \* "live", "joining" (in ~RtspSession), "destroyed"
  producerPc,        \* per producer: "idle" or "sending" (saw is_active())
  media,             \* the client ports datagrams were sent to
  crashed,           \* an uncaught exception aborted the firmware
  toServer,          \* the TCP stream from the peer, as requests
  toClient,          \* the TCP stream to the peer, as replies
  peerGone,          \* the peer closed the connection
  pending,           \* the request the peer waits a reply for
  peerPorts,         \* the client ports the peer was told by SETUP
  sentCount          \* requests the peer has sent

sessionVars == <<closed, session_active, client_rtp_port, client_rtcp_port>>
peerVars == <<toServer, pending, peerPorts, sentCount, peerGone>>
vars == <<closed, session_active, client_rtp_port, client_rtcp_port,
          connected, readerPc, ownerPc, producerPc, media, crashed,
          toServer, toClient, peerGone, pending, peerPorts, sentCount>>

ServerPorts == <<client_rtp_port, client_rtcp_port>>

-----------------------------------------------------------------------------
(* Initial state: the constructor has run; the control task is started.   *)

Init ==
  /\ closed = FALSE
  /\ session_active = FALSE
  /\ client_rtp_port = Uninit
  /\ client_rtcp_port = Uninit
  /\ connected = TRUE
  /\ readerPc = "top"
  /\ ownerPc = "live"
  /\ producerPc = [p \in Producers |-> "idle"]
  /\ media = {}
  /\ crashed = FALSE
  /\ toServer = <<>>
  /\ toClient = <<>>
  /\ peerGone = FALSE
  /\ pending = NoRequest
  /\ peerPorts = <<Uninit, Uninit>>
  /\ sentCount = 0

-----------------------------------------------------------------------------
(* The session's own operations, as steps on sessionVars.                 *)

play == /\ session_active' = TRUE
        /\ UNCHANGED <<closed, client_rtp_port, client_rtcp_port>>

pause == /\ session_active' = FALSE
         /\ UNCHANGED <<closed, client_rtp_port, client_rtcp_port>>

teardown == /\ session_active' = FALSE
            /\ closed' = TRUE
            /\ UNCHANGED <<client_rtp_port, client_rtcp_port>>

\* send_response: transmit fails, and the reply is lost, once the peer is gone
send_response(rep) ==
  /\ toClient' = IF peerGone THEN toClient ELSE Append(toClient, rep)
  /\ UNCHANGED crashed

\* std::stoi throws; nothing catches it in the task
Abort ==
  /\ crashed' = TRUE
  /\ UNCHANGED <<toClient, closed, session_active, client_rtp_port,
                 client_rtcp_port>>

handle_rtsp_invalid_request(r) ==
  \/ r.cseq = "garbage" /\ Abort
  \/ /\ r.cseq \in {"num", "absent"}
     /\ UNCHANGED sessionVars
     /\ send_response(Reply(400))

\* the shape shared by OPTIONS, DESCRIBE, PLAY, PAUSE and TEARDOWN: parse
\* the CSeq, then apply the effect and answer 200
\* mutant: a missing CSeq is dropped without the 400 reply
CommandHandler_noInvalidReply(r, effect) ==
  \/ r.cseq = "garbage" /\ Abort
  \/ r.cseq = "absent" /\ UNCHANGED <<sessionVars, toClient, crashed>>
  \/ r.cseq = "num" /\ effect /\ send_response(Reply(200))

CommandHandler(r, effect) ==
  \/ r.cseq = "garbage" /\ Abort
  \/ r.cseq = "absent" /\ handle_rtsp_invalid_request(r)
  \/ r.cseq = "num" /\ effect /\ send_response(Reply(200))

\* mutant: the ports are stored before the CSeq is parsed
handle_rtsp_setup_storesEarly(r) ==
  \/ /\ r.transport = "absent"
     /\ UNCHANGED <<sessionVars, toClient, crashed>>
  \/ /\ r.transport = "tcp"
     /\ UNCHANGED sessionVars
     /\ send_response(Reply(461))
  \/ r.transport = "garbage" /\ Abort
  \/ /\ r.transport = "udp"
     /\ \/ r.cseq = "garbage" /\ Abort
        \/ /\ r.cseq = "absent"
           /\ client_rtp_port' = r.ports[1]
           /\ client_rtcp_port' = r.ports[2]
           /\ UNCHANGED <<closed, session_active>>
           /\ send_response(Reply(400))
        \/ /\ r.cseq = "num"
           /\ client_rtp_port' = r.ports[1]
           /\ client_rtcp_port' = r.ports[2]
           /\ UNCHANGED <<closed, session_active>>
           /\ send_response([code |-> 200, ports |-> r.ports])

\* mutant: the 200 is built from the members before the parsed ports are
\* saved into them, so it echoes the previous ports
handle_rtsp_setup_replyOldPorts(r) ==
  \/ /\ r.transport = "absent"
     /\ UNCHANGED <<sessionVars, toClient, crashed>>
  \/ /\ r.transport = "tcp"
     /\ UNCHANGED sessionVars
     /\ send_response(Reply(461))
  \/ r.transport = "garbage" /\ Abort
  \/ /\ r.transport = "udp"
     /\ \/ r.cseq = "garbage" /\ Abort
        \/ r.cseq = "absent" /\ handle_rtsp_invalid_request(r)
        \/ /\ r.cseq = "num"
           /\ client_rtp_port' = r.ports[1]
           /\ client_rtcp_port' = r.ports[2]
           /\ UNCHANGED <<closed, session_active>>
           /\ send_response([code |-> 200, ports |-> ServerPorts])

handle_rtsp_setup(r) ==
  \/ /\ r.transport = "absent"        \* parse fails: no reply at all
     /\ UNCHANGED <<sessionVars, toClient, crashed>>
  \/ /\ r.transport = "tcp"           \* 461, without CSeq
     /\ UNCHANGED sessionVars
     /\ send_response(Reply(461))
  \/ r.transport = "garbage" /\ Abort \* stoi of the ports throws
  \/ /\ r.transport = "udp"
     /\ \/ r.cseq = "garbage" /\ Abort
        \/ r.cseq = "absent" /\ handle_rtsp_invalid_request(r)
        \/ /\ r.cseq = "num"
           /\ client_rtp_port' = r.ports[1]
           /\ client_rtcp_port' = r.ports[2]
           /\ UNCHANGED <<closed, session_active>>
           /\ send_response([code |-> 200, ports |-> r.ports])

handle_rtsp_request(r) ==
  \/ r.method \in {"OPTIONS", "DESCRIBE"} /\ CommandHandler(r, UNCHANGED sessionVars)
  \/ r.method = "SETUP" /\ handle_rtsp_setup(r)
  \/ r.method = "PLAY" /\ CommandHandler(r, play)
  \/ r.method = "PAUSE" /\ CommandHandler(r, pause)
  \/ r.method = "TEARDOWN" /\ CommandHandler(r, teardown)
  \/ r.method \in {"OTHER", "BADLINE"} /\ handle_rtsp_invalid_request(r)
  \* request.substr(end_of_line_index + 2) past the end of the buffer throws
  \* std::out_of_range before any method is looked at
  \/ r.method = "TRUNCATED" /\ Abort

-----------------------------------------------------------------------------
(* The control task: one iteration of control_task_fn is split at the     *)
(* blocking receive.                                                       *)

\* mutant: the not-connected exit forgets teardown()
ReaderCheck_noTeardown ==
  /\ ~crashed
  /\ readerPc = "top"
  /\ \/ /\ closed
        /\ readerPc' = "exited"
        /\ UNCHANGED sessionVars
     \/ /\ ~closed /\ ~connected
        /\ readerPc' = "exited"
        /\ UNCHANGED sessionVars
     \/ /\ ~closed /\ connected
        /\ readerPc' = "recv"
        /\ UNCHANGED sessionVars
  /\ UNCHANGED <<connected, ownerPc, producerPc, media, crashed, toClient,
                 peerVars>>

\* the checks before the receive
ReaderCheck ==
  /\ ~crashed
  /\ readerPc = "top"
  /\ \/ /\ closed
        /\ readerPc' = "exited"
        /\ UNCHANGED sessionVars
     \/ /\ ~closed /\ ~connected
        /\ teardown
        /\ readerPc' = "exited"
     \/ /\ ~closed /\ connected
        /\ readerPc' = "recv"
        /\ UNCHANGED sessionVars
  /\ UNCHANGED <<connected, ownerPc, producerPc, media, crashed, toClient,
                 peerVars>>

\* receive returns one request, which is handled
ReaderReceive ==
  /\ ~crashed
  /\ readerPc = "recv"
  /\ toServer # <<>>
  /\ handle_rtsp_request(Head(toServer))
  /\ toServer' = Tail(toServer)
  /\ readerPc' = "top"
  /\ UNCHANGED <<connected, ownerPc, producerPc, media, pending, peerPorts,
                 sentCount, peerGone>>

\* mutant: a failed receive leaves the socket marked connected
ReaderReceiveFail_staysConnected ==
  /\ ~crashed
  /\ readerPc = "recv"
  /\ toServer = <<>>
  /\ peerGone
  /\ readerPc' = "top"
  /\ UNCHANGED <<sessionVars, connected, ownerPc, producerPc, media, crashed,
                 toClient, peerVars>>

\* receive reads the end of the stream: it fails and the socket is marked
\* disconnected
ReaderReceiveFail ==
  /\ ~crashed
  /\ readerPc = "recv"
  /\ toServer = <<>>
  /\ peerGone
  /\ connected' = FALSE
  /\ readerPc' = "top"
  /\ UNCHANGED <<sessionVars, ownerPc, producerPc, media, crashed, toClient,
                 peerVars>>

Reader == ReaderCheck \/ ReaderReceive \/ ReaderReceiveFail

-----------------------------------------------------------------------------
(* The owner of the session.                                               *)

OwnerCall(op, effect) ==
  /\ ~crashed
  /\ ownerPc = "live"
  /\ op \in OwnerOps
  /\ effect
  /\ UNCHANGED <<connected, readerPc, ownerPc, producerPc, media, crashed,
                 toClient, peerVars>>

OwnerPlay == OwnerCall("play", play)
OwnerPause == OwnerCall("pause", pause)
OwnerTeardown == OwnerCall("teardown", teardown)

\* ~RtspSession: teardown(), then stop the control task
DestroyBegin ==
  /\ ~crashed
  /\ ownerPc = "live"
  /\ teardown
  /\ ownerPc' = "joining"
  /\ UNCHANGED <<connected, readerPc, producerPc, media, crashed, toClient,
                 peerVars>>

\* Task::stop joins the task thread: it returns once the task has ended
DestroyJoin ==
  /\ ~crashed
  /\ ownerPc = "joining"
  /\ readerPc = "exited"
  /\ ownerPc' = "destroyed"
  /\ UNCHANGED <<sessionVars, connected, readerPc, producerPc, media, crashed,
                 toClient, peerVars>>

-----------------------------------------------------------------------------
(* Frame producers: consult is_active(), then send.                        *)

ProducerCheck(p) ==
  /\ ~crashed
  /\ ownerPc = "live"
  /\ producerPc[p] = "idle"
  /\ session_active
  /\ producerPc' = [producerPc EXCEPT ![p] = "sending"]
  /\ UNCHANGED <<sessionVars, connected, readerPc, ownerPc, media, crashed,
                 toClient, peerVars>>

ProducerSend(p, port) ==
  /\ ~crashed
  /\ ownerPc = "live"
  /\ producerPc[p] = "sending"
  /\ media' = media \cup {port}
  /\ producerPc' = [producerPc EXCEPT ![p] = "idle"]
  /\ UNCHANGED <<sessionVars, connected, readerPc, ownerPc, crashed,
                 toClient, peerVars>>

send_rtp_packet(p) == ProducerSend(p, client_rtp_port)
send_rtcp_packet(p) == ProducerSend(p, client_rtcp_port)

-----------------------------------------------------------------------------
(* The peer: a client that waits for each reply before its next request.  *)

PeerSend(r) ==
  /\ ~crashed
  /\ ~peerGone
  /\ pending = NoRequest
  /\ sentCount < MaxRequests
  /\ toServer' = Append(toServer, r)
  /\ pending' = r
  /\ sentCount' = sentCount + 1
  /\ UNCHANGED <<sessionVars, connected, readerPc, ownerPc, producerPc,
                 media, crashed, toClient, peerPorts, peerGone>>

PeerReceive ==
  /\ ~crashed
  /\ ~peerGone
  /\ toClient # <<>>
  /\ toClient' = Tail(toClient)
  /\ pending' = NoRequest
  /\ peerPorts' = IF Head(toClient).ports # <<>>
                    THEN Head(toClient).ports ELSE peerPorts
  /\ UNCHANGED <<sessionVars, connected, readerPc, ownerPc, producerPc,
                 media, crashed, toServer, sentCount, peerGone>>

PeerDisconnect ==
  /\ ~crashed
  /\ ~peerGone
  /\ peerGone' = TRUE
  /\ UNCHANGED <<sessionVars, connected, readerPc, ownerPc, producerPc,
                 media, crashed, toServer, toClient, pending, peerPorts,
                 sentCount>>

Next ==
  \/ Reader
  \/ OwnerPlay \/ OwnerPause \/ OwnerTeardown
  \/ DestroyBegin \/ DestroyJoin
  \/ \E p \in Producers :
       ProducerCheck(p) \/ send_rtp_packet(p) \/ send_rtcp_packet(p)
  \/ \E r \in Requests : PeerSend(r)
  \/ PeerReceive \/ PeerDisconnect

\* The control task is a FreeRTOS task that runs whenever it is not blocked;
\* the peer reads the replies it waits for; a started join completes once
\* the task has ended.  The peer need not send, nor disconnect, and
\* producers need not send.
Fairness ==
  /\ WF_vars(Reader)
  /\ WF_vars(PeerReceive)
  /\ WF_vars(DestroyJoin)

Spec == Init /\ [][Next]_vars /\ Fairness

-----------------------------------------------------------------------------
(* Properties.                                                             *)

\* Every variable ranges over the values the code can give it.
TypeOK ==
  /\ closed \in BOOLEAN
  /\ session_active \in BOOLEAN
  /\ client_rtp_port \in Ports \cup {Uninit}
  /\ client_rtcp_port \in Ports \cup {Uninit}
  /\ connected \in BOOLEAN
  /\ readerPc \in {"top", "recv", "exited"}
  /\ ownerPc \in {"live", "joining", "destroyed"}
  /\ producerPc \in [Producers -> {"idle", "sending"}]
  /\ media \subseteq Ports \cup {Uninit}
  /\ crashed \in BOOLEAN
  /\ toServer \in Seq(Requests)
  /\ toClient \in Seq(Replies)
  /\ peerGone \in BOOLEAN
  /\ pending \in Requests \cup {NoRequest}
  /\ peerPorts \in PortPairs \cup {<<Uninit, Uninit>>}
  /\ sentCount \in 0..MaxRequests

\* The session ends in order: every way out of control_task_fn marks the
\* session closed (the owner reaps sessions by is_closed()), and the
\* destructor returns only after the control task, which uses `this`, has
\* ended.
LifecycleOrder ==
  /\ readerPc = "exited" => closed
  /\ ownerPc = "destroyed" => readerPc = "exited"

\* While the peer is connected and has read every reply, the ports the
\* session sends media to (client_rtp_port_, client_rtcp_port_) are the ones
\* the last SETUP reply told the peer: handle_rtsp_setup stores ports only
\* when it answers 200 with them.
PortAgreement ==
  (~peerGone /\ toClient = <<>>) => ServerPorts = peerPorts

\* The requests the handlers answer: all but a SETUP whose Transport header
\* parse fails, and those that throw (stoi, or a substr past the end).
Answerable(r) ==
  /\ r.cseq # "garbage"
  /\ r.method # "TRUNCATED"
  /\ r.method = "SETUP" => r.transport \in {"udp", "tcp"}

\* A peer waiting on an answerable request gets its reply, unless the
\* session was closed first or the peer left (handle_rtsp_request and
\* send_response in the control task).
AnswerableRequestAnswered ==
  (pending # NoRequest /\ Answerable(pending))
    ~> (pending = NoRequest \/ closed \/ peerGone)

\* A peer disconnect, even while the control task is blocked in receive,
\* ends with the session closed and the control task ended.
DisconnectClosesSession ==
  peerGone ~> ((closed /\ readerPc = "exited") \/ crashed)

-----------------------------------------------------------------------------
(* Statements of spec.md that the code does not meet (violation runs).     *)

\* spec.md 3 and 8: no media is emitted before SETUP completes.  A PLAY
\* before any SETUP makes is_active() true while client_rtp_port_ is unset.
NoMediaToUnsetPort == Uninit \notin media

\* spec.md 3 and 4.4: once Closed, no request is serviced and the session is
\* not Playing (is_active() is false).
ClosedSessionInactive == closed => ~session_active

\* spec.md 8: after teardown the control task is joined within bounded
\* time, so the destructor returns.
DestroyCompletes ==
  (ownerPc = "joining") ~> (ownerPc = "destroyed" \/ crashed)

\* spec.md 4.1 and 7: a malformed request is answered 400; every request
\* gets a reply while the session is open.
EveryRequestAnswered ==
  (pending # NoRequest) ~> (pending = NoRequest \/ closed \/ peerGone \/ crashed)

\* spec.md 4.1 and 7: a malformed request (a request line cut short, an
\* unparseable CSeq or port) is a parse failure answered 400; the session
\* stays available.  In the code substr and std::stoi throw instead.
NeverAborts == ~crashed

=============================================================================
