-------------------------- MODULE RtspSession_proofs --------------------------
(***************************************************************************)
(* Proofs about RtspSession for every value of the constants.             *)
(***************************************************************************)
EXTENDS RtspSession, SequenceTheorems, TLAPS

\* What a request handler guarantees of the variables it writes: their
\* types, and that a closed session stays closed.
HandlerPost ==
  /\ closed' \in BOOLEAN
  /\ closed => closed'
  /\ session_active' \in BOOLEAN
  /\ client_rtp_port' \in Ports \cup {Uninit}
  /\ client_rtcp_port' \in Ports \cup {Uninit}
  /\ toClient' \in Seq(Replies)
  /\ crashed' \in BOOLEAN

\* send_response appends a reply to the stream, or loses it.
LEMMA SendResponseType ==
  ASSUME NEW rep \in Replies, toClient \in Seq(Replies), send_response(rep)
  PROVE  toClient' \in Seq(Replies)
BY DEF send_response

\* handle_rtsp_invalid_request answers 400 or aborts.
LEMMA InvalidRequestType ==
  ASSUME TypeOK, NEW r \in Requests, handle_rtsp_invalid_request(r)
  PROVE  HandlerPost
<1>1. Reply(400) \in Replies
  BY DEF Reply, Replies
<1>2. CASE r.cseq = "garbage" /\ Abort
  BY <1>2 DEF Abort, TypeOK, HandlerPost
<1>3. CASE /\ r.cseq \in {"num", "absent"}
           /\ UNCHANGED sessionVars
           /\ send_response(Reply(400))
  BY <1>1, <1>3, SendResponseType DEF send_response, TypeOK, HandlerPost,
     sessionVars
<1> QED
  BY <1>2, <1>3 DEF handle_rtsp_invalid_request

\* The request handlers keep the session's variables, the reply stream and
\* the abort flag within their types.
LEMMA HandlerTypes ==
  ASSUME TypeOK, NEW r \in Requests, handle_rtsp_request(r)
  PROVE  HandlerPost
<1>1. r \in RequestUniverse
  BY RequestsAssumption
<1>2. Reply(200) \in Replies /\ Reply(461) \in Replies
  BY DEF Reply, Replies
<1>3. r.ports \in PortPairs
  BY <1>1 DEF RequestUniverse
<1>4. [code |-> 200, ports |-> r.ports] \in Replies
  BY <1>3 DEF Replies
<1>5. r.ports[1] \in Ports /\ r.ports[2] \in Ports
  BY <1>3 DEF PortPairs
\* the effects of the 200 branches, on a well-typed state
<1>6. ASSUME send_response(Reply(200)),
             \/ UNCHANGED sessionVars
             \/ play \/ pause \/ teardown
      PROVE  HandlerPost
  BY <1>2, <1>6, SendResponseType
  DEF send_response, TypeOK, HandlerPost, sessionVars, play, pause, teardown
<1>7. ASSUME NEW effect, CommandHandler(r, effect),
             send_response(Reply(200)) /\ effect => HandlerPost
      PROVE  HandlerPost
  <2>1. CASE r.cseq = "garbage" /\ Abort
    BY <2>1 DEF Abort, TypeOK, HandlerPost
  <2>2. CASE r.cseq = "absent" /\ handle_rtsp_invalid_request(r)
    BY <2>2, InvalidRequestType
  <2>3. CASE r.cseq = "num" /\ effect /\ send_response(Reply(200))
    BY <2>3, <1>7
  <2> QED
    BY <1>7, <2>1, <2>2, <2>3 DEF CommandHandler
<1>8. CASE r.method \in {"OPTIONS", "DESCRIBE"}
           /\ CommandHandler(r, UNCHANGED sessionVars)
  BY <1>8, <1>6, <1>7
<1>9. CASE r.method = "PLAY" /\ CommandHandler(r, play)
  BY <1>9, <1>6, <1>7
<1>10. CASE r.method = "PAUSE" /\ CommandHandler(r, pause)
  BY <1>10, <1>6, <1>7
<1>11. CASE r.method = "TEARDOWN" /\ CommandHandler(r, teardown)
  BY <1>11, <1>6, <1>7
<1>12. CASE r.method \in {"OTHER", "BADLINE"} /\ handle_rtsp_invalid_request(r)
  BY <1>12, InvalidRequestType
<1>14. CASE r.method = "TRUNCATED" /\ Abort
  BY <1>14 DEF Abort, TypeOK, HandlerPost
<1>13. CASE r.method = "SETUP" /\ handle_rtsp_setup(r)
  <2>1. CASE r.transport = "absent" /\ UNCHANGED <<sessionVars, toClient, crashed>>
    BY <2>1 DEF TypeOK, HandlerPost, sessionVars
  <2>2. CASE /\ r.transport = "tcp"
             /\ UNCHANGED sessionVars
             /\ send_response(Reply(461))
    BY <1>2, <2>2, SendResponseType DEF send_response, TypeOK, HandlerPost,
       sessionVars
  <2>3. CASE Abort
    BY <2>3 DEF Abort, TypeOK, HandlerPost
  <2>4. CASE r.cseq = "absent" /\ handle_rtsp_invalid_request(r)
    BY <2>4, InvalidRequestType
  <2>5. CASE /\ client_rtp_port' = r.ports[1]
             /\ client_rtcp_port' = r.ports[2]
             /\ UNCHANGED <<closed, session_active>>
             /\ send_response([code |-> 200, ports |-> r.ports])
    BY <1>4, <1>5, <2>5, SendResponseType DEF send_response, TypeOK,
       HandlerPost
  <2> QED
    BY <1>13, <2>1, <2>2, <2>3, <2>4, <2>5 DEF handle_rtsp_setup
<1> QED
  BY <1>8, <1>9, <1>10, <1>11, <1>12, <1>13, <1>14 DEF handle_rtsp_request

\* The initial state is well typed.
LEMMA TypeInit == Init => TypeOK
<1> SUFFICES ASSUME Init PROVE TypeOK
  OBVIOUS
<1>1. toServer \in Seq(Requests) /\ toClient \in Seq(Replies)
  BY DEF Init
<1>2. peerPorts \in PortPairs \cup {<<Uninit, Uninit>>}
  BY DEF Init
<1>3. producerPc \in [Producers -> {"idle", "sending"}]
  BY DEF Init
<1>4. sentCount \in 0..MaxRequests
  BY MaxRequestsAssumption DEF Init
<1> QED
  BY <1>1, <1>2, <1>3, <1>4, Zenon DEF Init, TypeOK

\* Every step keeps the variables within their types.
LEMMA TypeStep == TypeOK /\ [Next]_vars => TypeOK'
<1> SUFFICES ASSUME TypeOK, [Next]_vars PROVE TypeOK'
  OBVIOUS
<1>1. CASE ReaderCheck
  BY <1>1 DEF ReaderCheck, TypeOK, teardown, sessionVars, peerVars
<1>2. CASE ReaderReceive
  <2>1. Head(toServer) \in Requests /\ Tail(toServer) \in Seq(Requests)
    BY <1>2 DEF ReaderReceive, TypeOK
  <2>2. /\ closed' \in BOOLEAN
        /\ closed => closed'
        /\ session_active' \in BOOLEAN
        /\ client_rtp_port' \in Ports \cup {Uninit}
        /\ client_rtcp_port' \in Ports \cup {Uninit}
        /\ toClient' \in Seq(Replies)
        /\ crashed' \in BOOLEAN
    BY <1>2, <2>1, HandlerTypes DEF ReaderReceive, HandlerPost
  <2> QED
    BY <1>2, <2>1, <2>2 DEF ReaderReceive, TypeOK
<1>3. CASE ReaderReceiveFail
  BY <1>3 DEF ReaderReceiveFail, TypeOK, sessionVars, peerVars
<1>4. CASE OwnerPlay \/ OwnerPause \/ OwnerTeardown
  BY <1>4 DEF OwnerPlay, OwnerPause, OwnerTeardown, OwnerCall, play, pause,
              teardown, TypeOK, peerVars
<1>5. CASE DestroyBegin \/ DestroyJoin
  BY <1>5 DEF DestroyBegin, DestroyJoin, teardown, TypeOK, sessionVars,
              peerVars
<1>6. CASE \E p \in Producers :
             ProducerCheck(p) \/ send_rtp_packet(p) \/ send_rtcp_packet(p)
  BY <1>6 DEF ProducerCheck, send_rtp_packet, send_rtcp_packet,
              ProducerSend, TypeOK, sessionVars, peerVars
<1>7. CASE \E r \in Requests : PeerSend(r)
  <2>1. PICK r \in Requests : PeerSend(r)
    BY <1>7
  <2>2. sentCount' \in 0..MaxRequests
    BY <2>1, MaxRequestsAssumption DEF PeerSend, TypeOK
  <2>3. toServer' \in Seq(Requests)
    BY <2>1 DEF PeerSend, TypeOK
  <2> QED
    BY <2>1, <2>2, <2>3 DEF PeerSend, TypeOK, sessionVars
<1>8. CASE PeerReceive
  <2>1. Head(toClient) \in Replies
    BY <1>8 DEF PeerReceive, TypeOK
  <2> QED
    BY <1>8, <2>1 DEF PeerReceive, TypeOK, sessionVars, Replies
<1>9. CASE PeerDisconnect
  BY <1>9 DEF PeerDisconnect, TypeOK, sessionVars
<1>10. CASE UNCHANGED vars
  <2>1. UNCHANGED vars
    BY <1>10
  <2>2. /\ UNCHANGED <<closed, session_active, client_rtp_port, client_rtcp_port>>
        /\ UNCHANGED <<connected, readerPc, ownerPc, producerPc, media, crashed>>
        /\ UNCHANGED <<toServer, toClient, peerGone, pending, peerPorts, sentCount>>
    BY <2>1 DEF vars
  <2> QED
    BY <2>2 DEF TypeOK
<1> QED
  BY <1>1, <1>2, <1>3, <1>4, <1>5, <1>6, <1>7, <1>8, <1>9, <1>10
  DEF Next, Reader
\* Spec keeps every variable within its type.
THEOREM TypeCorrect == Spec => []TypeOK
BY TypeInit, TypeStep, PTL DEF Spec

\* The inductive invariant behind LifecycleOrder: the types, and the order
\* itself (no step reopens a closed session or restarts the control task).
IInvLifecycle == TypeOK /\ LifecycleOrder

\* The session ends in order: control task exit implies closed_, and the
\* destructor returns only after the control task ended.
THEOREM LifecycleOrdered == Spec => []LifecycleOrder
<1>1. Init => IInvLifecycle
  BY TypeInit DEF Init, IInvLifecycle, LifecycleOrder
<1>2. IInvLifecycle /\ [Next]_vars => IInvLifecycle'
  <2> SUFFICES ASSUME IInvLifecycle, [Next]_vars PROVE IInvLifecycle'
    OBVIOUS
  <2>0. TypeOK'
    BY TypeStep DEF IInvLifecycle
  <2>1. CASE ReaderCheck
    BY <2>0, <2>1 DEF ReaderCheck, IInvLifecycle, LifecycleOrder, teardown,
                     sessionVars
  <2>2. CASE ReaderReceive
    <3>1. Head(toServer) \in Requests
      BY <2>2 DEF ReaderReceive, IInvLifecycle, TypeOK
    <3>2. closed => closed'
      BY <2>2, <3>1, HandlerTypes DEF ReaderReceive, HandlerPost, IInvLifecycle
    <3> QED
      BY <2>0, <2>2, <3>2 DEF ReaderReceive, IInvLifecycle, LifecycleOrder
  <2>3. CASE ReaderReceiveFail
    BY <2>0, <2>3 DEF ReaderReceiveFail, IInvLifecycle, LifecycleOrder,
                     sessionVars
  <2>4. CASE OwnerPlay \/ OwnerPause \/ OwnerTeardown
    BY <2>0, <2>4 DEF OwnerPlay, OwnerPause, OwnerTeardown, OwnerCall, play,
                     pause, teardown, IInvLifecycle, LifecycleOrder
  <2>5. CASE DestroyBegin
    BY <2>0, <2>5 DEF DestroyBegin, teardown, IInvLifecycle, LifecycleOrder
  <2>6. CASE DestroyJoin
    BY <2>0, <2>6 DEF DestroyJoin, IInvLifecycle, LifecycleOrder, sessionVars
  <2>7. CASE \E p \in Producers :
               ProducerCheck(p) \/ send_rtp_packet(p) \/ send_rtcp_packet(p)
    BY <2>0, <2>7 DEF ProducerCheck, send_rtp_packet, send_rtcp_packet,
                     ProducerSend, IInvLifecycle, LifecycleOrder, sessionVars
  <2>8. CASE \/ \E r \in Requests : PeerSend(r)
             \/ PeerReceive \/ PeerDisconnect
    BY <2>0, <2>8 DEF PeerSend, PeerReceive, PeerDisconnect, IInvLifecycle,
                     LifecycleOrder, sessionVars
  <2>9. CASE UNCHANGED vars
    <3>1. UNCHANGED <<closed, readerPc, ownerPc>>
      BY <2>9 DEF vars
    <3> QED
      BY <2>0, <3>1 DEF IInvLifecycle, LifecycleOrder
  <2> QED
    BY <2>1, <2>2, <2>3, <2>4, <2>5, <2>6, <2>7, <2>8, <2>9 DEF Next, Reader
<1> QED
  BY <1>1, <1>2, PTL DEF Spec, IInvLifecycle

-----------------------------------------------------------------------------
(* PortAgreement.                                                          *)

\* The peer waits for each reply: at most one request or reply is in flight,
\* and none when the peer waits for nothing.
OneInFlight ==
  /\ Len(toServer) + Len(toClient) <= 1
  /\ pending = NoRequest => toServer = <<>> /\ toClient = <<>>

\* While the peer is connected, the session's ports are those echoed by the
\* reply in flight if it is a SETUP 200, and otherwise those the peer holds.
PortsTracked ==
  ~peerGone =>
    IF toClient # <<>> /\ Head(toClient).ports # <<>>
      THEN ServerPorts = Head(toClient).ports
      ELSE ServerPorts = peerPorts

IInvPorts == TypeOK /\ OneInFlight /\ PortsTracked

\* What a request handler does to the reply stream and the ports, handled
\* while the peer is connected and no reply is in flight: at most one reply,
\* and the ports change only with a reply that echoes them.
HandlerPortsPost ==
  /\ toClient' = <<>> \/ \E rep \in Replies : toClient' = <<rep>>
  /\ IF toClient' # <<>> /\ Head(toClient').ports # <<>>
       THEN ServerPorts' = Head(toClient').ports
       ELSE ServerPorts' = ServerPorts

\* send_response with no reply in flight, to a connected peer
LEMMA SendResponseFirst ==
  ASSUME NEW rep, toClient = <<>>, ~peerGone, send_response(rep)
  PROVE  toClient' = <<rep>>
BY DEF send_response

LEMMA InvalidRequestPorts ==
  ASSUME TypeOK, toClient = <<>>, ~peerGone, NEW r \in Requests,
         handle_rtsp_invalid_request(r)
  PROVE  HandlerPortsPost
<1>1. Reply(400) \in Replies /\ Reply(400).ports = <<>>
  BY DEF Reply, Replies
<1>2. CASE r.cseq = "garbage" /\ Abort
  BY <1>2 DEF Abort, HandlerPortsPost, ServerPorts
<1>3. CASE /\ r.cseq \in {"num", "absent"}
           /\ UNCHANGED sessionVars
           /\ send_response(Reply(400))
  <2>1. toClient' = <<Reply(400)>>
    BY <1>3, SendResponseFirst
  <2> QED
    BY <1>1, <1>3, <2>1 DEF HandlerPortsPost, ServerPorts, sessionVars
<1> QED
  BY <1>2, <1>3 DEF handle_rtsp_invalid_request

LEMMA HandlerPorts ==
  ASSUME TypeOK, toClient = <<>>, ~peerGone, NEW r \in Requests,
         handle_rtsp_request(r)
  PROVE  HandlerPortsPost
<1>1. /\ Reply(200) \in Replies /\ Reply(200).ports = <<>>
      /\ Reply(461) \in Replies /\ Reply(461).ports = <<>>
  BY DEF Reply, Replies
<1>2. r \in RequestUniverse
  BY RequestsAssumption
<1>3. r.ports \in PortPairs
  BY <1>2 DEF RequestUniverse
<1>4. /\ [code |-> 200, ports |-> r.ports] \in Replies
      /\ r.ports # <<>>
      /\ r.ports = <<r.ports[1], r.ports[2]>>
  <2>1. PICK a \in Ports, b \in Ports : r.ports = <<a, b>>
    BY <1>3 DEF PortPairs
  <2>2. [code |-> 200, ports |-> r.ports] \in Replies
    BY <1>3 DEF Replies
  <2>3. r.ports # <<>> /\ r.ports = <<r.ports[1], r.ports[2]>>
    BY <2>1
  <2> QED
    BY <2>2, <2>3
\* a 200 whose effect leaves the ports alone
<1>5. ASSUME send_response(Reply(200)),
             UNCHANGED <<client_rtp_port, client_rtcp_port>>
      PROVE  HandlerPortsPost
  <2>1. toClient' = <<Reply(200)>>
    BY <1>5, SendResponseFirst
  <2> QED
    BY <1>1, <1>5, <2>1 DEF HandlerPortsPost, ServerPorts
<1>6. ASSUME NEW effect, CommandHandler(r, effect),
             effect => UNCHANGED <<client_rtp_port, client_rtcp_port>>
      PROVE  HandlerPortsPost
  <2>1. CASE r.cseq = "garbage" /\ Abort
    BY <2>1 DEF Abort, HandlerPortsPost, ServerPorts
  <2>2. CASE r.cseq = "absent" /\ handle_rtsp_invalid_request(r)
    BY <2>2, InvalidRequestPorts
  <2>3. CASE r.cseq = "num" /\ effect /\ send_response(Reply(200))
    BY <2>3, <1>5, <1>6
  <2> QED
    BY <1>6, <2>1, <2>2, <2>3 DEF CommandHandler
<1>7. CASE r.method \in {"OPTIONS", "DESCRIBE"}
           /\ CommandHandler(r, UNCHANGED sessionVars)
  BY <1>7, <1>6 DEF sessionVars
<1>8. CASE r.method = "PLAY" /\ CommandHandler(r, play)
  BY <1>8, <1>6 DEF play
<1>9. CASE r.method = "PAUSE" /\ CommandHandler(r, pause)
  BY <1>9, <1>6 DEF pause
<1>10. CASE r.method = "TEARDOWN" /\ CommandHandler(r, teardown)
  BY <1>10, <1>6 DEF teardown
<1>11. CASE r.method \in {"OTHER", "BADLINE"} /\ handle_rtsp_invalid_request(r)
  BY <1>11, InvalidRequestPorts
<1>13. CASE r.method = "TRUNCATED" /\ Abort
  BY <1>13 DEF Abort, HandlerPortsPost, ServerPorts
<1>12. CASE r.method = "SETUP" /\ handle_rtsp_setup(r)
  <2>1. CASE r.transport = "absent" /\ UNCHANGED <<sessionVars, toClient, crashed>>
    BY <2>1 DEF HandlerPortsPost, ServerPorts, sessionVars
  <2>2. CASE /\ r.transport = "tcp"
             /\ UNCHANGED sessionVars
             /\ send_response(Reply(461))
    <3>1. toClient' = <<Reply(461)>>
      BY <2>2, SendResponseFirst
    <3> QED
      BY <1>1, <2>2, <3>1 DEF HandlerPortsPost, ServerPorts, sessionVars
  <2>3. CASE Abort
    BY <2>3 DEF Abort, HandlerPortsPost, ServerPorts
  <2>4. CASE r.cseq = "absent" /\ handle_rtsp_invalid_request(r)
    BY <2>4, InvalidRequestPorts
  <2>5. CASE /\ client_rtp_port' = r.ports[1]
             /\ client_rtcp_port' = r.ports[2]
             /\ UNCHANGED <<closed, session_active>>
             /\ send_response([code |-> 200, ports |-> r.ports])
    <3>1. toClient' = <<[code |-> 200, ports |-> r.ports]>>
      BY <2>5, SendResponseFirst
    <3>2. Head(toClient').ports = r.ports /\ toClient' # <<>>
      BY <3>1
    <3>3. ServerPorts' = r.ports
      BY <1>4, <2>5 DEF ServerPorts
    <3>4. \E rep \in Replies : toClient' = <<rep>>
      BY <1>4, <3>1
    <3> QED
      BY <1>4, <3>2, <3>3, <3>4 DEF HandlerPortsPost
  <2> QED
    BY <1>12, <2>1, <2>2, <2>3, <2>4, <2>5 DEF handle_rtsp_setup
<1> QED
  BY <1>7, <1>8, <1>9, <1>10, <1>11, <1>12, <1>13 DEF handle_rtsp_request

\* Once the peer has gone, no handler changes the reply stream: every reply
\* send_response writes is lost.
LEMMA HandlerSilentWhenGone ==
  ASSUME peerGone, NEW r, handle_rtsp_request(r)
  PROVE  toClient' = toClient
<1>1. ASSUME NEW rep, send_response(rep) PROVE toClient' = toClient
  BY <1>1 DEF send_response
<1>2. ASSUME handle_rtsp_invalid_request(r) PROVE toClient' = toClient
  BY <1>1, <1>2 DEF handle_rtsp_invalid_request, Abort
<1>3. ASSUME NEW effect, CommandHandler(r, effect) PROVE toClient' = toClient
  BY <1>1, <1>2, <1>3 DEF CommandHandler, Abort
<1>4. ASSUME handle_rtsp_setup(r) PROVE toClient' = toClient
  BY <1>1, <1>2, <1>4 DEF handle_rtsp_setup, Abort
<1> QED
  BY <1>3, <1>4, <1>2 DEF handle_rtsp_request, Abort

\* Two counts that add up to at most one, the first positive.
LEMMA AtMostOne ==
  ASSUME NEW m \in Nat \ {0}, NEW n \in Nat, m + n <= 1
  PROVE  m = 1 /\ n = 0
OBVIOUS

\* A count of zero or one next to an empty count sums to at most one.
LEMMA ZeroPlusBit ==
  ASSUME NEW m \in {0, 1}, NEW n, n = 0
  PROVE  n + m <= 1
OBVIOUS

\* Two streams holding one message between them: when one is non-empty the
\* other is empty and the first holds exactly that message.
LEMMA OneMessage ==
  ASSUME NEW S, NEW T, NEW a \in Seq(S), NEW b \in Seq(T),
         Len(a) + Len(b) <= 1, a # <<>>
  PROVE  b = <<>> /\ Len(a) = 1 /\ Tail(a) = <<>> /\ Head(a) \in S
<1>1. Len(a) \in Nat \ {0} /\ Len(b) \in Nat
  BY EmptySeq, LenProperties
<1>2. Len(a) = 1 /\ Len(b) = 0
  BY <1>1, AtMostOne
<1>3. b = <<>>
  BY <1>2, LenProperties
<1>4. Tail(a) \in Seq(S) /\ Len(Tail(a)) = 0 /\ Head(a) \in S
  BY <1>2, HeadTailProperties
<1>5. Tail(a) = <<>>
  BY <1>4, EmptySeq
<1> QED
  BY <1>2, <1>3, <1>4, <1>5

\* A step that touches neither the ports, the streams nor the peer keeps
\* the reply accounting.
LEMMA PortsFrame ==
  ASSUME OneInFlight, PortsTracked,
         UNCHANGED <<client_rtp_port, client_rtcp_port, toServer, toClient,
                     pending, peerPorts, peerGone>>
  PROVE  OneInFlight' /\ PortsTracked'
BY DEF OneInFlight, PortsTracked, ServerPorts

LEMMA PortsInit == Init => IInvPorts
<1> SUFFICES ASSUME Init PROVE IInvPorts
  OBVIOUS
<1>1. TypeOK
  BY TypeInit
<1>2. OneInFlight
  BY DEF Init, OneInFlight
<1>3. PortsTracked
  BY DEF Init, PortsTracked, ServerPorts
<1> QED
  BY <1>1, <1>2, <1>3 DEF IInvPorts

LEMMA PortsStep == IInvPorts /\ [Next]_vars => IInvPorts'
<1> SUFFICES ASSUME IInvPorts, [Next]_vars PROVE OneInFlight' /\ PortsTracked'
  BY TypeStep DEF IInvPorts
<1>h. OneInFlight /\ PortsTracked /\ TypeOK
  BY DEF IInvPorts
<1> USE <1>h
<1>1. CASE ReaderCheck
  BY <1>1, PortsFrame DEF ReaderCheck, teardown, sessionVars, peerVars
<1>2. CASE ReaderReceive
  <2>1. toClient = <<>> /\ Tail(toServer) = <<>> /\ Head(toServer) \in Requests
    BY <1>2, OneMessage DEF ReaderReceive, OneInFlight, TypeOK
  <2>2. Head(toServer) \in Requests /\ Tail(toServer) = <<>>
    BY <2>1
  <2>3. pending # NoRequest
    BY <1>2, <2>1 DEF ReaderReceive, OneInFlight
  <2>4. OneInFlight'
    <3>1. CASE peerGone
      <4>1. toClient' = toClient
        BY <1>2, <3>1, HandlerSilentWhenGone DEF ReaderReceive
      <4>2. toServer' = <<>> /\ pending' = pending
        BY <1>2, <2>2 DEF ReaderReceive
      <4> QED
        BY <2>1, <2>3, <4>1, <4>2 DEF OneInFlight
    <3>2. CASE ~peerGone
      <4>1. toClient' = <<>> \/ \E rep \in Replies : toClient' = <<rep>>
        BY <1>2, <2>1, <2>2, <3>2, HandlerPorts DEF ReaderReceive, HandlerPortsPost
      <4>2. toServer' = <<>> /\ pending' = pending
        BY <1>2, <2>2 DEF ReaderReceive
      <4>3. Len(toClient') \in {0, 1}
        <5>1. CASE toClient' = <<>>
          BY <5>1
        <5>2. CASE \E rep \in Replies : toClient' = <<rep>>
          <6>1. PICK rep \in Replies : toClient' = <<rep>>
            BY <5>2
          <6> QED
            BY <6>1
        <5> QED
          BY <4>1, <5>1, <5>2
      <4>4. Len(toServer') = 0
        BY <4>2, EmptySeq
      <4>5. Len(toServer') + Len(toClient') <= 1
        BY <4>3, <4>4, ZeroPlusBit
      <4> QED
        BY <2>3, <4>2, <4>5 DEF OneInFlight
    <3> QED
      BY <3>1, <3>2 DEF TypeOK
  <2>5. PortsTracked'
    <3>1. CASE peerGone
      BY <1>2, <3>1 DEF ReaderReceive, PortsTracked
    <3>2. CASE ~peerGone
      <4>1. HandlerPortsPost
        BY <1>2, <2>1, <2>2, <3>2, HandlerPorts DEF ReaderReceive
      <4>2. ServerPorts = peerPorts
        BY <2>1, <3>2 DEF PortsTracked
      <4> QED
        BY <1>2, <4>1, <4>2 DEF ReaderReceive, HandlerPortsPost, PortsTracked
    <3> QED
      BY <3>1, <3>2 DEF TypeOK
  <2> QED
    BY <2>4, <2>5
<1>3. CASE ReaderReceiveFail
  BY <1>3, PortsFrame DEF ReaderReceiveFail, sessionVars, peerVars
<1>4. CASE OwnerPlay \/ OwnerPause \/ OwnerTeardown
  BY <1>4, PortsFrame DEF OwnerPlay, OwnerPause, OwnerTeardown, OwnerCall,
                          play, pause, teardown, peerVars
<1>5. CASE DestroyBegin
  BY <1>5, PortsFrame DEF DestroyBegin, teardown, peerVars
<1>6. CASE DestroyJoin
  BY <1>6, PortsFrame DEF DestroyJoin, sessionVars, peerVars
<1>7. CASE \E p \in Producers :
             ProducerCheck(p) \/ send_rtp_packet(p) \/ send_rtcp_packet(p)
  BY <1>7, PortsFrame DEF ProducerCheck, send_rtp_packet, send_rtcp_packet,
                          ProducerSend, sessionVars, peerVars
<1>8. CASE \E r \in Requests : PeerSend(r)
  <2>1. PICK r \in Requests : PeerSend(r)
    BY <1>8
  <2>2. toServer = <<>> /\ toClient = <<>>
    BY <2>1 DEF PeerSend, OneInFlight
  <2>3. r # NoRequest
    BY RequestsAssumption, NoRequestAssumption
  <2>4. OneInFlight'
    BY <2>1, <2>2, <2>3 DEF PeerSend, OneInFlight
  <2>5. PortsTracked'
    BY <2>1, <2>2 DEF PeerSend, PortsTracked, ServerPorts, sessionVars
  <2> QED
    BY <2>4, <2>5
<1>9. CASE PeerReceive
  <2>1. toServer = <<>> /\ toClient # <<>>
    <3>1. Len(toClient) + Len(toServer) <= 1
      BY DEF OneInFlight, TypeOK
    <3> QED
      BY <1>9, <3>1, OneMessage DEF PeerReceive, TypeOK
  <2>2. Tail(toClient) = <<>>
    BY <1>9, <2>1, OneMessage DEF PeerReceive, OneInFlight, TypeOK
  <2>3. OneInFlight'
    BY <1>9, <2>1, <2>2 DEF PeerReceive, OneInFlight
  <2>4. PortsTracked'
    BY <1>9, <2>1, <2>2 DEF PeerReceive, PortsTracked, ServerPorts,
                            sessionVars
  <2> QED
    BY <2>3, <2>4
<1>10. CASE PeerDisconnect
  BY <1>10 DEF PeerDisconnect, OneInFlight, PortsTracked
<1>11. CASE UNCHANGED vars
  <2>1. UNCHANGED <<client_rtp_port, client_rtcp_port, toServer, toClient,
                    pending, peerPorts, peerGone>>
    BY <1>11 DEF vars
  <2> QED
    BY <2>1, PortsFrame
<1> QED
  BY <1>1, <1>2, <1>3, <1>4, <1>5, <1>6, <1>7, <1>8, <1>9, <1>10, <1>11
  DEF Next, Reader

\* While the peer is connected and has read every reply, handle_rtsp_setup
\* has stored exactly the ports its last SETUP reply echoed: the session
\* never sends media to ports the client was not told of.
THEOREM PortsAgree == Spec => []PortAgreement
<1>1. IInvPorts => PortAgreement
  BY DEF IInvPorts, PortsTracked, PortAgreement
<1> QED
  BY PortsInit, PortsStep, <1>1, PTL DEF Spec

=============================================================================
