\* Main run: all owner operations, a peer sending any request shape.
CONSTANTS
  Ports <- MC_Ports
  Producers <- MC_Producers
  p1 = p1
  Unset = Unset
  NoReq = NoReq
  Uninit = Unset
  NoRequest = NoReq
  Requests <- MC_Requests
  OwnerOps = {"play", "pause", "teardown"}
  MaxRequests = 3
SPECIFICATION Spec
INVARIANTS
  TypeOK
  LifecycleOrder
  PortAgreement
PROPERTIES
  AnswerableRequestAnswered
  DisconnectClosesSession
\* a destroyed session, or firmware that aborted, takes no further step
CHECK_DEADLOCK FALSE
