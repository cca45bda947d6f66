\* A SETUP whose Transport header does not parse gets no reply.
CONSTANTS
  Ports <- MC_Ports
  Producers <- MC_Producers
  p1 = p1
  Unset = Unset
  NoReq = NoReq
  Uninit = Unset
  NoRequest = NoReq
  Requests <- MC_Requests
  OwnerOps = {}
  MaxRequests = 2
SPECIFICATION Spec
PROPERTY
  EveryRequestAnswered
\* a destroyed session, or firmware that aborted, takes no further step
CHECK_DEADLOCK FALSE
