\* PLAY before SETUP: a producer sends to client_rtp_port_ never set.
CONSTANTS
  Ports <- MC_Ports
  Producers <- MC_Producers
  p1 = p1
  Unset = Unset
  NoReq = NoReq
  Uninit = Unset
  NoRequest = NoReq
  Requests <- MC_Requests
  OwnerOps = {}
  MaxRequests = 2
SPECIFICATION Spec
INVARIANT
  NoMediaToUnsetPort
\* a destroyed session, or firmware that aborted, takes no further step
CHECK_DEADLOCK FALSE
