\* Owner teardown while the control task is blocked in receive: the next PLAY is still serviced.
CONSTANTS
  Ports <- MC_Ports
  Producers <- MC_Producers
  p1 = p1
  Unset = Unset
  NoReq = NoReq
  Uninit = Unset
  NoRequest = NoReq
  Requests <- MC_Requests
  OwnerOps = {"teardown"}
  MaxRequests = 2
SPECIFICATION Spec
INVARIANT
  ClosedSessionInactive
\* a destroyed session, or firmware that aborted, takes no further step
CHECK_DEADLOCK FALSE
