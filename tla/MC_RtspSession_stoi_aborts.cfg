\* No request makes the control task throw: substr and std::stoi on request
\* text throw, and nothing catches the exception.
CONSTANTS
  Ports <- MC_Ports
  Producers <- MC_Producers
  p1 = p1
  Unset = Unset
  NoReq = NoReq
  Uninit = Unset
  NoRequest = NoReq
  Requests <- MC_Requests
  OwnerOps = {}
  MaxRequests = 2
SPECIFICATION Spec
INVARIANT
  NeverAborts
\* a destroyed session, or firmware that aborted, takes no further step
CHECK_DEADLOCK FALSE
