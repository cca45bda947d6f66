---------------------------- MODULE MC_RtspSession ----------------------------
(* Model-checking instance of RtspSession: two client ports, one producer. *)
EXTENDS RtspSession

CONSTANTS p1, Unset, NoReq  \* model values

MC_Ports == {5000, 5001}
MC_Producers == {p1}

\* a placeholder for the ports field of requests that carry none
AnyPair == <<5000, 5000>>

\* every request shape except SETUP, with every kind of CSeq header
MC_CommandRequests ==
  [method : Methods \ {"SETUP", "TRUNCATED"}, cseq : CSeqKinds,
   transport : {"absent"}, ports : {AnyPair}]

\* a request cut after its CR throws whatever its headers are: one suffices
MC_TruncatedRequest ==
  [method |-> "TRUNCATED", cseq |-> "num", transport |-> "absent",
   ports |-> AnyPair]

\* SETUP with a UDP transport and any ports, or another Transport header
MC_SetupRequests ==
  [method : {"SETUP"}, cseq : CSeqKinds, transport : {"udp"},
   ports : PortPairs]
  \cup
  [method : {"SETUP"}, cseq : CSeqKinds, transport : {"tcp", "absent", "garbage"},
   ports : {AnyPair}]

MC_Requests == MC_CommandRequests \cup MC_SetupRequests \cup {MC_TruncatedRequest}
=============================================================================
