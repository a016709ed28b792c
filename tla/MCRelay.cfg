SPECIFICATION FairSpec
CONSTANTS
  MaxResponses = 3
  BodySize = 2
  req_timeout_ticks = 2
INVARIANTS TypeOK ResponseShape EndMeansWhole OwnResponse LeftWaiting
PROPERTY SocketRelayReturns
CHECK_DEADLOCK FALSE
CONSTRAINTS InStep OneVaries FewPieces
