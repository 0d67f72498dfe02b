SPECIFICATION HandoverSpec
CONSTANTS
  Adapters = {bt, wfd}
  FirstActive = bt
  app = app
  Monitor = monitor
  Peer = peer
  Callers <- MCCallers
  CallerKind <- MCCallerKind
  Lengths = {1}
  MaxSeq <- MCMaxSeq
  MaxFailures = 1
  FailureKinds = {"soft", "hard"}
  MaxSpurious = 1
  MaxSwitches = 1
  PeerOperations = {"connect", "sleep", "wakeUp"}
  MaxPeerRequests = 1
  MaxDisturbances = 1
INVARIANTS SegmentsConserved DisconnectedSenderIdle NextAdapterReady SleepingHoldsNothing
CHECK_DEADLOCK FALSE
