SPECIFICATION HandoverFairSpec
CONSTANTS
  Adapters = {bt, wfd}
  FirstActive = bt
  app = app
  Monitor = monitor
  Peer = peer
  Callers <- MCCallers
  CallerKind <- MCCallerKind
  Lengths = {1}
  MaxSeq <- MCMaxSeq
  MaxFailures = 1
  FailureKinds = {"soft", "hard"}
  MaxSpurious = 0
  MaxSwitches = 1
  PeerOperations = {"connect", "sleep", "wakeUp"}
  MaxPeerRequests = 0
  MaxDisturbances = 0

PROPERTIES WakeUpEnds SleepEnds DisconnectEnds
CHECK_DEADLOCK FALSE
