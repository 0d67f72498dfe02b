SPECIFICATION FairSpec
CONSTANTS
  Adapters = {bt, wfd}
  SendCaller = app
  Total <- MCTotal
  Ends <- MCEnds
  DisconnectSeqs = {1}
  FinalControl = 0
  FinalData = 1
  UInt32Size = 16
  MaxSignals = 1
INVARIANTS TypeOK QueuesInOrder AssertionsNeverFail NoSegmentDiscarded RemainingSegmentsReceived
PROPERTIES DataConsumed IsOrderedChannel
CHECK_DEADLOCK FALSE
