SPECIFICATION FairSpec
CONSTANTS
  Adapters = {bt, wfd}
  app1 = app1
  app2 = app2
  ctrl = ctrl
  Callers <- MCCallers
  CallerKind <- MCCallerKind
  Lengths = {1, 2}
  MaxSeq <- MCMaxSeq
  MaxFailures = 1
  FailureKinds = {"soft", "hard"}
  MaxSpurious = 1
INVARIANTS SegmentsConserved SendQueuesInOrder SendAssertionsNeverFail
PROPERTIES EventuallySent
CHECK_DEADLOCK FALSE
