SPECIFICATION FairSpec
CONSTANTS
  t1 = t1
  t2 = t2
  t3 = t3
  Bt = Bt
  Wfd = Wfd
  Threads = {t1, t2, t3}
  MaxCalls = 2
  MaxEvents = 4
INVARIANTS OnePerAdapter DisconnectedIsReleased SegmentsConserved
PROPERTY SwitchEnds
CHECK_DEADLOCK FALSE
