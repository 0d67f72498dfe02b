SPECIFICATION Spec
CONSTANTS
  bt = bt
  wfd = wfd
  receiver = receiver
  Adapters = {bt, wfd}
  WfdAdapters = {wfd}
  App = App
  Control = Control
  Loops = {receiver}
  MaxFaults = 1
  MaxCommands = 2
  MaxCalls = 2
  MaxDhcpds = 3
INVARIANTS ActiveIsBacked ActiveIsServed DisconnectedIsReleased DhcpdEndsWithGroup
PROPERTY StopIsComplete
CHECK_DEADLOCK FALSE
