SPECIFICATION FairSpec
CONSTANTS
  EncodeCapacity = 1
  SendCapacity = 1
  InboundCapacity = 2
  DecodeCapacity = 1
  PlaybackCapacity = 1
  Drivers = {"runtime", "any"}
  InterrupterSets = {{"run"}, {"http"}}
  MaxCaptured = 2
  MaxDelivered = 2
  MaxInterrupts = 1
INVARIANTS
  FramesAccounted
  AtMostOneStaleFrame
PROPERTIES
  InOrder
  
CHECK_DEADLOCK FALSE
