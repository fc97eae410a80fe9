SPECIFICATION FairSpec
CONSTANTS
  EncodeCapacity = 1
  SendCapacity = 1
  InboundCapacity = 2
  DecodeCapacity = 1
  PlaybackCapacity = 1
  Drivers = {"runtime"}
  InterrupterSets = {{"http"}}
  MaxCaptured = 1
  MaxDelivered = 2
  MaxInterrupts = 1
INVARIANT InterruptClearsDownstream
CHECK_DEADLOCK FALSE
