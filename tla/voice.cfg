SPECIFICATION VoiceSpec
CONSTANTS
  MaxSegment = 3
  HangoverFrames = 1
  ConsecutiveFrames = 2
  Configs <- AllConfigs
  MaxCaptured = 9
  None = None
  MaxCalls = 3
  Rounds = {a, b}
  MaxChunks = 2
  max_inflight_frames = 2
  MaxFrames = 4
  MaxResults = 2
  outbound_capacity = 1
  inbound_capacity = 1
  heartbeat_interval_s = 2
  pong_timeout_s = 1
  reconnect_base_delay_s = 1
  reconnect_max_delay_s = 3
  FrameTicks = 2
  max_age = 3
  capacity = 6
  MaxDelay = 1
  Numbers = {1, 2}
  Pushers = {p1, p2}
  Poppers = {c1, c2}
  Capacity = 2
  MaxOffers = 6
  Formats = {f, g}
  Durations = {1, 2}
  active_grace_s = 1
  MaxNow = 5
  MaxChunkIndex = 2
  MaxPending = 2
INVARIANTS
  VoiceTypeOK
  SpeechEndsAsTold
  
  OnlySilenceTimesOut
  
  
  
  GatewayTellsTheDevice
PROPERTIES
  UpstreamInOrder
  NothingBeforeWakeWord
  SharedQueueIsAFifo
CHECK_DEADLOCK FALSE
