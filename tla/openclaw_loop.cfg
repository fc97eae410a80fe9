SPECIFICATION FairSpec
CONSTANTS
  Loops = {l1}
  Users = {}
  Sockets = {s1, s2}
  MaxInbox = 2
  MaxSpeechStops = 0
  None = none
PROPERTIES
  LossIsRetried
  EndedSessionRetiredByLoop
CHECK_DEADLOCK FALSE
