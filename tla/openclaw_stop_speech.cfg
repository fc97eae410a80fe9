SPECIFICATION FairSpec
CONSTANTS
  Loops = {l1}
  Users = {u1}
  Sockets = {s1, s2}
  MaxInbox = 1
  MaxSpeechStops = 1
  None = none
PROPERTY EndedSessionRetired
CHECK_DEADLOCK FALSE
