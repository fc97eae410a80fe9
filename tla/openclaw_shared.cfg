SPECIFICATION Spec
CONSTANTS
  Loops = {l1}
  Users = {u1}
  Sockets = {s1, s2}
  MaxInbox = 1
  MaxSpeechStops = 2
  None = none
INVARIANTS
  EndedIsOver
  
CHECK_DEADLOCK FALSE
