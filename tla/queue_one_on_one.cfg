SPECIFICATION FairSpec
CONSTANTS
  Pushers = {p1}
  Poppers = {c1}
  Capacity = 2
  MaxOffers = 6
INVARIANT NoLostWakeup
PROPERTIES TimedCallsReturn 
CHECK_DEADLOCK FALSE
