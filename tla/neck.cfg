SPECIFICATION FairSpec
CONSTANTS
  Loops = {l1, l2}
  Users = {u1}
  UserAngles = {120}
  PanMin = 88
  PanMax = 97
  Deadband = 2
  InitialAngle = 90
  ReframeMin = 88
  ReframeMax = 97
  Home = 90
  ReframeStep = 5
  ReturnStep = 4
  ConfirmFrames = 2
  MinInterval = 1
  ObserveHold = 1
  Cooldown = 1
  AntiOscillation = 1
  MaxAge = 1
  MaxUserMoves = 1
  None = none
INVARIANTS
  BelievedAngle
  RestsNearHome
PROPERTY ComesHome
CHECK_DEADLOCK FALSE
