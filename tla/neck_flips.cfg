SPECIFICATION FlipSpec
CONSTANTS
  Loops = {l1}
  Users = {}
  UserAngles = {}
  PanMin = 40
  PanMax = 140
  Deadband = 2
  InitialAngle = 90
  ReframeMin = 40
  ReframeMax = 140
  Home = 90
  ReframeStep = 5
  ReturnStep = 4
  ConfirmFrames = 2
  MinInterval = 1
  ObserveHold = 2
  Cooldown = 1
  AntiOscillation = 3
  MaxAge = 3
  MaxUserMoves = 0
  None = none
PROPERTY NoQuickFlip
CHECK_DEADLOCK FALSE
