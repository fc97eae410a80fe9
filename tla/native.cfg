SPECIFICATION FairSpec
CONSTANTS
  Loops = {l1}
  Users = {u1}
  Owner = owner
  Recorders = {r1, r2, r3}
  MinVoice = 2
  EndSilence = 1
  MaxUtterance = 3
  MaxPipe = 1
  MaxFrames = 4
  MaxSpeaks = 1
  None = none
INVARIANTS
  
  OwnVoiceUnheard
  FewStrayRecorders
PROPERTY HearsAgain
CHECK_DEADLOCK FALSE
