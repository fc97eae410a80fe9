SPECIFICATION Spec
CONSTANTS
  None = None
  max_frame_age_s = 1
  max_age_s = 1
  realtime_vision_max_age_seconds = 2
  min_interval_s = 2
  MaxTime = 3
  Throttled = Throttled
  Torn = Torn
  Labels = {"person"}
  Places = {1, 3, 4, 5, 7}
  match_distance = 3
  move_threshold = 2
  max_missing_frames = 1
  MaxDetections = 2
  MaxTracks = 3
  Callers = {c1, c2}
  Pollers = {p1, p2}
  MaxPolled = 2
  Ids = {x, y, z}
  Scores = {1, 2}
  switch_score_margin = 1
  switch_hold_frames = 2
  max_misses = 1
  MaxCandidates = 2
  TargetAngles = {0, 2}
  ptz_min_angle_delta = 1
  max_items = 2
  MaxEvents = 3
  Unit = 2
  frame_width = 6
  yaw_pan_min = 4
  yaw_pan_max = 12
  home_angle = 8
  Span = 8
  yaw_deadband = 1
  step_gain = 9
  yaw_max_step = 3
  min_command_interval_s = 2
  alpha = 4
  Targets = {7, 20}
  pan_min = 0
  pan_max = 9
  home_pan = 4
  MaxError = 2
  deadband = 1
  pan_gain = 2
  max_step = 3
  min_angle_delta = 2
  lost_decay_step = 2
  hold_frames = 2
  lost_hold_frames = 1
  min_action_interval_s = 1
  Enrollers = {e1, e2}
  People = {p}
  MaxEmbeddings = 2
  max_picture_age_s = 1
  MaxClock = 3
  Passers = {f1, f2}
INVARIANTS
  TypeOK
  
  EventsTellTheScene
  EyeIsConsistent
  
  FoundWhereItIs
  ControllersKnowTheHead
  PeopleAreRemembered
  
  
PROPERTIES
  SwitchIsEarned
CHECK_DEADLOCK FALSE
