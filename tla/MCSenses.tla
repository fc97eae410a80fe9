------------------------------- MODULE MCSenses -------------------------------
(***************************************************************************)
(* The components of sight and motion around the neck's loop, for TLC: the *)
(* vision process, its scene, the eye service, the tracker, the readers of *)
(* a box, the identities, the requests to the head, the two other neck     *)
(* controllers, the answer to what the head sees, and the neck's target.   *)
(* They share no state, so one of them is in focus for a whole behaviour   *)
(* and the others stay where they start: the state space is the sum of     *)
(* theirs, not the product.                                                *)
(***************************************************************************)
EXTENDS Integers

CONSTANTS None,
          max_frame_age_s, max_age_s, realtime_vision_max_age_seconds,  \* VisionLoop
          min_interval_s, MaxTime, Throttled, Torn,
          Labels, Places, match_distance, move_threshold,               \* SceneTracks
          max_missing_frames, MaxDetections, MaxTracks,
          Callers, Pollers, MaxPolled,                                  \* EyeService
          Ids, Scores, switch_score_margin, switch_hold_frames,         \* VisualTracker
          max_misses, MaxCandidates,
          TargetAngles, ptz_min_angle_delta, max_items, MaxEvents,      \* HeadActions
          Unit, frame_width,                                            \* DetectionBoxes
          yaw_pan_min, yaw_pan_max, home_angle, Span, yaw_deadband,     \* YawControl
          step_gain, yaw_max_step, min_command_interval_s, alpha, Targets,
          pan_min, pan_max, home_pan, MaxError, deadband, pan_gain,     \* VisionFollow
          max_step, min_angle_delta, lost_decay_step, hold_frames, lost_hold_frames,
          min_action_interval_s,
          Enrollers, People, MaxEmbeddings,                             \* IdentityMemory
          max_picture_age_s, MaxClock,                                  \* RealtimeAnswer
          Passers                                                       \* NeckTarget

VARIABLES
    focus,
    vision_pc, now, updated_at, last_frame, last_export_at, kept_frame, status, evidence,
    identities, tmp, file, held,
    scene_tracks, next_ids, objects, told,
    eye_pc, eye_held, frame, stale, latest_status, scene_key, scene, answer, thread, alive,
    stop_event,
    tracks, active_track, pending_switch, pending_frames, led,
    body, voice, step, request, outcome, journalled, ptz_last_target_angle, head, records,
    head_now, stamp, raised, overlapped, far, crowded,
    box, normalized, form, piped, reader, reading,
    last_angle, desired_angle, last_commanded_angle, last_target_x, since, reason,
    yaw_pending, servo, refused,
    current_pan, last_commanded_pan, smoothed_error, bias_direction, bias_count,
    since_action, lost_frames, mode, follow_head, recent,
    identity_file, registry, saving, known, sighting, waiting, told_ago, returned,
    registry_meddled, crashed, repeated, excused,
    stage, clock, asked_at, candidates, judged, given, shown, had,
    acquainted, track_ids, detected, crops, throttled, observations, repeated_last, target

Vision == INSTANCE VisionLoop WITH pc <- vision_pc
Scene == INSTANCE SceneTracks WITH tracks <- scene_tracks
Eye == INSTANCE EyeService WITH MaxFrames <- MaxPolled, pc <- eye_pc, held <- eye_held
Tracker == INSTANCE VisualTracker WITH active <- active_track, pending <- pending_switch
Actions == INSTANCE HeadActions WITH now <- head_now
Boxes == INSTANCE DetectionBoxes
Yaw == INSTANCE YawControl WITH
           pending <- yaw_pending, pan_min <- yaw_pan_min, pan_max <- yaw_pan_max,
           deadband <- yaw_deadband, max_step <- yaw_max_step
Follow == INSTANCE VisionFollow WITH since <- since_action, head <- follow_head
Identity == INSTANCE IdentityMemory WITH
                file <- identity_file, meddled <- registry_meddled
Answer == INSTANCE RealtimeAnswer WITH realtime_vision_max_age_seconds <- max_picture_age_s
Target == INSTANCE NeckTarget WITH People <- Passers

vision == <<vision_pc, now, updated_at, last_frame, last_export_at, kept_frame, status,
            evidence, identities, tmp, file, held>>
bridge == <<scene_tracks, next_ids, objects, told>>
eye == <<eye_pc, eye_held, frame, stale, latest_status, scene_key, scene, answer, thread,
         alive, stop_event>>
tracker == <<tracks, active_track, pending_switch, pending_frames, led>>
actions == <<body, voice, step, request, outcome, journalled, ptz_last_target_angle, head,
             records, head_now, stamp, raised, overlapped, far, crowded>>
boxes == <<box, normalized, form, piped, reader, reading>>
yaw == <<last_angle, desired_angle, last_commanded_angle, last_target_x, since, reason,
         yaw_pending, servo, refused>>
follow == <<current_pan, last_commanded_pan, smoothed_error, bias_direction, bias_count,
            since_action, lost_frames, mode, follow_head, recent>>
identity == <<identity_file, registry, saving, known, sighting, waiting, told_ago, returned,
              registry_meddled, crashed, repeated, excused>>
vision_answer == <<stage, clock, asked_at, candidates, judged, given, shown, had>>
neck_target == <<acquainted, track_ids, detected, crops, throttled, observations,
                 repeated_last, target>>
vars == <<focus, vision, bridge, eye, tracker, actions, boxes, yaw, follow, identity,
          vision_answer, neck_target>>

\* Each component's assumption about its constants.
ASSUME SensesAssumption ==
    /\ Vision!VisionAssumption /\ Scene!SceneAssumption /\ Eye!ServiceAssumption
    /\ Tracker!TrackerAssumption /\ Actions!ActionsAssumption /\ Boxes!BoxesAssumption
    /\ Yaw!YawAssumption /\ Follow!FollowAssumption /\ Identity!IdentityAssumption
    /\ Answer!AnswerAssumption /\ Target!TargetAssumption

Init ==
    /\ focus \in {"vision", "bridge", "eye", "tracker", "actions", "boxes", "yaw", "follow",
                 "identity", "answer", "target"}
    /\ Vision!Init /\ Scene!Init /\ Eye!Init /\ Tracker!Init /\ Actions!Init /\ Boxes!Init
    /\ Yaw!Init /\ Follow!Init /\ Identity!Init /\ Answer!Init /\ Target!Init
    /\ focus # "actions" => body = {} /\ voice = None
    /\ focus # "target" => acquainted = {} /\ ~track_ids

Next ==
    /\ UNCHANGED focus
    /\ IF focus # "vision" THEN UNCHANGED vision ELSE TRUE
    /\ IF focus # "bridge" THEN UNCHANGED bridge ELSE TRUE
    /\ IF focus # "eye" THEN UNCHANGED eye ELSE TRUE
    /\ IF focus # "tracker" THEN UNCHANGED tracker ELSE TRUE
    /\ IF focus # "actions" THEN UNCHANGED actions ELSE TRUE
    /\ IF focus # "boxes" THEN UNCHANGED boxes ELSE TRUE
    /\ IF focus # "yaw" THEN UNCHANGED yaw ELSE TRUE
    /\ IF focus # "follow" THEN UNCHANGED follow ELSE TRUE
    /\ IF focus # "identity" THEN UNCHANGED identity ELSE TRUE
    /\ IF focus # "answer" THEN UNCHANGED vision_answer ELSE TRUE
    /\ IF focus # "target" THEN UNCHANGED neck_target ELSE TRUE
    /\ CASE focus = "vision" -> Vision!Next
         [] focus = "bridge" -> Scene!Next
         [] focus = "eye" -> Eye!Next
         [] focus = "tracker" -> Tracker!Next
         [] focus = "actions" -> Actions!Next
         [] focus = "boxes" -> Boxes!Next
         [] focus = "yaw" -> Yaw!Next
         [] focus = "follow" -> Follow!Next
         [] focus = "identity" -> Identity!Next
         [] focus = "answer" -> Answer!Next
         [] focus = "target" -> Target!Next

Spec == Init /\ [][Next]_vars

-----------------------------------------------------------------------------

\* Each component's state has its type.
TypeOK ==
    CASE focus = "vision" -> Vision!TypeOK
      [] focus = "bridge" -> Scene!TypeOK
      [] focus = "eye" -> Eye!TypeOK
      [] focus = "tracker" -> Tracker!TypeOK
      [] focus = "actions" -> Actions!TypeOK
      [] focus = "boxes" -> Boxes!TypeOK
      [] focus = "yaw" -> Yaw!TypeOK
      [] focus = "follow" -> Follow!TypeOK
      [] focus = "identity" -> Identity!TypeOK
      [] focus = "answer" -> Answer!TypeOK
      [] focus = "target" -> Target!TypeOK

\* Healthy means a picture of at most max_age_s, the people shown with it were cut from a
\* recent sample, and a reader never sees half a state file (vision_loop.py,
\* updated_at, last_identity_observations and write_vision_state; native_services.py,
\* StateFileEyeAdapter; gstreamer.py, export).
ShownIsRecent ==
    focus = "vision" =>
        Vision!HealthyMeansRecent /\ Vision!PeopleAreRecent /\ Vision!NeverTorn

\* The events of the scene tell every live track and its region (scene.py, update).
EventsTellTheScene == focus = "bridge" => Scene!EventsTellTheScene

\* An observation is given out with the scene of its own status, and at most one thread
\* polls the adapter (service.py, _attach_scene_bridge; start and stop).
EyeIsConsistent == focus = "eye" => Eye!ObservationHasItsScene /\ Eye!OnePoller

\* The target changes only to one that led long enough (tracking.py,
\* _confirm_pending_switch).
SwitchIsEarned == Tracker!SwitchIsEarned

\* A move is dismissed as jitter only when the head is that near to it, and the journal
\* is in the order of its times while one thread at a time appends to it (app.py,
\* _maybe_suppress_ptz_jitter against _dispatch_actions_with_body; event_journal.py,
\* append).
ActionsAreRemembered ==
    focus = "actions" => Actions!SuppressedIsNear /\ Actions!ChronologicalUnlessCrowded

\* A detection in the frame is found where it is by each of its five readers, whatever
\* the form of its box, except for the forms a reader takes for something else.
FoundWhereItIs == focus = "boxes" => Boxes!FoundWhereItIs

\* Of the two other neck controllers.  A command is left out as a repetition only if the
\* servo is there (yaw.py, decide; neck_servo.py, apply_decision).  A lost target brings
\* the head home in a bounded number of frames, the head is where the planner believes
\* it, and it turned only to what was off the middle on one side for hold_frames frames
\* (vision_follow.py, _plan_lost_target and _update_bias_state).
ControllersKnowTheHead ==
    /\ focus = "yaw" => Yaw!SameAngleIsThere
    /\ focus = "follow" =>
           Follow!LostComesHome /\ Follow!NearWhereBelieved /\ Follow!TrackIsEarned

\* Whoever was enrolled is in the registry's file, and the memory hears of a person at
\* most once in min_interval_s (registry.py, enroll_or_update and _save;
\* identity_memory.py, ingest_identity_observation).
PeopleAreRemembered == focus = "identity" => Identity!EnrolledSurvives /\ Identity!ToldOnce

\* What the head says it sees was fresh when it was asked, and no realtime source that had
\* a fresh picture is passed over (app.py, vision_realtime and its candidates).
AnswerIsHonest == focus = "answer" => Answer!AnswerIsHonest

\* The neck's target is one person, called known only if the registry knows that person
\* (app.py, _extract_visual_reframe_target, _matching_face_crop and
\* _candidate_has_known_identity).
TargetIsOnePerson == focus = "target" => Target!TargetIsOnePerson
=============================================================================
