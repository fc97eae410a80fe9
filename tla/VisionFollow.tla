---------------------------- MODULE VisionFollow ----------------------------
(***************************************************************************)
(* neck/vision_follow.py: plan_pan_follow_action with its                  *)
(* VisionFollowState, for a caller that moves the head on an action of     *)
(* mode track or decay and does nothing on a hold.                         *)
(*                                                                         *)
(* Errors are steps from the middle of the frame, angles steps of the pan. *)
(* A smoothed error is some error between the last one and the new one:    *)
(* which one depends on smoothing.                                         *)
(***************************************************************************)
EXTENDS Integers, FiniteSetsExt, Sequences

CONSTANTS pan_min, pan_max, home_pan,
          MaxError, deadband,       \* in errors
          pan_gain,                 \* pan steps for an error of one
          max_step, min_angle_delta, lost_decay_step,
          hold_frames, lost_hold_frames,
          min_action_interval_s,
          None

\* What is assumed of the constants.
FollowAssumption ==
    /\ {pan_min, pan_max, home_pan, MaxError, deadband, pan_gain, max_step, min_angle_delta,
        lost_decay_step, hold_frames, lost_hold_frames, min_action_interval_s} \subseteq Nat
    /\ pan_min <= home_pan /\ home_pan <= pan_max /\ lost_decay_step > 0
    /\ None \notin Int

VARIABLES current_pan, last_commanded_pan,
          smoothed_error, bias_direction, bias_count,
          since,        \* seconds since last_action_ts, as far as they matter
          lost_frames,
          mode,         \* of the last action
          head,         \* where the actions have turned the head
          recent          \* history: the smoothed errors since the last loss, newest last

followed == <<smoothed_error, bias_direction, bias_count, recent>>
vars == <<current_pan, last_commanded_pan, followed, since, lost_frames, mode, head>>

Pans == pan_min .. pan_max
Errors == -MaxError .. MaxError
Needed == Max({1, hold_frames})
Distance(a, b) == IF a < b THEN b - a ELSE a - b
Magnitude(a) == Distance(a, 0)
Clamped(a, low, high) == IF a < low THEN low ELSE IF a > high THEN high ELSE a

\* As long as a lost target is not home; beyond that the count makes no difference.
MaxLost == lost_hold_frames + (pan_max - pan_min) + 1

TypeOK ==
    /\ current_pan \in Pans /\ last_commanded_pan \in Pans \cup {None} /\ head \in Pans
    /\ smoothed_error \in Errors /\ bias_direction \in {-1, 0, 1}
    /\ bias_count \in 0 .. Needed /\ (bias_count = 0 <=> bias_direction = 0)
    /\ since \in 0 .. min_action_interval_s \cup {None}
    /\ lost_frames \in 0 .. MaxLost
    /\ mode \in {"none", "hold", "track", "decay"}
    /\ recent \in UNION {[1 .. n -> Errors] : n \in 0 .. Needed}

Init ==
    /\ current_pan = home_pan /\ last_commanded_pan = None /\ head = home_pan
    /\ smoothed_error = 0 /\ bias_direction = 0 /\ bias_count = 0
    /\ since = None /\ lost_frames = 0 /\ mode = "none" /\ recent = <<>>

-----------------------------------------------------------------------------

\* The last Needed of them are all that counts.
Noted(error) ==
    LET errors == Append(recent, error)
    IN  IF Len(errors) > Needed THEN Tail(errors) ELSE errors

Hold ==
    /\ mode' = "hold"
    /\ UNCHANGED <<current_pan, last_commanded_pan, since, head>>

\* A command: the head follows it.
Turn(pan, how) ==
    /\ current_pan' = pan /\ last_commanded_pan' = pan /\ head' = pan /\ mode' = how

Direction(error) == IF error > 0 THEN 1 ELSE -1

\* _update_bias_state
Counted(error) ==
    IF bias_direction # Direction(error) THEN 1 ELSE Min({bias_count + 1, Needed})

NextPan(error) ==
    Clamped(current_pan + Clamped(error * pan_gain, -max_step, max_step), pan_min, pan_max)

RateLimited == min_action_interval_s > 0 /\ since # None /\ since < min_action_interval_s

TooSmall(pan) ==
    last_commanded_pan # None /\ Distance(pan, last_commanded_pan) < min_angle_delta

\* A frame with a target.
Follow ==
    \E seen \in Errors :
        \E error \in Min({seen, smoothed_error}) .. Max({seen, smoothed_error}) :
            /\ smoothed_error' = error /\ recent' = Noted(error)
            /\ lost_frames' = 0
            /\ IF Magnitude(error) < deadband
               THEN bias_direction' = 0 /\ bias_count' = 0 /\ Hold
               ELSE /\ bias_direction' = Direction(error)
                    /\ bias_count' = Counted(error)
                    /\ IF bias_count' < Needed \/ RateLimited \/ TooSmall(NextPan(error))
                       THEN Hold
                       ELSE Turn(NextPan(error), "track") /\ since' = 0

\* The step home, or what is left of it.
Decayed ==
    LET step == Min({lost_decay_step, Distance(home_pan, current_pan)})
    IN  Clamped(IF home_pan > current_pan THEN current_pan + step ELSE current_pan - step,
                pan_min, pan_max)

\* Slip: the way home is only begun once.
LoseOnce ==
    /\ lost_frames' = Min({lost_frames + 1, MaxLost})
    /\ smoothed_error' = 0 /\ bias_direction' = 0 /\ bias_count' = 0 /\ recent' = <<>>
    /\ UNCHANGED since
    /\ IF lost_frames' # lost_hold_frames + 1 THEN Hold ELSE Turn(Decayed, "decay")

\* A frame without one: _plan_lost_target, which knows no interval.
Lose ==
    /\ lost_frames' = Min({lost_frames + 1, MaxLost})
    /\ smoothed_error' = 0 /\ bias_direction' = 0 /\ bias_count' = 0 /\ recent' = <<>>
    /\ UNCHANGED since
    /\ IF lost_frames' <= lost_hold_frames THEN Hold
       ELSE IF Distance(current_pan, home_pan) < min_angle_delta
       THEN /\ current_pan' = home_pan /\ last_commanded_pan' = home_pan /\ mode' = "hold"
            /\ UNCHANGED head
       ELSE Turn(Decayed, "decay")

Tick ==
    /\ since # None /\ since < min_action_interval_s
    /\ since' = since + 1
    /\ UNCHANGED <<current_pan, last_commanded_pan, followed, lost_frames, mode, head>>

Next == Follow \/ Lose \/ Tick

Spec == Init /\ [][Next]_vars

-----------------------------------------------------------------------------

\* A lost target brings the head home in a bounded number of frames: with every one after
\* the hold it is a step nearer, from wherever it was.
LostComesHome ==
    lost_frames > lost_hold_frames =>
        Distance(current_pan, home_pan) <=
            Max({0, (pan_max - pan_min) - lost_decay_step * (lost_frames - lost_hold_frames)})

\* The planner says hold when it takes the head for home; that is never further off than
\* the least angle it would command.
NearWhereBelieved == head = current_pan \/ Distance(head, current_pan) < min_angle_delta

\* The head follows only what was beyond the deadband on one side for hold_frames frames,
\* with no loss in between.
TrackIsEarned ==
    mode = "track" =>
        /\ Len(recent) = Needed
        /\ \A i \in DOMAIN recent : Magnitude(recent[i]) >= deadband
                                  /\ Direction(recent[i]) = bias_direction
=============================================================================
