--------------------------- MODULE MCSensesProofs ---------------------------
(***************************************************************************)
(* What the components of sight and motion promise, for every value of     *)
(* their constants.  Each has a section: its invariant, the steps that     *)
(* keep it, and the theorem of Spec.                                       *)
(***************************************************************************)
EXTENDS MCSenses, Sequences, SequenceTheorems, FiniteSetTheorems, WellFoundedInduction, TLAPS

-----------------------------------------------------------------------------
(* A component out of focus stays where it is. *)

LEMMA StepOfVision == [Next]_vars => [Vision!Next]_(Vision!vars)
  BY DEF Next, vars, vision, Vision!vars, Vision!pipeline

LEMMA StepOfScene == [Next]_vars => [Scene!Next]_(Scene!vars)
  BY DEF Next, vars, bridge, Scene!vars

LEMMA StepOfEye == [Next]_vars => [Eye!Next]_(Eye!vars)
  BY DEF Next, vars, eye, Eye!vars, Eye!adapter, Eye!cache, Eye!poller

LEMMA StepOfTracker == [Next]_vars => [Tracker!Next]_(Tracker!vars)
  BY DEF Next, vars, tracker, Tracker!vars

LEMMA StepOfActions == [Next]_vars => [Actions!Next]_(Actions!vars)
  BY DEF Next, vars, actions, Actions!vars, Actions!setup, Actions!handler, Actions!ptz,
         Actions!history

LEMMA StepOfBoxes == [Next]_vars => [Boxes!Next]_(Boxes!vars)
  BY DEF Next, vars, boxes, Boxes!vars

LEMMA StepOfYaw == [Next]_vars => [Yaw!Next]_(Yaw!vars)
  BY DEF Next, vars, yaw, Yaw!vars, Yaw!controller

LEMMA StepOfFollow == [Next]_vars => [Follow!Next]_(Follow!vars)
  BY DEF Next, vars, follow, Follow!vars, Follow!followed

LEMMA StepOfIdentity == [Next]_vars => [Identity!Next]_(Identity!vars)
  BY DEF Next, vars, identity, Identity!vars, Identity!registries, Identity!memory

LEMMA StepOfAnswer == [Next]_vars => [Answer!Next]_(Answer!vars)
  BY DEF Next, vars, vision_answer, Answer!vars

LEMMA StepOfTarget == [Next]_vars => [Target!Next]_(Target!vars)
  BY DEF Next, vars, neck_target, Target!vars

-----------------------------------------------------------------------------
(* The greater and the less of two numbers, as the components choose them. *)

LEMMA Greater ==
    ASSUME NEW a \in Int, NEW b \in Int
    PROVE  (CHOOSE x \in {a, b} : \A y \in {a, b} : x >= y) = IF a >= b THEN a ELSE b
<1> DEFINE m == IF a >= b THEN a ELSE b
<1>1. m \in {a, b} /\ \A y \in {a, b} : m >= y
  OBVIOUS
<1>2. \A x \in {a, b} : (\A y \in {a, b} : x >= y) => x = m
  OBVIOUS
<1> HIDE DEF m
<1>3. (CHOOSE x \in {a, b} : \A y \in {a, b} : x >= y) = m
  BY <1>1, <1>2
<1> QED
  BY <1>3 DEF m

LEMMA Less ==
    ASSUME NEW a \in Int, NEW b \in Int
    PROVE  (CHOOSE x \in {a, b} : \A y \in {a, b} : x <= y) = IF a <= b THEN a ELSE b
<1> DEFINE m == IF a <= b THEN a ELSE b
<1>1. m \in {a, b} /\ \A y \in {a, b} : m <= y
  OBVIOUS
<1>2. \A x \in {a, b} : (\A y \in {a, b} : x <= y) => x = m
  OBVIOUS
<1> HIDE DEF m
<1>3. (CHOOSE x \in {a, b} : \A y \in {a, b} : x <= y) = m
  BY <1>1, <1>2
<1> QED
  BY <1>3 DEF m

-----------------------------------------------------------------------------
(* The eye service (EyeService). *)

\* The scene at hand was made of what its key says, and nobody polls but the thread that
\* is known.
EyeInv ==
    /\ scene = scene_key
    /\ Eye!ObservationHasItsScene
    /\ alive \subseteq {thread}

\* What a thread does that neither attaches a scene nor starts or ends a poller leaves
\* alone all that the invariant speaks of.
LEMMA OthersKeepEyeInv ==
    ASSUME EyeInv, UNCHANGED <<Eye!cache, thread, alive>>
    PROVE  EyeInv'
  BY DEF EyeInv, Eye!ObservationHasItsScene, Eye!cache

\* A scene is only used again for the observation it was made of.
LEMMA AttachKeepsEyeInv ==
    ASSUME NEW c \in Callers, EyeInv, Eye!Attach(c)
    PROVE  EyeInv'
<1>1. scene_key' = eye_held[c] /\ scene' = eye_held[c]
  BY DEF Eye!Attach, Eye!KeyOf, EyeInv
<1>2. answer'.scene = answer'.observation
  BY <1>1 DEF Eye!Attach
<1> QED
  BY <1>1, <1>2 DEF EyeInv, Eye!ObservationHasItsScene, Eye!Attach, Eye!poller

\* A poller is started only when the last one has ended.
LEMMA StartKeepsEyeInv ==
    ASSUME NEW c \in Callers, EyeInv, Eye!Start(c)
    PROVE  EyeInv'
<1>1. alive = {}
  BY DEF Eye!Start, Eye!Polling, EyeInv
<1>2. alive' = {thread'}
  BY <1>1 DEF Eye!Start
<1> QED
  BY <1>2 DEF EyeInv, Eye!ObservationHasItsScene, Eye!Start, Eye!cache

\* Every step keeps the invariant.
LEMMA NextKeepsEyeInv == EyeInv /\ [Eye!Next]_(Eye!vars) => EyeInv'
<1> SUFFICES ASSUME EyeInv, [Eye!Next]_(Eye!vars) PROVE EyeInv'
  OBVIOUS
<1>1. CASE Eye!FrameAges
  BY <1>1, OthersKeepEyeInv DEF Eye!FrameAges, Eye!poller
<1>2. ASSUME NEW c \in Callers,
             \/ Eye!Call(c) \/ Eye!Raises(c) \/ Eye!Observe(c) \/ Eye!Stop(c) \/ Eye!Join(c)
      PROVE  EyeInv'
  BY <1>2, OthersKeepEyeInv
  DEF Eye!Call, Eye!Raises, Eye!Observe, Eye!Stop, Eye!Join, Eye!poller
<1>3. ASSUME NEW c \in Callers, Eye!Attach(c) PROVE EyeInv'
  BY <1>3, AttachKeepsEyeInv
<1>4. ASSUME NEW c \in Callers, Eye!Start(c) PROVE EyeInv'
  BY <1>4, StartKeepsEyeInv
<1>5. ASSUME NEW p \in Pollers, Eye!Poll(p) PROVE EyeInv'
  BY <1>5, OthersKeepEyeInv DEF Eye!Poll, Eye!poller
<1>6. ASSUME NEW p \in Pollers, Eye!PollerEnds(p) PROVE EyeInv'
  BY <1>6 DEF Eye!PollerEnds, EyeInv, Eye!ObservationHasItsScene, Eye!cache
<1>7. ASSUME NEW t \in Eye!Threads, Eye!ReadAdapter(t) \/ Eye!Store(t) PROVE EyeInv'
  BY <1>7, OthersKeepEyeInv DEF Eye!ReadAdapter, Eye!Store, Eye!poller
<1>8. CASE UNCHANGED Eye!vars
  BY <1>8, OthersKeepEyeInv DEF Eye!vars, Eye!poller
<1> QED
  BY <1>1, <1>2, <1>3, <1>4, <1>5, <1>6, <1>7, <1>8 DEF Eye!Next

LEMMA OnePollerIsKnown == EyeInv => Eye!OnePoller
<1> SUFFICES ASSUME EyeInv PROVE Eye!OnePoller
  OBVIOUS
<1>1. alive = {} \/ alive = {thread}
  BY DEF EyeInv
<1>2. Cardinality({}) = 0 /\ Cardinality({thread}) = 1
  BY FS_EmptySet, FS_Singleton
<1>3. Cardinality(alive) \in {0, 1}
  BY <1>1, <1>2
<1> QED
  BY <1>3 DEF Eye!OnePoller, Eye!Cardinality, Cardinality

\* An observation shows the scene of its own status, whatever polls and requests come
\* between reading the adapter and asking the scene bridge; and the adapter is never polled
\* by two threads, whatever starts, stops and joins that time out follow each other
\* (service.py, _attach_scene_bridge, start and stop).
THEOREM SpecEyeIsConsistent == Spec => []EyeIsConsistent
<1>1. Init => EyeInv
  BY DEF Init, Eye!Init, EyeInv, Eye!ObservationHasItsScene
<1>2. EyeInv => EyeIsConsistent
  BY OnePollerIsKnown DEF EyeInv, EyeIsConsistent
<1> QED
  BY <1>1, <1>2, StepOfEye, NextKeepsEyeInv, PTL DEF Spec

-----------------------------------------------------------------------------
(* The tracker (VisualTracker). *)

\* Whoever is about to take over has led in as many frames as it is credited with.
TrackerInv ==
    /\ led \in [Ids -> Nat] /\ pending_frames \in Nat
    /\ active_track \in Ids \cup {None} /\ pending_switch \in Ids \cup {None}
    /\ pending_switch # None => pending_frames <= led[pending_switch]

\* The best candidate of a frame.
LEMMA BestIsSomeone ==
    ASSUME NEW f \in Tracker!Frames \ {<<>>}
    PROVE  f[1] \in Tracker!Candidate /\ f[1].id \in Ids
<1>1. PICK n \in 0 .. MaxCandidates : f \in [1 .. n -> Tracker!Candidate]
  BY DEF Tracker!Frames
<1>2. n # 0
  <2> SUFFICES ASSUME n = 0 PROVE FALSE
    OBVIOUS
  <2> QED
    BY <1>1
<1>3. MaxCandidates \in Nat
  BY SensesAssumption DEF Tracker!TrackerAssumption
<1>4. 1 \in 1 .. n
  BY <1>2, <1>3
<1> QED
  BY <1>1, <1>4 DEF Tracker!Candidate

\* The target changes only to one that has led long enough.
LEMMA UpdateIsEarned ==
    ASSUME TrackerInv, NEW f \in Tracker!Frames \ {<<>>}, Tracker!Update(f)
    PROVE  /\ TrackerInv'
           /\ active_track # None /\ active_track' \notin {None, active_track}
                  => led[active_track'] + 1 >= switch_hold_frames
<1> DEFINE best == f[1]
           noted == Tracker!Noted(f)
<1>0. best.id \in Ids
  BY BestIsSomeone
<1>1. /\ None \notin Ids /\ switch_hold_frames \in Nat \ {0}
  BY SensesAssumption DEF Tracker!TrackerAssumption
<1> HIDE DEF best, noted
<1>2. ASSUME Tracker!Activate(best, noted) PROVE TrackerInv' /\ active_track' = best.id
  BY <1>0, <1>1, <1>2 DEF Tracker!Activate, Tracker!NoneLed, TrackerInv
<1>3. ASSUME Tracker!HoldMissing(noted) PROVE active_track' \in {None, active_track}
  BY <1>3 DEF Tracker!HoldMissing
<1>4. CASE active_track = None /\ Tracker!Activate(best, noted)
  BY <1>2, <1>4
<1>5. CASE /\ Tracker!NoPending /\ UNCHANGED <<active_track, led>>
  BY <1>1, <1>5 DEF Tracker!NoPending, TrackerInv
<1>6. CASE Tracker!HoldMissing(noted) /\ UNCHANGED <<pending_switch, pending_frames, led>>
  BY <1>3, <1>6 DEF TrackerInv
<1>7. CASE active_track # None /\ best.id # active_track /\ Tracker!Challenge(f, best, noted)
  <2>1. /\ Tracker!Confirmed(best) \in Nat
        /\ Tracker!Confirmed(best) <= led[best.id] + 1 /\ led[best.id] \in Nat
    BY <1>0, <1>1 DEF Tracker!Confirmed, TrackerInv
  <2>2. CASE Tracker!Confirmed(best) >= switch_hold_frames
    BY <1>1, <1>2, <1>7, <2>1, <2>2 DEF Tracker!Challenge
  <2>3. CASE ~(Tracker!Confirmed(best) >= switch_hold_frames)
    <3>1. /\ pending_switch' = best.id /\ pending_frames' = Tracker!Confirmed(best)
          /\ led' = [led EXCEPT ![best.id] = IF @ < switch_hold_frames THEN @ + 1 ELSE @]
          /\ active_track' \in {None, active_track}
      BY <1>3, <1>7, <2>3 DEF Tracker!Challenge
    <3>2. led' \in [Ids -> Nat] /\ pending_frames' <= led'[best.id]
      BY <1>0, <1>1, <2>1, <2>3, <3>1 DEF TrackerInv
    <3> QED
      BY <1>0, <2>1, <3>1, <3>2 DEF TrackerInv
  <2> QED
    BY <2>2, <2>3
<1> QED
  BY <1>4, <1>5, <1>6, <1>7 DEF Tracker!Update, best, noted

\* A step keeps the invariant, and changes the target only as it may.
LEMMA NextIsEarned ==
    ASSUME TrackerInv, [Tracker!Next]_(Tracker!vars)
    PROVE  /\ TrackerInv'
           /\ active_track # None /\ active_track' \notin {None, active_track}
                  => led[active_track'] + 1 >= switch_hold_frames
<1>1. CASE Tracker!UpdateEmpty
  BY <1>1, SensesAssumption
  DEF Tracker!UpdateEmpty, Tracker!NoPending, Tracker!HoldMissing, TrackerInv,
      Tracker!TrackerAssumption
<1>2. CASE \E f \in Tracker!Frames \ {<<>>} : Tracker!Update(f)
  BY <1>2, UpdateIsEarned
<1>3. CASE UNCHANGED Tracker!vars
  BY <1>3 DEF Tracker!vars, TrackerInv
<1> QED
  BY <1>1, <1>2, <1>3 DEF Tracker!Next

\* The target changes only to one that led long enough, for any number of candidates,
\* margins and frames to hold (tracking.py, _confirm_pending_switch).
THEOREM SpecSwitchIsEarned == Spec => SwitchIsEarned
<1>1. Init => TrackerInv
  BY DEF Init, Tracker!Init, TrackerInv
<1>2. TrackerInv /\ [Next]_vars => TrackerInv'
  BY StepOfTracker, NextIsEarned
<1>3. TrackerInv /\ [Next]_vars =>
        [active_track # None /\ active_track' \notin {None, active_track}
            => led[active_track'] + 1 >= switch_hold_frames]_(Tracker!vars)
  BY StepOfTracker, NextIsEarned
<1> QED
  BY <1>1, <1>2, <1>3, PTL DEF Spec, SwitchIsEarned, Tracker!SwitchIsEarned

-----------------------------------------------------------------------------
(* The yaw controller (YawControl). *)

\* The controller's angles are within its limits; the servo is where the last command put
\* it, unless the driver has yet to be asked or has refused; and a repetition is one of the
\* last command.
YawInv ==
    /\ last_angle \in Yaw!Angles /\ last_commanded_angle \in Yaw!Angles \cup {None}
    /\ {yaw_pending, refused} \subseteq BOOLEAN
    /\ yaw_pending => reason = ""
    /\ ~yaw_pending /\ ~refused => servo = last_commanded_angle
    /\ reason = "same_angle" => desired_angle = last_commanded_angle

\* The constants are whole numbers and there is an angle between the limits.
LEMMA YawConstants ==
    /\ {yaw_pan_min, yaw_pan_max, home_angle, yaw_deadband, step_gain, yaw_max_step} \subseteq Int
    /\ yaw_pan_min <= yaw_pan_max /\ alpha \in Nat \ {0} /\ Span \in Nat \ {0}
    /\ Targets \subseteq Int /\ None \notin Int
    /\ Yaw!Angles \subseteq Int /\ Yaw!Errors \subseteq Int
  BY SensesAssumption DEF Yaw!YawAssumption, Yaw!Angles, Yaw!Errors

\* A clipped angle is within the limits, and one within them is not changed.
LEMMA ClippedIsWithin ==
    ASSUME NEW a \in Int
    PROVE  /\ Yaw!ClipAngle(a) \in Yaw!Angles
           /\ a \in Yaw!Angles => Yaw!ClipAngle(a) = a
  BY YawConstants DEF Yaw!ClipAngle, Yaw!Clipped, Yaw!Angles

LEMMA RoundedIsWhole ==
    ASSUME NEW a \in Int, NEW b \in Nat \ {0}
    PROVE  Yaw!Rounded(a, b) \in Int
<1>1. a \div b \in Int
  OBVIOUS
<1> QED
  BY <1>1 DEF Yaw!Rounded

\* A target is turned to by an angle within the limits.
LEMMA SmoothedIsWithin ==
    ASSUME YawInv, NEW error \in Yaw!Errors
    PROVE  Yaw!Smoothed(error) \in Yaw!Angles
<1>0. error \in Int /\ last_angle \in Int
  BY YawConstants DEF YawInv
<1>1. Yaw!Rounded(error * step_gain, Span) \in Int
  <2>1. error * step_gain \in Int
    BY <1>0, YawConstants
  <2> QED
    BY <2>1, YawConstants, RoundedIsWhole
<1>2. Yaw!Delta(error) \in Int
  BY <1>0, <1>1, YawConstants DEF Yaw!Delta, Yaw!Clipped, Yaw!Sign
<1> DEFINE stepped == Yaw!ClipAngle(last_angle + Yaw!Delta(error))
           smoothed == IF last_target_x = None THEN stepped
                       ELSE Yaw!Rounded(last_angle * alpha + stepped - last_angle, alpha)
           moved == IF smoothed = last_angle THEN last_angle + Yaw!Sign(error) ELSE smoothed
<1>3. stepped \in Int
  <2>1. last_angle + Yaw!Delta(error) \in Int
    BY <1>0, <1>2
  <2> QED
    BY <2>1, ClippedIsWithin, YawConstants
<1>4. Yaw!Rounded(last_angle * alpha + stepped - last_angle, alpha) \in Int
  <2> HIDE DEF stepped
  <2>1. last_angle * alpha + stepped - last_angle \in Int
    BY <1>0, <1>3, YawConstants
  <2> QED
    BY <2>1, RoundedIsWhole, YawConstants
<1>5. Yaw!Smoothed(error) = Yaw!ClipAngle(moved)
  BY DEF Yaw!Smoothed
<1>6. moved \in Int
  <2>1. smoothed \in Int
    BY <1>3, <1>4
  <2> HIDE DEF smoothed
  <2> QED
    BY <1>0, <2>1 DEF Yaw!Sign
<1> QED
  BY <1>5, <1>6, ClippedIsWithin

\* What is decided once the angle is known.
LEMMA SettleKeepsYawInv ==
    ASSUME YawInv, ~yaw_pending, NEW angle \in Yaw!Angles, NEW error, Yaw!Settle(angle, error)
    PROVE  YawInv'
<1>0. Yaw!ClipAngle(angle) = angle
  BY ClippedIsWithin, YawConstants
<1>1. CASE Yaw!SameAngle(angle) /\ Yaw!Suppress("same_angle", angle, error)
  BY <1>0, <1>1 DEF Yaw!SameAngle, Yaw!Suppress, YawInv
<1>2. CASE Yaw!Suppress("min_interval", angle, error)
  BY <1>2 DEF Yaw!Suppress, YawInv
<1>3. CASE Yaw!Command(angle, error)
  BY <1>3 DEF Yaw!Command, YawInv
<1> QED
  BY <1>1, <1>2, <1>3 DEF Yaw!Settle

LEMMA NextKeepsYawInv == YawInv /\ [Yaw!Next]_(Yaw!vars) => YawInv'
<1> SUFFICES ASSUME YawInv, [Yaw!Next]_(Yaw!vars) PROVE YawInv'
  OBVIOUS
<1>1. CASE Yaw!DecideUnfit
  <2>1. PICK why \in {"intent_expired", "low_confidence"}, error \in Yaw!Errors \cup {None} :
           Yaw!Suppress(why, last_angle, error)
    BY <1>1 DEF Yaw!DecideUnfit
  <2>2. ~yaw_pending
    BY <1>1 DEF Yaw!DecideUnfit
  <2> QED
    BY <2>1, <2>2 DEF Yaw!Suppress, YawInv
<1>2. CASE Yaw!DecideTarget
  <2>1. ~yaw_pending
    BY <1>2 DEF Yaw!DecideTarget
  <2>2. PICK error \in Yaw!Errors :
           IF Yaw!Magnitude(error) <= yaw_deadband
           THEN Yaw!Suppress("deadband", last_angle, error)
           ELSE Yaw!Settle(Yaw!Smoothed(error), error)
    BY <1>2 DEF Yaw!DecideTarget
  <2>3. CASE Yaw!Suppress("deadband", last_angle, error)
    BY <2>1, <2>3 DEF Yaw!Suppress, YawInv
  <2>4. CASE Yaw!Settle(Yaw!Smoothed(error), error)
    BY <2>1, <2>4, SmoothedIsWithin, SettleKeepsYawInv
  <2> QED
    BY <2>2, <2>3, <2>4
<1>3. CASE Yaw!DecideAngle
  BY <1>3, ClippedIsWithin, SettleKeepsYawInv, YawConstants DEF Yaw!DecideAngle
<1>4. CASE Yaw!Apply
  BY <1>4 DEF Yaw!Apply, Yaw!controller, YawInv
<1>5. CASE Yaw!Tick
  BY <1>5 DEF Yaw!Tick, YawInv
<1>6. CASE UNCHANGED Yaw!vars
  BY <1>6 DEF Yaw!vars, Yaw!controller, YawInv
<1> QED
  BY <1>1, <1>2, <1>3, <1>4, <1>5, <1>6 DEF Yaw!Next

LEMMA InitYawInv == Init => YawInv
<1> SUFFICES ASSUME Yaw!Init PROVE YawInv
  BY DEF Init
<1>1. home_angle \in Yaw!Angles
  BY SensesAssumption DEF Yaw!YawAssumption, Yaw!Angles
<1> QED
  BY <1>1 DEF Yaw!Init, YawInv

LEMMA YawInvSuffices == YawInv => Yaw!SameAngleIsThere
  BY DEF YawInv, Yaw!SameAngleIsThere

-----------------------------------------------------------------------------
(* The follower (VisionFollow). *)

LEMMA FollowMax ==
    ASSUME NEW a \in Int, NEW b \in Int
    PROVE  Follow!Max({a, b}) = IF a >= b THEN a ELSE b
  BY Greater DEF Follow!Max

LEMMA FollowMin ==
    ASSUME NEW a \in Int, NEW b \in Int
    PROVE  Follow!Min({a, b}) = IF a <= b THEN a ELSE b
  BY Less DEF Follow!Min

\* The constants are whole numbers, and home is between the limits.
LEMMA FollowConstants ==
    /\ {pan_min, pan_max, home_pan, MaxError, deadband, pan_gain, max_step, min_angle_delta,
        lost_decay_step, hold_frames, lost_hold_frames, min_action_interval_s} \subseteq Nat
    /\ home_pan \in Follow!Pans /\ lost_decay_step >= 1
    /\ Follow!Pans \subseteq Int /\ Follow!Errors \subseteq Int
    /\ Follow!Needed \in Nat \ {0} /\ Follow!MaxLost \in Nat
<1>1. /\ {pan_min, pan_max, home_pan, MaxError, deadband, pan_gain, max_step, min_angle_delta,
          lost_decay_step, hold_frames, lost_hold_frames, min_action_interval_s} \subseteq Nat
      /\ pan_min <= home_pan /\ home_pan <= pan_max /\ lost_decay_step > 0
  BY SensesAssumption DEF Follow!FollowAssumption
<1>2. Follow!Needed \in Nat \ {0}
  BY <1>1, FollowMax DEF Follow!Needed
<1> QED
  BY <1>1, <1>2 DEF Follow!Pans, Follow!Errors, Follow!MaxLost

\* How far the head may be from home after `lost` frames without a target.
Allowed(lost) ==
    LET left == (pan_max - pan_min) - lost_decay_step * (lost - lost_hold_frames)
    IN  IF left >= 0 THEN left ELSE 0

\* A lost target comes home in time, and the head is where the planner believes it, or the
\* planner has taken it for home.
WayHome ==
    /\ current_pan \in Follow!Pans
    /\ lost_frames \in 0 .. Follow!MaxLost
    /\ lost_frames > lost_hold_frames =>
           Follow!Distance(current_pan, home_pan) <= Allowed(lost_frames)
    /\ \/ follow_head = current_pan
       \/ /\ current_pan = home_pan
          /\ Follow!Distance(follow_head, current_pan) < min_angle_delta

\* The last bias_count errors were all beyond the deadband on the side of the bias.
Earned(errors, count, side) ==
    /\ count <= Len(errors)
    /\ \A i \in 1 .. Len(errors) : i > Len(errors) - count =>
           Follow!Magnitude(errors[i]) >= deadband /\ Follow!Direction(errors[i]) = side

Bias ==
    /\ smoothed_error \in Follow!Errors
    /\ recent \in Seq(Int) /\ Len(recent) <= Follow!Needed
    /\ bias_count \in Nat /\ Earned(recent, bias_count, bias_direction)
    /\ mode = "track" => bias_count = Follow!Needed

\* One step more of the way home: with every frame the head is nearer by the step of the
\* decay, until it is there.
LEMMA OneStepNearer ==
    ASSUME NEW lost \in Nat, lost_hold_frames < lost
    PROVE  /\ Allowed(lost) \in Nat
           /\ lost > lost_hold_frames + 1 =>
                  Allowed(lost) = IF Allowed(lost - 1) <= lost_decay_step THEN 0
                                  ELSE Allowed(lost - 1) - lost_decay_step
           /\ lost = lost_hold_frames + 1 =>
                  Allowed(lost) = IF pan_max - pan_min <= lost_decay_step THEN 0
                                  ELSE (pan_max - pan_min) - lost_decay_step
           /\ lost = Follow!MaxLost => Allowed(lost) = 0
<1> DEFINE k == lost - lost_hold_frames
           range == pan_max - pan_min
           d == lost_decay_step
<1>1. k \in Nat \ {0} /\ range \in Nat /\ d \in Nat \ {0}
  BY FollowConstants DEF Follow!Pans
<1>2. /\ Allowed(lost) = IF range - d * k >= 0 THEN range - d * k ELSE 0
      /\ Allowed(lost - 1) = IF range - d * (k - 1) >= 0 THEN range - d * (k - 1) ELSE 0
      /\ lost = lost_hold_frames + 1 => k = 1
      /\ lost > lost_hold_frames + 1 => k > 1
      /\ lost = Follow!MaxLost => k = range + 1
  BY FollowConstants DEF Allowed, Follow!MaxLost
<1> HIDE DEF k, range, d
<1>3. d * k \in Nat /\ d * (k - 1) = d * k - d /\ d * 1 = d
  BY <1>1
<1>4. k = range + 1 => d * k >= range + 1
  <2>1. \A a \in Nat, b \in Nat \ {0} : b * (a + 1) = (b - 1) * (a + 1) + (a + 1)
    OBVIOUS
  <2>2. \A a \in Nat, b \in Nat \ {0} : (b - 1) * (a + 1) >= 0
    OBVIOUS
  <2> QED
    BY <1>1, <2>1, <2>2
<1> QED
  BY <1>1, <1>2, <1>3, <1>4 DEF range, d

\* A decaying step ends within the limits, and nearer to home.
LEMMA DecayedIsNearer ==
    ASSUME current_pan \in Follow!Pans
    PROVE  /\ Follow!Decayed \in Follow!Pans
           /\ Follow!Distance(Follow!Decayed, home_pan) =
                  IF Follow!Distance(current_pan, home_pan) <= lost_decay_step THEN 0
                  ELSE Follow!Distance(current_pan, home_pan) - lost_decay_step
<1> DEFINE gap == Follow!Distance(home_pan, current_pan)
           step_ == Follow!Min({lost_decay_step, gap})
<1>1. /\ current_pan \in Int /\ home_pan \in Int /\ pan_min \in Int /\ pan_max \in Int
      /\ pan_min <= current_pan /\ current_pan <= pan_max
      /\ pan_min <= home_pan /\ home_pan <= pan_max /\ lost_decay_step \in Nat
  BY FollowConstants DEF Follow!Pans
<1>2. gap = (IF home_pan < current_pan THEN current_pan - home_pan ELSE home_pan - current_pan)
  BY DEF Follow!Distance
<1>3. step_ = IF lost_decay_step <= gap THEN lost_decay_step ELSE gap
  <2>1. gap \in Int
    BY <1>1, <1>2
  <2> HIDE DEF gap
  <2> QED
    BY <1>1, <2>1, FollowMin
<1>4. Follow!Decayed = Follow!Clamped(IF home_pan > current_pan THEN current_pan + step_
                                      ELSE current_pan - step_, pan_min, pan_max)
  BY DEF Follow!Decayed
<1> HIDE DEF gap, step_
<1> QED
  BY <1>1, <1>2, <1>3, <1>4 DEF Follow!Clamped, Follow!Distance, Follow!Pans

\* A frame without the target.
LEMMA LoseKeepsWayHome ==
    ASSUME WayHome, Follow!Lose
    PROVE  WayHome'
<1> DEFINE far_ == Follow!Distance(current_pan, home_pan)
<1>1. /\ current_pan \in Int /\ home_pan \in Int /\ pan_min \in Int /\ pan_max \in Int
      /\ pan_min <= current_pan /\ current_pan <= pan_max
      /\ pan_min <= home_pan /\ home_pan <= pan_max /\ lost_decay_step \in Nat
      /\ lost_hold_frames \in Nat /\ Follow!MaxLost \in Nat
      /\ lost_hold_frames + 1 <= Follow!MaxLost
  BY FollowConstants DEF WayHome, Follow!Pans, Follow!MaxLost
<1>2. /\ lost_frames' = IF lost_frames + 1 <= Follow!MaxLost THEN lost_frames + 1
                        ELSE Follow!MaxLost
      /\ lost_frames \in 0 .. Follow!MaxLost /\ lost_frames' \in 0 .. Follow!MaxLost
  <2>1. lost_frames' = Follow!Min({lost_frames + 1, Follow!MaxLost})
    BY DEF Follow!Lose
  <2>2. lost_frames \in 0 .. Follow!MaxLost
    BY DEF WayHome
  <2> QED
    BY <1>1, <2>1, <2>2, FollowMin
<1>3. far_ \in Nat /\ far_ <= pan_max - pan_min
  BY <1>1 DEF Follow!Distance
<1>4. CASE lost_frames' <= lost_hold_frames
  <2>1. Follow!Hold
    BY <1>4 DEF Follow!Lose
  <2> QED
    BY <1>1, <1>2, <1>4, <2>1 DEF Follow!Hold, WayHome
<1>5. CASE lost_frames' > lost_hold_frames
  <2>1. Allowed(lost_frames') \in Nat
    BY <1>1, <1>2, <1>5, OneStepNearer
  <2>2. CASE Follow!Distance(current_pan, home_pan) < min_angle_delta
    <3>1. current_pan' = home_pan /\ follow_head' = follow_head
      BY <1>1, <1>2, <1>5, <2>2 DEF Follow!Lose
    <3>2. Follow!Distance(current_pan', home_pan) = 0
      BY <1>1, <3>1 DEF Follow!Distance
    <3>3. Follow!Distance(follow_head', current_pan') < min_angle_delta
      BY <2>2, <3>1 DEF WayHome
    <3>4. home_pan \in Follow!Pans
      BY FollowConstants
    <3> QED
      BY <1>2, <2>1, <3>1, <3>2, <3>3, <3>4 DEF WayHome
  <2>3. CASE ~(Follow!Distance(current_pan, home_pan) < min_angle_delta)
    <3>1. current_pan' = Follow!Decayed /\ follow_head' = Follow!Decayed
      BY <1>1, <1>2, <1>5, <2>3 DEF Follow!Lose, Follow!Turn
    <3>2. /\ current_pan' \in Follow!Pans
          /\ Follow!Distance(current_pan', home_pan) =
                IF far_ <= lost_decay_step THEN 0 ELSE far_ - lost_decay_step
      BY <3>1, DecayedIsNearer DEF WayHome
    <3> HIDE DEF far_
    <3>3. CASE lost_frames = Follow!MaxLost
      <4>1. far_ <= Allowed(lost_frames) /\ Allowed(lost_frames) = 0 /\ lost_frames' = lost_frames
        BY <1>1, <1>2, <3>3, OneStepNearer DEF WayHome, far_
      <4> QED
        BY <1>1, <1>2, <1>3, <3>1, <3>2, <4>1 DEF WayHome
    <3>4. CASE lost_frames # Follow!MaxLost
      <4>1. lost_frames' = lost_frames + 1
        BY <1>1, <1>2, <3>4
      <4>2. Follow!Distance(current_pan', home_pan) <= Allowed(lost_frames')
        <5>1. CASE lost_frames' = lost_hold_frames + 1
          BY <1>1, <1>2, <1>3, <1>5, <3>2, <5>1, OneStepNearer
        <5>2. CASE lost_frames' > lost_hold_frames + 1
          <6>1. /\ far_ <= Allowed(lost_frames) /\ Allowed(lost_frames) \in Nat
                /\ lost_frames = lost_frames' - 1
            BY <1>1, <1>2, <4>1, <5>2, OneStepNearer DEF WayHome, far_
          <6>2. Allowed(lost_frames') = IF Allowed(lost_frames) <= lost_decay_step THEN 0
                                       ELSE Allowed(lost_frames) - lost_decay_step
            BY <1>1, <1>2, <1>5, <5>2, <6>1, OneStepNearer
          <6> QED
            BY <1>1, <1>3, <3>2, <6>1, <6>2
        <5> QED
          BY <1>1, <1>2, <1>5, <5>1, <5>2
      <4> QED
        BY <1>2, <3>1, <3>2, <4>2 DEF WayHome
    <3> QED
      BY <3>3, <3>4
  <2> QED
    BY <2>2, <2>3
<1> QED
  BY <1>1, <1>2, <1>4, <1>5

\* The errors with the newest: those that count still do.
LEMMA NotedIsEarned ==
    ASSUME Bias, NEW error \in Int
    PROVE  /\ Follow!Noted(error) \in Seq(Int)
           /\ Len(Follow!Noted(error)) <= Follow!Needed
           /\ \A side : Earned(Follow!Noted(error), 0, side)
           /\ Follow!Magnitude(error) >= deadband =>
                  /\ Earned(Follow!Noted(error), 1, Follow!Direction(error))
                  /\ Follow!Direction(error) = bias_direction =>
                         Earned(Follow!Noted(error),
                                IF bias_count + 1 <= Follow!Needed THEN bias_count + 1
                                ELSE Follow!Needed,
                                bias_direction)
<1> DEFINE all == Append(recent, error)
           cut == IF Len(all) > Follow!Needed THEN 1 ELSE 0
           kept == Follow!Noted(error)
<1>1. /\ recent \in Seq(Int) /\ Len(recent) \in Nat /\ Len(recent) <= Follow!Needed
      /\ Follow!Needed \in Nat \ {0} /\ bias_count \in Nat /\ bias_count <= Len(recent)
  BY FollowConstants DEF Bias, Earned
<1>2. /\ all \in Seq(Int) /\ Len(all) = Len(recent) + 1 /\ all # <<>>
      /\ \A i \in 1 .. Len(recent) : all[i] = recent[i]
      /\ all[Len(recent) + 1] = error
  BY <1>1, AppendProperties
<1>3. /\ kept \in Seq(Int) /\ Len(kept) = Len(recent) + 1 - cut
      /\ \A i \in 1 .. Len(kept) : kept[i] = all[i + cut]
  <2> HIDE DEF all
  <2>1. CASE Len(all) > Follow!Needed
    <3>1. kept = Tail(all) /\ cut = 1
      BY <2>1 DEF Follow!Noted, all
    <3> HIDE DEF kept, cut
    <3> QED
      BY <1>1, <1>2, <3>1, HeadTailProperties
  <2>2. CASE ~(Len(all) > Follow!Needed)
    <3>1. kept = all /\ cut = 0
      BY <2>2 DEF Follow!Noted, all
    <3> HIDE DEF kept, cut
    <3> QED
      BY <1>1, <1>2, <3>1
  <2> QED
    BY <2>1, <2>2
<1>4. /\ cut \in {0, 1} /\ Len(kept) <= Follow!Needed /\ Len(kept) \in Nat \ {0}
      /\ cut = 1 => Len(recent) = Follow!Needed
  BY <1>1, <1>2, <1>3
<1> HIDE DEF all, cut, kept
<1>5. /\ kept[Len(kept)] = error
      /\ \A i \in 1 .. Len(kept) - 1 :
             i + cut \in 1 .. Len(recent) /\ kept[i] = recent[i + cut]
  <2>1. Len(kept) \in 1 .. Len(kept) /\ Len(kept) + cut = Len(recent) + 1
    BY <1>1, <1>3, <1>4
  <2>2. ASSUME NEW i \in 1 .. Len(kept) - 1
        PROVE  i + cut \in 1 .. Len(recent) /\ kept[i] = recent[i + cut]
    <3>1. i \in 1 .. Len(kept) /\ i + cut \in 1 .. Len(recent)
      BY <1>1, <1>3, <1>4, <2>1, <2>2
    <3> QED
      BY <1>2, <1>3, <3>1
  <2> QED
    BY <1>2, <1>3, <2>1, <2>2
<1>6. \A side : Earned(kept, 0, side)
  BY <1>4 DEF Earned
<1>7. ASSUME Follow!Magnitude(error) >= deadband
      PROVE  Earned(kept, 1, Follow!Direction(error))
  BY <1>4, <1>5, <1>7 DEF Earned
<1>8. ASSUME Follow!Magnitude(error) >= deadband, Follow!Direction(error) = bias_direction
      PROVE  Earned(kept, IF bias_count + 1 <= Follow!Needed THEN bias_count + 1
                          ELSE Follow!Needed, bias_direction)
  <2> DEFINE count == IF bias_count + 1 <= Follow!Needed THEN bias_count + 1
                      ELSE Follow!Needed
  <2>1. count \in Nat /\ count <= Len(kept) /\ count <= bias_count + 1
        /\ Len(kept) - count + cut >= Len(recent) - bias_count
    <3>1. CASE bias_count + 1 <= Follow!Needed
      <4>1. count = bias_count + 1
        BY <3>1
      <4> HIDE DEF count
      <4> QED
        BY <1>1, <1>3, <1>4, <3>1, <4>1
    <3>2. CASE ~(bias_count + 1 <= Follow!Needed)
      <4>1. count = Follow!Needed
        BY <3>2
      <4> HIDE DEF count
      <4> QED
        BY <1>1, <1>3, <1>4, <3>2, <4>1
    <3> QED
      BY <3>1, <3>2
  <2> HIDE DEF count
  <2>2. ASSUME NEW i \in 1 .. Len(kept), i > Len(kept) - count
        PROVE  /\ Follow!Magnitude(kept[i]) >= deadband
               /\ Follow!Direction(kept[i]) = bias_direction
    <3>1. CASE i = Len(kept)
      BY <1>5, <1>8, <3>1
    <3>2. CASE i # Len(kept)
      <4>1. i \in 1 .. Len(kept) - 1
        BY <1>4, <2>2, <3>2
      <4>2. /\ i + cut \in 1 .. Len(recent) /\ kept[i] = recent[i + cut]
            /\ i + cut > Len(recent) - bias_count
        BY <1>1, <1>4, <1>5, <2>1, <2>2, <4>1
      <4> QED
        BY <4>2 DEF Bias, Earned
    <3> QED
      BY <3>1, <3>2
  <2> QED
    BY <2>1, <2>2 DEF Earned, count
<1> QED
  BY <1>3, <1>4, <1>6, <1>7, <1>8 DEF kept

\* A frame with a target, as far as the bias goes.
LEMMA FollowKeepsBias ==
    ASSUME Bias, Follow!Follow
    PROVE  Bias'
<1>1. PICK seen \in Follow!Errors :
        \E error \in Follow!Min({seen, smoothed_error}) .. Follow!Max({seen, smoothed_error}) :
            /\ smoothed_error' = error /\ recent' = Follow!Noted(error)
            /\ IF Follow!Magnitude(error) < deadband
               THEN bias_direction' = 0 /\ bias_count' = 0 /\ Follow!Hold
               ELSE /\ bias_direction' = Follow!Direction(error)
                    /\ bias_count' = Follow!Counted(error)
                    /\ bias_count' < Follow!Needed => Follow!Hold
  BY DEF Follow!Follow
<1>2. PICK error \in Follow!Min({seen, smoothed_error}) .. Follow!Max({seen, smoothed_error}) :
            /\ smoothed_error' = error /\ recent' = Follow!Noted(error)
            /\ IF Follow!Magnitude(error) < deadband
               THEN bias_direction' = 0 /\ bias_count' = 0 /\ Follow!Hold
               ELSE /\ bias_direction' = Follow!Direction(error)
                    /\ bias_count' = Follow!Counted(error)
                    /\ bias_count' < Follow!Needed => Follow!Hold
  BY <1>1
<1>3. error \in Follow!Errors /\ error \in Int
  <2>1. seen \in Int /\ smoothed_error \in Int /\ MaxError \in Nat
        /\ -MaxError <= seen /\ seen <= MaxError
        /\ -MaxError <= smoothed_error /\ smoothed_error <= MaxError
    BY FollowConstants DEF Bias, Follow!Errors
  <2>2. /\ Follow!Min({seen, smoothed_error}) = (IF seen <= smoothed_error THEN seen ELSE smoothed_error)
        /\ Follow!Max({seen, smoothed_error}) = (IF seen >= smoothed_error THEN seen ELSE smoothed_error)
    BY <2>1, FollowMin, FollowMax
  <2> QED
    BY <2>1, <2>2 DEF Follow!Errors
<1>4. Follow!Magnitude(error) \in Int /\ deadband \in Int /\ Follow!Needed \in Nat \ {0}
  BY <1>3, FollowConstants DEF Follow!Magnitude, Follow!Distance
<1>5. CASE Follow!Magnitude(error) < deadband
  <2>1. /\ smoothed_error' = error /\ recent' = Follow!Noted(error)
        /\ bias_direction' = 0 /\ bias_count' = 0 /\ mode' = "hold"
    BY <1>2, <1>5 DEF Follow!Hold
  <2>2. /\ recent' \in Seq(Int) /\ Len(recent') <= Follow!Needed
        /\ Earned(recent', 0, 0)
    BY <1>3, <2>1, NotedIsEarned
  <2> QED
    BY <1>3, <2>1, <2>2 DEF Bias
<1>6. CASE Follow!Magnitude(error) >= deadband
  <2>1. /\ bias_direction' = Follow!Direction(error) /\ bias_count' = Follow!Counted(error)
        /\ bias_count' < Follow!Needed => Follow!Hold
    BY <1>2, <1>4, <1>6
  <2>2. /\ Follow!Counted(error) \in Nat /\ Follow!Counted(error) <= Follow!Needed
        /\ Earned(recent', Follow!Counted(error), Follow!Direction(error))
    <3>1. CASE bias_direction # Follow!Direction(error)
      BY <1>2, <1>3, <1>4, <1>6, <3>1, NotedIsEarned DEF Follow!Counted
    <3>2. CASE bias_direction = Follow!Direction(error)
      <4>1. bias_count + 1 \in Nat
        BY DEF Bias
      <4>2. Follow!Counted(error) = IF bias_count + 1 <= Follow!Needed THEN bias_count + 1
                                    ELSE Follow!Needed
        BY <1>4, <3>2, <4>1, FollowMin DEF Follow!Counted
      <4>3. Earned(recent', Follow!Counted(error), bias_direction)
        BY <1>2, <1>3, <1>6, <3>2, <4>2, NotedIsEarned
      <4> QED
        BY <1>4, <3>2, <4>1, <4>2, <4>3
    <3> QED
      BY <3>1, <3>2
  <2>3. mode' = "track" => bias_count' = Follow!Needed
    BY <1>4, <2>1, <2>2 DEF Follow!Hold
  <2> QED
    BY <1>2, <1>3, <2>1, <2>2, <2>3, NotedIsEarned DEF Bias
<1> QED
  BY <1>4, <1>5, <1>6

\* A frame with a target, as far as the head goes.
LEMMA FollowKeepsWayHome ==
    ASSUME WayHome, Follow!Follow
    PROVE  WayHome'
<1>1. lost_frames' = 0 /\ 0 \in 0 .. Follow!MaxLost /\ ~(0 > lost_hold_frames)
  BY FollowConstants DEF Follow!Follow
<1>2. \/ Follow!Hold
      \/ \E error \in Int : Follow!Turn(Follow!NextPan(error), "track")
  BY DEF Follow!Follow
<1>3. ASSUME NEW error \in Int PROVE Follow!NextPan(error) \in Follow!Pans
  <2>1. current_pan \in Int /\ pan_min \in Int /\ pan_max \in Int /\ pan_min <= pan_max
        /\ max_step \in Int /\ pan_gain \in Int
    BY FollowConstants DEF WayHome, Follow!Pans
  <2>2. error * pan_gain \in Int
    BY <2>1
  <2>3. current_pan + Follow!Clamped(error * pan_gain, -max_step, max_step) \in Int
    BY <2>1, <2>2 DEF Follow!Clamped
  <2> QED
    BY <2>1, <2>3 DEF Follow!NextPan, Follow!Clamped, Follow!Pans
<1>4. CASE Follow!Hold
  BY <1>1, <1>4 DEF Follow!Hold, WayHome
<1>5. ASSUME NEW error \in Int, Follow!Turn(Follow!NextPan(error), "track") PROVE WayHome'
  BY <1>1, <1>3, <1>5 DEF Follow!Turn, WayHome
<1> QED
  BY <1>2, <1>4, <1>5

FollowInv == WayHome /\ Bias

LEMMA NextKeepsFollowInv == FollowInv /\ [Follow!Next]_(Follow!vars) => FollowInv'
<1> SUFFICES ASSUME WayHome, Bias, [Follow!Next]_(Follow!vars) PROVE WayHome' /\ Bias'
  BY DEF FollowInv
<1>1. CASE Follow!Follow
  BY <1>1, FollowKeepsBias, FollowKeepsWayHome
<1>2. CASE Follow!Lose
  <2>1. /\ smoothed_error' = 0 /\ bias_count' = 0 /\ recent' = <<>>
        /\ mode' # "track"
    BY <1>2 DEF Follow!Lose, Follow!Hold, Follow!Turn
  <2>2. 0 \in Follow!Errors /\ Follow!Needed \in Nat
    BY FollowConstants DEF Follow!Errors
  <2>3. Bias'
    BY <2>1, <2>2 DEF Bias, Earned
  <2> QED
    BY <1>2, <2>3, LoseKeepsWayHome
<1>3. CASE Follow!Tick
  BY <1>3 DEF Follow!Tick, Follow!followed, WayHome, Bias
<1>4. CASE UNCHANGED Follow!vars
  BY <1>4 DEF Follow!vars, Follow!followed, WayHome, Bias
<1> QED
  BY <1>1, <1>2, <1>3, <1>4 DEF Follow!Next

LEMMA InitFollowInv == Init => FollowInv
<1> SUFFICES ASSUME Follow!Init PROVE FollowInv
  BY DEF Init
<1>1. WayHome
  BY FollowConstants DEF Follow!Init, WayHome
<1>2. Bias
  BY FollowConstants DEF Follow!Init, Bias, Earned, Follow!Errors
<1> QED
  BY <1>1, <1>2 DEF FollowInv

LEMMA FollowInvSuffices ==
    FollowInv => Follow!LostComesHome /\ Follow!NearWhereBelieved /\ Follow!TrackIsEarned
<1> SUFFICES ASSUME WayHome, Bias
             PROVE  Follow!LostComesHome /\ Follow!NearWhereBelieved /\ Follow!TrackIsEarned
  BY DEF FollowInv
<1>1. Follow!LostComesHome
  <2> SUFFICES ASSUME lost_frames > lost_hold_frames
               PROVE  Follow!Distance(current_pan, home_pan) <=
                          Follow!Max({0, (pan_max - pan_min)
                                         - lost_decay_step * (lost_frames - lost_hold_frames)})
    BY DEF Follow!LostComesHome
  <2> DEFINE left_ == (pan_max - pan_min) - lost_decay_step * (lost_frames - lost_hold_frames)
  <2>1. left_ \in Int
    BY FollowConstants DEF WayHome, Follow!Pans
  <2>2. Allowed(lost_frames) = IF left_ >= 0 THEN left_ ELSE 0
    BY DEF Allowed
  <2> HIDE DEF left_
  <2>3. Follow!Max({0, left_}) = Allowed(lost_frames)
    BY <2>1, <2>2, FollowMax
  <2> QED
    BY <2>3 DEF WayHome, left_
<1>2. Follow!NearWhereBelieved
  BY DEF WayHome, Follow!NearWhereBelieved
<1>3. Follow!TrackIsEarned
  <2> SUFFICES ASSUME mode = "track"
               PROVE  /\ Len(recent) = Follow!Needed
                      /\ \A i \in DOMAIN recent :
                            /\ Follow!Magnitude(recent[i]) >= deadband
                            /\ Follow!Direction(recent[i]) = bias_direction
    BY DEF Follow!TrackIsEarned
  <2>1. /\ bias_count = Follow!Needed /\ Len(recent) \in Nat /\ DOMAIN recent = 1 .. Len(recent)
        /\ Len(recent) = Follow!Needed
    BY FollowConstants DEF Bias, Earned
  <2> QED
    BY <2>1 DEF Bias, Earned
<1> QED
  BY <1>1, <1>2, <1>3

\* A command is left out as a repetition only if the servo is there; a lost target brings
\* the head home in a bounded number of frames, the head is where the planner believes it,
\* and it turned only to what was off the middle on one side for long enough: for every
\* geometry, gain, step and interval (yaw.py, decide; vision_follow.py).
THEOREM SpecControllersKnowTheHead == Spec => []ControllersKnowTheHead
<1>1. YawInv /\ FollowInv => ControllersKnowTheHead
  BY YawInvSuffices, FollowInvSuffices DEF ControllersKnowTheHead
<1>2. Spec => []YawInv
  BY InitYawInv, StepOfYaw, NextKeepsYawInv, PTL DEF Spec
<1>3. Spec => []FollowInv
  BY InitFollowInv, StepOfFollow, NextKeepsFollowInv, PTL DEF Spec
<1> QED
  BY <1>1, <1>2, <1>3, PTL

-----------------------------------------------------------------------------
(* The vision process and its state file (VisionLoop). *)

\* A status that shows something or waits for it.
Live(word) == word \notin {"degraded", "not_wired"}

\* What is true of every payload that is written: it is whole, an "ok" is about a picture
\* that is not older than the pass, and the people in it were cut less than the interval
\* before the pass.
Truthful(payload) ==
    /\ payload # Torn /\ payload.updated_at \in Nat /\ payload.identities \in Nat \cup {None}
    /\ payload.status = "ok" => payload.frame \in Nat /\ payload.updated_at <= payload.frame
    /\ Live(payload.status) /\ payload.identities # None =>
           payload.updated_at - payload.identities < min_interval_s

\* What a pass has seen up to now.
Seen ==
    /\ now \in Vision!Times /\ {last_export_at, identities} \subseteq Vision!Instants
    /\ status \in [status : Vision!Statuses, frame : Vision!Instants]
    /\ vision_pc \notin {"down", "top"} => updated_at \in Vision!Times /\ updated_at <= now
    /\ vision_pc = "frame" => status.status = "ok"
    /\ status.status = "ok" =>
           /\ vision_pc \notin {"down", "top", "poll"}
           /\ status.frame \in Vision!Times /\ updated_at <= status.frame

\* Evidence and identities are of the last export, or the pass that throttled it has yet
\* to match.
CutsAreKnown ==
    /\ evidence \notin {None, Throttled} => evidence = last_export_at
    /\ evidence = Throttled => last_export_at # None
    /\ vision_pc # "matching" \/ evidence = Throttled =>
           (identities # None => identities = last_export_at)
    /\ vision_pc \in {"building", "replacing"} /\ evidence = None => identities = None
    /\ vision_pc \in {"matching", "building", "replacing"}
           /\ Live(status.status) /\ evidence # None =>
           updated_at - last_export_at < min_interval_s

VisionInv ==
    /\ Seen /\ CutsAreKnown
    /\ \A payload \in {tmp, file, held} : payload # None => Truthful(payload)

LEMMA VisionConstants ==
    /\ {max_frame_age_s, max_age_s, realtime_vision_max_age_seconds, min_interval_s}
           \subseteq Nat \ {0}
    /\ None \notin Nat /\ Throttled \notin Nat /\ None # Throttled
    /\ None # Torn /\ Torn \notin Vision!Payload
    /\ Vision!Times \subseteq Nat /\ Vision!Instants = Vision!Times \cup {None}
  BY SensesAssumption DEF Vision!VisionAssumption, Vision!Times, Vision!Instants

\* An export says how old what it exported is.
LEMMA ExportIsKnown ==
    ASSUME VisionInv, vision_pc \in {"poll", "frame"}, vision_pc' = "matching", Vision!Export,
           UNCHANGED <<identities, updated_at, now>>
    PROVE  /\ last_export_at' \in Vision!Instants
           /\ CutsAreKnown'
<1> USE VisionConstants DEF VisionInv, Seen, CutsAreKnown
<1>1. /\ now \in Nat /\ updated_at \in Nat /\ updated_at <= now /\ now \in Vision!Instants
      /\ identities # None => identities = last_export_at
  OBVIOUS
<1>2. CASE last_export_at # None /\ now - last_export_at < min_interval_s
  <2>1. /\ evidence' = (IF kept_frame THEN Throttled ELSE None)
        /\ last_export_at' = last_export_at
    BY <1>2 DEF Vision!Export
  <2>2. last_export_at \in Nat /\ min_interval_s \in Nat
    BY <1>2, VisionConstants
  <2>3. updated_at - last_export_at < min_interval_s
    BY <1>1, <1>2, <2>2
  <2> QED
    BY <1>1, <1>2, <2>1, <2>2, <2>3
<1>3. CASE ~(last_export_at # None /\ now - last_export_at < min_interval_s)
  <2>1. \/ evidence' = None /\ last_export_at' = last_export_at
        \/ evidence' \in {now, None} /\ last_export_at' = now
    BY <1>3 DEF Vision!Export
  <2>2. updated_at - now < min_interval_s
    BY <1>1
  <2> QED
    BY <1>1, <2>1, <2>2
<1> QED
  BY <1>2, <1>3

\* The poll of a pass.
LEMMA PollKeepsVisionInv ==
    ASSUME VisionInv,
           \/ Vision!PollFails \/ Vision!PollFindsNoFrame
           \/ Vision!PullFrame \/ Vision!PollSees
    PROVE  VisionInv'
<1>1. UNCHANGED <<tmp, file, held, now, updated_at, identities>> /\ vision_pc \in {"poll", "frame"}
  BY DEF Vision!PollFails, Vision!PollFindsNoFrame, Vision!PullFrame, Vision!PollSees,
         Vision!outside
<1>2. \A payload \in {tmp', file', held'} : payload # None => Truthful(payload)'
  BY <1>1 DEF VisionInv, Truthful
<1>3. CASE Vision!PollFails
  <2>1. PICK s \in {"not_wired", "degraded"} : Vision!PollEnds(Vision!Status(s, None))
    BY <1>3 DEF Vision!PollFails
  <2>2. /\ status'.status = s /\ vision_pc' = "matching"
        /\ UNCHANGED <<last_export_at, evidence>>
    BY <1>3, <2>1 DEF Vision!PollFails, Vision!PollEnds, Vision!Status, Vision!pipeline
  <2> status' \in [status : Vision!Statuses, frame : Vision!Instants]
    BY <2>1, VisionConstants DEF Vision!PollEnds, Vision!Status, Vision!Statuses
  <2>3. Seen' /\ CutsAreKnown'
    BY <1>1, <2>2 DEF VisionInv, Seen, CutsAreKnown, Live
  <2> QED
    BY <1>2, <2>3 DEF VisionInv
<1>4. CASE Vision!PollFindsNoFrame
  <2>1. status'.status = "waiting_for_frame" /\ vision_pc' = "matching"
    BY <1>4 DEF Vision!PollFindsNoFrame, Vision!PollEnds, Vision!NoStatus, Vision!Status
  <2> status' \in [status : Vision!Statuses, frame : Vision!Instants]
    BY <1>4, VisionConstants
    DEF Vision!PollFindsNoFrame, Vision!PollEnds, Vision!NoStatus, Vision!Status,
        Vision!Statuses
  <2>2. CASE evidence' = None /\ UNCHANGED last_export_at
    BY <1>1, <1>2, <2>1, <2>2, VisionConstants DEF VisionInv, Seen, CutsAreKnown
  <2>3. CASE Vision!Export
    <3>1. last_export_at' \in Vision!Instants /\ CutsAreKnown'
      BY <1>1, <2>1, <2>3, ExportIsKnown
    <3> QED
      BY <1>1, <1>2, <2>1, <3>1 DEF VisionInv, Seen
  <2> QED
    BY <1>4, <2>2, <2>3 DEF Vision!PollFindsNoFrame
<1>5. CASE Vision!PullFrame
  <2>1. /\ status'.status = "ok" /\ status'.frame = now /\ vision_pc' = "frame"
        /\ vision_pc = "poll" /\ UNCHANGED <<last_export_at, evidence>>
    BY <1>5 DEF Vision!PullFrame, Vision!Status, Vision!pipeline
  <2> status' \in [status : Vision!Statuses, frame : Vision!Instants]
    BY <1>5, VisionConstants
    DEF Vision!PullFrame, Vision!Status, Vision!Statuses, VisionInv, Seen
  <2> QED
    BY <1>1, <1>2, <2>1 DEF VisionInv, Seen, CutsAreKnown
<1>6. CASE Vision!PollSees
  <2>1. /\ vision_pc = "frame" /\ vision_pc' = "matching" /\ Vision!Export
        /\ status'.frame = status.frame
    BY <1>6 DEF Vision!PollSees, Vision!PollEnds, Vision!Status
  <2> status' \in [status : Vision!Statuses, frame : Vision!Instants]
    BY <1>6
    DEF Vision!PollSees, Vision!PollEnds, Vision!Status, Vision!Statuses, VisionInv, Seen
  <2>2. last_export_at' \in Vision!Instants /\ CutsAreKnown'
    BY <1>1, <2>1, ExportIsKnown
  <2> QED
    BY <1>1, <1>2, <2>1, <2>2 DEF VisionInv, Seen
<1> QED
  BY <1>3, <1>4, <1>5, <1>6

\* What becomes of a poll: its crops are matched, and the payload is written beside the state
\* file and put in its place.
LEMMA WriteKeepsVisionInv ==
    ASSUME VisionInv, Vision!MatchIdentities \/ Vision!Write \/ Vision!Replace
    PROVE  VisionInv'
<1>1. CASE Vision!MatchIdentities
  <2>1. /\ UNCHANGED <<tmp, file, held, now, updated_at, status, evidence, last_export_at>>
        /\ vision_pc = "matching" /\ vision_pc' = "building"
        /\ identities' = IF evidence = Throttled THEN identities ELSE evidence
    BY <1>1 DEF Vision!MatchIdentities, Vision!pipeline, Vision!outside
  <2> QED
    BY <2>1, VisionConstants DEF VisionInv, Seen, CutsAreKnown, Truthful
<1>2. CASE Vision!Write
  <2>1. /\ UNCHANGED <<file, held, now, updated_at, status, evidence, last_export_at, identities>>
        /\ vision_pc = "building" /\ vision_pc' = "replacing"
        /\ tmp' = Vision!built
    BY <1>2 DEF Vision!Write, Vision!WriteBeside, Vision!pipeline
  <2>2. Truthful(Vision!built)
    <3>1. /\ Vision!built.updated_at = updated_at /\ Vision!built.identities = identities
          /\ Vision!built.status = status.status /\ Vision!built.frame = status.frame
      BY DEF Vision!built
    <3>2. identities # None => identities = last_export_at /\ evidence # None
      BY <2>1 DEF VisionInv, CutsAreKnown
    <3>3. Vision!built \in Vision!Payload
      BY <2>1 DEF Vision!built, Vision!Payload, VisionInv, Seen
    <3> QED
      BY <2>1, <3>1, <3>2, <3>3, VisionConstants
      DEF VisionInv, Seen, CutsAreKnown, Truthful
  <2> QED
    BY <2>1, <2>2 DEF VisionInv, Seen, CutsAreKnown, Truthful
<1>3. CASE Vision!Replace
  <2>1. /\ UNCHANGED <<held, now, evidence, last_export_at, identities>>
        /\ vision_pc = "replacing" /\ vision_pc' = "top"
        /\ file' = tmp /\ tmp' = None /\ status'.status = "waiting_for_frame"
    BY <1>3 DEF Vision!Replace, Vision!pipeline, Vision!NoStatus, Vision!Status
  <2> status' \in [status : Vision!Statuses, frame : Vision!Instants]
    BY <1>3, VisionConstants
    DEF Vision!Replace, Vision!NoStatus, Vision!Status, Vision!Statuses
  <2> QED
    BY <2>1 DEF VisionInv, Seen, CutsAreKnown, Truthful
<1> QED
  BY <1>1, <1>2, <1>3

LEMMA NextKeepsVisionInv == VisionInv /\ [Vision!Next]_(Vision!vars) => VisionInv'
<1> SUFFICES ASSUME VisionInv, [Vision!Next]_(Vision!vars) PROVE VisionInv'
  OBVIOUS
<1>1. ASSUME NEW stage_ \in {"down", "top"}, Vision!Fresh(stage_), UNCHANGED Vision!outside
      PROVE  VisionInv'
  <2>1. /\ vision_pc' = stage_ /\ updated_at' = None /\ last_export_at' = None
        /\ evidence' = None /\ identities' = None /\ tmp' = None
        /\ UNCHANGED <<file, held, now>> /\ status' = Vision!NoStatus
    BY <1>1 DEF Vision!Fresh, Vision!outside
  <2>2. /\ status'.status = "waiting_for_frame"
        /\ status' \in [status : Vision!Statuses, frame : Vision!Instants]
    BY <2>1, VisionConstants DEF Vision!NoStatus, Vision!Status, Vision!Statuses
  <2> QED
    BY <2>1, <2>2, VisionConstants DEF VisionInv, Seen, CutsAreKnown, Truthful
<1>2. CASE Vision!Start \/ Vision!End
  BY <1>1, <1>2 DEF Vision!Start, Vision!End
<1>3. CASE Vision!BeginPass
  <2>1. /\ UNCHANGED <<tmp, file, held, now, status, evidence, last_export_at, identities>>
        /\ vision_pc = "top" /\ vision_pc' = "poll" /\ updated_at' = now
    BY <1>3 DEF Vision!BeginPass, Vision!pipeline, Vision!outside
  <2> QED
    BY <2>1, VisionConstants DEF VisionInv, Seen, CutsAreKnown, Truthful
<1>4. CASE \/ Vision!PollFails \/ Vision!PollFindsNoFrame
           \/ Vision!PullFrame \/ Vision!PollSees
  BY <1>4, PollKeepsVisionInv
<1>5. CASE Vision!MatchIdentities \/ Vision!Write \/ Vision!Replace
  BY <1>5, WriteKeepsVisionInv
<1>6. CASE Vision!ReadFile \/ Vision!Answer
  BY <1>6
  DEF Vision!ReadFile, Vision!Answer, Vision!writer, Vision!pipeline, VisionInv, Seen,
      CutsAreKnown, Truthful
<1>7. CASE Vision!Tick
  <2>1. /\ UNCHANGED <<vision_pc, updated_at, tmp, file, held, status, evidence,
                       last_export_at, identities>>
        /\ now' = now + 1 /\ now < MaxTime
    BY <1>7 DEF Vision!Tick, Vision!writer, Vision!pipeline
  <2>2. now \in Vision!Times /\ now \in Nat /\ MaxTime \in Nat
    BY VisionConstants, SensesAssumption DEF VisionInv, Seen, Vision!VisionAssumption
  <2>3. now' \in Vision!Times
    BY <2>1, <2>2 DEF Vision!Times
  <2>4. updated_at \in Nat /\ updated_at <= now => updated_at <= now'
    BY <2>1, <2>2
  <2>5. Seen'
    BY <2>1, <2>3, <2>4, VisionConstants DEF VisionInv, Seen
  <2>6. CutsAreKnown'
    BY <2>1 DEF VisionInv, CutsAreKnown
  <2>7. \A payload \in {tmp', file', held'} : payload # None => Truthful(payload)'
    BY <2>1 DEF VisionInv, Truthful
  <2> QED
    BY <2>5, <2>6, <2>7 DEF VisionInv
<1>8. CASE UNCHANGED Vision!vars
  BY <1>8 DEF Vision!vars, Vision!pipeline, VisionInv, Seen, CutsAreKnown, Truthful
<1> QED
  BY <1>2, <1>3, <1>4, <1>5, <1>6, <1>7, <1>8 DEF Vision!Next

LEMMA InitVisionInv == Init => VisionInv
<1> SUFFICES ASSUME Vision!Init PROVE VisionInv
  BY DEF Init
<1>1. /\ 1 \in Vision!Times /\ Vision!NoStatus.status = "waiting_for_frame"
      /\ Vision!NoStatus \in [status : Vision!Statuses, frame : Vision!Instants]
  BY SensesAssumption
  DEF Vision!VisionAssumption, Vision!Times, Vision!NoStatus, Vision!Status,
      Vision!Statuses, Vision!Instants
<1> QED
  BY <1>1, VisionConstants DEF Vision!Init, VisionInv, Seen, CutsAreKnown

LEMMA VisionInvSuffices ==
    VisionInv => Vision!HealthyMeansRecent /\ Vision!PeopleAreRecent /\ Vision!NeverTorn
<1> SUFFICES ASSUME VisionInv
             PROVE  Vision!HealthyMeansRecent /\ Vision!PeopleAreRecent /\ Vision!NeverTorn
  OBVIOUS
<1>1. now \in Nat /\ max_age_s \in Nat /\ min_interval_s \in Nat
  BY VisionConstants DEF VisionInv, Seen
<1>2. Vision!NeverTorn
  BY VisionConstants DEF VisionInv, Truthful, Vision!NeverTorn
<1>3. ASSUME held # None, ~Vision!Old(held)
      PROVE  /\ held.status = "ok" => now - held.frame <= max_age_s
             /\ Live(held.status) /\ held.identities # None =>
                    now - held.identities < max_age_s + min_interval_s
  <2>1. held.updated_at \in Nat /\ now - held.updated_at <= max_age_s
    BY <1>1, <1>3 DEF VisionInv, Truthful, Vision!Old
  <2>2. ASSUME held.status = "ok" PROVE now - held.frame <= max_age_s
    <3>1. held.frame \in Nat /\ held.updated_at <= held.frame
      BY <1>3, <2>2 DEF VisionInv, Truthful
    <3> QED
      BY <1>1, <2>1, <3>1
  <2>3. ASSUME Live(held.status), held.identities # None
        PROVE  now - held.identities < max_age_s + min_interval_s
    <3>1. held.identities \in Nat /\ held.updated_at - held.identities < min_interval_s
      BY <1>3, <2>3 DEF VisionInv, Truthful
    <3> QED
      BY <1>1, <2>1, <3>1
  <2> QED
    BY <2>2, <2>3
<1>4. Vision!HealthyMeansRecent
  <2> SUFFICES ASSUME held # None, NEW asked \in 1 .. now,
                      Vision!health_state(held, asked) = "healthy"
               PROVE  now - held.frame <= max_age_s
    BY DEF Vision!HealthyMeansRecent
  <2>1. Vision!Judged(held).status = "ok"
    BY DEF Vision!health_state
  <2>2. ~Vision!Old(held) /\ held.status = "ok"
    BY <2>1 DEF Vision!Judged
  <2> QED
    BY <1>3, <2>2
<1>5. Vision!PeopleAreRecent
  <2> SUFFICES ASSUME held # None, Live(Vision!Judged(held).status),
                      Vision!Judged(held).identities # None
               PROVE  now - Vision!Judged(held).identities < max_age_s + min_interval_s
    BY DEF Vision!PeopleAreRecent, Live
  <2>1. /\ ~Vision!Old(held) /\ Live(held.status)
        /\ Vision!Judged(held).identities = held.identities
    BY DEF Vision!Judged, Live
  <2> QED
    BY <1>3, <2>1
<1> QED
  BY <1>2, <1>4, <1>5

\* A picture shown as healthy is recent, so are the people shown with it, and a reader
\* never sees half a state file: for every age that is allowed and however long each step of
\* the process takes (vision_loop.py; native_services.py, StateFileEyeAdapter;
\* gstreamer.py, export).
THEOREM SpecShownIsRecent == Spec => []ShownIsRecent
<1>1. VisionInv => ShownIsRecent
  BY VisionInvSuffices DEF ShownIsRecent
<1> QED
  BY <1>1, InitVisionInv, StepOfVision, NextKeepsVisionInv, PTL DEF Spec

-----------------------------------------------------------------------------
(* The identities (IdentityMemory). *)

LEMMA IdentityConstants ==
    /\ MaxEmbeddings \in Nat /\ min_interval_s \in Nat
    /\ None \notin People /\ None \notin Identity!Registry /\ None # Torn
  BY SensesAssumption DEF Identity!IdentityAssumption, Identity!Registry

LEMMA IdentityMax ==
    ASSUME NEW a \in Int, NEW b \in Int
    PROVE  Identity!Max({a, b}) = IF a >= b THEN a ELSE b
  BY Greater DEF Identity!Max

LEMMA IdentityMin ==
    ASSUME NEW a \in Int, NEW b \in Int
    PROVE  Identity!Min({a, b}) = IF a <= b THEN a ELSE b
  BY Less DEF Identity!Min

\* Whoever enrols has it all, and so has the file, except while it is replaced.
Complete ==
    /\ \A d, e \in Enrollers : registry[d] # None /\ registry[e] # None => d = e
    /\ \A e \in Enrollers : registry[e] # None => \A p \in People : returned[p] <= registry[e][p]
    /\ IF saving = {} THEN \A p \in People : returned[p] <= Identity!Loaded[p]
                      ELSE identity_file = Torn

RegistryInv ==
    /\ identity_file \in Identity!Registry \cup {None, Torn}
    /\ registry \in [Enrollers -> Identity!Registry \cup {None}]
    /\ saving \subseteq {e \in Enrollers : registry[e] # None}
    /\ returned \in [People -> Nat]
    /\ ~registry_meddled /\ ~crashed => Complete

\* What the vision process does with them leaves the registries alone.
LEMMA OthersKeepRegistryInv == RegistryInv /\ UNCHANGED Identity!registries => RegistryInv'
  BY DEF RegistryInv, Complete, Identity!registries, Identity!Loaded

LEMMA OpenKeepsRegistryInv ==
    ASSUME RegistryInv, NEW e \in Enrollers, Identity!Open(e)
    PROVE  RegistryInv'
<1>1. Identity!Loaded \in Identity!Registry
  BY IdentityConstants
  DEF RegistryInv, Identity!Open, Identity!Loaded, Identity!Empty, Identity!Registry
<1>2. registry' = [registry EXCEPT ![e] = Identity!Loaded] /\ registry[e] = None
  BY DEF Identity!Open
<1>3. UNCHANGED <<identity_file, saving, returned, crashed>>
  BY DEF Identity!Open
<1>4. registry' \in [Enrollers -> Identity!Registry \cup {None}]
  BY <1>1, <1>2 DEF RegistryInv
<1>5. saving' \subseteq {d \in Enrollers : registry'[d] # None}
  BY <1>1, <1>2, <1>3, IdentityConstants DEF RegistryInv
<1>6. ASSUME ~registry_meddled', ~crashed' PROVE Complete'
  <2>0. registry_meddled' = (registry_meddled \/ \E d \in Enrollers : registry[d] # None)
    BY DEF Identity!Open
  <2>1. Complete /\ \A d \in Enrollers : registry[d] = None
    BY <1>6, <1>3, <2>0, Zenon DEF RegistryInv
  <2>2. saving = {}
    BY <2>1 DEF RegistryInv
  <2>3. /\ \A p \in People : returned[p] <= Identity!Loaded[p]
        /\ \A d \in Enrollers : registry'[d] # None => d = e
    BY <1>2, <2>1, <2>2 DEF RegistryInv, Complete
  <2> QED
    BY <1>1, <1>2, <1>3, <2>2, <2>3 DEF RegistryInv, Complete, Identity!Loaded
<1> QED
  BY <1>3, <1>4, <1>5, <1>6 DEF RegistryInv

LEMMA EnrollKeepsRegistryInv ==
    ASSUME RegistryInv, NEW e \in Enrollers, Identity!Enroll(e)
    PROVE  RegistryInv'
<1>0. PICK p \in People : \E n \in 0 .. MaxEmbeddings - registry[e][p] :
          registry' = [registry EXCEPT ![e] = Identity!Enrolled(registry[e], p, n)]
  BY DEF Identity!Enroll
<1>1. PICK n \in 0 .. MaxEmbeddings - registry[e][p] :
          registry' = [registry EXCEPT ![e] = Identity!Enrolled(registry[e], p, n)]
  BY <1>0
<1>2. /\ registry[e] \in Identity!Registry /\ e \notin saving
      /\ saving' = saving \cup {e} /\ identity_file' = Torn
      /\ UNCHANGED <<returned, registry_meddled, crashed>>
  BY DEF Identity!Enroll, RegistryInv
<1>3. /\ registry'[e] = [registry[e] EXCEPT ![p] = @ + n]
      /\ \A d \in Enrollers \ {e} : registry'[d] = registry[d]
  BY <1>1 DEF RegistryInv, Identity!Enrolled
<1>4. registry[e][p] \in 0 .. MaxEmbeddings /\ registry[e][p] + n \in 0 .. MaxEmbeddings
  BY <1>1, <1>2, IdentityConstants DEF Identity!Registry
<1>5. /\ registry'[e] \in Identity!Registry
      /\ \A q \in People : registry[e][q] <= registry'[e][q]
  BY <1>2, <1>3, <1>4, IdentityConstants DEF Identity!Registry
<1>6. registry' \in [Enrollers -> Identity!Registry \cup {None}]
  BY <1>1, <1>3, <1>5 DEF RegistryInv
<1>7. saving' \subseteq {d \in Enrollers : registry'[d] # None}
  BY <1>2, <1>3, <1>5, IdentityConstants DEF RegistryInv
<1>8. ASSUME ~registry_meddled', ~crashed' PROVE Complete'
  <2>1. Complete
    BY <1>2, <1>8 DEF RegistryInv
  <2>2. \A q \in People : returned[q] <= registry'[e][q]
    <3>1. \A q \in People : returned[q] \in Nat /\ registry[e][q] \in Nat /\ registry'[e][q] \in Nat
      BY <1>2, <1>5, IdentityConstants DEF RegistryInv, Identity!Registry
    <3>2. \A q \in People : returned[q] <= registry[e][q]
      BY <1>2, <2>1, IdentityConstants DEF Complete
    <3> QED
      BY <1>5, <3>1, <3>2
  <2>3. \A d \in Enrollers : registry'[d] # None <=> registry[d] # None
    BY <1>2, <1>3, <1>5, IdentityConstants
  <2>4. saving' # {}
    BY <1>2
  <2>5. \A d \in Enrollers : registry'[d] # None => \A q \in People : returned'[q] <= registry'[d][q]
    BY <1>2, <1>3, <2>1, <2>2 DEF Complete
  <2> QED
    BY <1>2, <2>1, <2>3, <2>4, <2>5 DEF Complete
<1> QED
  BY <1>2, <1>6, <1>7, <1>8 DEF RegistryInv

LEMMA SaveKeepsRegistryInv ==
    ASSUME RegistryInv, NEW e \in Enrollers, Identity!Save(e)
    PROVE  RegistryInv'
<1>1. /\ registry[e] \in Identity!Registry /\ e \in saving
      /\ saving' = saving \ {e} /\ identity_file' = registry[e]
      /\ UNCHANGED <<registry, registry_meddled, crashed>>
  BY DEF Identity!Save, RegistryInv
<1>2. \A p \in People : returned[p] \in Nat /\ registry[e][p] \in Nat
  BY <1>1, IdentityConstants DEF RegistryInv, Identity!Registry
<1>3. /\ returned' \in [People -> Nat]
      /\ \A p \in People :
             returned'[p] = IF returned[p] >= registry[e][p] THEN returned[p] ELSE registry[e][p]
  BY <1>2, IdentityMax DEF Identity!Save
<1>4. ASSUME ~registry_meddled', ~crashed' PROVE Complete'
  <2>1. Complete
    BY <1>1, <1>4 DEF RegistryInv
  <2>2. \A p \in People : returned'[p] <= registry[e][p]
    BY <1>1, <1>2, <1>3, <2>1, IdentityConstants DEF Complete
  <2>3. saving' = {} /\ \A d \in Enrollers : registry[d] # None => d = e
    BY <1>1, <2>1, IdentityConstants DEF Complete, RegistryInv
  <2>4. registry[e] # None
    BY <1>1, IdentityConstants
  <2> QED
    BY <1>1, <2>1, <2>2, <2>3, <2>4 DEF Complete, Identity!Loaded
<1> QED
  BY <1>1, <1>3, <1>4 DEF RegistryInv

LEMMA EndKeepsRegistryInv ==
    ASSUME RegistryInv, NEW e \in Enrollers, Identity!EndEnroller(e)
    PROVE  RegistryInv'
<1>1. /\ registry' = [registry EXCEPT ![e] = None] /\ saving' = saving \ {e}
      /\ crashed' = (crashed \/ e \in saving)
      /\ UNCHANGED <<identity_file, returned, registry_meddled>>
  BY DEF Identity!EndEnroller
<1>2. /\ registry' \in [Enrollers -> Identity!Registry \cup {None}]
      /\ \A d \in Enrollers : registry'[d] = IF d = e THEN None ELSE registry[d]
  BY <1>1 DEF RegistryInv
<1>3. ASSUME ~registry_meddled', ~crashed' PROVE Complete'
  <2>1. Complete /\ saving' = saving
    BY <1>1, <1>3 DEF RegistryInv
  <2> QED
    BY <1>1, <1>2, <2>1 DEF Complete, Identity!Loaded
<1> QED
  BY <1>1, <1>2, <1>3 DEF RegistryInv

\* Nobody is due for another sighting before the interval since the last has passed, unless
\* the last was excused.
MemoryInv ==
    /\ waiting \in [People -> 0 .. min_interval_s] /\ told_ago \in [People -> 0 .. min_interval_s]
    /\ excused \subseteq People /\ sighting \in People \cup {None}
    /\ \A p \in People \ excused : waiting[p] + told_ago[p] >= min_interval_s
    /\ sighting # None => waiting[sighting] = 0
    /\ ~repeated

LEMMA TickKeepsMemoryInv ==
    ASSUME MemoryInv, Identity!Tick
    PROVE  MemoryInv'
<1>1. /\ waiting' = [p \in People |-> Identity!Max({waiting[p], 1}) - 1]
      /\ told_ago' = [p \in People |-> Identity!Min({told_ago[p] + 1, min_interval_s})]
      /\ UNCHANGED <<sighting, repeated, excused>>
  BY DEF Identity!Tick
<1>2. \A p \in People :
          /\ waiting[p] \in 0 .. min_interval_s /\ told_ago[p] \in 0 .. min_interval_s
          /\ waiting'[p] = IF waiting[p] >= 1 THEN waiting[p] - 1 ELSE 0
          /\ told_ago'[p] = IF told_ago[p] + 1 <= min_interval_s THEN told_ago[p] + 1
                            ELSE min_interval_s
  <2> TAKE p \in People
  <2>1. waiting[p] \in 0 .. min_interval_s /\ told_ago[p] \in 0 .. min_interval_s
    BY DEF MemoryInv
  <2>2. /\ Identity!Max({waiting[p], 1}) = IF waiting[p] >= 1 THEN waiting[p] ELSE 1
        /\ Identity!Min({told_ago[p] + 1, min_interval_s}) =
               IF told_ago[p] + 1 <= min_interval_s THEN told_ago[p] + 1 ELSE min_interval_s
    BY <2>1, IdentityConstants, IdentityMax, IdentityMin
  <2> QED
    BY <1>1, <2>1, <2>2
<1>3. \A p \in People :
          /\ waiting'[p] \in 0 .. min_interval_s /\ told_ago'[p] \in 0 .. min_interval_s
          /\ waiting[p] + told_ago[p] >= min_interval_s =>
                 waiting'[p] + told_ago'[p] >= min_interval_s
          /\ waiting[p] = 0 => waiting'[p] = 0
  BY <1>2, IdentityConstants
<1>4. /\ waiting' \in [People -> 0 .. min_interval_s]
      /\ told_ago' \in [People -> 0 .. min_interval_s]
  BY <1>1, <1>3
<1> QED
  BY <1>1, <1>3, <1>4 DEF MemoryInv

\* The memory is told only of somebody whose interval is over.
LEMMA PostKeepsMemoryInv ==
    ASSUME MemoryInv, Identity!Post
    PROVE  MemoryInv'
<1>1. sighting' = None
  BY DEF Identity!Post
<1>2. CASE Identity!Refused
  BY <1>1, <1>2 DEF Identity!Refused, MemoryInv
<1>3. CASE Identity!Answered \/ Identity!AnswerLost
  <2>1. /\ sighting \in People /\ waiting[sighting] = 0
        /\ told_ago' = [told_ago EXCEPT ![sighting] = 0]
    BY <1>3 DEF Identity!Answered, Identity!AnswerLost, Identity!Tell, MemoryInv
  <2>2. told_ago[sighting] \in 0 .. min_interval_s
    BY <2>1 DEF MemoryInv
  <2>3. ~repeated'
    <3>1. sighting \in excused \/ told_ago[sighting] >= min_interval_s
      BY <2>1, <2>2, IdentityConstants DEF MemoryInv
    <3>2. repeated' = (repeated \/ (told_ago[sighting] < min_interval_s /\ sighting \notin excused))
      BY <1>3 DEF Identity!Answered, Identity!AnswerLost, Identity!Tell
    <3>3. ~(told_ago[sighting] < min_interval_s /\ sighting \notin excused)
      BY <2>2, <3>1, IdentityConstants
    <3> QED
      BY <3>2, <3>3, Zenon DEF MemoryInv
  <2>4. told_ago' \in [People -> 0 .. min_interval_s]
    BY <2>1, IdentityConstants DEF MemoryInv
  <2>5. CASE Identity!Answered
    <3>1. /\ waiting' = [waiting EXCEPT ![sighting] = min_interval_s]
          /\ excused' = excused \ {sighting}
      BY <2>5 DEF Identity!Answered
    <3>2. waiting' \in [People -> 0 .. min_interval_s] /\ excused' \subseteq People
      <4>1. min_interval_s \in 0 .. min_interval_s
        BY IdentityConstants
      <4> QED
        BY <3>1, <4>1 DEF MemoryInv
    <3>3. ASSUME NEW p \in People \ excused' PROVE waiting'[p] + told_ago'[p] >= min_interval_s
      <4>1. CASE p = sighting
        BY <2>1, <3>1, <4>1, IdentityConstants DEF MemoryInv
      <4>2. CASE p # sighting
        BY <2>1, <3>1, <3>3, <4>2 DEF MemoryInv
      <4> QED
        BY <4>1, <4>2
    <3> QED
      BY <1>1, <2>3, <2>4, <3>2, <3>3 DEF MemoryInv
  <2>6. CASE Identity!AnswerLost
    <3>1. excused' = excused \cup {sighting} /\ waiting' = waiting
      BY <2>6 DEF Identity!AnswerLost
    <3>2. ASSUME NEW p \in People \ excused' PROVE waiting'[p] + told_ago'[p] >= min_interval_s
      BY <2>1, <3>1, <3>2 DEF MemoryInv
    <3> QED
      BY <1>1, <2>1, <2>3, <2>4, <3>1, <3>2 DEF MemoryInv
  <2> QED
    BY <1>3, <2>5, <2>6
<1> QED
  BY <1>2, <1>3 DEF Identity!Post

LEMMA NextKeepsIdentities ==
    ASSUME RegistryInv, MemoryInv, [Identity!Next]_(Identity!vars)
    PROVE  RegistryInv' /\ MemoryInv'
<1>1. ASSUME UNCHANGED Identity!memory PROVE MemoryInv'
  BY <1>1 DEF Identity!memory, MemoryInv
<1>2. ASSUME NEW e \in Enrollers,
             Identity!Open(e) \/ Identity!Enroll(e) \/ Identity!Save(e) \/ Identity!EndEnroller(e)
      PROVE  RegistryInv' /\ MemoryInv'
  <2>1. RegistryInv'
    BY <1>2, OpenKeepsRegistryInv, EnrollKeepsRegistryInv, SaveKeepsRegistryInv,
       EndKeepsRegistryInv
  <2> QED
    BY <1>1, <1>2, <2>1
    DEF Identity!Open, Identity!Enroll, Identity!Save, Identity!EndEnroller
<1>3. CASE Identity!Start
  BY <1>1, <1>3, OthersKeepRegistryInv DEF Identity!Start
<1>4. CASE Identity!End
  <2>1. MemoryInv'
    BY <1>4, IdentityConstants DEF Identity!End, MemoryInv
  <2> QED
    BY <1>4, <2>1, OthersKeepRegistryInv DEF Identity!End
<1>5. ASSUME NEW p \in People, Identity!See(p) PROVE RegistryInv' /\ MemoryInv'
  <2>1. MemoryInv'
    BY <1>5 DEF Identity!See, MemoryInv
  <2> QED
    BY <1>5, <2>1, OthersKeepRegistryInv DEF Identity!See
<1>6. CASE Identity!Post
  BY <1>6, OthersKeepRegistryInv, PostKeepsMemoryInv DEF Identity!Post
<1>7. CASE Identity!Tick
  BY <1>7, OthersKeepRegistryInv, TickKeepsMemoryInv DEF Identity!Tick
<1>8. CASE UNCHANGED Identity!vars
  BY <1>1, <1>8, OthersKeepRegistryInv DEF Identity!vars
<1> QED
  BY <1>2, <1>3, <1>4, <1>5, <1>6, <1>7, <1>8 DEF Identity!Next

LEMMA InitIdentities == Identity!Init => RegistryInv /\ MemoryInv
<1> SUFFICES ASSUME Identity!Init PROVE RegistryInv /\ MemoryInv
  OBVIOUS
<1>1. MemoryInv
  BY IdentityConstants DEF Identity!Init, MemoryInv
<1> QED
  BY <1>1, IdentityConstants
  DEF Identity!Init, RegistryInv, Complete, Identity!Loaded, Identity!Empty

\* Whoever was enrolled is in the registry's file as long as nobody crashes in the middle of
\* a save and one process enrols at a time; and the memory hears of a person once in
\* min_interval_s, unless an answer was lost or the process restarted: for any number of
\* people, processes and embeddings (registry.py, enroll_or_update and _save;
\* identity_memory.py, ingest_identity_observation).
THEOREM SpecPeopleAreRemembered == Spec => []PeopleAreRemembered
<1>1. Init => RegistryInv /\ MemoryInv
  BY InitIdentities DEF Init
<1>2. RegistryInv /\ MemoryInv => PeopleAreRemembered
  BY DEF RegistryInv, Complete, MemoryInv, PeopleAreRemembered, Identity!EnrolledSurvives,
         Identity!ToldOnce
<1>3. RegistryInv /\ MemoryInv /\ [Next]_vars => RegistryInv' /\ MemoryInv'
  BY StepOfIdentity, NextKeepsIdentities
<1> QED
  BY <1>1, <1>2, <1>3, PTL DEF Spec

-----------------------------------------------------------------------------
(* The answer to what the head sees (RealtimeAnswer). *)

\* A source that may be given as the answer.
Worthy(p) ==
    /\ p \notin {None, Answer!Unpolled}
    /\ p.form # "static" /\ p.status # "not_wired"
    /\ p.captured # None => asked_at - p.captured <= max_picture_age_s

AnswerInv ==
    /\ {asked_at, clock, judged} \subseteq Nat
    /\ candidates \in Seq(Answer!Candidate \cup {None}) /\ judged <= Len(candidates) /\ Len(candidates) <= 3
    /\ stage = "collect" => Len(candidates) < 3 /\ judged = 0 /\ given = None /\ shown = None
    /\ stage = "judge" => Len(candidates) = 3 /\ judged < 3 /\ given = None /\ shown = None
    /\ \A i \in had : i \in 1 .. Len(candidates) /\ judged < i /\ Worthy(candidates[i])
    /\ given # None => given = judged + 1 /\ judged < Len(candidates) /\ Worthy(candidates[given])
    /\ stage = "show" /\ shown # "failed" /\ given = None => judged = 3
    /\ shown \notin {None, "failed"} =>
           IF given = None THEN shown = "offline" /\ judged = 3
           ELSE candidates[given] \in Answer!Candidate

LEMMA AnswerConstants ==
    /\ max_picture_age_s \in Nat /\ None \notin Nat /\ None \notin Answer!Candidate
    /\ None # "failed"
    /\ Answer!Unpolled \in Answer!Candidate /\ Len(Answer!Order) = 3
<1>1. /\ max_picture_age_s \in Nat /\ None \notin Nat /\ None \notin Answer!Candidate
      /\ None # "failed"
  BY SensesAssumption DEF Answer!AnswerAssumption, Answer!Healths
<1>2. Answer!Unpolled \in Answer!Candidate
  BY DEF Answer!Candidate, Answer!Forms, Answer!Unpolled
<1>3. Len(Answer!Order) = 3
  BY DEF Answer!Order
<1> QED
  BY <1>1, <1>2, <1>3

\* Fresh is what the code says of an age that is never less than 0.
LEMMA AcceptedIsWorthy ==
    ASSUME asked_at \in Nat, NEW p \in Answer!Candidate, p # Answer!Unpolled
    PROVE  Answer!Accepted(p) <=> Worthy(p)
<1>1. CASE p.captured = None
  BY <1>1, AnswerConstants
  DEF Worthy, Answer!Accepted, Answer!Fresh, Answer!Age
<1>2. CASE p.captured # None
  <2>1. p.captured \in Nat /\ asked_at - p.captured \in Int
    BY <1>2 DEF Answer!Candidate
  <2>2. Answer!Max({asked_at - p.captured, 0}) =
            IF asked_at - p.captured >= 0 THEN asked_at - p.captured ELSE 0
    BY <2>1, Greater DEF Answer!Max
  <2>3. Answer!Fresh(p) <=> asked_at - p.captured <= max_picture_age_s
    BY <1>2, <2>1, <2>2, AnswerConstants DEF Answer!Fresh, Answer!Age
  <2> QED
    BY <1>2, <2>3, AnswerConstants DEF Worthy, Answer!Accepted
<1> QED
  BY <1>1, <1>2

\* The pictures of a source.
LEMMA PicturesArePictures ==
    ASSUME AnswerInv, NEW forms \in SUBSET Answer!Forms
    PROVE  /\ Answer!Pictures(forms) \subseteq Answer!Candidate
           /\ \A p \in Answer!Pictures(forms) : p # Answer!Unpolled
<1>1. "unpolled" \notin Answer!Statuses
  BY DEF Answer!Statuses
<1>2. \A p \in Answer!Pictures(forms) :
          p \in [form : forms, status : Answer!Statuses, captured : Nat \cup {None}]
  BY DEF AnswerInv, Answer!Pictures, Answer!Statuses
<1>3. \A p \in Answer!Pictures(forms) : p \in Answer!Candidate
  BY <1>2 DEF Answer!Candidate
<1>4. \A p \in Answer!Pictures(forms) : p.status # Answer!Unpolled.status
  BY <1>1, <1>2 DEF Answer!Unpolled
<1> QED
  BY <1>3, <1>4

\* A candidate is collected: if its picture is in time it is worthy.
LEMMA CollectKeepsAnswerInv ==
    ASSUME AnswerInv, NEW candidate \in Answer!Candidate \cup {None}, Answer!Collected(candidate),
           \/ had' = had
           \/ had' = had \cup {Len(candidates) + 1} /\ Worthy(candidate)
    PROVE  AnswerInv'
<1>1. /\ stage = "collect" /\ candidates' = Append(candidates, candidate)
      /\ stage' = IF Len(candidates') = 3 THEN "judge" ELSE "collect"
      /\ UNCHANGED <<clock, asked_at, judged, given, shown>>
  BY AnswerConstants DEF Answer!Collected
<1>2. /\ candidates' \in Seq(Answer!Candidate \cup {None}) /\ Len(candidates') = Len(candidates) + 1
      /\ Len(candidates) \in Nat /\ candidates'[Len(candidates) + 1] = candidate
      /\ \A i \in 1 .. Len(candidates) : candidates'[i] = candidates[i]
  BY <1>1 DEF AnswerInv
<1>3. /\ Len(candidates) < 3 /\ judged = 0 /\ given = None /\ shown = None
      /\ \A i \in had : i \in 1 .. Len(candidates) /\ Worthy(candidates[i])
  BY <1>1 DEF AnswerInv
<1>4. ASSUME NEW i \in had'
      PROVE  i \in 1 .. Len(candidates') /\ judged' < i /\ Worthy(candidates[i])'
  <2>1. CASE i \in had
    BY <1>1, <1>2, <1>3, <2>1 DEF Worthy
  <2>2. CASE i \notin had
    <3>1. i = Len(candidates) + 1 /\ Worthy(candidate)
      BY <1>4, <2>2
    <3> QED
      BY <1>1, <1>2, <1>3, <3>1 DEF Worthy
  <2> QED
    BY <2>1, <2>2
<1> QED
  BY <1>1, <1>2, <1>3, <1>4 DEF AnswerInv

LEMMA HooksKeepAnswerInv ==
    ASSUME AnswerInv,
           \/ Answer!CollectHook \/ Answer!CollectSnapshot
           \/ Answer!CollectNothing \/ Answer!CollectService
    PROVE  AnswerInv'
<1>1. ASSUME NEW forms \in SUBSET Answer!Forms, NEW p \in Answer!Pictures(forms), Answer!InTime(p)
      PROVE  Worthy(p)
  BY <1>1, PicturesArePictures, AnswerConstants DEF Worthy, Answer!InTime
<1>2. CASE Answer!CollectHook
  <2>1. PICK p \in Answer!Pictures({"realtime", "static"}) :
            Answer!Collected(p) /\ Answer!Noted(Len(candidates) + 1, p)
    BY <1>2 DEF Answer!CollectHook
  <2>2. {"realtime", "static"} \in SUBSET Answer!Forms
    BY DEF Answer!Forms
  <2>3. p \in Answer!Candidate /\ (Answer!InTime(p) => Worthy(p))
    BY <1>1, <2>2, PicturesArePictures
  <2> QED
    BY <2>1, <2>3, CollectKeepsAnswerInv DEF Answer!Noted
<1>3. CASE Answer!CollectSnapshot
  <2>1. PICK p \in Answer!Pictures({"vision_state", "replay"}) :
            Answer!Collected(Answer!Promoted(p)) /\ Answer!Noted(Len(candidates) + 1, p)
    BY <1>3 DEF Answer!CollectSnapshot
  <2>2. {"vision_state", "replay"} \in SUBSET Answer!Forms
    BY DEF Answer!Forms
  <2>3. p \in Answer!Candidate /\ (Answer!InTime(p) => Worthy(p))
    BY <1>1, <2>2, PicturesArePictures
  <2>4. /\ Answer!Promoted(p) \in Answer!Candidate \cup {None}
        /\ Answer!InTime(p) => Worthy(Answer!Promoted(p))
    BY <2>3 DEF Answer!Promoted, Answer!InTime
  <2> QED
    BY <2>1, <2>4, CollectKeepsAnswerInv DEF Answer!Noted
<1>4. CASE Answer!CollectNothing
  BY <1>4, CollectKeepsAnswerInv DEF Answer!CollectNothing
<1>5. CASE Answer!CollectService
  BY <1>5, CollectKeepsAnswerInv, AnswerConstants DEF Answer!CollectService
<1> QED
  BY <1>2, <1>3, <1>4, <1>5

\* The service's place is taken by its picture.
LEMMA PolledKeepsAnswerInv ==
    ASSUME AnswerInv, Answer!Polled
    PROVE  AnswerInv'
<1>1. PICK p \in Answer!Pictures({"realtime"}) :
          /\ candidates' = [candidates EXCEPT ![judged + 1] = p]
          /\ Answer!Noted(judged + 1, p)
  BY DEF Answer!Polled
<1>2. p \in Answer!Candidate /\ (Answer!InTime(p) => Worthy(p))
  <2>1. {"realtime"} \in SUBSET Answer!Forms
    BY DEF Answer!Forms
  <2> QED
    BY <1>1, <2>1, PicturesArePictures, AnswerConstants DEF Worthy, Answer!InTime
<1>3. /\ stage = "judge" /\ candidates[judged + 1] = Answer!Unpolled
      /\ UNCHANGED <<stage, clock, asked_at, judged, given, shown>>
  BY DEF Answer!Polled
<1>4. /\ Len(candidates) = 3 /\ judged \in Nat /\ judged < 3 /\ given = None /\ shown = None
      /\ candidates \in Seq(Answer!Candidate \cup {None})
  BY <1>3 DEF AnswerInv
<1>5. /\ candidates' \in Seq(Answer!Candidate \cup {None}) /\ Len(candidates') = 3
      /\ candidates'[judged + 1] = p
      /\ \A i \in 1 .. 3 : i # judged + 1 => candidates'[i] = candidates[i]
  <2> DEFINE place == judged + 1
             C == Answer!Candidate \cup {None}
  <2>1. candidates \in Seq(C) /\ place \in 1 .. Len(candidates) /\ p \in C
    BY <1>2, <1>4
  <2>2. candidates' = [candidates EXCEPT ![place] = p]
    BY <1>1
  <2> HIDE DEF place, C
  <2>3. /\ [candidates EXCEPT ![place] = p] \in Seq(C)
        /\ Len([candidates EXCEPT ![place] = p]) = Len(candidates)
        /\ \A i \in 1 .. Len(candidates) :
               [candidates EXCEPT ![place] = p][i] = IF i = place THEN p ELSE candidates[i]
    BY <2>1, ExceptSeq
  <2> QED
    BY <1>4, <2>1, <2>2, <2>3 DEF place, C
<1>6. ASSUME NEW i \in had'
      PROVE  i \in 1 .. Len(candidates') /\ judged' < i /\ Worthy(candidates[i])'
  <2>1. CASE i \in had
    <3>1. i \in 1 .. 3 /\ judged < i /\ Worthy(candidates[i])
      BY <1>4, <2>1 DEF AnswerInv
    <3>2. i # judged + 1
      BY <1>3, <3>1 DEF Worthy
    <3> QED
      BY <1>3, <1>5, <3>1, <3>2 DEF Worthy
  <2>2. CASE i \notin had
    <3>1. i = judged + 1 /\ Worthy(p)
      BY <1>1, <1>2, <1>6, <2>2 DEF Answer!Noted
    <3> QED
      BY <1>3, <1>4, <1>5, <3>1 DEF Worthy
  <2> QED
    BY <2>1, <2>2
<1> QED
  BY <1>3, <1>4, <1>5, <1>6 DEF AnswerInv

\* The next candidate is judged: whoever is turned down was not worthy.
LEMMA JudgeKeepsAnswerInv ==
    ASSUME AnswerInv, Answer!Judge
    PROVE  AnswerInv'
<1> DEFINE p == candidates[judged + 1]
<1>1. /\ stage = "judge" /\ p # Answer!Unpolled
      /\ UNCHANGED <<clock, asked_at, candidates, shown, had>>
      /\ IF p # None /\ Answer!Accepted(p)
         THEN given' = judged + 1 /\ stage' = "show" /\ UNCHANGED judged
         ELSE /\ judged' = judged + 1 /\ UNCHANGED given
              /\ stage' = IF judged' = 3 THEN "show" ELSE "judge"
  BY AnswerConstants DEF Answer!Judge
<1>2. /\ Len(candidates) = 3 /\ judged \in Nat /\ judged < 3 /\ given = None /\ shown = None
      /\ p \in Answer!Candidate \cup {None} /\ asked_at \in Nat
  <2>1. /\ Len(candidates) = 3 /\ judged \in Nat /\ judged < 3 /\ given = None /\ shown = None
        /\ candidates \in Seq(Answer!Candidate \cup {None}) /\ asked_at \in Nat
    BY <1>1 DEF AnswerInv
  <2>2. judged + 1 \in 1 .. Len(candidates)
    BY <2>1
  <2> QED
    BY <2>1, <2>2
<1>3. p # None /\ Answer!Accepted(p) <=> Worthy(p)
  <2>1. CASE p = None
    BY <2>1 DEF Worthy
  <2>2. CASE p # None
    BY <1>1, <1>2, <2>2, AcceptedIsWorthy
  <2> QED
    BY <2>1, <2>2
<1> HIDE DEF p
<1>4. CASE Worthy(p)
  <2>1. given' = judged + 1 /\ stage' = "show" /\ UNCHANGED judged
    BY <1>1, <1>3, <1>4
  <2>2. Worthy(candidates[given])'
    BY <1>1, <1>4, <2>1 DEF Worthy, p
  <2>3. \A i \in had' : i \in 1 .. Len(candidates') /\ judged' < i /\ Worthy(candidates[i])'
    BY <1>1, <2>1 DEF AnswerInv, Worthy
  <2>4. given' # None
    BY <1>2, <2>1, AnswerConstants
  <2> QED
    BY <1>1, <1>2, <2>1, <2>2, <2>3, <2>4 DEF AnswerInv
<1>5. CASE ~Worthy(p)
  <2>1. judged' = judged + 1 /\ given' = given /\ stage' = IF judged' = 3 THEN "show" ELSE "judge"
    BY <1>1, <1>3, <1>5
  <2>2. ASSUME NEW i \in had'
        PROVE  i \in 1 .. Len(candidates') /\ judged' < i /\ Worthy(candidates[i])'
    <3>1. i \in 1 .. 3 /\ judged < i /\ Worthy(candidates[i])
      BY <1>1, <1>2, <2>2 DEF AnswerInv
    <3>2. i # judged + 1
      BY <1>5, <3>1 DEF p
    <3> QED
      BY <1>1, <1>2, <2>1, <3>1, <3>2 DEF Worthy
  <2> QED
    BY <1>1, <1>2, <2>1, <2>2 DEF AnswerInv
<1> QED
  BY <1>4, <1>5

LEMMA ShowKeepsAnswerInv ==
    ASSUME AnswerInv, Answer!Show
    PROVE  AnswerInv'
<1>1. /\ stage = "show" /\ shown = None
      /\ UNCHANGED <<stage, clock, asked_at, candidates, judged, given, had>>
      /\ shown' = IF given = None THEN "offline" ELSE Answer!HealthState(candidates[given])
  BY DEF Answer!Show
<1>2. given # None => candidates[given] \in Answer!Candidate
  <2> SUFFICES ASSUME given # None PROVE candidates[given] \in Answer!Candidate
    OBVIOUS
  <2>1. given \in 1 .. Len(candidates) /\ candidates[given] # None
    BY DEF AnswerInv, Worthy
  <2> QED
    BY <2>1 DEF AnswerInv
<1>3. \A i \in had' : i \in 1 .. Len(candidates') /\ judged' < i /\ Worthy(candidates[i])'
  BY <1>1 DEF AnswerInv, Worthy
<1>4. given' # None =>
          given' = judged' + 1 /\ judged' < Len(candidates') /\ Worthy(candidates[given])'
  BY <1>1 DEF AnswerInv, Worthy
<1>5. shown' \notin {None, "failed"} =>
          IF given' = None THEN shown' = "offline" /\ judged' = 3
          ELSE candidates'[given'] \in Answer!Candidate
  BY <1>1, <1>2, AnswerConstants DEF AnswerInv
<1>6. stage' = "show" /\ shown' # "failed" /\ given' = None => judged' = 3
  BY <1>1, AnswerConstants DEF AnswerInv
<1> QED
  BY <1>1, <1>3, <1>4, <1>5, <1>6 DEF AnswerInv

LEMMA NextKeepsAnswerInv ==
    ASSUME AnswerInv, [Answer!Next]_(Answer!vars)
    PROVE  AnswerInv'
<1>1. CASE Answer!Ask
  <2>1. /\ asked_at' = clock /\ candidates' = <<>> /\ judged' = 0 /\ given' = None
        /\ shown' = None /\ had' = {} /\ stage' = "collect" /\ clock' = clock
    BY <1>1 DEF Answer!Ask
  <2> QED
    BY <2>1 DEF AnswerInv
<1>2. CASE \/ Answer!CollectHook \/ Answer!CollectSnapshot
           \/ Answer!CollectNothing \/ Answer!CollectService
  BY <1>2, HooksKeepAnswerInv
<1>3. CASE Answer!HookFails
  <2>1. /\ stage = "collect" /\ stage' = "show" /\ shown' = "failed"
        /\ UNCHANGED <<clock, asked_at, candidates, judged, given, had>>
    BY <1>3 DEF Answer!HookFails
  <2> QED
    BY <2>1 DEF AnswerInv, Worthy
<1>4. CASE Answer!Polled
  BY <1>4, PolledKeepsAnswerInv
<1>5. CASE Answer!Judge
  BY <1>5, JudgeKeepsAnswerInv
<1>6. CASE Answer!Show
  BY <1>6, ShowKeepsAnswerInv
<1>7. CASE Answer!Tick
  <2>1. /\ clock' = clock + 1
        /\ UNCHANGED <<stage, asked_at, candidates, judged, given, shown, had>>
    BY <1>7 DEF Answer!Tick
  <2> QED
    BY <2>1 DEF AnswerInv, Worthy
<1>8. CASE UNCHANGED Answer!vars
  BY <1>8 DEF Answer!vars, AnswerInv, Worthy
<1> QED
  BY <1>1, <1>2, <1>3, <1>4, <1>5, <1>6, <1>7, <1>8 DEF Answer!Next

LEMMA LeastOfThree ==
    ASSUME NEW S \in SUBSET (1 .. 3), S # {}
    PROVE  /\ Answer!Min(S) \in S
           /\ \A i \in S : Answer!Min(S) <= i
<1>1. \E m \in S : \A i \in S : m <= i
  <2>1. CASE 1 \in S
    BY <2>1
  <2>2. CASE 1 \notin S /\ 2 \in S
    BY <2>2
  <2>3. CASE 1 \notin S /\ 2 \notin S
    <3>1. \A i \in S : i = 3
      BY <2>3
    <3>2. 3 \in S
      BY <3>1
    <3> QED
      BY <3>1, <3>2
  <2> QED
    BY <2>1, <2>2, <2>3
<1> QED
  BY <1>1, Zenon DEF Answer!Min

LEMMA InitAnswerInv == Answer!Init => AnswerInv
  BY AnswerConstants DEF Answer!Init, AnswerInv

\* The head answers with the first source that had a live picture in time for the request,
\* and is offline only if none had; a picture shown as healthy is as recent as the request
\* asked for: for every age that is allowed and however long the polls take (app.py,
\* vision_realtime and its candidates; monitoring/realtime_vision.py).
THEOREM SpecAnswerIsHonest == Spec => []AnswerIsHonest
<1>1. Init => AnswerInv
  BY InitAnswerInv DEF Init
<1>2. AnswerInv => AnswerIsHonest
  <2> SUFFICES ASSUME AnswerInv, shown \notin {None, "failed"}
               PROVE  /\ had # {} => given # None /\ given <= Answer!Min(had)
                      /\ shown = "healthy" /\ candidates[given].captured # None =>
                             asked_at - candidates[given].captured <= max_picture_age_s
    BY DEF AnswerIsHonest, Answer!AnswerIsHonest
  <2>1. ASSUME had # {} PROVE given # None /\ given <= Answer!Min(had)
    <3>1. had \subseteq 1 .. 3 /\ \A i \in had : judged < i /\ judged \in Nat
      BY DEF AnswerInv
    <3>2. Answer!Min(had) \in had
      BY <2>1, <3>1, LeastOfThree
    <3>3. Answer!Min(had) \in 1 .. 3 /\ judged < Answer!Min(had) /\ judged \in Nat
      BY <3>1, <3>2
    <3> QED
      BY <3>3 DEF AnswerInv
  <2>2. ASSUME shown = "healthy", candidates[given].captured # None
        PROVE  asked_at - candidates[given].captured <= max_picture_age_s
    <3>1. given # None
      BY <2>2 DEF AnswerInv
    <3> QED
      BY <2>2, <3>1 DEF AnswerInv, Worthy
  <2> QED
    BY <2>1, <2>2
<1>3. AnswerInv /\ [Next]_vars => AnswerInv'
  BY StepOfAnswer, NextKeepsAnswerInv
<1> QED
  BY <1>1, <1>2, <1>3, PTL DEF Spec

-----------------------------------------------------------------------------
(* The neck's target (NeckTarget). *)

\* Unless they are of an earlier frame, the crops are of faces in this one, and nobody but
\* those cut out was matched.
CutFromThis ==
    /\ \A p \in crops : p \in Passers /\ detected[p] = "face"
    /\ \A o \in observations : o.who \in crops /\ (o.known => o.who \in acquainted)
    /\ \A o1, o2 \in observations : o1.who = o2.who => o1 = o2

TargetInv ==
    /\ ~repeated_last => CutFromThis
    /\ Target!TargetIsOnePerson

\* What the matcher makes of crops.
LEMMA MatchedAreCut ==
    ASSUME NEW cut, NEW obs \in Target!MatchedFrom(cut)
    PROVE  /\ \A o \in obs : o.who \in cut /\ (o.known => o.who \in acquainted)
           /\ \A o1, o2 \in obs : o1.who = o2.who => o1 = o2
  BY DEF Target!MatchedFrom, Target!Matches

\* One person is in the picture when the head counts no more than one.
LEMMA AtMostOneIsPresent ==
    ASSUME Target!Cardinality(Target!Present) <= 1,
           NEW p \in Target!Present, NEW q \in Target!Present
    PROVE  p = q
<1> DEFINE seen == Target!Present
<1>1. IsFiniteSet(Passers)
  BY SensesAssumption
  DEF Target!TargetAssumption, Target!IsFiniteSet, IsFiniteSet
<1>2. IsFiniteSet(seen)
  BY <1>1, FS_Subset DEF Target!Present
<1>3. Cardinality(seen) <= 1
  BY DEF Target!Cardinality, Cardinality
<1> HIDE DEF seen
<1>4. Cardinality(seen \ {p}) = Cardinality(seen) - 1 /\ IsFiniteSet(seen \ {p})
  BY <1>2, FS_RemoveElement DEF seen
<1>5. Cardinality(seen \ {p}) \in Nat /\ Cardinality(seen) \in Nat
  BY <1>2, <1>4, FS_CardinalityType
<1>6. Cardinality(seen \ {p}) = 0
  BY <1>3, <1>4, <1>5
<1>7. seen \ {p} = {}
  BY <1>4, <1>6, FS_EmptySet
<1> QED
  BY <1>7 DEF seen

LEMMA TargetIsMade ==
    ASSUME CutFromThis, NEW candidate \in Target!Candidates,
           NEW q \in Target!CropOf(candidate.who)
    PROVE  LET known_ == Target!HasKnownIdentity(candidate) IN
           /\ known_ => candidate.who \in acquainted
           /\ q # candidate.who => candidate.who \notin crops
           /\ (/\ Target!Present = {candidate.who} /\ ~track_ids
               /\ [who |-> candidate.who, known |-> TRUE] \in observations) => known_
<1> DEFINE who_ == candidate.who
           kind_ == candidate.kind
<1>1. None \notin {"face", "human_face"}
  BY SensesAssumption DEF Target!TargetAssumption, Target!DetectedLabels
<1>2. crops \subseteq Target!Present /\ Target!Faces \subseteq Target!Present
  BY <1>1 DEF CutFromThis, Target!Present, Target!Faces
<1>3. /\ kind_ = "observation" \/ who_ \in Target!Present
      /\ kind_ \in {"detection", "observation", "crop"}
  BY <1>2 DEF Target!Candidates
<1>4. ASSUME Target!HasKnownIdentity(candidate) PROVE who_ \in acquainted
  <2>1. CASE kind_ = "observation"
    BY <1>4, <2>1 DEF Target!HasKnownIdentity, CutFromThis
  <2>2. CASE kind_ # "observation"
    <3>1. PICK o \in observations : o.known
      BY <1>4, <2>2 DEF Target!HasKnownIdentity
    <3>2. Target!Cardinality(Target!Present) <= 1
      BY <1>4, <2>2 DEF Target!HasKnownIdentity
    <3>3. o.who \in Target!Present /\ o.who \in acquainted
      BY <1>2, <3>1 DEF CutFromThis
    <3>4. o.who = who_
      BY <1>3, <2>2, <3>2, <3>3, AtMostOneIsPresent
    <3> QED
      BY <3>3, <3>4
  <2> QED
    BY <2>1, <2>2
<1>5. q # who_ => who_ \notin crops
  BY DEF Target!CropOf
<1>6. ASSUME Target!Present = {who_}, ~track_ids,
             [who |-> who_, known |-> TRUE] \in observations
      PROVE  Target!HasKnownIdentity(candidate)
  <2> DEFINE him == [who |-> who_, known |-> TRUE]
  <2>1. CASE kind_ = "observation"
    BY <1>6, <2>1 DEF Target!HasKnownIdentity
  <2>2. CASE kind_ # "observation"
    <3>1. observations = {him}
      BY <1>2, <1>6 DEF CutFromThis
    <3>2. Cardinality({him}) = 1 /\ Cardinality({who_}) = 1
      BY FS_Singleton
    <3>3. Target!Cardinality(observations) = 1 /\ Target!Cardinality(Target!Present) = 1
      BY <1>6, <3>1, <3>2 DEF Target!Cardinality, Cardinality
    <3> QED
      BY <1>6, <2>2, <3>3 DEF Target!HasKnownIdentity
  <2> QED
    BY <2>1, <2>2
<1> QED
  BY <1>4, <1>5, <1>6

LEMMA NextKeepsTargetInv ==
    ASSUME TargetInv, [Target!Next]_(Target!vars)
    PROVE  TargetInv'
<1>1. CASE Target!Frame
  <2>1. /\ crops' \in SUBSET {p \in Passers : detected'[p] = "face"}
        /\ observations' \in Target!MatchedFrom(crops') /\ target' = None
        /\ acquainted' = acquainted
    BY <1>1 DEF Target!Frame
  <2>2. CutFromThis'
    BY <2>1, MatchedAreCut DEF CutFromThis
  <2> QED
    BY <2>1, <2>2 DEF TargetInv, Target!TargetIsOnePerson
<1>2. CASE Target!ThrottledFrame \/ Target!FailedPoll
  BY <1>2 DEF Target!ThrottledFrame, Target!FailedPoll, TargetInv, Target!TargetIsOnePerson
<1>3. CASE Target!Tick
  <2>1. /\ UNCHANGED <<acquainted, track_ids, detected, crops, throttled, observations,
                       repeated_last>>
        /\ \E candidate \in Target!Candidates : \E q \in Target!CropOf(candidate.who) :
               target' = [place_of |-> candidate.who, size_of |-> q,
                          known |-> Target!HasKnownIdentity(candidate)]
    BY <1>3 DEF Target!Tick
  <2>2. ~repeated_last' => CutFromThis'
    BY <2>1 DEF TargetInv, CutFromThis
  <2>3. ASSUME ~repeated_last
        PROVE  /\ target'.known => target'.place_of \in acquainted
               /\ target'.size_of # target'.place_of => target'.place_of \notin crops
               /\ (/\ Target!Present = {target'.place_of} /\ ~track_ids
                   /\ [who |-> target'.place_of, known |-> TRUE] \in observations)
                      => target'.known
    BY <2>1, <2>3, TargetIsMade DEF TargetInv
  <2>4. Target!Present' = Target!Present
    BY <2>1 DEF Target!Present
  <2> QED
    BY <2>1, <2>2, <2>3, <2>4 DEF TargetInv, Target!TargetIsOnePerson
<1>4. CASE UNCHANGED Target!vars
  BY <1>4 DEF Target!vars, TargetInv, CutFromThis, Target!TargetIsOnePerson, Target!Present
<1> QED
  BY <1>1, <1>2, <1>3, <1>4 DEF Target!Next

\* The neck's target is one person, called known only if the registry knows that person,
\* unless what the vision loop says is repeated from an earlier frame: for any number of
\* people before the camera (app.py, _extract_visual_reframe_target, _matching_face_crop
\* and _candidate_has_known_identity).
THEOREM SpecTargetIsOnePerson == Spec => []TargetIsOnePerson
<1>1. Init => TargetInv
  BY DEF Init, Target!Init, TargetInv, CutFromThis, Target!TargetIsOnePerson
<1>2. TargetInv => TargetIsOnePerson
  BY DEF TargetInv, TargetIsOnePerson
<1>3. TargetInv /\ [Next]_vars => TargetInv'
  BY StepOfTarget, NextKeepsTargetInv
<1> QED
  BY <1>1, <1>2, <1>3, PTL DEF Spec

-----------------------------------------------------------------------------
(* Moves and the journal (HeadActions). *)

LEMMA ActionsConstants ==
    /\ TargetAngles \subseteq Nat /\ None \notin Nat /\ None \notin Callers
    /\ ptz_min_angle_delta \in Nat /\ max_items \in Nat \ {0}
  BY SensesAssumption DEF Actions!ActionsAssumption

Threads == {DOMAIN step, DOMAIN request, DOMAIN outcome, DOMAIN stamp} = {Callers}

\* A move that was compared and is not yet remembered, and one the head has made.
Moving(c) == step[c] \in {"dispatch", "commit"} /\ request[c] \in Actions!Moves
Made(c) == step[c] = "commit" /\ request[c] \in Actions!Moves /\ outcome[c].success

\* One move at a time: the head is where the last one that is remembered left it, or where
\* the one that was just made did.
OneMove ==
    /\ ~far
    /\ \A c, d \in Callers : Moving(c) /\ Moving(d) => c = d
    /\ \A c \in Callers : Made(c) => head = request[c].angle
    /\ (\A c \in Callers : ~Made(c)) => head = ptz_last_target_angle

MovesInv ==
    /\ Threads
    /\ ptz_last_target_angle \in TargetAngles \cup {None}
    /\ ~overlapped /\ ~raised => OneMove

\* A thread that is not at a move, or gives one up, changes nothing of that.
LEMMA OthersKeepMovesInv ==
    ASSUME MovesInv, NEW c \in Callers, Threads',
           \A d \in Callers \ {c} :
               step'[d] = step[d] /\ request'[d] = request[d] /\ outcome'[d] = outcome[d],
           ~Made(c), ~Made(c)', Moving(c)' => Moving(c),
           UNCHANGED <<ptz_last_target_angle, head, far>>,
           ~overlapped' /\ ~raised' => ~overlapped /\ ~raised
    PROVE  MovesInv'
<1> SUFFICES ASSUME ~overlapped', ~raised' PROVE OneMove'
  BY DEF MovesInv
<1>1. OneMove
  BY DEF MovesInv
<1>2. \A d \in Callers : (Moving(d)' => Moving(d)) /\ (Made(d)' <=> Made(d))
  BY DEF Moving, Made
<1>3. \A d \in Callers : Made(d)' => request'[d] = request[d]
  BY DEF Made
<1> QED
  BY <1>1, <1>2, <1>3 DEF OneMove

\* A step of a thread changes the threads at that one only.
LEMMA EndsIsOfOne ==
    ASSUME Threads, NEW c \in Callers, NEW result_, Actions!Ends(c, result_)
    PROVE  /\ Threads'
           /\ \A d \in Callers \ {c} :
                  step'[d] = step[d] /\ request'[d] = request[d] /\ outcome'[d] = outcome[d]
           /\ step'[c] \in {"stamp", "idle"} /\ ~Moving(c)' /\ ~Made(c)'
           /\ UNCHANGED stamp
<1>1. DOMAIN step = Callers /\ DOMAIN request = Callers /\ DOMAIN outcome = Callers
  BY DEF Threads
<1>2. /\ outcome' = [outcome EXCEPT ![c] = IF journalled[c] THEN result_ ELSE None]
      /\ step' = [step EXCEPT ![c] = IF journalled[c] THEN "stamp" ELSE "idle"]
      /\ request' = [request EXCEPT ![c] = None]
      /\ UNCHANGED stamp
  BY DEF Actions!Ends, Actions!Goto
<1>3. step'[c] \in {"stamp", "idle"}
  BY <1>1, <1>2
<1>4. ~Moving(c)' /\ ~Made(c)'
  BY <1>3 DEF Moving, Made
<1> QED
  BY <1>1, <1>2, <1>3, <1>4 DEF Threads

LEMMA HandlingKeepsMovesInv ==
    ASSUME MovesInv, NEW c \in Callers,
           \/ Actions!Receive(c) \/ Actions!Refuse(c) \/ Actions!UseVoice(c)
           \/ Actions!CaptureFrame(c) \/ Actions!Raises(c)
           \/ Actions!Stamp(c) \/ Actions!AppendRecord(c)
    PROVE  MovesInv'
<1>1. /\ DOMAIN step = Callers /\ DOMAIN request = Callers /\ DOMAIN outcome = Callers
      /\ DOMAIN stamp = Callers /\ Threads
  BY DEF MovesInv, Threads
<1>2. CASE Actions!Receive(c) \/ Actions!Raises(c) \/ Actions!Stamp(c) \/ Actions!AppendRecord(c)
  <2>1. /\ step[c] \in {"idle", "dispatch", "stamp", "append"}
        /\ \E place \in {"handle", "idle", "append"} : step' = [step EXCEPT ![c] = place]
        /\ request' = request \/ \E r : request' = [request EXCEPT ![c] = r]
        /\ outcome' = outcome \/ \E o : outcome' = [outcome EXCEPT ![c] = o]
        /\ stamp' = stamp \/ \E s : stamp' = [stamp EXCEPT ![c] = s]
    BY <1>2
    DEF Actions!Receive, Actions!Raises, Actions!Stamp, Actions!AppendRecord, Actions!Goto
  <2>2. /\ UNCHANGED <<ptz_last_target_angle, head, far, overlapped>>
        /\ raised' = raised \/ raised' = TRUE
    BY <1>2
    DEF Actions!Receive, Actions!Raises, Actions!Stamp, Actions!AppendRecord, Actions!ptz,
        Actions!history
  <2>3. /\ Threads'
        /\ \A d \in Callers \ {c} :
               step'[d] = step[d] /\ request'[d] = request[d] /\ outcome'[d] = outcome[d]
        /\ step'[c] \in {"handle", "idle", "append"}
    BY <1>1, <2>1 DEF Threads
  <2>4. ~Made(c) /\ ~Made(c)' /\ ~Moving(c)'
    BY <2>1, <2>3 DEF Made, Moving
  <2> QED
    BY <2>2, <2>3, <2>4, OthersKeepMovesInv
<1>3. CASE Actions!Refuse(c) \/ Actions!UseVoice(c) \/ Actions!CaptureFrame(c)
  <2>1. (\E result_ : Actions!Ends(c, result_)) /\ step[c] \in {"handle", "dispatch"}
    BY <1>3 DEF Actions!Refuse, Actions!UseVoice, Actions!CaptureFrame
  <2>2. /\ UNCHANGED <<ptz_last_target_angle, head, far, overlapped>>
        /\ raised' = raised \/ raised' = TRUE
    BY <1>3
    DEF Actions!Refuse, Actions!UseVoice, Actions!CaptureFrame, Actions!ptz, Actions!history
  <2>3. ~Made(c)
    BY <2>1 DEF Made
  <2> QED
    BY <1>1, <2>1, <2>2, <2>3, EndsIsOfOne, OthersKeepMovesInv
<1> QED
  BY <1>2, <1>3

\* A move that is dismissed is near to where the head is.
LEMMA SuppressKeepsMovesInv ==
    ASSUME MovesInv, NEW c \in Callers, Actions!Suppress(c)
    PROVE  MovesInv'
<1>1. /\ \E result_ : Actions!Ends(c, result_)
      /\ step[c] = "handle" /\ Actions!Jitter(request[c].angle)
      /\ UNCHANGED <<ptz_last_target_angle, head, raised>>
  BY DEF Actions!Suppress, Actions!ptz
<1>2. /\ far' = (far \/ head = None
                     \/ Actions!Distance(request[c].angle, head) > ptz_min_angle_delta)
      /\ overlapped' = (overlapped \/ Actions!Crossed)
      /\ request[c].angle \in Nat
  BY ActionsConstants DEF Actions!Suppress, Actions!Moves
<1>3. /\ Threads' /\ ~Made(c)' /\ ~Made(c) /\ ~Moving(c)'
      /\ \A d \in Callers \ {c} :
             step'[d] = step[d] /\ request'[d] = request[d] /\ outcome'[d] = outcome[d]
  BY <1>1, EndsIsOfOne DEF MovesInv, Made
<1>4. CASE ~overlapped' /\ ~raised'
  <2>1. ~overlapped /\ ~raised /\ ~Actions!Crossed
    BY <1>1, <1>2, <1>4, Zenon
  <2>2. OneMove /\ \A d \in Callers : ~Made(d)
    BY <2>1 DEF MovesInv, Actions!Crossed, Made
  <2>3. head = ptz_last_target_angle /\ head # None /\ ~far
    BY <1>1, <2>2 DEF OneMove, Actions!Jitter
  <2>4. head \in Nat /\ Actions!Distance(request[c].angle, head) <= ptz_min_angle_delta
    BY <1>1, <2>3, ActionsConstants DEF MovesInv, Actions!Jitter
  <2>5. ~(Actions!Distance(request[c].angle, head) > ptz_min_angle_delta)
    BY <1>2, <2>4, ActionsConstants DEF Actions!Distance
  <2>6. ~far'
    BY <1>2, <2>3, <2>5, Zenon
  <2>7. \A d \in Callers : ~Made(d)' /\ (Moving(d)' => Moving(d))
    BY <1>3, <2>2 DEF Made, Moving
  <2> QED
    BY <1>1, <1>3, <2>2, <2>3, <2>6, <2>7 DEF MovesInv, OneMove
<1>5. CASE ~(~overlapped' /\ ~raised')
  BY <1>1, <1>3, <1>5 DEF MovesInv
<1> QED
  BY <1>4, <1>5

LEMMA BeginKeepsMovesInv ==
    ASSUME MovesInv, NEW c \in Callers, Actions!Begin(c)
    PROVE  MovesInv'
<1>1. /\ step' = [step EXCEPT ![c] = "dispatch"] /\ step[c] = "handle"
      /\ UNCHANGED <<request, outcome, stamp, ptz_last_target_angle, head, raised, far>>
      /\ overlapped' = (overlapped \/ (request[c] \in Actions!Moves /\ Actions!Crossed))
  BY DEF Actions!Begin, Actions!Goto, Actions!ptz
<1>2. /\ Threads' /\ step'[c] = "dispatch" /\ \A d \in Callers \ {c} : step'[d] = step[d]
  BY <1>1 DEF MovesInv, Threads
<1>3. ASSUME ~overlapped', ~raised' PROVE OneMove'
  <2>1. ~overlapped /\ ~raised /\ ~(request[c] \in Actions!Moves /\ Actions!Crossed)
    BY <1>1, <1>3, Zenon
  <2>2. OneMove
    BY <2>1 DEF MovesInv
  <2>3. \A d \in Callers : Made(d)' <=> Made(d)
    BY <1>1, <1>2 DEF Made
  <2>4. \A d \in Callers \ {c} : Moving(d)' <=> Moving(d)
    BY <1>1, <1>2 DEF Moving
  <2>5. Moving(c)' => \A d \in Callers : ~Moving(d)
    BY <1>1, <2>1 DEF Moving, Actions!Crossed
  <2>6. \A d, e \in Callers : Moving(d)' /\ Moving(e)' => d = e
    BY <2>2, <2>4, <2>5 DEF OneMove
  <2> QED
    BY <1>1, <2>2, <2>3, <2>6 DEF OneMove
<1> QED
  BY <1>1, <1>2, <1>3 DEF MovesInv

LEMMA DispatchKeepsMovesInv ==
    ASSUME MovesInv, NEW c \in Callers, Actions!Dispatch(c)
    PROVE  MovesInv'
<1>1. /\ step' = [step EXCEPT ![c] = "commit"] /\ step[c] = "dispatch"
      /\ \E o : outcome' = [outcome EXCEPT ![c] = o]
      /\ UNCHANGED <<request, stamp, ptz_last_target_angle, overlapped, far>>
  BY DEF Actions!Dispatch, Actions!Goto
<1>2. /\ Threads' /\ step'[c] = "commit"
      /\ \A d \in Callers \ {c} : step'[d] = step[d] /\ outcome'[d] = outcome[d]
  BY <1>1 DEF MovesInv, Threads
<1>3. ASSUME ~overlapped', ~raised' PROVE OneMove'
  <2>1. /\ \/ /\ outcome'[c].success = TRUE
              /\ head' = IF request[c] \in Actions!Moves THEN request[c].angle ELSE head
           \/ outcome'[c].success = FALSE /\ head' = head
        /\ raised' = raised
    BY <1>3 DEF Actions!Dispatch, Actions!Result, MovesInv, Threads
  <2>2. OneMove
    BY <1>1, <1>3, <2>1 DEF MovesInv
  <2>3. \A d \in Callers : Moving(d)' <=> Moving(d)
    BY <1>1, <1>2 DEF Moving
  <2>4. ~Made(c) /\ \A d \in Callers \ {c} : Made(d)' <=> Made(d)
    BY <1>1, <1>2 DEF Made
  <2>5. CASE Made(c)'
    <3>1. request[c] \in Actions!Moves /\ head' = request[c].angle /\ Moving(c)
      BY <1>1, <2>1, <2>5 DEF Made, Moving
    <3>2. \A d \in Callers : Made(d) => d = c
      BY <2>2, <3>1 DEF OneMove, Made, Moving
    <3> QED
      BY <1>1, <2>2, <2>3, <2>4, <2>5, <3>1, <3>2 DEF OneMove
  <2>6. CASE ~Made(c)'
    <3>1. head' = head
      BY <1>1, <1>2, <2>1, <2>6 DEF Made
    <3> QED
      BY <1>1, <2>2, <2>3, <2>4, <2>6, <3>1 DEF OneMove
  <2> QED
    BY <2>5, <2>6
<1> QED
  BY <1>1, <1>2, <1>3 DEF MovesInv

LEMMA CommitKeepsMovesInv ==
    ASSUME MovesInv, NEW c \in Callers, Actions!Commit(c)
    PROVE  MovesInv'
<1>1. /\ \E result_ : Actions!Ends(c, result_)
      /\ step[c] = "commit" /\ UNCHANGED <<head, raised, overlapped, far>>
      /\ ptz_last_target_angle' = IF request[c] \in Actions!Moves /\ outcome[c].success
                                  THEN request[c].angle ELSE ptz_last_target_angle
  BY DEF Actions!Commit, Actions!history
<1>2. /\ Threads' /\ ~Made(c)' /\ ~Moving(c)'
      /\ \A d \in Callers \ {c} :
             step'[d] = step[d] /\ request'[d] = request[d] /\ outcome'[d] = outcome[d]
  BY <1>1, EndsIsOfOne DEF MovesInv
<1>3. CASE Made(c)
  <2>1. ptz_last_target_angle' = request[c].angle /\ request[c].angle \in TargetAngles
    BY <1>1, <1>3 DEF Made, Actions!Moves
  <2>2. ASSUME ~overlapped', ~raised' PROVE OneMove'
    <3>1. OneMove
      BY <1>1, <2>2 DEF MovesInv
    <3>2. \A d \in Callers : Made(d) => d = c
      BY <1>3, <3>1 DEF OneMove, Made, Moving
    <3>3. \A d \in Callers : ~Made(d)' /\ (Moving(d)' => Moving(d))
      BY <1>2, <3>2 DEF Made, Moving
    <3> QED
      BY <1>1, <1>3, <2>1, <3>1, <3>3 DEF OneMove
  <2> QED
    BY <1>2, <2>1, <2>2 DEF MovesInv
<1>4. CASE ~Made(c)
  <2>1. ptz_last_target_angle' = ptz_last_target_angle
    BY <1>1, <1>4 DEF Made
  <2> QED
    BY <1>1, <1>2, <1>4, <2>1, OthersKeepMovesInv
<1> QED
  BY <1>3, <1>4

LEMMA NextKeepsMovesInv == MovesInv /\ [Actions!Next]_(Actions!vars) => MovesInv'
<1> SUFFICES ASSUME MovesInv, [Actions!Next]_(Actions!vars) PROVE MovesInv'
  OBVIOUS
<1>1. ASSUME NEW c \in Callers,
             \/ Actions!Receive(c) \/ Actions!Refuse(c) \/ Actions!Suppress(c)
             \/ Actions!Begin(c) \/ Actions!Dispatch(c) \/ Actions!Commit(c)
             \/ Actions!UseVoice(c) \/ Actions!CaptureFrame(c) \/ Actions!Raises(c)
             \/ Actions!Stamp(c) \/ Actions!AppendRecord(c)
      PROVE  MovesInv'
  BY <1>1, HandlingKeepsMovesInv, SuppressKeepsMovesInv, BeginKeepsMovesInv,
     DispatchKeepsMovesInv, CommitKeepsMovesInv
<1>2. CASE UNCHANGED Actions!vars
  BY <1>2
  DEF Actions!vars, Actions!handler, Actions!ptz, Actions!history, MovesInv, OneMove, Threads,
      Moving, Made
<1> QED
  BY <1>1, <1>2 DEF Actions!Next

\* A record of the journal, and whether all are in the order of their times.
Dated == [accepted : BOOLEAN, captured_at_ts : Nat]

InOrder ==
    \A i, j \in 1 .. Len(records) : i < j => records[i].captured_at_ts <= records[j].captured_at_ts

\* One thread at a time journals: its record is the latest.
OneAppends ==
    /\ \A c, d \in Callers : step[c] = "append" /\ step[d] = "append" => c = d
    /\ \A c \in Callers : step[c] = "append" =>
           \A i \in 1 .. Len(records) : records[i].captured_at_ts <= stamp[c]
    /\ InOrder

JournalInv ==
    /\ Threads /\ head_now \in Nat
    /\ \A c \in Callers : stamp[c] \in Nat /\ stamp[c] <= head_now
    /\ records \in Seq(Dated)
    /\ \A i \in 1 .. Len(records) : records[i].captured_at_ts <= head_now
    /\ ~crowded => OneAppends

\* A full deque drops its first record.
LEMMA AppendedIsAtTheEnd ==
    ASSUME records \in Seq(Dated), NEW record \in Dated
    PROVE  /\ Actions!Appended(record) \in Seq(Dated)
           /\ LET after == Actions!Appended(record) IN
              \E dropped \in {0, 1} :
                  /\ Len(after) = Len(records) + 1 - dropped
                  /\ after[Len(after)] = record
                  /\ \A i \in 1 .. Len(after) - 1 :
                         i + dropped \in 1 .. Len(records) /\ after[i] = records[i + dropped]
<1>1. CASE Len(records) = max_items
  <2>1. records # <<>>
    BY <1>1, ActionsConstants
  <2>2. /\ Tail(records) \in Seq(Dated) /\ Len(Tail(records)) = Len(records) - 1
        /\ Len(records) \in Nat \ {0}
        /\ \A i \in 1 .. Len(Tail(records)) : Tail(records)[i] = records[i + 1]
    BY <2>1
  <2>3. Actions!Appended(record) = Append(Tail(records), record)
    BY <1>1 DEF Actions!Appended
  <2> DEFINE rest == Tail(records)
  <2>4. /\ Append(rest, record) \in Seq(Dated)
        /\ Len(Append(rest, record)) = Len(rest) + 1
        /\ Append(rest, record)[Len(rest) + 1] = record
        /\ \A i \in 1 .. Len(rest) : Append(rest, record)[i] = rest[i]
    <3> HIDE DEF rest
    <3>1. rest \in Seq(Dated)
      BY <2>2 DEF rest
    <3> QED
      BY <3>1
  <2> HIDE DEF rest
  <2>5. /\ rest = Tail(records) /\ Len(rest) = Len(records) - 1
        /\ \A i \in 1 .. Len(rest) : rest[i] = records[i + 1] /\ i + 1 \in 1 .. Len(records)
    BY <2>2 DEF rest
  <2>6. Len(rest) \in Nat /\ Len(Append(rest, record)) - 1 = Len(rest)
    BY <2>2, <2>4, <2>5
  <2>7. \A i \in 1 .. Len(rest) :
            i + 1 \in 1 .. Len(records) /\ Append(rest, record)[i] = records[i + 1]
    BY <2>4, <2>5
  <2>8. Len(Append(rest, record)) = Len(records) + 1 - 1
    BY <2>2, <2>4, <2>5
  <2> QED
    BY <2>3, <2>4, <2>5, <2>6, <2>7, <2>8
<1>2. CASE Len(records) # max_items
  <2>1. Actions!Appended(record) = Append(records, record)
    BY <1>2 DEF Actions!Appended
  <2>2. /\ Append(records, record) \in Seq(Dated)
        /\ Len(Append(records, record)) = Len(records) + 1 /\ Len(records) \in Nat
        /\ Append(records, record)[Len(records) + 1] = record
        /\ \A i \in 1 .. Len(records) : Append(records, record)[i] = records[i]
    OBVIOUS
  <2>3. \A i \in 1 .. Len(records) :
            i + 0 \in 1 .. Len(records) /\ Append(records, record)[i] = records[i + 0]
    BY <2>2
  <2> QED
    BY <2>1, <2>2, <2>3
<1> QED
  BY <1>1, <1>2

\* Whoever does not journal leaves the journal as it is, whatever time it is.
LEMMA OthersKeepJournalInv ==
    ASSUME JournalInv, Threads', UNCHANGED <<records, stamp, crowded>>,
           head_now' \in Nat, head_now <= head_now',
           \A d \in Callers : step'[d] = "append" => step[d] = "append"
    PROVE  JournalInv'
<1>1. \A d \in Callers : stamp'[d] \in Nat /\ stamp'[d] <= head_now'
  BY DEF JournalInv
<1>2. \A i \in 1 .. Len(records') : records'[i].captured_at_ts <= head_now'
  <2> SUFFICES ASSUME NEW i \in 1 .. Len(records) PROVE records[i].captured_at_ts <= head_now'
    OBVIOUS
  <2>1. records[i] \in Dated /\ records[i].captured_at_ts <= head_now
    BY DEF JournalInv
  <2>2. records[i].captured_at_ts \in Nat /\ head_now \in Nat
    BY <2>1 DEF Dated, JournalInv
  <2> QED
    BY <2>1, <2>2
<1>3. ~crowded => OneAppends'
  BY DEF JournalInv, OneAppends, InOrder
<1> QED
  BY <1>1, <1>2, <1>3 DEF JournalInv

\* A record gets its time while no other thread has one.
LEMMA StampKeepsJournalInv ==
    ASSUME JournalInv, NEW c \in Callers, Actions!Stamp(c)
    PROVE  JournalInv'
<1>1. /\ stamp' = [stamp EXCEPT ![c] = head_now] /\ step' = [step EXCEPT ![c] = "append"]
      /\ crowded' = (crowded \/ \E d \in Callers : step[d] = "append")
      /\ UNCHANGED <<request, outcome, records, head_now>>
  BY DEF Actions!Stamp, Actions!Goto
<1>2. /\ Threads' /\ stamp'[c] = head_now /\ step'[c] = "append"
      /\ \A d \in Callers \ {c} : stamp'[d] = stamp[d] /\ step'[d] = step[d]
  BY <1>1 DEF JournalInv, Threads
<1>3. \A d \in Callers : stamp'[d] \in Nat /\ stamp'[d] <= head_now
  BY <1>2 DEF JournalInv
<1>4. ASSUME ~crowded' PROVE OneAppends'
  <2>1. ~crowded /\ \A d \in Callers : step[d] # "append"
    BY <1>1, <1>4, Zenon
  <2> QED
    BY <1>1, <1>2, <2>1 DEF JournalInv, OneAppends, InOrder
<1> QED
  BY <1>1, <1>2, <1>3, <1>4 DEF JournalInv

LEMMA AppendKeepsJournalInv ==
    ASSUME JournalInv, NEW c \in Callers, Actions!AppendRecord(c)
    PROVE  JournalInv'
<1> DEFINE record == Actions!Record(c)
<1>1. /\ step[c] = "append" /\ records' = Actions!Appended(record)
      /\ step' = [step EXCEPT ![c] = "idle"]
      /\ stamp' = [stamp EXCEPT ![c] = 0] /\ outcome' = [outcome EXCEPT ![c] = None]
      /\ UNCHANGED <<request, head_now, crowded>>
  BY DEF Actions!AppendRecord, Actions!Goto, Actions!history
<1>2. record \in Dated /\ record.captured_at_ts = stamp[c] /\ stamp[c] <= head_now
  BY DEF JournalInv, Actions!Record, Dated
<1> HIDE DEF record
<1>3. /\ Threads' /\ stamp'[c] = 0 /\ step'[c] = "idle"
      /\ \A d \in Callers \ {c} : stamp'[d] = stamp[d] /\ step'[d] = step[d]
  BY <1>1 DEF JournalInv, Threads
<1>4. \A d \in Callers : stamp'[d] \in Nat /\ stamp'[d] <= head_now
  BY <1>3 DEF JournalInv
<1>5. records \in Seq(Dated) /\ Len(records) \in Nat
  BY DEF JournalInv
<1>6. PICK dropped \in {0, 1} :
          /\ Len(records') = Len(records) + 1 - dropped
          /\ records'[Len(records')] = record
          /\ \A i \in 1 .. Len(records') - 1 :
                 i + dropped \in 1 .. Len(records) /\ records'[i] = records[i + dropped]
  BY <1>1, <1>2, <1>5, AppendedIsAtTheEnd
<1>7. records' \in Seq(Dated)
  BY <1>1, <1>2, <1>5, AppendedIsAtTheEnd
<1>8. Len(records') \in Nat
  BY <1>5, <1>6
<1>9. ASSUME NEW i \in 1 .. Len(records') PROVE records'[i].captured_at_ts <= head_now
  <2>1. CASE i = Len(records')
    BY <1>2, <1>6, <2>1
  <2>2. CASE i # Len(records')
    <3>1. i \in 1 .. Len(records') - 1
      BY <1>8, <2>2
    <3> QED
      BY <1>6, <3>1 DEF JournalInv
  <2> QED
    BY <2>1, <2>2
<1>10. ASSUME ~crowded' PROVE OneAppends'
  <2>1. OneAppends
    BY <1>1, <1>10 DEF JournalInv
  <2>2. \A d \in Callers : step'[d] # "append"
    BY <1>1, <1>3, <2>1 DEF OneAppends
  <2>3. ASSUME NEW i \in 1 .. Len(records'), NEW j \in 1 .. Len(records'), i < j
        PROVE  records'[i].captured_at_ts <= records'[j].captured_at_ts
    <3>1. /\ i \in 1 .. Len(records') - 1
          /\ i + dropped \in 1 .. Len(records) /\ records'[i] = records[i + dropped]
      BY <1>6, <1>8, <2>3
    <3>2. CASE j = Len(records')
      BY <1>1, <1>2, <1>6, <2>1, <3>1, <3>2 DEF OneAppends
    <3>3. CASE j # Len(records')
      <4>1. j + dropped \in 1 .. Len(records) /\ records'[j] = records[j + dropped]
        <5>1. j \in 1 .. Len(records') - 1
          BY <1>8, <3>3
        <5> QED
          BY <1>6, <5>1
      <4>2. i + dropped < j + dropped
        BY <2>3
      <4> QED
        BY <2>1, <3>1, <4>1, <4>2 DEF OneAppends, InOrder
    <3> QED
      BY <3>2, <3>3
  <2> QED
    BY <2>2, <2>3 DEF OneAppends, InOrder
<1> QED
  BY <1>1, <1>3, <1>4, <1>7, <1>9, <1>10 DEF JournalInv

LEMMA NextKeepsJournalInv == JournalInv /\ [Actions!Next]_(Actions!vars) => JournalInv'
<1> SUFFICES ASSUME JournalInv, [Actions!Next]_(Actions!vars) PROVE JournalInv'
  OBVIOUS
<1>1. /\ DOMAIN step = Callers /\ DOMAIN request = Callers /\ DOMAIN outcome = Callers
      /\ DOMAIN stamp = Callers /\ Threads
  BY DEF JournalInv, Threads
<1>2. ASSUME NEW c \in Callers,
             \/ Actions!Receive(c) \/ Actions!Begin(c) \/ Actions!Dispatch(c)
             \/ Actions!Raises(c)
      PROVE  JournalInv'
  <2>1. /\ \E place \in {"handle", "idle", "dispatch", "commit"} :
               step' = [step EXCEPT ![c] = place]
        /\ request' = request \/ \E r : request' = [request EXCEPT ![c] = r]
        /\ outcome' = outcome \/ \E o : outcome' = [outcome EXCEPT ![c] = o]
        /\ UNCHANGED <<stamp, records, crowded>>
        /\ head_now' = head_now \/ head_now' = head_now + 1
    BY <1>2
    DEF Actions!Receive, Actions!Begin, Actions!Dispatch, Actions!Raises, Actions!Goto,
        Actions!history
  <2>2. Threads' /\ \A d \in Callers : step'[d] = "append" => step[d] = "append"
    BY <1>1, <2>1 DEF Threads
  <2>3. head_now' \in Nat /\ head_now <= head_now'
    BY <2>1 DEF JournalInv
  <2> QED
    BY <2>1, <2>2, <2>3, OthersKeepJournalInv
<1>3. ASSUME NEW c \in Callers,
             \/ Actions!Refuse(c) \/ Actions!Suppress(c) \/ Actions!Commit(c)
             \/ Actions!UseVoice(c) \/ Actions!CaptureFrame(c)
      PROVE  JournalInv'
  <2>1. \E result_ : Actions!Ends(c, result_)
    BY <1>3
    DEF Actions!Refuse, Actions!Suppress, Actions!Commit, Actions!UseVoice,
        Actions!CaptureFrame
  <2>2. /\ Threads' /\ UNCHANGED stamp
        /\ \A d \in Callers : step'[d] = "append" => step[d] = "append"
    BY <1>1, <2>1, EndsIsOfOne
  <2>3. UNCHANGED <<records, head_now, crowded>>
    BY <1>3
    DEF Actions!Refuse, Actions!Suppress, Actions!Commit, Actions!UseVoice,
        Actions!CaptureFrame, Actions!history
  <2>4. head_now' \in Nat /\ head_now <= head_now'
    BY <2>3 DEF JournalInv
  <2> QED
    BY <2>2, <2>3, <2>4, OthersKeepJournalInv
<1>4. ASSUME NEW c \in Callers, Actions!Stamp(c) \/ Actions!AppendRecord(c) PROVE JournalInv'
  BY <1>4, StampKeepsJournalInv, AppendKeepsJournalInv
<1>5. CASE UNCHANGED Actions!vars
  BY <1>5
  DEF Actions!vars, Actions!handler, Actions!history, JournalInv, OneAppends, InOrder, Threads
<1> QED
  BY <1>2, <1>3, <1>4, <1>5 DEF Actions!Next

LEMMA InitMoves == Actions!Init => MovesInv /\ JournalInv
<1> SUFFICES ASSUME Actions!Init PROVE MovesInv /\ JournalInv
  OBVIOUS
<1>1. Threads
  BY DEF Actions!Init, Threads
<1>2. MovesInv
  BY <1>1 DEF Actions!Init, MovesInv, OneMove, Moving, Made
<1>3. \A c \in Callers : stamp[c] = 0 /\ step[c] = "idle"
  BY DEF Actions!Init
<1>4. records = <<>> /\ head_now = 0
  BY DEF Actions!Init
<1>5. JournalInv
  BY <1>1, <1>3, <1>4 DEF JournalInv, OneAppends, InOrder
<1> QED
  BY <1>2, <1>5

\* A move is dismissed as jitter only when the head is already that near to it, as long as no
\* two moves overlap and the body does not raise in the middle of one; and the journal is in
\* the order of its times as long as no two threads journal at once: for any number of
\* threads, angles and records (app.py, _maybe_suppress_ptz_jitter against
\* _dispatch_actions_with_body; event_journal.py, append).
THEOREM SpecActionsAreRemembered == Spec => []ActionsAreRemembered
<1>1. Init => MovesInv /\ JournalInv
  BY InitMoves DEF Init
<1>2. MovesInv /\ JournalInv => ActionsAreRemembered
  <2> SUFFICES ASSUME MovesInv, JournalInv
               PROVE  Actions!SuppressedIsNear /\ Actions!ChronologicalUnlessCrowded
    BY DEF ActionsAreRemembered
  <2>1. Actions!SuppressedIsNear
    BY Zenon DEF MovesInv, OneMove, Actions!SuppressedIsNear
  <2>2. DOMAIN records = 1 .. Len(records)
    BY DEF JournalInv
  <2> QED
    BY <2>1, <2>2 DEF JournalInv, OneAppends, InOrder, Actions!ChronologicalUnlessCrowded
<1>3. MovesInv /\ JournalInv /\ [Next]_vars => MovesInv' /\ JournalInv'
  BY StepOfActions, NextKeepsMovesInv, NextKeepsJournalInv
<1> QED
  BY <1>1, <1>2, <1>3, PTL DEF Spec

-----------------------------------------------------------------------------
(* The scene's tracks and events (SceneTracks). *)

\* The events have told what the tracks are, and a new track gets an id no track ever had.
SceneInv ==
    /\ DOMAIN scene_tracks \subseteq Scene!TrackIds
    /\ \A t \in DOMAIN scene_tracks :
           scene_tracks[t] = [place |-> scene_tracks[t].place,
                              missing_frames |-> scene_tracks[t].missing_frames]
    /\ next_ids \in [Labels -> Nat]
    /\ \A t \in DOMAIN scene_tracks : t[2] <= next_ids[t[1]]
    /\ Scene!EventsTellTheScene

LEMMA SceneCardinality == \A S : Scene!Cardinality(S) = Cardinality(S)
  BY DEF Scene!Cardinality, Cardinality

\* The indices of a frame, and how many of them there are.
LEMMA FramesAreFinite ==
    ASSUME NEW frame_ \in Scene!Frames, NEW S \in SUBSET DOMAIN frame_
    PROVE  /\ IsFiniteSet(S) /\ Scene!Cardinality(S) \in Nat
           /\ S # {} => Scene!Cardinality(S) >= 1
           /\ \A R \in SUBSET S : Scene!Cardinality(R) <= Scene!Cardinality(S)
           /\ \A i \in DOMAIN frame_ : i \in Nat /\ frame_[i].label \in Labels
<1>1. PICK n \in 0 .. MaxDetections : frame_ \in [1 .. n -> Scene!Detection]
  BY DEF Scene!Frames
<1>2. n \in Nat /\ DOMAIN frame_ = 1 .. n
  BY <1>1, SensesAssumption DEF Scene!SceneAssumption
<1>3. IsFiniteSet(S)
  BY <1>2, FS_Interval, FS_Subset
<1>4. Cardinality(S) \in Nat /\ (S # {} => Cardinality(S) # 0)
  BY <1>3, FS_CardinalityType, FS_EmptySet
<1>5. \A R \in SUBSET S : Cardinality(R) <= Cardinality(S)
  BY <1>3, FS_Subset
<1>6. \A i \in DOMAIN frame_ : i \in Nat /\ frame_[i].label \in Labels
  BY <1>1, <1>2 DEF Scene!Detection
<1>7. S # {} => Cardinality(S) >= 1
  BY <1>4
<1> QED
  BY <1>3, <1>4, <1>5, <1>6, <1>7, SceneCardinality

\* What is matched is a detection of the frame and a track that is there.
LEMMA MatchIsOfBoth ==
    ASSUME NEW frame_, NEW c \in Scene!Match(frame_)
    PROVE  c.detection \in DOMAIN frame_ /\ c.track \in DOMAIN scene_tracks
<1>1. c \in Scene!Candidates(frame_)
  BY DEF Scene!Match
<1> QED
  BY <1>1 DEF Scene!Candidates, Scene!Pair

\* The events of a frame that has followed and begun tracks at their places, and lost others.
EventsOf(followed, begun, lost, at) ==
    {Scene!Event("moved", t, Scene!Region(at[t])) :
        t \in {u \in followed : Scene!Moved(scene_tracks[u].place, at[u])}}
    \cup {Scene!Event("appeared", t, Scene!Region(at[t])) : t \in begun}
    \cup {Scene!Event("disappeared", t, "") : t \in lost}

\* What is told after it: of the tracks in the frame where they are now, of the others what
\* was told before.
ToldAfter(followed, begun, lost, at) ==
    [t \in (DOMAIN scene_tracks \cup begun) \ lost |->
        IF t \in followed \cup begun THEN Scene!Region(at[t]) ELSE told[t]]

LEMMA RetoldIsTheScene ==
    ASSUME NEW followed, NEW begun, NEW lost, NEW at,
           Scene!EventsTellTheScene,
           followed \subseteq DOMAIN scene_tracks, begun \cap DOMAIN scene_tracks = {},
           lost \subseteq DOMAIN scene_tracks \ followed
    PROVE  Scene!Retold(EventsOf(followed, begun, lost, at)) =
               ToldAfter(followed, begun, lost, at)
<1> DEFINE moved == {u \in followed : Scene!Moved(scene_tracks[u].place, at[u])}
           movements == {Scene!Event("moved", t, Scene!Region(at[t])) : t \in moved}
           beginnings == {Scene!Event("appeared", t, Scene!Region(at[t])) : t \in begun}
           endings == {Scene!Event("disappeared", t, "") : t \in lost}
           events == movements \cup beginnings \cup endings
           gone == {e.track : e \in {v \in events : v.type = "disappeared"}}
           news == {e \in events : e.type # "disappeared"}
           tracked == {e.track : e \in news}
<1>0. \A type_, t, to_ : LET e == Scene!Event(type_, t, to_) IN
                         e.type = type_ /\ e.track = t /\ e.to = to_
  BY DEF Scene!Event
<1>1. /\ \A e \in movements : e.type = "moved" /\ e.track \in moved /\ e.to = Scene!Region(at[e.track])
      /\ \A e \in beginnings :
             e.type = "appeared" /\ e.track \in begun /\ e.to = Scene!Region(at[e.track])
      /\ \A e \in endings : e.type = "disappeared" /\ e.track \in lost
  <2> HIDE DEF moved
  <2>1. \A e \in movements : e.type = "moved" /\ e.track \in moved /\ e.to = Scene!Region(at[e.track])
    BY <1>0
  <2>2. \A e \in beginnings :
            e.type = "appeared" /\ e.track \in begun /\ e.to = Scene!Region(at[e.track])
    BY <1>0
  <2>3. ASSUME NEW e \in endings PROVE e.type = "disappeared" /\ e.track \in lost
    <3>1. PICK t \in lost : e = Scene!Event("disappeared", t, "")
      OBVIOUS
    <3> QED
      BY <3>1 DEF Scene!Event
  <2> QED
    BY <2>1, <2>2, <2>3
<1>2. /\ \A t \in moved : \E e \in movements : e.track = t
      /\ \A t \in begun : \E e \in beginnings : e.track = t
      /\ \A t \in lost : \E e \in endings : e.track = t
  <2> HIDE DEF moved
  <2>1. \A t \in moved : \E e \in movements : e.track = t
    BY <1>0
  <2>2. \A t \in begun : \E e \in beginnings : e.track = t
    BY <1>0
  <2>3. ASSUME NEW t \in lost PROVE \E e \in endings : e.track = t
    <3>1. Scene!Event("disappeared", t, "") \in endings
      OBVIOUS
    <3> QED
      BY <3>1 DEF Scene!Event
  <2> QED
    BY <2>1, <2>2, <2>3
<1> HIDE DEF movements, beginnings, endings
<1>3. /\ news = movements \cup beginnings
      /\ \A e \in news : e.track \in moved \cup begun /\ e.to = Scene!Region(at[e.track])
  BY <1>1
<1>4. gone = lost
  BY <1>1, <1>2
<1>5. tracked = moved \cup begun
  BY <1>1, <1>2, <1>3
<1>6. DOMAIN told = DOMAIN scene_tracks
  BY DEF Scene!EventsTellTheScene
<1>7. (DOMAIN told \cup tracked) \ gone = (DOMAIN scene_tracks \cup begun) \ lost
  BY <1>4, <1>5, <1>6
<1>8. Scene!Retold(events) =
          [t \in (DOMAIN told \cup tracked) \ gone |->
              IF \E e \in news : e.track = t THEN (CHOOSE e \in news : e.track = t).to
              ELSE told[t]]
  BY DEF Scene!Retold
<1> HIDE DEF news, gone, tracked, events
<1>9. ASSUME NEW t \in (DOMAIN scene_tracks \cup begun) \ lost
      PROVE  (IF \E e \in news : e.track = t THEN (CHOOSE e \in news : e.track = t).to
              ELSE told[t])
             = IF t \in followed \cup begun THEN Scene!Region(at[t]) ELSE told[t]
  <2>1. CASE \E e \in news : e.track = t
    <3> DEFINE said == CHOOSE e \in news : e.track = t
    <3>1. said \in news /\ said.track = t
      BY <2>1
    <3> HIDE DEF said
    <3>2. said.to = Scene!Region(at[t]) /\ t \in followed \cup begun
      BY <1>3, <3>1
    <3> QED
      BY <2>1, <3>2 DEF said
  <2>2. CASE ~\E e \in news : e.track = t
    <3>1. t \notin begun /\ (t \in followed => t \notin moved)
      BY <1>2, <1>3, <2>2
    <3>2. ASSUME t \in followed PROVE told[t] = Scene!Region(at[t])
      <4>1. Scene!Region(scene_tracks[t].place) = Scene!Region(at[t])
        BY <3>1, <3>2 DEF Scene!Moved
      <4> QED
        BY <3>2, <4>1 DEF Scene!EventsTellTheScene
    <3> QED
      BY <2>2, <3>1, <3>2
  <2> QED
    BY <2>1, <2>2
<1> HIDE DEF moved
<1>10. Scene!Retold(events) =
          [t \in (DOMAIN scene_tracks \cup begun) \ lost |->
              IF t \in followed \cup begun THEN Scene!Region(at[t]) ELSE told[t]]
  BY <1>7, <1>8, <1>9
<1> QED
  BY <1>10 DEF events, movements, beginnings, endings, moved, EventsOf, ToldAfter

LEMMA UpdateKeepsSceneInv ==
    ASSUME SceneInv, NEW frame_ \in Scene!Frames, Scene!Update(frame_)
    PROVE  SceneInv'
<1> DEFINE match == Scene!Match(frame_)
           unmatched == DOMAIN frame_ \ {c.detection : c \in match}
           before(i) == {j \in unmatched : j <= i /\ frame_[j].label = frame_[i].label}
           new == [i \in unmatched |->
                      LET l == frame_[i].label
                      IN  <<l, next_ids[l] + Scene!Cardinality({j \in unmatched : j <= i /\ frame_[j].label = l})>>]
           begun == {new[i] : i \in unmatched}
           followed == {c.track : c \in match}
           missed == DOMAIN scene_tracks \ followed
           lost == {t \in missed : scene_tracks[t].missing_frames + 1 > max_missing_frames}
           at == [t \in followed \cup begun |->
                     (CHOOSE d \in {frame_[c.detection] : c \in {m \in match : m.track = t}}
                              \cup {frame_[i] : i \in {j \in unmatched : new[j] = t}} : TRUE).place]
           counted(l) == {i \in unmatched : frame_[i].label = l}
<1>1. /\ begun \subseteq Scene!TrackIds
      /\ scene_tracks' = [t \in (DOMAIN scene_tracks \cup begun) \ lost |->
                             IF t \in missed
                             THEN [scene_tracks[t] EXCEPT !.missing_frames = @ + 1]
                             ELSE [place |-> at[t], missing_frames |-> 0]]
      /\ next_ids' = [l \in Labels |-> next_ids[l] + Scene!Cardinality(counted(l))]
      /\ told' = Scene!Retold(
                     {Scene!Event("moved", t, Scene!Region(at[t])) :
                         t \in {u \in followed : Scene!Moved(scene_tracks[u].place, at[u])}}
                     \cup {Scene!Event("appeared", t, Scene!Region(at[t])) : t \in begun}
                     \cup {Scene!Event("disappeared", t, "") : t \in lost})
  BY Zenon DEF Scene!Update
<1>2. followed \subseteq DOMAIN scene_tracks
  BY MatchIsOfBoth
<1>3. ASSUME NEW i \in unmatched
      PROVE  /\ new[i] = <<frame_[i].label, next_ids[frame_[i].label] + Scene!Cardinality(before(i))>>
             /\ frame_[i].label \in Labels /\ next_ids[frame_[i].label] \in Nat
             /\ Scene!Cardinality(before(i)) \in Nat /\ Scene!Cardinality(before(i)) >= 1
             /\ Scene!Cardinality(before(i)) <= Scene!Cardinality(counted(frame_[i].label))
             /\ Scene!Cardinality(counted(frame_[i].label)) \in Nat
  <2>1. /\ before(i) \in SUBSET DOMAIN frame_ /\ counted(frame_[i].label) \in SUBSET DOMAIN frame_
        /\ before(i) \in SUBSET counted(frame_[i].label)
    OBVIOUS
  <2>2. i \in Nat /\ frame_[i].label \in Labels
    BY FramesAreFinite
  <2>3. i \in before(i)
    BY <2>2
  <2>4. next_ids[frame_[i].label] \in Nat
    BY <2>2 DEF SceneInv
  <2>5. new[i] = <<frame_[i].label, next_ids[frame_[i].label] + Scene!Cardinality(before(i))>>
    OBVIOUS
  <2> HIDE DEF before, counted, new, unmatched
  <2>6. Scene!Cardinality(before(i)) \in Nat /\ Scene!Cardinality(before(i)) >= 1
    BY <2>1, <2>3, FramesAreFinite
  <2>7. /\ Scene!Cardinality(before(i)) <= Scene!Cardinality(counted(frame_[i].label))
        /\ Scene!Cardinality(counted(frame_[i].label)) \in Nat
    BY <2>1, FramesAreFinite
  <2> QED
    BY <2>2, <2>4, <2>5, <2>6, <2>7
<1>4. \A l \in Labels : Scene!Cardinality(counted(l)) \in Nat
  <2>1. \A l \in Labels : counted(l) \in SUBSET DOMAIN frame_
    OBVIOUS
  <2> HIDE DEF counted
  <2> QED
    BY <2>1, FramesAreFinite
<1>5. /\ next_ids' \in [Labels -> Nat] /\ \A l \in Labels : next_ids[l] <= next_ids'[l]
      /\ \A l \in Labels : next_ids'[l] = next_ids[l] + Scene!Cardinality(counted(l))
  <2>1. next_ids' = [l \in Labels |-> next_ids[l] + Scene!Cardinality(counted(l))]
    BY <1>1
  <2>2. \A l \in Labels : next_ids[l] \in Nat
    BY DEF SceneInv
  <2> HIDE DEF counted
  <2> QED
    BY <1>4, <2>1, <2>2
<1>6. ASSUME NEW t \in begun
      PROVE  t \notin DOMAIN scene_tracks /\ t[2] <= next_ids'[t[1]]
  <2>1. PICK i \in unmatched : t = new[i]
    OBVIOUS
  <2> HIDE DEF before, counted, new, unmatched, begun
  <2>2. t[1] \in Labels /\ t[2] > next_ids[t[1]] /\ next_ids[t[1]] \in Nat
    BY <1>3, <2>1
  <2>3. t[2] <= next_ids'[t[1]]
    <3> DEFINE l == frame_[i].label
    <3>1. t[1] = l /\ t[2] = next_ids[l] + Scene!Cardinality(before(i)) /\ l \in Labels
      BY <1>3, <2>1
    <3>2. next_ids'[l] = next_ids[l] + Scene!Cardinality(counted(l))
      BY <1>5, <3>1
    <3>3. /\ Scene!Cardinality(before(i)) <= Scene!Cardinality(counted(l))
          /\ {Scene!Cardinality(before(i)), Scene!Cardinality(counted(l)), next_ids[l]} \subseteq Nat
      BY <1>3
    <3> HIDE DEF l
    <3> QED
      BY <3>1, <3>2, <3>3
  <2>4. t \notin DOMAIN scene_tracks
    <3> SUFFICES ASSUME t \in DOMAIN scene_tracks PROVE FALSE
      OBVIOUS
    <3>1. t[2] <= next_ids[t[1]] /\ t[2] \in Nat
      BY <1>3, <2>1 DEF SceneInv
    <3> QED
      BY <2>2, <3>1
  <2> QED
    BY <2>3, <2>4
<1>7. begun \cap DOMAIN scene_tracks = {} /\ lost \subseteq DOMAIN scene_tracks \ followed
  BY <1>6
<1> HIDE DEF match, unmatched, new, begun, followed, at, before, counted
<1>8. told' = [t \in (DOMAIN scene_tracks \cup begun) \ lost |->
                  IF t \in followed \cup begun THEN Scene!Region(at[t]) ELSE told[t]]
  <2>1. Scene!EventsTellTheScene
    BY DEF SceneInv
  <2> HIDE DEF lost, missed
  <2>2. told' = Scene!Retold(EventsOf(followed, begun, lost, at))
    BY <1>1, Zenon DEF EventsOf
  <2>3. Scene!Retold(EventsOf(followed, begun, lost, at)) = ToldAfter(followed, begun, lost, at)
    <3>1. lost \subseteq DOMAIN scene_tracks \ followed /\ begun \cap DOMAIN scene_tracks = {}
      BY <1>7
    <3> QED
      BY <1>2, <2>1, <3>1, RetoldIsTheScene
  <2> QED
    BY <2>2, <2>3 DEF ToldAfter
<1>9. DOMAIN scene_tracks' = (DOMAIN scene_tracks \cup begun) \ lost
  BY <1>1
<1>10. ASSUME NEW t \in DOMAIN scene_tracks'
       PROVE  /\ told'[t] = Scene!Region(scene_tracks'[t].place)
              /\ scene_tracks'[t] = [place |-> scene_tracks'[t].place,
                                     missing_frames |-> scene_tracks'[t].missing_frames]
              /\ t \in Scene!TrackIds /\ t[2] <= next_ids'[t[1]]
  <2>1. CASE t \in missed
    <3>1. t \in DOMAIN scene_tracks /\ t \notin followed \cup begun
      BY <1>7, <2>1
    <3>2. scene_tracks'[t] = [scene_tracks[t] EXCEPT !.missing_frames = @ + 1]
      BY <1>1, <1>9, <1>10, <2>1
    <3>3. scene_tracks[t] = [place |-> scene_tracks[t].place,
                             missing_frames |-> scene_tracks[t].missing_frames]
      BY <3>1 DEF SceneInv
    <3>4. scene_tracks'[t] = [place |-> scene_tracks[t].place,
                              missing_frames |-> scene_tracks[t].missing_frames + 1]
      BY <3>2, <3>3
    <3>5. told'[t] = told[t] /\ told[t] = Scene!Region(scene_tracks[t].place)
      BY <1>8, <1>9, <1>10, <3>1 DEF SceneInv, Scene!EventsTellTheScene
    <3>6. t \in Scene!TrackIds /\ t[2] <= next_ids[t[1]]
      BY <3>1 DEF SceneInv
    <3>7. t[1] \in Labels /\ t[2] \in Nat
      BY <3>6, SensesAssumption DEF Scene!TrackIds, Scene!SceneAssumption
    <3>8. t[2] <= next_ids'[t[1]]
      BY <1>5, <3>6, <3>7 DEF SceneInv
    <3> QED
      BY <3>4, <3>5, <3>6, <3>8
  <2>2. CASE t \notin missed
    <3>1. t \in followed \cup begun
      BY <1>9, <2>2
    <3>2. scene_tracks'[t] = [place |-> at[t], missing_frames |-> 0]
      BY <1>1, <1>9, <1>10, <2>2
    <3>3. told'[t] = Scene!Region(at[t])
      BY <1>8, <1>9, <1>10, <3>1
    <3>4. t \in Scene!TrackIds /\ t[2] <= next_ids'[t[1]]
      <4>1. CASE t \in begun
        BY <1>1, <1>6, <4>1
      <4>2. CASE t \in followed
        <5>1. t \in DOMAIN scene_tracks
          BY <1>2, <4>2
        <5>2. t \in Scene!TrackIds /\ t[2] <= next_ids[t[1]]
          BY <5>1 DEF SceneInv
        <5>3. t[1] \in Labels /\ t[2] \in Nat
          BY <5>2, SensesAssumption DEF Scene!TrackIds, Scene!SceneAssumption
        <5> QED
          BY <1>5, <5>2, <5>3 DEF SceneInv
      <4> QED
        BY <3>1, <4>1, <4>2
    <3> QED
      BY <3>2, <3>3, <3>4
  <2> QED
    BY <2>1, <2>2
<1>11. Scene!EventsTellTheScene'
  <2>1. told' = [t \in DOMAIN scene_tracks' |-> told'[t]]
    BY <1>8, <1>9
  <2>2. told' = [t \in DOMAIN scene_tracks' |-> Scene!Region(scene_tracks'[t].place)]
    BY <1>10, <2>1
  <2> QED
    BY <2>2 DEF Scene!EventsTellTheScene, Scene!Region
<1> QED
  BY <1>5, <1>10, <1>11 DEF SceneInv

LEMMA NextKeepsSceneInv == SceneInv /\ [Scene!Next]_(Scene!vars) => SceneInv'
<1> SUFFICES ASSUME SceneInv, [Scene!Next]_(Scene!vars) PROVE SceneInv'
  OBVIOUS
<1>1. CASE Scene!NonLive \/ UNCHANGED Scene!vars
  <2>1. UNCHANGED <<scene_tracks, next_ids, told>>
    BY <1>1 DEF Scene!NonLive, Scene!vars
  <2> QED
    BY <2>1 DEF SceneInv, Scene!EventsTellTheScene, Scene!Region
<1>2. CASE \E frame_ \in Scene!Frames : Scene!Update(frame_)
  BY <1>2, UpdateKeepsSceneInv
<1> QED
  BY <1>1, <1>2 DEF Scene!Next

LEMMA InitSceneInv == Scene!Init => SceneInv
  BY DEF Scene!Init, SceneInv, Scene!EventsTellTheScene

\* Whoever only follows the events knows every live track and the region it is in: for any
\* number of detections, labels and places, however tracks cross, are missed, end, begin, or
\* creep from region to region (scene.py, update).
THEOREM SpecEventsTellTheScene == Spec => []EventsTellTheScene
<1>1. Init => SceneInv
  BY InitSceneInv DEF Init
<1>2. SceneInv => EventsTellTheScene
  BY DEF SceneInv, EventsTellTheScene
<1>3. SceneInv /\ [Next]_vars => SceneInv'
  BY StepOfScene, NextKeepsSceneInv
<1> QED
  BY <1>1, <1>2, <1>3, PTL DEF Spec

-----------------------------------------------------------------------------
(* The readers of a box (DetectionBoxes). *)

\* A detection is of something in the frame, and what was read of it is where it is.
BoxesInv ==
    /\ {normalized, piped} \subseteq BOOLEAN /\ form \in Boxes!Forms
    /\ box # None => box \in Boxes!Boxes(normalized) /\ box.l < box.r /\ box.t < box.b
    /\ Boxes!FoundWhereItIs
    /\ box = None => reading = None

\* What is true of numbers of pixels.
LEMMA TimesKeepsOrder ==
    ASSUME NEW a \in Nat, NEW b \in Nat, NEW k \in Nat, a <= b
    PROVE  a * k \in Nat /\ b * k \in Nat /\ a * k <= b * k
<1> DEFINE d == b - a
<1>1. d \in Nat /\ b = a + d
  OBVIOUS
<1> HIDE DEF d
<1>2. (a + d) * k = a * k + d * k
  BY <1>1
<1>3. a * k \in Nat /\ d * k \in Nat
  BY <1>1
<1> QED
  BY <1>1, <1>2, <1>3

LEMMA OneMoreIsUnitMore ==
    ASSUME NEW a \in Nat, NEW b \in Nat, NEW k \in Nat, a < b
    PROVE  a * k \in Nat /\ b * k \in Nat /\ a * k + k <= b * k
<1>1. (a + 1) * k <= b * k /\ a * k \in Nat /\ b * k \in Nat
  BY TimesKeepsOrder
<1>2. (a + 1) * k = a * k + k
  OBVIOUS
<1> QED
  BY <1>1, <1>2

LEMMA NothingOneOrMore ==
    ASSUME NEW p \in Nat, NEW u \in Nat
    PROVE  p * u \in {0, u} \/ p * u >= 2 * u
<1>1. CASE p = 0
  BY <1>1
<1>2. CASE p = 1
  BY <1>2
<1>3. CASE p >= 2
  <2>1. 2 * u <= p * u
    BY <1>3, TimesKeepsOrder
  <2>2. p * u \in Nat
    BY TimesKeepsOrder
  <2> QED
    BY <2>1, <2>2
<1> QED
  BY <1>1, <1>2, <1>3

LEMMA BoxesConstants ==
    /\ Unit \in Nat /\ Unit >= 2 /\ frame_width \in Nat /\ Unit <= frame_width
<1>1. /\ {Unit, frame_width} \subseteq Nat \ {0, 1} /\ frame_width % Unit = 0
  BY SensesAssumption DEF Boxes!BoxesAssumption
<1>2. ASSUME frame_width < Unit PROVE FALSE
  BY <1>1, <1>2
<1> QED
  BY <1>1, <1>2

LEMMA GreatestOfFour ==
    ASSUME NEW a \in Int, NEW b \in Int, NEW c \in Int, NEW d \in Int, NEW m \in Int
    PROVE  Boxes!Max({a, b, c, d}) <= m <=> a <= m /\ b <= m /\ c <= m /\ d <= m
<1> DEFINE S == {a, b, c, d}
<1>1. \E x \in S : \A y \in S : x >= y
  <2>1. CASE a >= b /\ a >= c /\ a >= d
    BY <2>1
  <2>2. CASE b >= a /\ b >= c /\ b >= d
    BY <2>2
  <2>3. CASE c >= a /\ c >= b /\ c >= d
    BY <2>3
  <2>4. CASE d >= a /\ d >= b /\ d >= c
    BY <2>4
  <2> QED
    BY <2>1, <2>2, <2>3, <2>4
<1>2. Boxes!Max(S) \in S /\ \A y \in S : Boxes!Max(S) >= y
  <2> HIDE DEF S
  <2> QED
    BY <1>1, Zenon DEF Boxes!Max
<1>3. {a, b, c, d} \subseteq Int
  OBVIOUS
<1> DEFINE g == Boxes!Max(S)
<1>4. g \in {a, b, c, d} /\ g >= a /\ g >= b /\ g >= c /\ g >= d
  BY <1>2
<1> HIDE DEF g
<1>5. g <= m <=> a <= m /\ b <= m /\ c <= m /\ d <= m
  BY <1>4
<1> QED
  BY <1>5 DEF g

Pixels == IF normalized THEN frame_width ELSE 1

\* What is known of the box of a detection.
LEMMA BoxIsInTheFrame ==
    ASSUME BoxesInv, box # None
    PROVE  /\ {box.l, box.t, box.r, box.b} \subseteq Nat /\ box.l < box.r /\ box.t < box.b
           /\ normalized => box.l <= Unit /\ box.t <= Unit /\ box.r <= Unit /\ box.b <= Unit
           /\ ~normalized =>
                  /\ box.l + Unit <= box.r /\ box.r <= frame_width * Unit
                  /\ box.l \in {0, Unit} \/ box.l >= 2 * Unit
                  /\ box.r = Unit \/ box.r >= 2 * Unit
                  /\ box.r - box.l = Unit \/ box.r - box.l >= 2 * Unit
<1>1. /\ box \in Boxes!Boxes(normalized) /\ box.l < box.r /\ box.t < box.b
      /\ normalized \in BOOLEAN
  BY DEF BoxesInv
<1>2. CASE normalized
  BY <1>1, <1>2, BoxesConstants DEF Boxes!Boxes, Boxes!Edges
<1>3. CASE ~normalized
  <2>1. {box.l, box.t, box.r, box.b} \subseteq {p * Unit : p \in 0 .. frame_width}
    BY <1>1, <1>3 DEF Boxes!Boxes, Boxes!Edges
  <2>2. PICK p \in 0 .. frame_width : box.l = p * Unit
    BY <2>1
  <2>3. PICK q \in 0 .. frame_width : box.r = q * Unit
    BY <2>1
  <2>4. PICK s \in 0 .. frame_width : box.t = s * Unit
    BY <2>1
  <2>5. PICK v \in 0 .. frame_width : box.b = v * Unit
    BY <2>1
  <2>6. {p, q, s, v, Unit, frame_width} \subseteq Nat /\ Unit >= 2
    BY BoxesConstants
  <2>7. {box.l, box.t, box.r, box.b} \subseteq Nat /\ box.r <= frame_width * Unit
    BY <2>2, <2>3, <2>4, <2>5, <2>6, TimesKeepsOrder
  <2>8. p < q
    <3> SUFFICES ASSUME q <= p PROVE FALSE
      BY <2>6
    <3>1. box.r <= box.l
      BY <2>2, <2>3, <2>6, TimesKeepsOrder
    <3> QED
      BY <1>1, <2>7, <3>1
  <2>9. box.l + Unit <= box.r
    BY <2>2, <2>3, <2>6, <2>8, OneMoreIsUnitMore
  <2>10. /\ box.l \in {0, Unit} \/ box.l >= 2 * Unit
         /\ box.r \in {0, Unit} \/ box.r >= 2 * Unit
    BY <2>2, <2>3, <2>6, NothingOneOrMore
  <2>11. box.r - box.l \in {0, Unit} \/ box.r - box.l >= 2 * Unit
    <3>1. q - p \in Nat
      BY <2>6, <2>8
    <3>2. q * Unit - p * Unit = (q - p) * Unit
      BY <2>6
    <3> QED
      BY <2>2, <2>3, <2>6, <3>1, <3>2, NothingOneOrMore
  <2> QED
    BY <1>1, <1>3, <2>6, <2>7, <2>9, <2>10, <2>11
<1> QED
  BY <1>1, <1>2, <1>3

\* An edge and a width are put on the frame as they should be, and so is a centre.
LEMMA NumbersAreThere ==
    ASSUME BoxesInv, box # None, ~Boxes!Blurred
    PROVE  /\ \A a \in {box.l, box.r, box.r - box.l} : Boxes!OnFrame(a) = a * Pixels
           /\ Boxes!TargetX(box.l + box.r) = (box.l + box.r) * Pixels
           /\ ~normalized => box.r > Unit
           /\ Pixels \in Nat
<1> DEFINE l == box.l
           r == box.r
<1>1. /\ l \in Nat /\ r \in Nat /\ l < r
      /\ normalized => l <= Unit /\ r <= Unit
      /\ ~normalized => /\ r <= frame_width * Unit
                        /\ l \in {0, Unit} \/ l >= 2 * Unit
                        /\ r = Unit \/ r >= 2 * Unit
                        /\ r - l = Unit \/ r - l >= 2 * Unit
  BY BoxIsInTheFrame
<1>2. ~normalized => Unit \notin {l, r, r - l} /\ ~(l + r <= 2 * Unit)
  BY DEF Boxes!Blurred
<1> HIDE DEF l, r
<1>3. Unit \in Nat /\ Unit >= 2 /\ frame_width \in Nat /\ frame_width >= 2
  BY BoxesConstants
<1>4. CASE normalized
  <2>1. Pixels = frame_width
    BY <1>4 DEF Pixels
  <2>2. \A a \in {l, r, r - l} : Boxes!OnFrame(a) = a * Pixels
    BY <1>1, <1>3, <1>4, <2>1 DEF Boxes!OnFrame
  <2>3. Boxes!TargetX(l + r) = (l + r) * Pixels
    <3>1. l + r \in Nat /\ 2 * Unit \in Nat /\ l + r <= 2 * Unit
      BY <1>1, <1>3, <1>4
    <3>2. /\ (l + r) * frame_width \in Nat
          /\ (l + r) * frame_width <= (2 * Unit) * frame_width
      BY <1>3, <3>1, TimesKeepsOrder
    <3>3. Boxes!TargetX(l + r) = Boxes!Clipped((l + r) * frame_width, 0, 2 * Unit * frame_width)
      BY <3>1 DEF Boxes!TargetX
    <3>4. (2 * Unit) * frame_width \in Nat
      BY <1>3
    <3> QED
      BY <2>1, <3>2, <3>3, <3>4 DEF Boxes!Clipped
  <2> QED
    BY <1>3, <1>4, <2>1, <2>2, <2>3 DEF l, r
<1>5. CASE ~normalized
  <2>1. Pixels = 1
    BY <1>5 DEF Pixels
  <2>2. (l = 0 \/ l > Unit) /\ r > Unit /\ r - l > Unit /\ l + r > 2 * Unit
    BY <1>1, <1>2, <1>3, <1>5
  <2>3. \A a \in {l, r, r - l} : Boxes!OnFrame(a) = a * Pixels
    BY <1>1, <1>3, <2>1, <2>2 DEF Boxes!OnFrame
  <2>4. Boxes!TargetX(l + r) = (l + r) * Pixels
    <3>1. frame_width * Unit \in Nat /\ 2 * Unit * frame_width = 2 * (frame_width * Unit)
      BY <1>3
    <3>2. l + r <= 2 * Unit * frame_width /\ 2 * Unit * frame_width \in Nat
      BY <1>1, <1>5, <3>1
    <3>3. Boxes!TargetX(l + r) = Boxes!Clipped(l + r, 0, 2 * Unit * frame_width)
      BY <2>2 DEF Boxes!TargetX
    <3> QED
      BY <1>1, <2>1, <3>2, <3>3 DEF Boxes!Clipped
  <2> QED
    BY <2>1, <2>2, <2>3, <2>4 DEF l, r
<1> QED
  BY <1>4, <1>5 DEF BoxesInv

\* The numbers a detection carries, by its form.
LEMMA DetectionIsKnown ==
    LET d == Boxes!Detection IN
    /\ d.x = box.l /\ d.y = box.t
    /\ d.third = (IF Boxes!Sized THEN box.r - box.l ELSE box.r)
    /\ d.fourth = (IF Boxes!Sized THEN box.b - box.t ELSE box.b)
    /\ d.form \in {"x_w", "list", "list_xywh"} => Boxes!Sized
    /\ d.form \in {"x1", "list_xyxy"} => ~Boxes!Sized
    /\ form \in Boxes!Forms => d.form \in Boxes!Forms
  BY DEF Boxes!Detection, Boxes!Exported, Boxes!Given, Boxes!Sized, Boxes!Forms

\* Whoever does not misread a box takes its corners for what they are.
LEMMA CoercedIsTheBox ==
    ASSUME BoxesInv, box # None, NEW r_ \in {"tracker", "scene", "overlay"},
           ~Boxes!Misread(r_)
    PROVE  Boxes!CoercedBox(Boxes!Detection) = Boxes!Corners(box.l, box.t, box.r, box.b)
<1> DEFINE d == Boxes!Detection
<1>1. /\ {box.l, box.t, box.r, box.b} \subseteq Nat /\ box.l < box.r /\ box.t < box.b
      /\ normalized => box.l <= Unit /\ box.t <= Unit /\ box.r <= Unit /\ box.b <= Unit
      /\ Unit \in Nat
  BY BoxIsInTheFrame, BoxesConstants
<1>2. /\ d.x = box.l /\ d.y = box.t
      /\ d.third = (IF Boxes!Sized THEN box.r - box.l ELSE box.r)
      /\ d.fourth = (IF Boxes!Sized THEN box.b - box.t ELSE box.b)
      /\ d.form \in {"x_w", "list", "list_xywh"} => Boxes!Sized
      /\ d.form \in {"x1", "list_xyxy"} => ~Boxes!Sized
      /\ d.form \in Boxes!Forms
  BY DetectionIsKnown DEF BoxesInv
<1>3. /\ ~(d.form = "x_min" /\ Boxes!Sized)
      /\ normalized \/ ~(d.form = "list" /\ d.third > d.x /\ d.fourth > d.y)
  BY DEF Boxes!Misread
<1> HIDE DEF d
<1>4. ~Boxes!Sized => Boxes!AsCorners(d) = Boxes!Corners(box.l, box.t, box.r, box.b)
  BY <1>2 DEF Boxes!AsCorners
<1>5. Boxes!Sized => Boxes!AsSize(d) = Boxes!Corners(box.l, box.t, box.r, box.b)
  <2> SUFFICES ASSUME Boxes!Sized
               PROVE  Boxes!AsSize(d) = Boxes!Corners(box.l, box.t, box.r, box.b)
    OBVIOUS
  <2>1. d.x + d.third = box.r /\ d.y + d.fourth = box.b
    BY <1>1, <1>2
  <2> QED
    BY <1>2, <2>1 DEF Boxes!AsSize
<1>6. CASE d.form \in {"x_min", "x1"}
  BY <1>2, <1>3, <1>4, <1>6 DEF Boxes!CoercedBox, d
<1>7. CASE d.form = "x_w"
  BY <1>2, <1>5, <1>7 DEF Boxes!CoercedBox, d
<1>8. CASE d.form = "list_xyxy"
  BY <1>2, <1>4, <1>8 DEF Boxes!CoercedBox, Boxes!SequenceBox, d
<1>9. CASE d.form = "list_xywh"
  BY <1>2, <1>5, <1>9 DEF Boxes!CoercedBox, Boxes!SequenceBox, d
<1>10. CASE d.form = "list"
  <2>1. d.x \in Int /\ d.y \in Int /\ d.third \in Int /\ d.fourth \in Int /\ Unit \in Int
    BY <1>1, <1>2
  <2>2. \/ Boxes!Max({d.x, d.y, d.third, d.fourth}) <= Unit
        \/ d.third <= d.x \/ d.fourth <= d.y
    <3> SUFFICES ASSUME ~(d.third <= d.x), ~(d.fourth <= d.y)
                 PROVE  Boxes!Max({d.x, d.y, d.third, d.fourth}) <= Unit
      OBVIOUS
    <3>1. normalized
      BY <1>3, <1>10, <2>1
    <3>2. d.x <= Unit /\ d.y <= Unit /\ d.third <= Unit /\ d.fourth <= Unit
      BY <1>1, <1>2, <3>1
    <3> QED
      BY <2>1, <3>2, GreatestOfFour, Zenon
  <2>3. Boxes!CoercedBox(d) = Boxes!AsSize(d)
    BY <1>10, <2>2 DEF Boxes!CoercedBox, Boxes!SequenceBox
  <2> QED
    BY <1>2, <1>5, <1>10, <2>3 DEF d
<1> QED
  BY <1>2, <1>6, <1>7, <1>8, <1>9, <1>10 DEF Boxes!Forms, d

\* What is to be found: the distances in pixels.
LEMMA WhereIsThere ==
    ASSUME BoxesInv, box # None
    PROVE  /\ Boxes!Where = Boxes!Reading((box.l + box.r) * Pixels, (box.r - box.l) * Pixels)
           /\ box.l * Pixels + box.r * Pixels = (box.l + box.r) * Pixels
           /\ box.r * Pixels - box.l * Pixels = (box.r - box.l) * Pixels
           /\ {box.l * Pixels, box.r * Pixels} \subseteq Nat
<1>1. /\ box.l \in Nat /\ box.r \in Nat /\ Pixels \in Nat
  BY BoxIsInTheFrame, BoxesConstants DEF Pixels
<1>2. Boxes!Where = Boxes!Reading((box.l + box.r) * Pixels, (box.r - box.l) * Pixels)
  BY DEF Boxes!Where, Pixels
<1> QED
  BY <1>1, <1>2

LEMMA AppFindsIt ==
    ASSUME BoxesInv, box # None, ~Boxes!Blurred, ~Boxes!Misread("app")
    PROVE  Boxes!AppReads(Boxes!Detection) \in {None, Boxes!Where}
<1> DEFINE d == Boxes!Detection
<1>1. /\ {box.l, box.r} \subseteq Nat /\ box.l < box.r
      /\ normalized => box.l <= Unit /\ box.r <= Unit
      /\ Unit \in Nat
  BY BoxIsInTheFrame, BoxesConstants
<1>2. /\ d.x = box.l
      /\ d.third = (IF Boxes!Sized THEN box.r - box.l ELSE box.r)
      /\ d.form \in {"x_w", "list", "list_xywh"} => Boxes!Sized
      /\ d.form \in {"x1", "list_xyxy"} => ~Boxes!Sized
      /\ d.form \in Boxes!Forms
  BY DetectionIsKnown DEF BoxesInv
<1>3. /\ ~(d.form = "x_min" /\ Boxes!Sized)
      /\ normalized \/ ~(d.form \in {"list", "list_xywh"} /\ d.third > d.x)
  BY DEF Boxes!Misread
<1> HIDE DEF d
<1>4. /\ Boxes!OnFrame(box.r - box.l) = (box.r - box.l) * Pixels
      /\ Boxes!TargetX(box.l + box.r) = (box.l + box.r) * Pixels
  BY NumbersAreThere
<1>5. Boxes!Where = Boxes!Reading((box.l + box.r) * Pixels, (box.r - box.l) * Pixels)
  BY WhereIsThere
<1>6. CASE d.form \in {"x_min", "list_xyxy"}
  <2>1. Boxes!Magnitude(d.third - d.x) = box.r - box.l /\ d.x + d.third = box.l + box.r
    BY <1>1, <1>2, <1>3, <1>6 DEF Boxes!Magnitude
  <2> QED
    BY <1>4, <1>5, <1>6, <2>1 DEF Boxes!AppReads, d
<1>7. CASE d.form = "x1"
  BY <1>7 DEF Boxes!AppReads, d
<1>8. CASE d.form \in {"x_w", "list", "list_xywh"}
  <2>1. d.third = box.r - box.l /\ 2 * d.x + d.third = box.l + box.r
    BY <1>1, <1>2, <1>8
  <2>2. CASE d.form = "x_w" \/ (d.x <= Unit /\ d.third <= Unit)
    BY <1>4, <1>5, <1>8, <2>1, <2>2 DEF Boxes!AppReads, d
  <2>3. CASE d.form # "x_w" /\ ~(d.x <= Unit /\ d.third <= Unit)
    <3>1. ~normalized
      BY <1>1, <1>2, <2>1, <2>3
    <3>2. ~(d.third > d.x) /\ Pixels = 1
      BY <1>3, <1>8, <2>3, <3>1 DEF Pixels
    <3>3. Boxes!AppReads(d) = Boxes!Reading(Boxes!TargetX(2 * d.x + d.third), d.third)
      BY <1>8, <2>3, <3>2 DEF Boxes!AppReads
    <3>4. d.third = (box.r - box.l) * Pixels
      BY <1>1, <2>1, <3>2
    <3> QED
      BY <1>4, <1>5, <2>1, <3>3, <3>4 DEF d
  <2> QED
    BY <2>2, <2>3
<1> QED
  BY <1>2, <1>6, <1>7, <1>8 DEF Boxes!Forms

LEMMA TrackerFindsIt ==
    ASSUME BoxesInv, box # None, ~Boxes!Blurred, ~Boxes!Misread("tracker")
    PROVE  Boxes!TrackerReads(Boxes!Detection) \in {None, Boxes!Where}
<1> DEFINE corners == Boxes!Corners(box.l, box.t, box.r, box.b)
           scaled == Boxes!ScaleNormalizedBbox(corners)
<1>1. Boxes!CoercedBox(Boxes!Detection) = corners
  BY CoercedIsTheBox
<1>2. /\ {box.l, box.t, box.r, box.b} \subseteq Nat
      /\ normalized => box.l <= Unit /\ box.t <= Unit /\ box.r <= Unit /\ box.b <= Unit
      /\ ~normalized => box.r > Unit
      /\ Unit \in Nat
  BY BoxIsInTheFrame, BoxesConstants, NumbersAreThere
<1>3. \A a \in {box.l, box.t, box.r, box.b} : Boxes!Magnitude(a) = a
  BY <1>2 DEF Boxes!Magnitude
<1>4. Boxes!Max({box.l, box.t, box.r, box.b}) <= Unit <=> normalized
  <2>1. Boxes!Max({box.l, box.t, box.r, box.b}) <= Unit <=>
            box.l <= Unit /\ box.t <= Unit /\ box.r <= Unit /\ box.b <= Unit
    <3>1. box.l \in Int /\ box.t \in Int /\ box.r \in Int /\ box.b \in Int /\ Unit \in Int
      BY <1>2
    <3> QED
      BY <3>1, GreatestOfFour, Zenon
  <2> QED
    BY <1>2, <2>1
<1>5. scaled.x1 = box.l * Pixels /\ scaled.x2 = box.r * Pixels
  <2>1. corners.x1 = box.l /\ corners.y1 = box.t /\ corners.x2 = box.r /\ corners.y2 = box.b
    BY DEF Boxes!Corners
  <2>2. Boxes!Max({Boxes!Magnitude(corners.x1), Boxes!Magnitude(corners.y1),
                   Boxes!Magnitude(corners.x2), Boxes!Magnitude(corners.y2)})
        = Boxes!Max({box.l, box.t, box.r, box.b})
    BY <1>3, <2>1
  <2>3. scaled = [corners EXCEPT !.x1 = corners.x1 * Pixels, !.x2 = corners.x2 * Pixels]
    BY <1>4, <2>2 DEF Boxes!ScaleNormalizedBbox, Pixels
  <2> QED
    BY <2>1, <2>3 DEF Boxes!Corners
<1>6. Boxes!TrackerReads(Boxes!Detection) = None
      \/ Boxes!TrackerReads(Boxes!Detection) =
             Boxes!Reading(scaled.x1 + scaled.x2, scaled.x2 - scaled.x1)
  BY <1>1 DEF Boxes!TrackerReads
<1> QED
  BY <1>5, <1>6, WhereIsThere

LEMMA SceneFindsIt ==
    ASSUME BoxesInv, box # None, ~Boxes!Misread("scene")
    PROVE  Boxes!SceneReads(Boxes!Detection) = Boxes!Where
<1>1. Boxes!CoercedBox(Boxes!Detection) = Boxes!Corners(box.l, box.t, box.r, box.b)
  BY CoercedIsTheBox
<1>2. normalized /\ Pixels = frame_width
  BY DEF Boxes!Misread, Pixels
<1>3. /\ {box.l, box.r, Unit, frame_width} \subseteq Nat /\ box.l < box.r
      /\ box.l <= Unit /\ box.r <= Unit
  BY <1>2, BoxIsInTheFrame, BoxesConstants
<1>4. /\ Boxes!Clipped(box.l, 0, Unit) = box.l /\ Boxes!Clipped(box.r, 0, Unit) = box.r
      /\ Boxes!Magnitude(box.r - box.l) = box.r - box.l
  BY <1>3 DEF Boxes!Clipped, Boxes!Magnitude
<1>5. Boxes!Detection.form = "x_w" => box.l + Boxes!Detection.third = box.r
  BY <1>3, DetectionIsKnown
<1>6. LET c == Boxes!Corners(box.l, box.t, box.r, box.b) IN c.x1 = box.l /\ c.x2 = box.r
  BY DEF Boxes!Corners
<1>7. Boxes!SceneReads(Boxes!Detection) =
          Boxes!Reading((box.l + box.r) * frame_width, (box.r - box.l) * frame_width)
  BY <1>1, <1>4, <1>5, <1>6 DEF Boxes!SceneReads
<1> QED
  BY <1>2, <1>7, WhereIsThere

LEMMA OverlayFindsIt ==
    ASSUME BoxesInv, box # None, ~Boxes!Blurred, ~Boxes!Misread("overlay")
    PROVE  Boxes!OverlayReads(Boxes!Detection) = Boxes!Where
<1>1. Boxes!CoercedBox(Boxes!Detection) = Boxes!Corners(box.l, box.t, box.r, box.b)
  BY CoercedIsTheBox
<1>2. LET c == Boxes!Corners(box.l, box.t, box.r, box.b) IN c.x1 = box.l /\ c.x2 = box.r
  BY DEF Boxes!Corners
<1>3. Boxes!OnFrame(box.l) = box.l * Pixels /\ Boxes!OnFrame(box.r) = box.r * Pixels
  BY NumbersAreThere
<1>4. Boxes!OverlayReads(Boxes!Detection) =
          Boxes!Reading(box.l * Pixels + box.r * Pixels, box.r * Pixels - box.l * Pixels)
  BY <1>1, <1>2, <1>3 DEF Boxes!OverlayReads
<1> QED
  BY <1>4, WhereIsThere

LEMMA CropFindsIt ==
    ASSUME BoxesInv, box # None, ~Boxes!Blurred, ~Boxes!Misread("crop")
    PROVE  Boxes!CropReads(Boxes!Detection) \in {None, Boxes!Where}
<1> DEFINE d == Boxes!Detection
           right == frame_width * Unit
           x1 == box.l * Pixels
           x2 == box.r * Pixels
<1>1. CASE d.form \in {"x1", "x_w"}
  BY <1>1 DEF Boxes!CropReads
<1>2. CASE d.form \notin {"x1", "x_w"}
  <2>1. d.form \notin {"list", "list_xywh"} /\ ~(d.form = "x_min" /\ Boxes!Sized)
    BY DEF Boxes!Misread
  <2>2. d.form \in Boxes!Forms /\ (d.form = "list_xyxy" => ~Boxes!Sized)
    BY DetectionIsKnown DEF BoxesInv
  <2>3. ~Boxes!Sized
    BY <1>2, <2>1, <2>2 DEF Boxes!Forms
  <2>4. d.x = box.l /\ d.third = box.r
    BY <2>3, DetectionIsKnown
  <2>5. Boxes!OnFrame(box.l) = x1 /\ Boxes!OnFrame(box.r) = x2
    BY NumbersAreThere
  <2>6. /\ {x1, x2, right, Unit} \subseteq Nat
        /\ x1 + Unit <= x2 /\ x2 <= right
    <3>1. {box.l, box.r, Unit, frame_width} \subseteq Nat /\ Unit <= frame_width
      BY BoxIsInTheFrame, BoxesConstants
    <3>2. right \in Nat
      BY <3>1
    <3>3. CASE normalized
      <4>1. box.l < box.r /\ box.r <= Unit /\ Pixels = frame_width
        BY <3>3, BoxIsInTheFrame DEF Pixels
      <4>2. x1 \in Nat /\ x2 \in Nat /\ x1 + frame_width <= x2
        BY <3>1, <4>1, OneMoreIsUnitMore
      <4>3. x2 <= Unit * frame_width
        BY <3>1, <4>1, TimesKeepsOrder
      <4>4. Unit * frame_width = right
        BY <3>1
      <4> QED
        BY <3>1, <3>2, <4>2, <4>3, <4>4
    <3>4. CASE ~normalized
      <4>1. box.l + Unit <= box.r /\ box.r <= right /\ Pixels = 1
        BY <3>4, BoxIsInTheFrame DEF Pixels
      <4>2. x1 = box.l /\ x2 = box.r
        BY <3>1, <4>1
      <4> QED
        BY <3>1, <3>2, <4>1, <4>2
    <3> QED
      BY <3>3, <3>4 DEF BoxesInv
  <2> HIDE DEF x1, x2, right
  <2>7. /\ Boxes!Clipped(x1, 0, right - Unit) = x1 /\ Boxes!Clipped(x2, 0, right) = x2
    BY <2>6 DEF Boxes!Clipped
  <2>8. Boxes!Max({x1 + Unit, x2}) = x2
    <3>1. x1 + Unit \in Int /\ x2 \in Int
      BY <2>6
    <3>2. Boxes!Max({x1 + Unit, x2}) = IF x1 + Unit >= x2 THEN x1 + Unit ELSE x2
      BY <3>1, Greater DEF Boxes!Max
    <3> QED
      BY <2>6, <3>1, <3>2
  <2>9. Boxes!CropReads(d) = Boxes!Reading(x1 + x2, x2 - x1)
    <3> HIDE DEF d
    <3> QED
      BY <1>2, <2>4, <2>5, <2>7, <2>8 DEF Boxes!CropReads, right
  <2> QED
    BY <2>9, WhereIsThere DEF x1, x2
<1> QED
  BY <1>1, <1>2

LEMMA NextKeepsBoxesInv == BoxesInv /\ [Boxes!Next]_(Boxes!vars) => BoxesInv'
<1> SUFFICES ASSUME BoxesInv, [Boxes!Next]_(Boxes!vars) PROVE BoxesInv'
  OBVIOUS
<1>1. CASE Boxes!Detect
  <2>1. /\ normalized' \in BOOLEAN /\ form' \in Boxes!Forms /\ piped' \in BOOLEAN
        /\ box' \in {b \in Boxes!Boxes(normalized') : b.l < b.r /\ b.t < b.b}
        /\ reading' = None
    BY <1>1 DEF Boxes!Detect, BoxesInv
  <2>2. Boxes!Boxes(normalized') = Boxes!Boxes(normalized)'
    BY DEF Boxes!Boxes, Boxes!Edges
  <2> QED
    BY <2>1, <2>2 DEF BoxesInv, Boxes!FoundWhereItIs
<1>2. ASSUME NEW r_ \in Boxes!Readers, Boxes!Read(r_) PROVE BoxesInv'
  <2>1. /\ box # None /\ reader' = r_ /\ reading' = Boxes!ReadBy(r_)
        /\ UNCHANGED <<box, normalized, form, piped>>
    BY <1>2 DEF Boxes!Read
  <2>2. ASSUME ~Boxes!Blurred, ~Boxes!Misread(r_)
        PROVE  Boxes!ReadBy(r_) \in {None, Boxes!Where}
    BY <2>1, <2>2, AppFindsIt, TrackerFindsIt, SceneFindsIt, OverlayFindsIt, CropFindsIt
    DEF Boxes!ReadBy, Boxes!Readers
  <2>3. /\ Boxes!Blurred' = Boxes!Blurred /\ Boxes!Where' = Boxes!Where
        /\ Boxes!Misread(reader)' = Boxes!Misread(r_)
    BY <2>1
    DEF Boxes!Blurred, Boxes!Where, Boxes!Reading, Boxes!Misread, Boxes!Detection,
        Boxes!Exported, Boxes!Given, Boxes!Sized
  <2>4. Boxes!FoundWhereItIs'
    BY <2>1, <2>2, <2>3 DEF Boxes!FoundWhereItIs
  <2> QED
    BY <2>1, <2>4 DEF BoxesInv, Boxes!Boxes, Boxes!Edges
<1>3. CASE UNCHANGED Boxes!vars
  BY <1>3
  DEF Boxes!vars, BoxesInv, Boxes!FoundWhereItIs, Boxes!Blurred, Boxes!Where, Boxes!Reading,
      Boxes!Misread, Boxes!Detection, Boxes!Exported, Boxes!Given, Boxes!Sized, Boxes!Boxes,
      Boxes!Edges
<1> QED
  BY <1>1, <1>2, <1>3 DEF Boxes!Next

LEMMA InitBoxesInv == Boxes!Init => BoxesInv
  BY DEF Boxes!Init, BoxesInv, Boxes!FoundWhereItIs, Boxes!Forms

\* What lies in the frame is found where it is by each of the five readers of a box, in
\* parts of the frame or in pixels, whatever the form of the box, except for the forms a
\* reader takes for something else: for every width of the frame (app.py,
\* _extract_visual_reframe_target; tracking.py; scene.py; realtime_vision.py; gstreamer.py).
THEOREM SpecFoundWhereItIs == Spec => []FoundWhereItIs
<1>1. Init => BoxesInv
  BY InitBoxesInv DEF Init
<1>2. BoxesInv => FoundWhereItIs
  BY DEF BoxesInv, FoundWhereItIs
<1>3. BoxesInv /\ [Next]_vars => BoxesInv'
  BY StepOfBoxes, NextKeepsBoxesInv
<1> QED
  BY <1>1, <1>2, <1>3, PTL DEF Spec

-----------------------------------------------------------------------------
(* The types of the components' state. *)

\* Of the vision process: a file that is read is one that was written, or half of one.
LEMMA NextKeepsVisionTypes ==
    VisionInv /\ Vision!TypeOK /\ [Vision!Next]_(Vision!vars) => Vision!TypeOK'
<1> SUFFICES ASSUME VisionInv, Vision!TypeOK, [Vision!Next]_(Vision!vars)
             PROVE  Vision!TypeOK'
  OBVIOUS
<1> USE VisionConstants
    DEF Vision!Next, Vision!vars, Vision!pipeline, Vision!outside, Vision!writer,
        Vision!Fresh, Vision!PollEnds, Vision!Status, Vision!NoStatus,
        Vision!Start, Vision!End, Vision!BeginPass, Vision!PollFails,
        Vision!PollFindsNoFrame, Vision!PullFrame, Vision!PollSees, Vision!MatchIdentities,
        Vision!Write, Vision!WriteBeside, Vision!Replace, Vision!ReadFile, Vision!Answer,
        Vision!Tick
<1>1. last_frame' \in BOOLEAN /\ kept_frame' \in BOOLEAN
  BY Zenon DEF Vision!TypeOK, Vision!Export
<1>2. now' \in Vision!Times
  BY SensesAssumption DEF Vision!VisionAssumption, Vision!TypeOK, Vision!Times
<1>3. /\ vision_pc' \in {"down", "top", "poll", "frame", "matching", "building", "replacing"}
      /\ updated_at' \in Vision!Instants
      /\ status' \in [status : Vision!Statuses, frame : Vision!Instants]
  BY DEF Vision!TypeOK, Vision!Statuses, VisionInv, Seen
<1>4. /\ last_export_at' \in Vision!Instants
      /\ evidence' \in Vision!Instants \cup {Throttled}
      /\ identities' \in Vision!Instants
  BY DEF Vision!TypeOK, Vision!Export
<1>5. {tmp', file', held'} \subseteq Vision!Payload \cup {None, Torn}
  BY DEF Vision!TypeOK, Vision!built, Vision!Payload, VisionInv, Seen
<1> QED
  BY <1>1, <1>2, <1>3, <1>4, <1>5
  DEF Vision!TypeOK, Vision!Payload, Vision!Times, Vision!Instants, Vision!Statuses

LEMMA InitVisionTypes == Vision!Init => Vision!TypeOK
<1> SUFFICES ASSUME Vision!Init PROVE Vision!TypeOK
  OBVIOUS
<1>1. last_frame \in BOOLEAN /\ kept_frame \in BOOLEAN
  BY Zenon DEF Vision!Init
<1> QED
  BY <1>1, SensesAssumption
  DEF Vision!Init, Vision!TypeOK, Vision!VisionAssumption, Vision!NoStatus, Vision!Status,
      Vision!Times, Vision!Instants, Vision!Statuses

\* A thread that is about to store or to attach holds a status.
EyeTyped ==
    /\ Eye!TypeOK
    /\ \A t \in Eye!Threads : eye_pc[t] \in {"store", "attach"} => eye_held[t] \in Eye!Status

\* A thread goes to another place with what it then holds.
LEMMA GotoKeepsEyeTyped ==
    ASSUME EyeTyped, NEW t \in Eye!Threads,
           NEW place \in {"idle", "read", "store", "attach", "join", "check"},
           NEW what \in Eye!Status \cup Pollers \cup {None}, Eye!Goto(t, place, what),
           place \in {"store", "attach"} => what \in Eye!Status
    PROVE  /\ eye_pc' \in [Eye!Threads -> {"idle", "read", "store", "attach", "join", "check"}]
           /\ eye_held' \in [Eye!Threads -> Eye!Status \cup Pollers \cup {None}]
           /\ \A d \in Eye!Threads :
                  eye_pc'[d] \in {"store", "attach"} => eye_held'[d] \in Eye!Status
<1>1. /\ eye_pc \in [Eye!Threads -> {"idle", "read", "store", "attach", "join", "check"}]
      /\ eye_held \in [Eye!Threads -> Eye!Status \cup Pollers \cup {None}]
      /\ eye_pc' = [eye_pc EXCEPT ![t] = place] /\ eye_held' = [eye_held EXCEPT ![t] = what]
      /\ \A d \in Eye!Threads : eye_pc[d] \in {"store", "attach"} => eye_held[d] \in Eye!Status
  BY DEF EyeTyped, Eye!TypeOK, Eye!Goto
<1> QED
  BY <1>1

LEMMA NextKeepsEyeTyped == EyeTyped /\ [Eye!Next]_(Eye!vars) => EyeTyped'
<1> SUFFICES ASSUME EyeTyped, [Eye!Next]_(Eye!vars) PROVE EyeTyped'
  OBVIOUS
<1> USE DEF EyeTyped, Eye!TypeOK, Eye!adapter, Eye!cache, Eye!poller
<1>1. Callers \subseteq Eye!Threads /\ Pollers \subseteq Eye!Threads
  BY DEF Eye!Threads
<1>2. CASE Eye!FrameAges
  BY <1>2 DEF Eye!FrameAges, Eye!Status
<1>3. ASSUME NEW c \in Callers, Eye!Call(c) \/ Eye!Raises(c) \/ Eye!Observe(c) \/ Eye!Join(c)
      PROVE  EyeTyped'
  BY <1>1, <1>3, GotoKeepsEyeTyped
  DEF Eye!Call, Eye!Raises, Eye!Observe, Eye!Join, Eye!Status
<1>4. ASSUME NEW c \in Callers, Eye!Attach(c) PROVE EyeTyped'
  <2>1. eye_held[c] \in Eye!Status
    BY <1>1, <1>4 DEF Eye!Attach
  <2>2. /\ {scene_key', scene'} \subseteq Eye!Status \cup {None} /\ scene' # None => scene' \in Eye!Status
        /\ answer' = [observation |-> eye_held[c], scene |-> scene']
        /\ scene' \in {scene, eye_held[c]} /\ (scene' = None => scene' = eye_held[c])
    BY <1>4, <2>1 DEF Eye!Attach, Eye!KeyOf
  <2>3. answer' \in [observation : Eye!Status, scene : Eye!Status]
    BY <2>1, <2>2
  <2>4. /\ eye_pc' \in [Eye!Threads -> {"idle", "read", "store", "attach", "join", "check"}]
        /\ eye_held' \in [Eye!Threads -> Eye!Status \cup Pollers \cup {None}]
        /\ \A d \in Eye!Threads :
               eye_pc'[d] \in {"store", "attach"} => eye_held'[d] \in Eye!Status
    BY <1>1, <1>4, GotoKeepsEyeTyped DEF Eye!Attach
  <2>5. scene_key' = eye_held[c] /\ UNCHANGED <<Eye!adapter, latest_status, Eye!poller>>
    BY <1>4 DEF Eye!Attach, Eye!KeyOf
  <2> QED
    BY <2>1, <2>2, <2>3, <2>4, <2>5 DEF Eye!Status
<1>5. ASSUME NEW c \in Callers, Eye!Start(c) PROVE EyeTyped'
  BY <1>1, <1>5, GotoKeepsEyeTyped DEF Eye!Start, Eye!Status
<1>6. ASSUME NEW c \in Callers, Eye!Stop(c) PROVE EyeTyped'
  <2>1. thread \in Pollers \/ ~Eye!Polling
    BY DEF Eye!Polling
  <2> QED
    BY <1>1, <1>6, <2>1, GotoKeepsEyeTyped DEF Eye!Stop, Eye!Status
<1>7. ASSUME NEW p \in Pollers, Eye!Poll(p) \/ Eye!PollerEnds(p) PROVE EyeTyped'
  BY <1>1, <1>7, GotoKeepsEyeTyped DEF Eye!Poll, Eye!PollerEnds, Eye!Status
<1>8. ASSUME NEW t \in Eye!Threads, Eye!Store(t) PROVE EyeTyped'
  BY <1>8, GotoKeepsEyeTyped DEF Eye!Store, Eye!Status
<1>9. ASSUME NEW t \in Eye!Threads, Eye!ReadAdapter(t) PROVE EyeTyped'
  <2>0. stale' \in BOOLEAN
    BY <1>9, Zenon DEF Eye!ReadAdapter
  <2>1. frame' \in 0 .. MaxPolled /\ stale' \in BOOLEAN
    BY <1>9, <2>0, SensesAssumption DEF Eye!ReadAdapter, Eye!ServiceAssumption
  <2>2. [frame |-> frame', stale |-> stale'] \in Eye!Status
    BY <2>1 DEF Eye!Status
  <2> QED
    BY <1>9, <2>1, <2>2, GotoKeepsEyeTyped DEF Eye!ReadAdapter, Eye!Status
<1>10. CASE UNCHANGED Eye!vars
  BY <1>10 DEF Eye!vars, Eye!Status
<1> QED
  BY <1>2, <1>3, <1>4, <1>5, <1>6, <1>7, <1>8, <1>9, <1>10 DEF Eye!Next

LEMMA InitEyeTyped == Eye!Init => EyeTyped
<1> SUFFICES ASSUME Eye!Init PROVE EyeTyped
  OBVIOUS
<1>1. stale \in BOOLEAN /\ stop_event \in BOOLEAN
  BY Zenon DEF Eye!Init
<1>2. Eye!NoFrame \in Eye!Status
  BY SensesAssumption DEF Eye!ServiceAssumption, Eye!NoFrame, Eye!Status
<1> QED
  BY <1>1, <1>2, SensesAssumption
  DEF Eye!Init, EyeTyped, Eye!TypeOK, Eye!ServiceAssumption

\* Of some numbers up to n one is the greatest.
LEMMA OneIsLast ==
    ASSUME NEW n \in Nat, NEW T \in SUBSET (1 .. n), T # {}
    PROVE  \E i \in T : \A j \in T : j <= i
<1> DEFINE before == OpToRel(<, Nat)
           after == {n - i : i \in T}
<1>1. IsWellFoundedOn(before, Nat)
  BY NatLessThanWellFounded, Zenon
<1>2. \A i, j \in Nat : i < j => <<i, j>> \in before
  BY Zenon DEF OpToRel
<1>3. after \subseteq Nat /\ after # {}
  <2>1. ASSUME NEW i \in T PROVE n - i \in Nat
    OBVIOUS
  <2> QED
    BY <2>1
<1>4. PICK x \in after : \A y \in after : <<y, x>> \notin before
  <2> HIDE DEF before, after
  <2> QED
    BY <1>1, <1>3, WFMin
<1> HIDE DEF before
<1>5. \A y \in after : ~(y < x)
  BY <1>2, <1>3, <1>4
<1>6. PICK i \in T : x = n - i
  OBVIOUS
<1>7. ASSUME NEW j \in T PROVE j <= i
  <2>1. n - j \in after
    OBVIOUS
  <2>2. n - j \in Int /\ x \in Nat /\ i \in Nat /\ j \in Nat
    <3> HIDE DEF after
    <3> QED
      BY <1>3
  <2>3. ~(n - j < x)
    BY <1>5, <2>1
  <2> HIDE DEF after
  <2> QED
    BY <1>6, <2>2, <2>3
<1> QED
  BY <1>7

\* Whoever is seen has the score of one of the candidates.
LEMMA ScoreOfSeen ==
    ASSUME NEW f \in Tracker!Frames, NEW t \in Tracker!Seen(f)
    PROVE  Tracker!ScoreOf(f, t) \in Scores /\ t \in Ids
<1>1. PICK n \in 0 .. MaxCandidates : f \in [1 .. n -> Tracker!Candidate]
  BY DEF Tracker!Frames
<1>2. n \in Nat /\ DOMAIN f = 1 .. n
  BY <1>1, SensesAssumption DEF Tracker!TrackerAssumption
<1> DEFINE T == {i \in 1 .. n : f[i].id = t}
<1>3. T # {} /\ T \in SUBSET (1 .. n)
  BY <1>2 DEF Tracker!Seen
<1>4. PICK i \in T : \A j \in T : j <= i
  <2> HIDE DEF T
  <2> QED
    BY <1>2, <1>3, OneIsLast
<1> DEFINE last == CHOOSE k \in DOMAIN f :
                       f[k].id = t /\ \A j \in DOMAIN f : f[j].id = t => j <= k
<1>5. last \in DOMAIN f /\ f[last].id = t
  BY <1>2, <1>4
<1>6. Tracker!ScoreOf(f, t) = f[last].score
  BY DEF Tracker!ScoreOf
<1> HIDE DEF last, T
<1>7. f[last] \in Tracker!Candidate
  BY <1>1, <1>2, <1>5
<1> QED
  BY <1>5, <1>6, <1>7 DEF Tracker!Candidate

\* What is noted of everyone seen or missed is a record of one of the Ids.
LEMMA NotedIsTyped ==
    ASSUME Tracker!TypeOK, NEW f \in Tracker!Frames
    PROVE  /\ DOMAIN Tracker!Noted(f) = DOMAIN tracks \cup Tracker!Seen(f)
           /\ DOMAIN Tracker!Noted(f) \subseteq Ids
           /\ \A t \in DOMAIN Tracker!Noted(f) : Tracker!Noted(f)[t] \in Tracker!Record
<1> DEFINE noted == Tracker!Noted(f)
<1>1. max_misses \in Nat
  BY SensesAssumption DEF Tracker!TrackerAssumption
<1>2. DOMAIN noted = DOMAIN tracks \cup Tracker!Seen(f)
  BY DEF Tracker!Noted
<1>3. DOMAIN noted \subseteq Ids
  BY <1>2, ScoreOfSeen DEF Tracker!TypeOK
<1>4. ASSUME NEW t \in DOMAIN noted PROVE noted[t] \in Tracker!Record
  <2>1. CASE t \notin DOMAIN tracks
    <3>1. noted[t] = [miss_count |-> 0, last_score |-> Tracker!ScoreOf(f, t)]
      BY <1>2, <2>1 DEF Tracker!Noted
    <3> QED
      BY <1>1, <1>2, <2>1, <3>1, ScoreOfSeen DEF Tracker!Record
  <2>2. CASE t \in DOMAIN tracks
    <3>1. tracks[t] \in Tracker!Record
      BY <2>2 DEF Tracker!TypeOK
    <3>2. CASE t \in Tracker!Seen(f)
      <4>1. noted[t] = [tracks[t] EXCEPT !.last_score = Tracker!ScoreOf(f, t)]
        BY <1>2, <2>2, <3>2 DEF Tracker!Noted
      <4>2. Tracker!ScoreOf(f, t) \in Scores
        BY <3>2, ScoreOfSeen
      <4> QED
        BY <3>1, <4>1, <4>2 DEF Tracker!Record
    <3>3. CASE t \notin Tracker!Seen(f)
      <4>1. noted[t] = [tracks[t] EXCEPT !.miss_count = IF @ > max_misses THEN @ ELSE @ + 1]
        BY <1>2, <2>2, <3>3 DEF Tracker!Noted
      <4> QED
        BY <1>1, <3>1, <4>1 DEF Tracker!Record
    <3> QED
      BY <3>2, <3>3
  <2> QED
    BY <2>1, <2>2
<1> QED
  BY <1>2, <1>3, <1>4

\* One of those noted is selected, or none is.
LEMMA SelectedIsTyped ==
    ASSUME NEW noted, DOMAIN noted \subseteq Ids,
           \A t \in DOMAIN noted : noted[t] \in Tracker!Record,
           \/ \E t \in DOMAIN noted, score \in Scores : Tracker!Select(t, score, noted)
           \/ tracks' = noted
    PROVE  /\ DOMAIN tracks' = DOMAIN noted
           /\ \A t \in DOMAIN tracks' : tracks'[t] \in Tracker!Record
  BY SensesAssumption DEF Tracker!Select, Tracker!Record, Tracker!TrackerAssumption

\* A frame leaves records and a target of those, and a switch that is pending of them.
LEMMA UpdateKeepsTrackerTypes ==
    ASSUME Tracker!TypeOK, NEW f \in Tracker!Frames \ {<<>>}, Tracker!Update(f)
    PROVE  Tracker!TypeOK'
<1> DEFINE best == f[1]
           noted == Tracker!Noted(f)
<1>1. /\ best \in Tracker!Candidate /\ best.id \in Ids /\ best.score \in Scores
      /\ best.id \in Tracker!Seen(f)
  <2>1. PICK n \in 0 .. MaxCandidates : f \in [1 .. n -> Tracker!Candidate]
    BY DEF Tracker!Frames
  <2>2. f[1] \in Tracker!Candidate
    BY BestIsSomeone
  <2>3. 1 \in DOMAIN f
    <3>1. n # 0
      <4> SUFFICES ASSUME n = 0 PROVE FALSE
        OBVIOUS
      <4> QED
        BY <2>1
    <3> QED
      BY <2>1, <3>1, SensesAssumption DEF Tracker!TrackerAssumption
  <2> QED
    BY <2>2, <2>3 DEF Tracker!Candidate, Tracker!Seen
<1>2. /\ DOMAIN noted = DOMAIN tracks \cup Tracker!Seen(f) /\ DOMAIN noted \subseteq Ids
      /\ \A t \in DOMAIN noted : noted[t] \in Tracker!Record
  BY NotedIsTyped
<1>3. \A t \in Tracker!Seen(f) : Tracker!ScoreOf(f, t) \in Scores
  BY ScoreOfSeen
<1>4. switch_hold_frames \in Nat \ {0}
  BY SensesAssumption DEF Tracker!TrackerAssumption
<1> HIDE DEF best, noted
<1> DEFINE Kept == /\ DOMAIN tracks' = DOMAIN noted
                   /\ \A t \in DOMAIN tracks' : tracks'[t] \in Tracker!Record
<1>5. ASSUME Tracker!Activate(best, noted) PROVE Tracker!TypeOK'
  <2>1. Kept
    BY <1>1, <1>2, <1>5, SelectedIsTyped DEF Tracker!Activate
  <2> QED
    BY <1>1, <1>2, <1>4, <1>5, <2>1 DEF Tracker!Activate, Tracker!NoneLed, Tracker!TypeOK, Tracker!Record
<1>6. ASSUME Tracker!HoldMissing(noted) PROVE Kept /\ active_track' \in DOMAIN tracks' \cup {None}
  <2>1. Kept
    BY <1>2, <1>6, SelectedIsTyped DEF Tracker!HoldMissing
  <2> QED
    BY <1>2, <1>6, <2>1 DEF Tracker!HoldMissing, Tracker!TypeOK
<1>7. ASSUME active_track \in Tracker!Seen(f),
             Tracker!Select(active_track, Tracker!ScoreOf(f, active_track), noted),
             UNCHANGED active_track
      PROVE  Kept /\ active_track' \in DOMAIN tracks' \cup {None}
  <2>1. Kept
    BY <1>2, <1>3, <1>7, SelectedIsTyped
  <2> QED
    BY <1>2, <1>7, <2>1
<1>8. ASSUME Kept, active_track' \in DOMAIN tracks' \cup {None},
             pending_switch' \in Ids \cup {None}, pending_frames' \in 0 .. switch_hold_frames,
             led' \in [Ids -> 0 .. switch_hold_frames]
      PROVE  Tracker!TypeOK'
  BY <1>2, <1>8 DEF Tracker!TypeOK, Tracker!Record
<1> HIDE DEF Kept
<1>9. CASE active_track # None /\ best.id # active_track /\ Tracker!Challenge(f, best, noted)
  <2>1. CASE Tracker!Confirmed(best) >= switch_hold_frames
    BY <1>5, <1>9, <2>1 DEF Tracker!Challenge
  <2>2. CASE ~(Tracker!Confirmed(best) >= switch_hold_frames)
    <3>1. Kept /\ active_track' \in DOMAIN tracks' \cup {None}
      BY <1>6, <1>7, <1>9, <2>2 DEF Tracker!Challenge
    <3>2. /\ pending_switch' = best.id /\ pending_frames' = Tracker!Confirmed(best)
          /\ led' = [led EXCEPT ![best.id] = IF @ < switch_hold_frames THEN @ + 1 ELSE @]
      BY <1>9, <2>2 DEF Tracker!Challenge
    <3>3. pending_frames' \in 0 .. switch_hold_frames
      BY <1>4, <2>2, <3>2 DEF Tracker!Confirmed, Tracker!TypeOK
    <3>4. led' \in [Ids -> 0 .. switch_hold_frames]
      BY <1>1, <1>4, <3>2 DEF Tracker!TypeOK
    <3> QED
      BY <1>1, <1>8, <3>1, <3>2, <3>3, <3>4
  <2> QED
    BY <2>1, <2>2
<1>10. CASE /\ active_track \in Tracker!Seen(f) /\ Tracker!NoPending
            /\ Tracker!Select(active_track, Tracker!ScoreOf(f, active_track), noted)
            /\ UNCHANGED <<active_track, led>>
  BY <1>4, <1>7, <1>8, <1>10 DEF Tracker!NoPending, Tracker!TypeOK
<1>11. CASE Tracker!HoldMissing(noted) /\ UNCHANGED <<pending_switch, pending_frames, led>>
  BY <1>6, <1>8, <1>11 DEF Tracker!TypeOK
<1> QED
  BY <1>5, <1>9, <1>10, <1>11 DEF Tracker!Update, best, noted

LEMMA NextKeepsTrackerTypes ==
    Tracker!TypeOK /\ [Tracker!Next]_(Tracker!vars) => Tracker!TypeOK'
<1> SUFFICES ASSUME Tracker!TypeOK, [Tracker!Next]_(Tracker!vars) PROVE Tracker!TypeOK'
  OBVIOUS
<1>1. CASE Tracker!UpdateEmpty
  <2>1. <<>> \in Tracker!Frames
    <3>1. 0 \in 0 .. MaxCandidates /\ <<>> \in [1 .. 0 -> Tracker!Candidate]
      BY SensesAssumption DEF Tracker!TrackerAssumption
    <3> QED
      BY <3>1 DEF Tracker!Frames
  <2> DEFINE noted == Tracker!Noted(<<>>)
  <2>2. /\ DOMAIN tracks \subseteq DOMAIN noted /\ DOMAIN noted \subseteq Ids
        /\ \A t \in DOMAIN noted : noted[t] \in Tracker!Record
    BY <2>1, NotedIsTyped
  <2> HIDE DEF noted
  <2>3. tracks' = noted /\ active_track' \in {None, active_track}
    BY <1>1 DEF Tracker!UpdateEmpty, Tracker!HoldMissing, noted
  <2> QED
    BY <1>1, <2>2, <2>3, SensesAssumption
    DEF Tracker!UpdateEmpty, Tracker!NoPending, Tracker!TypeOK, Tracker!Record,
        Tracker!TrackerAssumption
<1>2. CASE \E f \in Tracker!Frames \ {<<>>} : Tracker!Update(f)
  BY <1>2, UpdateKeepsTrackerTypes
<1>3. CASE UNCHANGED Tracker!vars
  BY <1>3 DEF Tracker!vars, Tracker!TypeOK, Tracker!Record
<1> QED
  BY <1>1, <1>2, <1>3 DEF Tracker!Next

LEMMA InitTrackerTypes == Tracker!Init => Tracker!TypeOK
  BY SensesAssumption DEF Tracker!Init, Tracker!TypeOK, Tracker!TrackerAssumption

\* The numbers given out for a label after a frame are those of its last new track.
LEMMA UpdateKeepsSceneTypes ==
    ASSUME SceneInv, Scene!TypeOK, NEW frame_ \in Scene!Frames, Scene!Update(frame_)
    PROVE  Scene!TypeOK'
<1> DEFINE match == Scene!Match(frame_)
           unmatched == DOMAIN frame_ \ {c.detection : c \in match}
           before(i) == {j \in unmatched : j <= i /\ frame_[j].label = frame_[i].label}
           new == [i \in unmatched |->
                      LET l == frame_[i].label
                      IN  <<l, next_ids[l] + Scene!Cardinality({j \in unmatched : j <= i /\ frame_[j].label = l})>>]
           begun == {new[i] : i \in unmatched}
           followed == {c.track : c \in match}
           missed == DOMAIN scene_tracks \ followed
           lost == {t \in missed : scene_tracks[t].missing_frames + 1 > max_missing_frames}
           shows(t) == {frame_[c.detection] : c \in {m \in match : m.track = t}}
                           \cup {frame_[i] : i \in {j \in unmatched : new[j] = t}}
           at == [t \in followed \cup begun |-> (CHOOSE d \in shows(t) : TRUE).place]
           counted(l) == {i \in unmatched : frame_[i].label = l}
<1>1. /\ begun \subseteq Scene!TrackIds
      /\ scene_tracks' = [t \in (DOMAIN scene_tracks \cup begun) \ lost |->
                             IF t \in missed
                             THEN [scene_tracks[t] EXCEPT !.missing_frames = @ + 1]
                             ELSE [place |-> at[t], missing_frames |-> 0]]
      /\ next_ids' = [l \in Labels |-> next_ids[l] + Scene!Cardinality(counted(l))]
      /\ objects' = followed \cup begun
  BY Zenon DEF Scene!Update
<1>2. SceneInv'
  BY UpdateKeepsSceneInv
<1>3. PICK n \in 0 .. MaxDetections : frame_ \in [1 .. n -> Scene!Detection]
  BY DEF Scene!Frames
<1>4. /\ n \in Nat /\ DOMAIN frame_ = 1 .. n /\ max_missing_frames \in Nat /\ MaxTracks \in Nat
      /\ \A i \in DOMAIN frame_ : frame_[i] \in Scene!Detection
  BY <1>3, SensesAssumption DEF Scene!SceneAssumption
<1>5. followed \subseteq DOMAIN scene_tracks
  BY MatchIsOfBoth
<1>6. ASSUME NEW i \in unmatched
      PROVE  /\ new[i] = <<frame_[i].label, next_ids[frame_[i].label] + Scene!Cardinality(before(i))>>
             /\ frame_[i].label \in Labels /\ Scene!Cardinality(before(i)) \in Nat \ {0}
  <2>1. before(i) \in SUBSET DOMAIN frame_ /\ i \in DOMAIN frame_
    OBVIOUS
  <2>2. i \in before(i)
    BY <1>4, <2>1
  <2>3. new[i] = <<frame_[i].label, next_ids[frame_[i].label] + Scene!Cardinality(before(i))>>
    OBVIOUS
  <2> HIDE DEF before, new, unmatched
  <2>4. frame_[i].label \in Labels
    BY <1>4, <2>1 DEF Scene!Detection
  <2>5. Scene!Cardinality(before(i)) \in Nat /\ Scene!Cardinality(before(i)) >= 1
    BY <2>1, <2>2, FramesAreFinite
  <2> QED
    BY <2>3, <2>4, <2>5
<1>7. begun \cap DOMAIN scene_tracks = {}
  <2> SUFFICES ASSUME NEW i \in unmatched, new[i] \in DOMAIN scene_tracks PROVE FALSE
    OBVIOUS
  <2> HIDE DEF new, before, unmatched
  <2>1. new[i][2] <= next_ids[new[i][1]] /\ next_ids[new[i][1]] \in Nat
    BY <1>6 DEF SceneInv
  <2> QED
    BY <1>6, <2>1
<1>8. ASSUME NEW t \in followed \cup begun PROVE at[t] \in Places
  <2>1. shows(t) # {} /\ \A d \in shows(t) : \E i \in DOMAIN frame_ : d = frame_[i]
    <3> HIDE DEF match
    <3>1. \A c \in match : c.detection \in DOMAIN frame_
      BY MatchIsOfBoth DEF match
    <3>2. shows(t) # {}
      OBVIOUS
    <3> QED
      BY <3>1, <3>2
  <2>2. at[t] = (CHOOSE d \in shows(t) : TRUE).place
    OBVIOUS
  <2> HIDE DEF shows, at
  <2>3. \E i \in DOMAIN frame_ : (CHOOSE d \in shows(t) : TRUE) = frame_[i]
    BY <2>1
  <2> QED
    BY <1>4, <2>2, <2>3 DEF Scene!Detection
<1>9. ASSUME NEW l \in Labels PROVE next_ids[l] + Scene!Cardinality(counted(l)) \in 0 .. MaxTracks
  <2>1. next_ids[l] \in 0 .. MaxTracks
    BY DEF Scene!TypeOK
  <2>2. CASE counted(l) = {}
    <3>1. Scene!Cardinality(counted(l)) = 0
      BY <2>2, SceneCardinality, FS_EmptySet
    <3> HIDE DEF counted
    <3> QED
      BY <2>1, <3>1
  <2>3. CASE counted(l) # {}
    <3>1. counted(l) \in SUBSET (1 .. n)
      BY <1>4
    <3>2. PICK i \in counted(l) : \A j \in counted(l) : j <= i
      <4> HIDE DEF counted
      <4> QED
        BY <1>4, <2>3, <3>1, OneIsLast
    <3>3. i \in unmatched /\ frame_[i].label = l /\ before(i) = counted(l)
      BY <3>2
    <3>4. new[i] \in begun
      BY <3>3
    <3> HIDE DEF counted, before, new, unmatched, begun
    <3>5. new[i] = <<l, next_ids[l] + Scene!Cardinality(counted(l))>>
      BY <1>6, <3>3
    <3>6. new[i] \in Labels \X (1 .. MaxTracks)
      BY <1>1, <3>4 DEF Scene!TrackIds
    <3>7. next_ids[l] + Scene!Cardinality(counted(l)) \in 1 .. MaxTracks
      BY <3>5, <3>6
    <3> QED
      BY <1>4, <3>7
  <2> QED
    BY <2>2, <2>3
<1> HIDE DEF match, unmatched, new, begun, followed, at, before, counted
<1>10. next_ids' \in [Labels -> 0 .. MaxTracks]
  BY <1>1, <1>9
<1>11. objects' \subseteq DOMAIN scene_tracks'
  BY <1>1, <1>5, <1>7
<1>12. ASSUME NEW t \in DOMAIN scene_tracks'
       PROVE  scene_tracks'[t] \in [place : Places, missing_frames : 0 .. max_missing_frames]
  <2>1. CASE t \in missed
    <3>1. /\ scene_tracks[t] \in [place : Places, missing_frames : 0 .. max_missing_frames]
          /\ ~(scene_tracks[t].missing_frames + 1 > max_missing_frames)
      BY <1>1, <2>1 DEF Scene!TypeOK
    <3>2. scene_tracks'[t] = [scene_tracks[t] EXCEPT !.missing_frames = @ + 1]
      BY <1>1, <2>1
    <3> QED
      BY <1>4, <3>1, <3>2
  <2>2. CASE t \notin missed
    <3>1. scene_tracks'[t] = [place |-> at[t], missing_frames |-> 0] /\ at[t] \in Places
      BY <1>1, <1>8, <2>2
    <3> QED
      BY <1>4, <3>1
  <2> QED
    BY <2>1, <2>2
<1> QED
  BY <1>2, <1>10, <1>11, <1>12
  DEF SceneInv, Scene!TypeOK, Scene!EventsTellTheScene, Scene!Region, Scene!Regions,
      Scene!TrackIds

\* The scene's tracks, and those its events told of, stay among the TrackIds.
LEMMA NextKeepsSceneTypes ==
    SceneInv /\ Scene!TypeOK /\ [Scene!Next]_(Scene!vars) => Scene!TypeOK'
<1> SUFFICES ASSUME SceneInv, Scene!TypeOK, [Scene!Next]_(Scene!vars) PROVE Scene!TypeOK'
  OBVIOUS
<1>1. CASE Scene!NonLive \/ UNCHANGED Scene!vars
  BY <1>1 DEF Scene!NonLive, Scene!vars, Scene!TypeOK, Scene!TrackIds, Scene!Regions
<1>2. CASE \E frame_ \in Scene!Frames : Scene!Update(frame_)
  BY <1>2, UpdateKeepsSceneTypes
<1> QED
  BY <1>1, <1>2 DEF Scene!Next

LEMMA InitSceneTypes == Scene!Init => Scene!TypeOK
  BY SensesAssumption DEF Scene!Init, Scene!TypeOK, Scene!SceneAssumption

\* A picture that was collected, or the service's place.
Collectable(candidate) ==
    \/ candidate \in {None, Answer!Unpolled}
    \/ candidate.form \in Answer!Forms /\ candidate.status \in Answer!Statuses

\* What the invariant does not say of an answer.
AnswerTyped ==
    /\ stage \in {"away", "collect", "judge", "show"}
    /\ clock \in Answer!Times /\ asked_at \in Answer!Times
    /\ \A i \in 1 .. Len(candidates) : Collectable(candidates[i])
    /\ shown \in Answer!Healths \cup {None}

\* A candidate is collected into its place.
LEMMA CollectKeepsAnswerTyped ==
    ASSUME AnswerInv, AnswerTyped, NEW candidate, Collectable(candidate),
           Answer!Collected(candidate)
    PROVE  AnswerTyped'
<1>1. /\ candidates' = Append(candidates, candidate) /\ stage' \in {"judge", "collect"}
      /\ UNCHANGED <<clock, asked_at, judged, given, shown>>
  BY DEF Answer!Collected
<1>2. candidates \in Seq(Answer!Candidate \cup {None} \cup {candidate})
  BY SeqMonotonic DEF AnswerInv
<1>3. /\ Len(candidates') = Len(candidates) + 1 /\ candidates'[Len(candidates) + 1] = candidate
      /\ \A i \in 1 .. Len(candidates) : candidates'[i] = candidates[i]
      /\ Len(candidates) \in Nat
  BY <1>1, <1>2, AppendProperties, LenProperties
<1>4. \A i \in 1 .. Len(candidates') : Collectable(candidates'[i])
  BY <1>3 DEF AnswerTyped
<1> QED
  BY <1>1, <1>4 DEF AnswerTyped, Collectable

LEMMA NextKeepsAnswerTyped ==
    AnswerInv /\ AnswerTyped /\ [Answer!Next]_(Answer!vars) => AnswerTyped'
<1> SUFFICES ASSUME AnswerInv, AnswerTyped, [Answer!Next]_(Answer!vars) PROVE AnswerTyped'
  OBVIOUS
<1>1. MaxClock \in Nat
  BY SensesAssumption DEF Answer!AnswerAssumption
<1>2. ASSUME NEW forms \in SUBSET Answer!Forms, NEW p \in Answer!Pictures(forms)
      PROVE  Collectable(p)
  BY DEF Answer!Pictures, Answer!Statuses, Collectable
<1>3. CASE Answer!CollectHook
  <2>1. {"realtime", "static"} \in SUBSET Answer!Forms
    BY DEF Answer!Forms
  <2> QED
    BY <1>2, <1>3, <2>1, CollectKeepsAnswerTyped DEF Answer!CollectHook
<1>4. CASE Answer!CollectSnapshot
  <2>1. {"vision_state", "replay"} \in SUBSET Answer!Forms
    BY DEF Answer!Forms
  <2>2. \A p \in Answer!Pictures({"vision_state", "replay"}) : Collectable(Answer!Promoted(p))
    BY <1>2, <2>1 DEF Answer!Promoted, Collectable
  <2> QED
    BY <1>4, <2>2, CollectKeepsAnswerTyped DEF Answer!CollectSnapshot
<1>5. CASE Answer!CollectNothing \/ Answer!CollectService
  BY <1>5, CollectKeepsAnswerTyped
  DEF Answer!CollectNothing, Answer!CollectService, Collectable
<1>6. CASE Answer!Polled
  <2>1. {"realtime"} \in SUBSET Answer!Forms
    BY DEF Answer!Forms
  <2>2. PICK p \in Answer!Pictures({"realtime"}) :
            candidates' = [candidates EXCEPT ![judged + 1] = p]
    BY <1>6 DEF Answer!Polled
  <2>3. Collectable(p)
    BY <1>2, <2>1
  <2>4. Len(candidates') = Len(candidates)
    BY <2>2, LenProperties DEF AnswerInv
  <2>5. \A i \in 1 .. Len(candidates') : Collectable(candidates'[i])
    BY <2>2, <2>3, <2>4, LenProperties DEF AnswerInv, AnswerTyped
  <2> QED
    BY <1>6, <2>5 DEF Answer!Polled, AnswerTyped, Collectable
<1>7. CASE Answer!Show
  BY <1>7
  DEF Answer!Show, Answer!HealthState, Answer!Healths, AnswerTyped, Collectable
<1>8. CASE Answer!Tick
  BY <1>1, <1>8 DEF Answer!Tick, Answer!Times, AnswerTyped, Collectable
<1>9. CASE \/ Answer!Ask \/ Answer!HookFails \/ Answer!Judge \/ UNCHANGED Answer!vars
  BY <1>9
  DEF Answer!Ask, Answer!HookFails, Answer!Judge, Answer!vars, Answer!Healths, AnswerTyped,
      Collectable
<1> QED
  BY <1>3, <1>4, <1>5, <1>6, <1>7, <1>8, <1>9 DEF Answer!Next

LEMMA AnswerTypes == AnswerInv /\ AnswerTyped => Answer!TypeOK
<1> SUFFICES ASSUME AnswerInv, AnswerTyped PROVE Answer!TypeOK
  OBVIOUS
<1>0. candidates \in Seq(Answer!Candidate \cup {None}) /\ Len(candidates) <= 3
  BY DEF AnswerInv
<1>1. DOMAIN candidates = 1 .. Len(candidates) /\ Len(candidates) \in 0 .. 3
  <2>1. Len(candidates) \in Nat /\ DOMAIN candidates = 1 .. Len(candidates)
    BY <1>0, LenProperties, Zenon
  <2> QED
    BY <1>0, <2>1
<1>2. DOMAIN Answer!Order = 1 .. 3
  BY DEF Answer!Order
<1>3. given \in 1 .. 3 \cup {None} /\ judged \in 0 .. 3 /\ had \subseteq 1 .. 3
  BY <1>1 DEF AnswerInv
<1>4. Len(candidates) <= Len(Answer!Order)
  BY <1>1, AnswerConstants
<1>5. judged \in 0 .. Len(Answer!Order)
  BY <1>3, AnswerConstants
<1> HIDE DEF Answer!Order
<1> QED
  BY <1>1, <1>2, <1>3, <1>4, <1>5 DEF AnswerTyped, Collectable, Answer!TypeOK

LEMMA InitAnswerTyped == Answer!Init => AnswerTyped
  BY SensesAssumption
  DEF Answer!Init, AnswerTyped, Answer!AnswerAssumption, Answer!Times, Collectable

\* Of the neck's target, which is made of the labels and the sizes of the people there.
LEMMA NextKeepsTargetTypes ==
    Target!TypeOK /\ [Target!Next]_(Target!vars) => Target!TypeOK'
<1> SUFFICES ASSUME Target!TypeOK, [Target!Next]_(Target!vars) PROVE Target!TypeOK'
  OBVIOUS
<1> USE DEF Target!TypeOK
<1>1. track_ids' \in BOOLEAN /\ throttled' \in BOOLEAN /\ repeated_last' \in BOOLEAN
  BY Zenon
  DEF Target!Next, Target!Frame, Target!ThrottledFrame, Target!FailedPoll, Target!Tick,
      Target!vars
<1>2. ASSUME NEW cut \in SUBSET Passers, NEW obs \in Target!MatchedFrom(cut)
      PROVE  obs \subseteq Target!Observations
  BY DEF Target!MatchedFrom, Target!Matches
<1>3. /\ acquainted' \subseteq Passers /\ crops' \subseteq Passers
      /\ detected' \in [Passers -> Target!DetectedLabels \cup {None}]
  BY DEF Target!Next, Target!Frame, Target!ThrottledFrame, Target!FailedPoll, Target!Tick,
         Target!vars
<1>4. observations' \subseteq Target!Observations
  BY <1>2, <1>3
  DEF Target!Next, Target!Frame, Target!ThrottledFrame, Target!FailedPoll, Target!Tick,
      Target!vars
<1>5. \/ target' = None
      \/ target' \in [place_of : Passers, size_of : Passers, known : BOOLEAN]
  <2>1. ASSUME NEW candidate \in Target!Candidates
        PROVE  candidate.who \in Passers /\ Target!CropOf(candidate.who) \subseteq Passers
    <3>1. candidate.who \in Passers
      BY DEF Target!Candidates, Target!Faces, Target!Present, Target!Observations
    <3> QED
      BY <3>1 DEF Target!CropOf
  <2>2. \A candidate : Target!HasKnownIdentity(candidate) \in BOOLEAN
    BY Zenon DEF Target!HasKnownIdentity
  <2>3. CASE Target!Tick
    BY <2>1, <2>2, <2>3 DEF Target!Tick
  <2>4. CASE target' \in {None, target}
    BY <2>4
  <2> QED
    BY <2>3, <2>4
    DEF Target!Next, Target!Frame, Target!ThrottledFrame, Target!FailedPoll, Target!vars
<1> QED
  BY <1>1, <1>3, <1>4, <1>5 DEF Target!Observations, Target!DetectedLabels

LEMMA InitTargetTypes == Target!Init => Target!TypeOK
<1> SUFFICES ASSUME Target!Init PROVE Target!TypeOK
  OBVIOUS
<1>1. track_ids \in BOOLEAN /\ throttled \in BOOLEAN /\ repeated_last \in BOOLEAN
  BY Zenon DEF Target!Init
<1> QED
  BY <1>1 DEF Target!Init, Target!TypeOK

\* What the yaw controller's invariant does not say.
YawTyped ==
    /\ desired_angle \in Yaw!Angles /\ last_target_x \in Yaw!Errors \cup {None}
    /\ since \in 0 .. min_command_interval_s \cup {None}
    /\ reason \in {"none", "", "intent_expired", "low_confidence", "deadband", "same_angle",
                   "min_interval"}
    /\ servo \in Yaw!Angles \cup {None}

LEMMA SettleKeepsYawTyped ==
    ASSUME YawTyped, NEW angle \in Yaw!Angles, NEW error \in Yaw!Errors \cup {None},
           Yaw!Settle(angle, error)
    PROVE  YawTyped'
<1>1. Yaw!ClipAngle(angle) \in Yaw!Angles
  BY ClippedIsWithin, YawConstants
<1>2. min_command_interval_s \in Nat
  BY SensesAssumption DEF Yaw!YawAssumption
<1>3. CASE Yaw!Suppress("same_angle", angle, error) \/ Yaw!Suppress("min_interval", angle, error)
  BY <1>1, <1>3 DEF Yaw!Suppress, YawTyped
<1>4. CASE Yaw!Command(angle, error)
  <2>1. since' \in 0 .. min_command_interval_s \cup {None}
    <3>1. since' = 0
      BY <1>4 DEF Yaw!Command
    <3>2. 0 \in 0 .. min_command_interval_s
      BY <1>2
    <3> QED
      BY <3>1, <3>2
  <2> QED
    BY <1>4, <2>1 DEF Yaw!Command, YawTyped
<1> QED
  BY <1>3, <1>4 DEF Yaw!Settle

LEMMA NextKeepsYawTyped == YawInv /\ YawTyped /\ [Yaw!Next]_(Yaw!vars) => YawTyped'
<1> SUFFICES ASSUME YawInv, YawTyped, [Yaw!Next]_(Yaw!vars) PROVE YawTyped'
  OBVIOUS
<1>1. Yaw!ClipAngle(last_angle) \in Yaw!Angles
  BY ClippedIsWithin, YawConstants DEF YawInv
<1>2. CASE Yaw!DecideUnfit
  BY <1>1, <1>2 DEF Yaw!DecideUnfit, Yaw!Suppress, YawTyped
<1>3. CASE Yaw!DecideTarget
  <2>1. PICK error \in Yaw!Errors :
           IF Yaw!Magnitude(error) <= yaw_deadband
           THEN Yaw!Suppress("deadband", last_angle, error)
           ELSE Yaw!Settle(Yaw!Smoothed(error), error)
    BY <1>3 DEF Yaw!DecideTarget
  <2>2. CASE Yaw!Suppress("deadband", last_angle, error)
    BY <1>1, <2>2 DEF Yaw!Suppress, YawTyped
  <2>3. CASE Yaw!Settle(Yaw!Smoothed(error), error)
    BY <2>3, SmoothedIsWithin, SettleKeepsYawTyped
  <2> QED
    BY <2>1, <2>2, <2>3
<1>4. CASE Yaw!DecideAngle
  <2>1. PICK angle \in Targets \cup {home_angle} : Yaw!Settle(Yaw!ClipAngle(angle), None)
    BY <1>4 DEF Yaw!DecideAngle
  <2>2. Yaw!ClipAngle(angle) \in Yaw!Angles
    BY ClippedIsWithin, YawConstants
  <2> QED
    BY <2>1, <2>2, SettleKeepsYawTyped
<1>5. CASE Yaw!Apply
  BY <1>5 DEF Yaw!Apply, Yaw!controller, YawTyped, YawInv
<1>6. CASE Yaw!Tick
  <2>1. min_command_interval_s \in Nat /\ None \notin Int
    BY SensesAssumption DEF Yaw!YawAssumption
  <2>2. since \in Nat /\ since < min_command_interval_s /\ since' = since + 1
    <3>1. since # None /\ since < min_command_interval_s /\ since' = since + 1
      BY <1>6 DEF Yaw!Tick
    <3>2. since \in 0 .. min_command_interval_s
      BY <3>1 DEF YawTyped
    <3> QED
      BY <2>1, <3>1, <3>2
  <2>3. since' \in 0 .. min_command_interval_s
    BY <2>1, <2>2
  <2>4. UNCHANGED <<desired_angle, last_target_x, reason, servo>>
    BY <1>6 DEF Yaw!Tick
  <2> QED
    BY <2>3, <2>4 DEF YawTyped
<1>7. CASE UNCHANGED Yaw!vars
  BY <1>7 DEF Yaw!vars, Yaw!controller, YawTyped
<1> QED
  BY <1>2, <1>3, <1>4, <1>5, <1>6, <1>7 DEF Yaw!Next

LEMMA YawTypes == YawInv /\ YawTyped => Yaw!TypeOK
  BY DEF YawInv, YawTyped, Yaw!TypeOK

LEMMA InitYawTyped == Yaw!Init => YawTyped
  BY SensesAssumption DEF Yaw!Init, YawTyped, Yaw!YawAssumption, Yaw!Angles

\* What the follower's does not.
FollowTyped ==
    /\ last_commanded_pan \in Follow!Pans \cup {None} /\ follow_head \in Follow!Pans
    /\ bias_direction \in {-1, 0, 1} /\ (bias_count = 0 <=> bias_direction = 0)
    /\ since_action \in 0 .. min_action_interval_s \cup {None}
    /\ mode \in {"none", "hold", "track", "decay"}
    /\ recent \in Seq(Follow!Errors)

LEMMA FollowKeepsFollowTyped ==
    ASSUME FollowInv, FollowTyped, Follow!Follow
    PROVE  FollowTyped'
<1>1. PICK seen \in Follow!Errors :
        \E error \in Follow!Min({seen, smoothed_error}) .. Follow!Max({seen, smoothed_error}) :
            /\ smoothed_error' = error /\ recent' = Follow!Noted(error)
            /\ IF Follow!Magnitude(error) < deadband
               THEN bias_direction' = 0 /\ bias_count' = 0 /\ Follow!Hold
               ELSE /\ bias_direction' = Follow!Direction(error)
                    /\ bias_count' = Follow!Counted(error)
                    /\ \/ Follow!Hold
                       \/ Follow!Turn(Follow!NextPan(error), "track") /\ since_action' = 0
  BY DEF Follow!Follow
<1>2. PICK error \in Follow!Min({seen, smoothed_error}) .. Follow!Max({seen, smoothed_error}) :
            /\ smoothed_error' = error /\ recent' = Follow!Noted(error)
            /\ IF Follow!Magnitude(error) < deadband
               THEN bias_direction' = 0 /\ bias_count' = 0 /\ Follow!Hold
               ELSE /\ bias_direction' = Follow!Direction(error)
                    /\ bias_count' = Follow!Counted(error)
                    /\ \/ Follow!Hold
                       \/ Follow!Turn(Follow!NextPan(error), "track") /\ since_action' = 0
  BY <1>1
<1>3. Bias' /\ WayHome'
  BY FollowKeepsBias, FollowKeepsWayHome DEF FollowInv
<1>4. error \in Follow!Errors
  BY <1>2, <1>3 DEF Bias
<1>5. recent' \in Seq(Follow!Errors)
  <2>1. recent \in Seq(Follow!Errors)
    BY DEF FollowTyped
  <2>2. Append(recent, error) \in Seq(Follow!Errors) /\ Append(recent, error) # <<>>
    BY <1>4, <2>1, AppendProperties
  <2>3. Tail(Append(recent, error)) \in Seq(Follow!Errors)
    BY <2>2
  <2> QED
    BY <1>2, <2>2, <2>3 DEF Follow!Noted
<1>6. bias_direction' \in {-1, 0, 1} /\ (bias_count' = 0 <=> bias_direction' = 0)
  <2>1. bias_count \in Nat /\ Follow!Needed \in Nat \ {0}
    BY FollowConstants DEF FollowInv, Bias
  <2>2. Follow!Counted(error) \in Nat \ {0}
    <3>1. Follow!Min({bias_count + 1, Follow!Needed}) =
              IF bias_count + 1 <= Follow!Needed THEN bias_count + 1 ELSE Follow!Needed
      BY <2>1, FollowMin
    <3> QED
      BY <2>1, <3>1 DEF Follow!Counted
  <2>3. Follow!Direction(error) \in {-1, 1}
    BY DEF Follow!Direction
  <2> QED
    BY <1>2, <2>2, <2>3
<1>7. CASE Follow!Hold
  BY <1>5, <1>6, <1>7 DEF Follow!Hold, FollowTyped
<1>8. CASE Follow!Turn(Follow!NextPan(error), "track") /\ since_action' = 0
  <2>1. current_pan' \in Follow!Pans
    BY <1>3 DEF WayHome, Follow!Pans
  <2> QED
    BY <1>5, <1>6, <1>8, <2>1, FollowConstants DEF Follow!Turn, FollowTyped, Follow!Pans
<1> QED
  BY <1>2, <1>7, <1>8

LEMMA NextKeepsFollowTyped ==
    FollowInv /\ FollowTyped /\ [Follow!Next]_(Follow!vars) => FollowTyped'
<1> SUFFICES ASSUME FollowInv, FollowTyped, [Follow!Next]_(Follow!vars) PROVE FollowTyped'
  OBVIOUS
<1>1. CASE Follow!Follow
  BY <1>1, FollowKeepsFollowTyped
<1>2. CASE Follow!Lose
  <2>1. home_pan \in Follow!Pans /\ Follow!Decayed \in Follow!Pans
    BY FollowConstants, DecayedIsNearer DEF FollowInv, WayHome
  <2>2. recent' \in Seq(Follow!Errors)
    BY <1>2 DEF Follow!Lose
  <2>3. bias_direction' = 0 /\ bias_count' = 0 /\ UNCHANGED since_action
    BY <1>2 DEF Follow!Lose
  <2>4. /\ last_commanded_pan' \in Follow!Pans \cup {None} /\ follow_head' \in Follow!Pans
        /\ mode' \in {"hold", "decay"}
    BY <1>2, <2>1 DEF Follow!Lose, Follow!Hold, Follow!Turn, FollowTyped
  <2> QED
    BY <2>2, <2>3, <2>4 DEF FollowTyped, Follow!Pans, Follow!Errors
<1>3. CASE Follow!Tick
  BY <1>3, FollowConstants
  DEF Follow!Tick, Follow!followed, FollowTyped, Follow!Pans, Follow!Errors
<1>4. CASE UNCHANGED Follow!vars
  BY <1>4 DEF Follow!vars, Follow!followed, FollowTyped, Follow!Pans, Follow!Errors
<1> QED
  BY <1>1, <1>2, <1>3, <1>4 DEF Follow!Next

LEMMA FollowTypes == FollowInv /\ FollowTyped => Follow!TypeOK
<1> SUFFICES ASSUME FollowInv, FollowTyped PROVE Follow!TypeOK
  OBVIOUS
<1>1. /\ recent \in Seq(Follow!Errors) /\ Len(recent) \in 0 .. Follow!Needed
      /\ bias_count \in 0 .. Follow!Needed
  <2>1. recent \in Seq(Follow!Errors) /\ Len(recent) \in Nat
    BY LenProperties DEF FollowTyped
  <2>2. Len(recent) <= Follow!Needed /\ bias_count \in Nat /\ bias_count <= Len(recent)
    BY DEF FollowInv, Bias, Earned
  <2> QED
    BY <2>1, <2>2, FollowConstants
<1>2. recent \in [1 .. Len(recent) -> Follow!Errors]
  BY <1>1, LenProperties
<1>3. recent \in UNION {[1 .. n -> Follow!Errors] : n \in 0 .. Follow!Needed}
  BY <1>1, <1>2, Zenon
<1> QED
  BY <1>1, <1>3 DEF FollowInv, WayHome, Bias, FollowTyped, Follow!TypeOK

LEMMA InitFollowTyped == Follow!Init => FollowTyped
  BY FollowConstants DEF Follow!Init, FollowTyped

\* Of the identities: what the vision process has read, and the histories.
LEMMA NextKeepsIdentityTypes ==
    RegistryInv /\ MemoryInv /\ Identity!TypeOK /\ [Identity!Next]_(Identity!vars)
        => Identity!TypeOK'
<1> SUFFICES ASSUME RegistryInv, MemoryInv, Identity!TypeOK, [Identity!Next]_(Identity!vars)
             PROVE  Identity!TypeOK'
  OBVIOUS
<1>1. RegistryInv' /\ MemoryInv'
  BY NextKeepsIdentities
<1>2. registry_meddled' \in BOOLEAN /\ crashed' \in BOOLEAN /\ repeated' \in BOOLEAN
  BY Zenon
  DEF Identity!TypeOK, Identity!Next, Identity!vars, Identity!registries, Identity!memory,
      Identity!Open, Identity!Enroll, Identity!Save, Identity!EndEnroller, Identity!Start,
      Identity!End, Identity!See, Identity!Post, Identity!Tell, Identity!Answered,
      Identity!AnswerLost, Identity!Refused, Identity!Tick
<1>3. identity_file # Torn => Identity!Loaded \in Identity!Registry
  BY IdentityConstants
  DEF RegistryInv, Identity!Loaded, Identity!Empty, Identity!Registry
<1>4. known' \in Identity!Registry \cup {None} /\ (sighting' # None => known' # None)
  BY <1>3, IdentityConstants
  DEF Identity!TypeOK, Identity!Next, Identity!vars, Identity!registries, Identity!memory,
      Identity!Open, Identity!Enroll, Identity!Save, Identity!EndEnroller, Identity!Start,
      Identity!End, Identity!See, Identity!Post, Identity!Tick
<1>5. returned' \in Identity!Registry
  <2>1. ASSUME NEW e \in Enrollers, Identity!Save(e) PROVE returned' \in Identity!Registry
    <3>1. registry[e] \in Identity!Registry /\ returned \in Identity!Registry
      BY <2>1 DEF Identity!Save, RegistryInv, Identity!TypeOK
    <3>2. returned' = [p \in People |-> Identity!Max({returned[p], registry[e][p]})]
      BY <2>1 DEF Identity!Save
    <3>3. ASSUME NEW p \in People
          PROVE  Identity!Max({returned[p], registry[e][p]}) \in 0 .. MaxEmbeddings
      <4>1. returned[p] \in 0 .. MaxEmbeddings /\ registry[e][p] \in 0 .. MaxEmbeddings
        BY <3>1 DEF Identity!Registry
      <4>2. returned[p] \in Int /\ registry[e][p] \in Int
        BY <4>1
      <4> QED
        BY <4>1, <4>2, IdentityMax
    <3> QED
      BY <3>2, <3>3 DEF Identity!Registry
  <2>2. CASE UNCHANGED returned
    BY <2>2 DEF Identity!TypeOK, Identity!Registry
  <2> QED
    BY <2>1, <2>2
    DEF Identity!Next, Identity!vars, Identity!registries, Identity!memory,
        Identity!Open, Identity!Enroll, Identity!EndEnroller, Identity!Start,
        Identity!End, Identity!See, Identity!Post, Identity!Tick
<1> QED
  BY <1>1, <1>2, <1>4, <1>5 DEF RegistryInv, MemoryInv, Identity!TypeOK, Identity!Registry

LEMMA InitIdentityTypes == Identity!Init => Identity!TypeOK
<1> SUFFICES ASSUME Identity!Init PROVE Identity!TypeOK
  OBVIOUS
<1>1. registry_meddled \in BOOLEAN /\ crashed \in BOOLEAN /\ repeated \in BOOLEAN
  BY Zenon DEF Identity!Init
<1> QED
  BY <1>1, IdentityConstants
  DEF Identity!Init, Identity!TypeOK, Identity!Registry, Identity!Empty

\* A reading, if there is one, is two whole numbers.
Legible(r) == r = None \/ {r.centre, r.width} \subseteq Int

LEMMA ReadingIsLegible ==
    ASSUME NEW a \in Int, NEW b \in Int
    PROVE  Legible(Boxes!Reading(a, b))
  BY DEF Legible, Boxes!Reading

LEMMA PixelsAreWhole ==
    \A a \in Int : {Boxes!OnFrame(a), Boxes!TargetX(a), Boxes!Magnitude(a)} \subseteq Int
<1>1. Unit \in Int /\ frame_width \in Int
  BY BoxesConstants
<1>2. \A a \in Int : Boxes!OnFrame(a) \in Int /\ Boxes!Magnitude(a) \in Int
  BY <1>1 DEF Boxes!OnFrame, Boxes!Magnitude
<1>3. ASSUME NEW a \in Int PROVE Boxes!TargetX(a) \in Int
  <2>1. a * frame_width \in Int /\ 2 * Unit * frame_width \in Int
    BY <1>1
  <2>2. (IF a > 2 * Unit THEN a ELSE a * frame_width) \in Int
    BY <2>1
  <2> QED
    BY <2>1, <2>2 DEF Boxes!TargetX, Boxes!Clipped
<1> QED
  BY <1>2, <1>3

\* The numbers of a detection, and the corners made of them.
LEMMA CornersAreWhole ==
    ASSUME BoxesInv, box # None
    PROVE  LET d == Boxes!Detection
               c == Boxes!CoercedBox(d)
           IN  /\ {d.x, d.y, d.third, d.fourth} \subseteq Int
               /\ {c.x1, c.y1, c.x2, c.y2} \subseteq Int
               /\ c = Boxes!Corners(c.x1, c.y1, c.x2, c.y2)
<1> DEFINE d == Boxes!Detection
<1>1. {d.x, d.y, d.third, d.fourth} \subseteq Int
  <2>1. {box.l, box.t, box.r, box.b} \subseteq Int
    BY BoxIsInTheFrame
  <2> QED
    BY <2>1, DetectionIsKnown
<1> HIDE DEF d
<1>2. ASSUME NEW c \in {Boxes!AsCorners(d), Boxes!AsSize(d)}
      PROVE  /\ {c.x1, c.y1, c.x2, c.y2} \subseteq Int
             /\ c = Boxes!Corners(c.x1, c.y1, c.x2, c.y2)
  BY <1>1 DEF Boxes!AsCorners, Boxes!AsSize, Boxes!Corners
<1>3. Boxes!SequenceBox(d) \in {Boxes!AsCorners(d), Boxes!AsSize(d)}
  BY DEF Boxes!SequenceBox
<1>4. Boxes!CoercedBox(d) \in {Boxes!AsCorners(d), Boxes!AsSize(d)}
  BY <1>3 DEF Boxes!CoercedBox
<1> QED
  BY <1>1, <1>2, <1>4 DEF d

\* Whatever it takes a box for, a reader reads whole numbers.
LEMMA ReaderIsLegible ==
    ASSUME BoxesInv, box # None, NEW r_ \in Boxes!Readers
    PROVE  Legible(Boxes!ReadBy(r_))
<1> DEFINE d == Boxes!Detection
           c == Boxes!CoercedBox(d)
<1>1. /\ d.x \in Int /\ d.y \in Int /\ d.third \in Int /\ d.fourth \in Int
      /\ c.x1 \in Int /\ c.y1 \in Int /\ c.x2 \in Int /\ c.y2 \in Int
      /\ c = Boxes!Corners(c.x1, c.y1, c.x2, c.y2)
      /\ Unit \in Int /\ frame_width \in Int
  BY CornersAreWhole, BoxesConstants
<1>2. Legible(None)
  BY DEF Legible
<1>3. Legible(Boxes!AppReads(d))
  <2> HIDE DEF d
  <2>1. /\ d.x + d.third \in Int /\ 2 * d.x + d.third \in Int /\ d.third - d.x \in Int
        /\ 2 * d.x + (d.third - d.x) \in Int
    BY <1>1
  <2>2. Legible(Boxes!Reading(Boxes!TargetX(d.x + d.third),
                              Boxes!OnFrame(Boxes!Magnitude(d.third - d.x))))
    BY <2>1, PixelsAreWhole, ReadingIsLegible
  <2>3. Legible(Boxes!Reading(Boxes!TargetX(2 * d.x + d.third), Boxes!OnFrame(d.third)))
    BY <1>1, <2>1, PixelsAreWhole, ReadingIsLegible
  <2>4. \A width \in {d.third - d.x, d.third} :
            Legible(Boxes!Reading(Boxes!TargetX(2 * d.x + width), width))
    BY <1>1, <2>1, PixelsAreWhole, ReadingIsLegible
  <2>5. CASE d.form \in {"x_min", "list_xyxy"}
    BY <2>2, <2>5 DEF Boxes!AppReads
  <2>6. CASE d.form \in {"x_w", "x1"}
    BY <1>2, <2>3, <2>6 DEF Boxes!AppReads
  <2>7. CASE d.form \notin {"x_min", "list_xyxy", "x_w", "x1"}
    BY <2>3, <2>4, <2>7 DEF Boxes!AppReads
  <2> QED
    BY <2>5, <2>6, <2>7
<1>4. Legible(Boxes!TrackerReads(d))
  <2> DEFINE s == Boxes!ScaleNormalizedBbox(c)
  <2>1. \E k \in {frame_width, 1} : s = [c EXCEPT !.x1 = c.x1 * k, !.x2 = c.x2 * k]
    BY DEF Boxes!ScaleNormalizedBbox
  <2>2. s.x1 \in Int /\ s.x2 \in Int
    <3> HIDE DEF c, s
    <3> QED
      BY <1>1, <2>1 DEF Boxes!Corners
  <2>3. Legible(Boxes!Reading(s.x1 + s.x2, s.x2 - s.x1))
    <3> HIDE DEF s
    <3> QED
      BY <2>2, ReadingIsLegible
  <2> QED
    BY <1>2, <2>3 DEF Boxes!TrackerReads
<1>5. Legible(Boxes!SceneReads(d))
  <2> DEFINE x1 == Boxes!Clipped(c.x1, 0, Unit)
             x2 == IF d.form = "x_w" THEN Boxes!Clipped(x1 + d.third, 0, Unit)
                   ELSE Boxes!Clipped(c.x2, 0, Unit)
  <2>1. x1 \in Int
    <3> HIDE DEF c
    <3> QED
      BY <1>1 DEF Boxes!Clipped
  <2>2. x2 \in Int
    <3> HIDE DEF c, d, x1
    <3>1. x1 + d.third \in Int
      BY <1>1, <2>1
    <3> QED
      BY <1>1, <3>1 DEF Boxes!Clipped
  <2>3. Legible(Boxes!Reading((x1 + x2) * frame_width, Boxes!Magnitude(x2 - x1) * frame_width))
    <3> HIDE DEF x1, x2
    <3>1. x1 + x2 \in Int /\ x2 - x1 \in Int
      BY <2>1, <2>2
    <3>2. Boxes!Magnitude(x2 - x1) \in Int
      BY <3>1, PixelsAreWhole
    <3>3. (x1 + x2) * frame_width \in Int /\ Boxes!Magnitude(x2 - x1) * frame_width \in Int
      BY <1>1, <3>1, <3>2
    <3> QED
      BY <3>3, ReadingIsLegible
  <2> QED
    BY <2>3 DEF Boxes!SceneReads
<1>6. Legible(Boxes!OverlayReads(d))
  <2>1. Boxes!OnFrame(c.x1) \in Int /\ Boxes!OnFrame(c.x2) \in Int
    BY <1>1, PixelsAreWhole
  <2>2. /\ Boxes!OnFrame(c.x1) + Boxes!OnFrame(c.x2) \in Int
        /\ Boxes!OnFrame(c.x2) - Boxes!OnFrame(c.x1) \in Int
    BY <2>1
  <2> QED
    BY <2>2, ReadingIsLegible DEF Boxes!OverlayReads
<1>7. Legible(Boxes!CropReads(d))
  <2> DEFINE right == frame_width * Unit
             x1 == Boxes!Clipped(Boxes!OnFrame(d.x), 0, right - Unit)
             far_ == Boxes!Clipped(Boxes!OnFrame(d.third), 0, right)
             x2 == Boxes!Max({x1 + Unit, far_})
  <2>1. right \in Int /\ right - Unit \in Int
    BY <1>1
  <2>2. x1 \in Int /\ far_ \in Int
    <3> HIDE DEF d, right
    <3>1. Boxes!OnFrame(d.x) \in Int /\ Boxes!OnFrame(d.third) \in Int
      BY <1>1, PixelsAreWhole
    <3> QED
      BY <2>1, <3>1 DEF Boxes!Clipped
  <2>3. x2 \in Int
    <3> HIDE DEF x1, far_
    <3>1. x1 + Unit \in Int /\ far_ \in Int
      BY <1>1, <2>2
    <3> QED
      BY <3>1, Greater DEF Boxes!Max
  <2>4. Legible(Boxes!Reading(x1 + x2, x2 - x1))
    <3> HIDE DEF x1, x2
    <3> QED
      BY <2>2, <2>3, ReadingIsLegible
  <2> QED
    BY <1>2, <2>4 DEF Boxes!CropReads
<1> QED
  BY <1>3, <1>4, <1>5, <1>6, <1>7 DEF Boxes!ReadBy, Boxes!Readers

LEMMA NextKeepsBoxTypes == BoxesInv /\ Boxes!TypeOK /\ [Boxes!Next]_(Boxes!vars) => Boxes!TypeOK'
<1> SUFFICES ASSUME BoxesInv, Boxes!TypeOK, [Boxes!Next]_(Boxes!vars) PROVE Boxes!TypeOK'
  OBVIOUS
<1>1. BoxesInv'
  BY NextKeepsBoxesInv
<1>2. normalized' \in BOOLEAN /\ piped' \in BOOLEAN /\ form' \in Boxes!Forms
  BY <1>1 DEF BoxesInv
<1>3. (box \in Boxes!Boxes(normalized) \cup {None})'
  BY <1>1 DEF BoxesInv
<1>4. reader' \in Boxes!Readers \cup {None}
  BY DEF Boxes!Next, Boxes!Detect, Boxes!Read, Boxes!vars, Boxes!TypeOK
<1>5. Legible(reading')
  <2>1. CASE UNCHANGED reading
    BY <2>1 DEF Boxes!TypeOK, Legible
  <2>2. ASSUME NEW r_ \in Boxes!Readers, Boxes!Read(r_) PROVE Legible(reading')
    BY <2>2, ReaderIsLegible DEF Boxes!Read
  <2> QED
    BY <2>1, <2>2 DEF Boxes!Next, Boxes!Detect, Boxes!vars
<1> QED
  BY <1>2, <1>3, <1>4, <1>5 DEF Boxes!TypeOK, Legible

LEMMA InitBoxTypes == Boxes!Init => Boxes!TypeOK
  BY DEF Boxes!Init, Boxes!TypeOK, Boxes!Forms

\* What a thread holds is what its next step needs.
Fits(s, r, o) ==
    /\ s \in {"handle", "dispatch", "commit"} => r \in Actions!Requests
    /\ s = "dispatch" => r.kind \in {"move_head", "speak", "stop_speech", "capture_frame"}
    /\ s \in {"commit", "stamp", "append"} => o \in Actions!Outcomes

Steps == {"idle", "handle", "dispatch", "commit", "stamp", "append"}

HandlersTyped ==
    /\ step \in [Callers -> Steps]
    /\ request \in [Callers -> Actions!Requests \cup {None}]
    /\ outcome \in [Callers -> Actions!Outcomes \cup {None}]
    /\ journalled \in [Callers -> BOOLEAN]
    /\ \A c \in Callers : Fits(step[c], request[c], outcome[c])

\* What neither that nor the invariants of the moves and of the journal say.
ActionsTyped ==
    /\ body \subseteq Actions!Abilities /\ voice \in {None, "native", "openclaw"}
    /\ HandlersTyped
    /\ head \in TargetAngles \cup {None}
    /\ Len(records) <= max_items
    /\ head_now \in 0 .. MaxEvents /\ stamp \in [Callers -> Nat]
    /\ {raised, overlapped, far, crowded} \subseteq BOOLEAN

LEMMA StepKeepsHandlersTyped ==
    ASSUME HandlersTyped, NEW c \in Callers,
           NEW s \in Steps, NEW r \in Actions!Requests \cup {None},
           NEW o \in Actions!Outcomes \cup {None}, NEW j \in BOOLEAN, Fits(s, r, o),
           step' = [step EXCEPT ![c] = s], request' = [request EXCEPT ![c] = r],
           outcome' = [outcome EXCEPT ![c] = o], journalled' = [journalled EXCEPT ![c] = j]
    PROVE  HandlersTyped'
<1>1. /\ step' \in [Callers -> Steps]
      /\ request' \in [Callers -> Actions!Requests \cup {None}]
      /\ outcome' \in [Callers -> Actions!Outcomes \cup {None}]
      /\ journalled' \in [Callers -> BOOLEAN]
  BY Zenon DEF HandlersTyped
<1>2. step'[c] = s /\ request'[c] = r /\ outcome'[c] = o
  BY DEF HandlersTyped
<1>3. \A d \in Callers \ {c} :
          step'[d] = step[d] /\ request'[d] = request[d] /\ outcome'[d] = outcome[d]
  BY DEF HandlersTyped
<1>4. ASSUME NEW d \in Callers PROVE Fits(step'[d], request'[d], outcome'[d])
  <2>1. CASE d = c
    BY <1>2, <2>1
  <2>2. CASE d # c
    BY <1>3, <2>2 DEF HandlersTyped
  <2> QED
    BY <2>1, <2>2
<1> QED
  BY <1>1, <1>4 DEF HandlersTyped

\* What a thread holds and keeps is as well what it is given.
LEMMA HeldIsTyped ==
    ASSUME HandlersTyped, NEW c \in Callers
    PROVE  /\ step[c] \in Steps /\ request[c] \in Actions!Requests \cup {None}
           /\ outcome[c] \in Actions!Outcomes \cup {None} /\ journalled[c] \in BOOLEAN
           /\ step = [step EXCEPT ![c] = step[c]]
           /\ request = [request EXCEPT ![c] = request[c]]
           /\ outcome = [outcome EXCEPT ![c] = outcome[c]]
           /\ journalled = [journalled EXCEPT ![c] = journalled[c]]
           /\ Fits(step[c], request[c], outcome[c])
<1>1. /\ step \in [Callers -> Steps]
      /\ request \in [Callers -> Actions!Requests \cup {None}]
      /\ outcome \in [Callers -> Actions!Outcomes \cup {None}]
      /\ journalled \in [Callers -> BOOLEAN]
  BY DEF HandlersTyped
<1>2. /\ step[c] \in Steps /\ request[c] \in Actions!Requests \cup {None}
      /\ outcome[c] \in Actions!Outcomes \cup {None}
  BY <1>1
<1>3. journalled[c] \in BOOLEAN
  BY <1>1, Zenon
<1>4. /\ step = [step EXCEPT ![c] = step[c]]
      /\ request = [request EXCEPT ![c] = request[c]]
      /\ outcome = [outcome EXCEPT ![c] = outcome[c]]
  BY <1>1
<1>5. journalled = [journalled EXCEPT ![c] = journalled[c]]
  BY <1>1
<1> QED
  BY <1>2, <1>3, <1>4, <1>5 DEF HandlersTyped

LEMMA EndsKeepsHandlersTyped ==
    ASSUME HandlersTyped, NEW c \in Callers, NEW result_ \in Actions!Outcomes,
           Actions!Ends(c, result_)
    PROVE  HandlersTyped' /\ UNCHANGED stamp
<1>1. /\ outcome' = [outcome EXCEPT ![c] = IF journalled[c] THEN result_ ELSE None]
      /\ step' = [step EXCEPT ![c] = IF journalled[c] THEN "stamp" ELSE "idle"]
      /\ request' = [request EXCEPT ![c] = None]
      /\ UNCHANGED <<journalled, stamp>>
  BY DEF Actions!Ends, Actions!Goto
<1>2. journalled' = [journalled EXCEPT ![c] = journalled[c]] /\ journalled[c] \in BOOLEAN
  BY <1>1, HeldIsTyped
<1>3. CASE journalled[c]
  <2>1. Fits("stamp", None, result_) /\ "stamp" \in Steps
    BY DEF Fits, Steps
  <2>2. outcome' = [outcome EXCEPT ![c] = result_] /\ step' = [step EXCEPT ![c] = "stamp"]
    BY <1>1, <1>3
  <2> QED
    BY <1>1, <1>2, <2>1, <2>2, StepKeepsHandlersTyped
<1>4. CASE ~journalled[c]
  <2>1. Fits("idle", None, None) /\ "idle" \in Steps
    BY DEF Fits, Steps
  <2>2. outcome' = [outcome EXCEPT ![c] = None] /\ step' = [step EXCEPT ![c] = "idle"]
    BY <1>1, <1>4
  <2> QED
    BY <1>1, <1>2, <2>1, <2>2, StepKeepsHandlersTyped
<1> QED
  BY <1>3, <1>4

\* Every result is an outcome.
LEMMA ResultsAreOutcomes ==
    /\ \A s \in Actions!Statuses, b \in BOOLEAN : Actions!Result(s, b) \in Actions!Outcomes
    /\ \A kind \in Actions!Events \cup {"speak_nothing", "unsupported_action"} :
           Actions!Refused(kind) \in Actions!Outcomes
    /\ \A kind \in {"move_head", "speak", "stop_speech"} :
           voice \in {None, "native", "openclaw"} =>
               Actions!VoiceAnswers(kind) \subseteq Actions!Outcomes
<1>1. \A s \in Actions!Statuses, b \in BOOLEAN : Actions!Result(s, b) \in Actions!Outcomes
  BY DEF Actions!Result, Actions!Outcomes
<1>2. /\ Actions!Statuses = {"not_processed", "recorded", "accepted", "skipped", "unsupported",
                             "not_wired", "not_supported", "stopped", "error"}
      /\ TRUE \in BOOLEAN /\ FALSE \in BOOLEAN
  BY DEF Actions!Statuses
<1>3. /\ Actions!Result("not_processed", FALSE) \in Actions!Outcomes
      /\ Actions!Result("recorded", TRUE) \in Actions!Outcomes
      /\ Actions!Result("skipped", FALSE) \in Actions!Outcomes
      /\ Actions!Result("unsupported", FALSE) \in Actions!Outcomes
      /\ Actions!Result("not_wired", FALSE) \in Actions!Outcomes
      /\ Actions!Result("not_supported", FALSE) \in Actions!Outcomes
      /\ Actions!Result("accepted", TRUE) \in Actions!Outcomes
      /\ Actions!Result("error", FALSE) \in Actions!Outcomes
      /\ Actions!Result("stopped", TRUE) \in Actions!Outcomes
  BY <1>1, <1>2
<1>4. \A kind \in Actions!Events \cup {"speak_nothing", "unsupported_action"} :
          Actions!Refused(kind) \in Actions!Outcomes
  BY <1>3 DEF Actions!Refused, Actions!Events
<1>5. ASSUME NEW kind \in {"move_head", "speak", "stop_speech"},
             voice \in {None, "native", "openclaw"}
      PROVE  Actions!VoiceAnswers(kind) \subseteq Actions!Outcomes
  BY <1>3, <1>5 DEF Actions!VoiceAnswers
<1> QED
  BY <1>1, <1>4, <1>5

\* A step of a thread ends its request with an outcome, or takes it further.
LEMMA NextKeepsHandlersTyped ==
    ASSUME ActionsTyped, NEW c \in Callers,
           \/ Actions!Receive(c) \/ Actions!Refuse(c) \/ Actions!Suppress(c)
           \/ Actions!Begin(c) \/ Actions!Dispatch(c) \/ Actions!Commit(c)
           \/ Actions!UseVoice(c) \/ Actions!CaptureFrame(c) \/ Actions!Raises(c)
           \/ Actions!Stamp(c) \/ Actions!AppendRecord(c)
    PROVE  HandlersTyped'
<1>1. HandlersTyped
  BY DEF ActionsTyped
<1>2. /\ step[c] \in Steps /\ request[c] \in Actions!Requests \cup {None}
      /\ outcome[c] \in Actions!Outcomes \cup {None} /\ journalled[c] \in BOOLEAN
      /\ step = [step EXCEPT ![c] = step[c]]
      /\ request = [request EXCEPT ![c] = request[c]]
      /\ outcome = [outcome EXCEPT ![c] = outcome[c]]
      /\ journalled = [journalled EXCEPT ![c] = journalled[c]]
      /\ Fits(step[c], request[c], outcome[c])
  BY <1>1, HeldIsTyped
<1>3. ASSUME Actions!Refuse(c) \/ Actions!Suppress(c) \/ Actions!Commit(c)
             \/ Actions!UseVoice(c) \/ Actions!CaptureFrame(c)
      PROVE  HandlersTyped'
  <2>1. \A s \in {"skipped", "not_wired", "error"} : Actions!Result(s, FALSE) \in Actions!Outcomes
    BY ResultsAreOutcomes DEF Actions!Statuses
  <2>2. Actions!Result("accepted", TRUE) \in Actions!Outcomes
    BY ResultsAreOutcomes DEF Actions!Statuses
  <2>3. CASE Actions!Refuse(c)
    BY <1>1, <2>3, ResultsAreOutcomes, EndsKeepsHandlersTyped DEF Actions!Refuse
  <2>4. CASE Actions!Suppress(c)
    BY <1>1, <2>1, <2>4, EndsKeepsHandlersTyped DEF Actions!Suppress
  <2>5. CASE Actions!Commit(c)
    <3>1. outcome[c] \in Actions!Outcomes /\ Actions!Ends(c, outcome[c])
      BY <1>2, <2>5 DEF Actions!Commit, Fits
    <3> QED
      BY <1>1, <3>1, EndsKeepsHandlersTyped
  <2>6. CASE Actions!UseVoice(c)
    <3>1. request[c].kind \in {"move_head", "speak", "stop_speech"}
      BY <1>2, <2>6 DEF Actions!UseVoice, Fits
    <3>2. Actions!VoiceAnswers(request[c].kind) \subseteq Actions!Outcomes
      BY <3>1, ResultsAreOutcomes DEF ActionsTyped
    <3>3. \E result_ \in Actions!Outcomes : Actions!Ends(c, result_)
      BY <2>1, <2>6, <3>2 DEF Actions!UseVoice
    <3> QED
      BY <1>1, <3>3, EndsKeepsHandlersTyped
  <2>7. CASE Actions!CaptureFrame(c)
    <3>1. \E result_ \in Actions!Outcomes : Actions!Ends(c, result_)
      BY <2>1, <2>2, <2>7 DEF Actions!CaptureFrame
    <3> QED
      BY <1>1, <3>1, EndsKeepsHandlersTyped
  <2> QED
    BY <1>3, <2>3, <2>4, <2>5, <2>6, <2>7
<1>4. CASE Actions!Receive(c)
  <2>1. PICK r \in Actions!Requests, event \in BOOLEAN :
            /\ request' = [request EXCEPT ![c] = r]
            /\ journalled' = [journalled EXCEPT ![c] = event]
    BY <1>4 DEF Actions!Receive
  <2>2. step' = [step EXCEPT ![c] = "handle"] /\ UNCHANGED outcome
    BY <1>4 DEF Actions!Receive, Actions!Goto
  <2>3. Fits("handle", r, outcome[c]) /\ "handle" \in Steps
    BY DEF Fits, Steps
  <2> QED
    BY <1>1, <1>2, <2>1, <2>2, <2>3, StepKeepsHandlersTyped
<1>5. CASE Actions!Begin(c)
  <2>1. /\ step' = [step EXCEPT ![c] = "dispatch"]
        /\ request' = [request EXCEPT ![c] = request[c]]
        /\ outcome' = [outcome EXCEPT ![c] = outcome[c]]
        /\ journalled' = [journalled EXCEPT ![c] = journalled[c]]
    BY <1>2, <1>5 DEF Actions!Begin, Actions!Goto
  <2>2. Fits("dispatch", request[c], outcome[c]) /\ "dispatch" \in Steps
    BY <1>2, <1>5 DEF Actions!Begin, Fits, Steps
  <2> QED
    BY <1>1, <1>2, <2>1, <2>2, StepKeepsHandlersTyped
<1>6. CASE Actions!Dispatch(c)
  <2>1. step' = [step EXCEPT ![c] = "commit"] /\ UNCHANGED <<request, journalled>>
    BY <1>6 DEF Actions!Dispatch, Actions!Goto
  <2>2. PICK o \in Actions!Outcomes : outcome' = [outcome EXCEPT ![c] = o]
    <3>1. /\ Actions!Result("accepted", TRUE) \in Actions!Outcomes
          /\ Actions!Result("skipped", FALSE) \in Actions!Outcomes
          /\ Actions!Result("error", FALSE) \in Actions!Outcomes
      BY ResultsAreOutcomes DEF Actions!Statuses
    <3> QED
      BY <1>6, <3>1 DEF Actions!Dispatch
  <2>3. Fits("commit", request[c], o) /\ "commit" \in Steps
    BY <1>2, <1>6 DEF Actions!Dispatch, Fits, Steps
  <2> QED
    BY <1>1, <1>2, <2>1, <2>2, <2>3, StepKeepsHandlersTyped
<1>7. CASE Actions!Raises(c)
  <2>1. /\ step' = [step EXCEPT ![c] = "idle"] /\ request' = [request EXCEPT ![c] = None]
        /\ journalled' = [journalled EXCEPT ![c] = FALSE] /\ UNCHANGED outcome
    BY <1>7 DEF Actions!Raises, Actions!Goto
  <2>2. Fits("idle", None, outcome[c]) /\ "idle" \in Steps /\ FALSE \in BOOLEAN
    BY DEF Fits, Steps
  <2> QED
    BY <1>1, <1>2, <2>1, <2>2, StepKeepsHandlersTyped
<1>8. CASE Actions!Stamp(c)
  <2>1. /\ step' = [step EXCEPT ![c] = "append"]
        /\ request' = [request EXCEPT ![c] = request[c]]
        /\ outcome' = [outcome EXCEPT ![c] = outcome[c]]
        /\ journalled' = [journalled EXCEPT ![c] = journalled[c]]
    BY <1>2, <1>8 DEF Actions!Stamp, Actions!Goto
  <2>2. Fits("append", request[c], outcome[c]) /\ "append" \in Steps
    BY <1>2, <1>8 DEF Actions!Stamp, Fits, Steps
  <2> QED
    BY <1>1, <1>2, <2>1, <2>2, StepKeepsHandlersTyped
<1>9. CASE Actions!AppendRecord(c)
  <2>1. /\ step' = [step EXCEPT ![c] = "idle"] /\ outcome' = [outcome EXCEPT ![c] = None]
        /\ journalled' = [journalled EXCEPT ![c] = FALSE] /\ UNCHANGED request
    BY <1>9 DEF Actions!AppendRecord, Actions!Goto
  <2>2. Fits("idle", request[c], None) /\ "idle" \in Steps /\ FALSE \in BOOLEAN
    BY DEF Fits, Steps
  <2> QED
    BY <1>1, <1>2, <2>1, <2>2, StepKeepsHandlersTyped
<1> QED
  BY <1>3, <1>4, <1>5, <1>6, <1>7, <1>8, <1>9

\* The journal never holds more than max_items.
LEMMA JournalIsBounded ==
    ASSUME JournalInv, Len(records) <= max_items, NEW record \in Dated
    PROVE  Len(Actions!Appended(record)) <= max_items
<1>1. records \in Seq(Dated) /\ max_items \in Nat \ {0}
  BY ActionsConstants DEF JournalInv
<1>2. CASE Len(records) = max_items
  <2>1. Tail(records) \in Seq(Dated) /\ Len(Tail(records)) = Len(records) - 1
    BY <1>1, <1>2
  <2>2. Len(Append(Tail(records), record)) = Len(Tail(records)) + 1
    <3> DEFINE rest == Tail(records)
    <3>1. rest \in Seq(Dated)
      BY <2>1
    <3> HIDE DEF rest
    <3>2. Len(Append(rest, record)) = Len(rest) + 1
      BY <3>1
    <3> QED
      BY <3>2 DEF rest
  <2>3. Actions!Appended(record) = Append(Tail(records), record)
    BY <1>2 DEF Actions!Appended
  <2> QED
    BY <1>1, <1>2, <2>1, <2>2, <2>3
<1>3. CASE Len(records) # max_items
  <2>1. Actions!Appended(record) = Append(records, record)
    BY <1>3 DEF Actions!Appended
  <2>2. Len(Append(records, record)) = Len(records) + 1 /\ Len(records) \in Nat
    BY <1>1
  <2> QED
    BY <1>1, <1>3, <2>1, <2>2
<1> QED
  BY <1>2, <1>3

LEMMA NextKeepsActionsTyped ==
    JournalInv /\ ActionsTyped /\ [Actions!Next]_(Actions!vars) => ActionsTyped'
<1> SUFFICES ASSUME JournalInv, ActionsTyped, [Actions!Next]_(Actions!vars)
             PROVE  ActionsTyped'
  OBVIOUS
<1>1. /\ head \in TargetAngles \cup {None} /\ Len(records) <= max_items
      /\ head_now \in 0 .. MaxEvents /\ stamp \in [Callers -> Nat] /\ MaxEvents \in Nat
      /\ body \subseteq Actions!Abilities /\ voice \in {None, "native", "openclaw"}
  BY SensesAssumption DEF ActionsTyped, Actions!ActionsAssumption
<1>2. ASSUME NEW c \in Callers,
             \/ Actions!Receive(c) \/ Actions!Refuse(c) \/ Actions!Suppress(c)
             \/ Actions!Begin(c) \/ Actions!Dispatch(c) \/ Actions!Commit(c)
             \/ Actions!UseVoice(c) \/ Actions!CaptureFrame(c) \/ Actions!Raises(c)
             \/ Actions!Stamp(c) \/ Actions!AppendRecord(c)
      PROVE  ActionsTyped'
  <2> DEFINE Ended == \/ Actions!Refuse(c) \/ Actions!Suppress(c) \/ Actions!Commit(c)
                      \/ Actions!UseVoice(c) \/ Actions!CaptureFrame(c)
  <2>1. HandlersTyped'
    BY <1>2, NextKeepsHandlersTyped
  <2>2. UNCHANGED <<body, voice>>
    BY <1>2
    DEF Actions!Receive, Actions!Refuse, Actions!Suppress, Actions!Begin, Actions!Dispatch,
        Actions!Commit, Actions!UseVoice, Actions!CaptureFrame, Actions!Raises,
        Actions!Stamp, Actions!AppendRecord, Actions!setup
  <2>3. head' \in TargetAngles \cup {None}
    <3>1. CASE Actions!Dispatch(c)
      <4>1. head' = head \/ (request[c] \in Actions!Moves /\ head' = request[c].angle)
        BY <3>1 DEF Actions!Dispatch
      <4> QED
        BY <1>1, <4>1 DEF Actions!Moves
    <3>2. CASE ~Actions!Dispatch(c)
      <4>1. UNCHANGED head
        BY <1>2, <3>2
        DEF Actions!Receive, Actions!Refuse, Actions!Suppress, Actions!Begin,
            Actions!Commit, Actions!UseVoice, Actions!CaptureFrame, Actions!Raises,
            Actions!Stamp, Actions!AppendRecord, Actions!ptz
      <4> QED
        BY <1>1, <4>1
    <3> QED
      BY <3>1, <3>2
  <2>4. Len(records') <= max_items
    <3>1. CASE Actions!AppendRecord(c)
      <4>1. records' = Actions!Appended(Actions!Record(c))
        BY <3>1 DEF Actions!AppendRecord
      <4>2. Actions!Record(c) \in Dated
        BY DEF JournalInv, Actions!Record, Dated
      <4> QED
        BY <1>1, <4>1, <4>2, JournalIsBounded
    <3>2. CASE ~Actions!AppendRecord(c)
      <4>1. UNCHANGED records
        BY <1>2, <3>2
        DEF Actions!Receive, Actions!Refuse, Actions!Suppress, Actions!Begin,
            Actions!Dispatch, Actions!Commit, Actions!UseVoice, Actions!CaptureFrame,
            Actions!Raises, Actions!Stamp
      <4> QED
        BY <1>1, <4>1
    <3> QED
      BY <3>1, <3>2
  <2>5. head_now' \in 0 .. MaxEvents
    <3>1. head_now' = head_now \/ (head_now < MaxEvents /\ head_now' = head_now + 1)
      BY <1>2
      DEF Actions!Receive, Actions!Refuse, Actions!Suppress, Actions!Begin,
          Actions!Dispatch, Actions!Commit, Actions!UseVoice, Actions!CaptureFrame,
          Actions!Raises, Actions!Stamp, Actions!AppendRecord
    <3> QED
      BY <1>1, <3>1
  <2>6. stamp' \in [Callers -> Nat]
    <3>1. stamp' = stamp \/ \E v \in {head_now, 0} : stamp' = [stamp EXCEPT ![c] = v]
      BY <1>2
      DEF Actions!Receive, Actions!Refuse, Actions!Suppress, Actions!Begin,
          Actions!Dispatch, Actions!Commit, Actions!UseVoice, Actions!CaptureFrame,
          Actions!Raises, Actions!Stamp, Actions!AppendRecord, Actions!Ends
    <3> QED
      BY <1>1, <3>1
  <2>7. {raised', overlapped', far', crowded'} \subseteq BOOLEAN
    <3>1. raised' \in BOOLEAN
      BY <1>2, Zenon
      DEF Actions!Receive, Actions!Refuse, Actions!Suppress, Actions!Begin,
          Actions!Dispatch, Actions!Commit, Actions!UseVoice, Actions!CaptureFrame,
          Actions!Raises, Actions!Stamp, Actions!AppendRecord, Actions!history, ActionsTyped
    <3>2. overlapped' \in BOOLEAN
      BY <1>2, Zenon
      DEF Actions!Receive, Actions!Refuse, Actions!Suppress, Actions!Begin,
          Actions!Dispatch, Actions!Commit, Actions!UseVoice, Actions!CaptureFrame,
          Actions!Raises, Actions!Stamp, Actions!AppendRecord, Actions!history, ActionsTyped
    <3>3. far' \in BOOLEAN
      BY <1>2, Zenon
      DEF Actions!Receive, Actions!Refuse, Actions!Suppress, Actions!Begin,
          Actions!Dispatch, Actions!Commit, Actions!UseVoice, Actions!CaptureFrame,
          Actions!Raises, Actions!Stamp, Actions!AppendRecord, Actions!history, ActionsTyped
    <3>4. crowded' \in BOOLEAN
      BY <1>2, Zenon
      DEF Actions!Receive, Actions!Refuse, Actions!Suppress, Actions!Begin,
          Actions!Dispatch, Actions!Commit, Actions!UseVoice, Actions!CaptureFrame,
          Actions!Raises, Actions!Stamp, Actions!AppendRecord, Actions!history, ActionsTyped
    <3> QED
      BY <3>1, <3>2, <3>3, <3>4, Zenon
  <2> QED
    BY <1>1, <2>1, <2>2, <2>3, <2>4, <2>5, <2>6, <2>7, Zenon DEF ActionsTyped
<1>3. CASE UNCHANGED Actions!vars
  BY <1>3
  DEF Actions!vars, Actions!setup, Actions!handler, Actions!ptz, Actions!history,
      ActionsTyped, HandlersTyped
<1> QED
  BY <1>2, <1>3 DEF Actions!Next

LEMMA ActionsTypes == MovesInv /\ JournalInv /\ ActionsTyped => Actions!TypeOK
<1> SUFFICES ASSUME MovesInv, JournalInv, ActionsTyped PROVE Actions!TypeOK
  OBVIOUS
<1>1. head_now \in Nat /\ DOMAIN records = 1 .. Len(records)
  BY DEF JournalInv
<1>2. stamp \in [Callers -> 0 .. head_now]
  <2>1. stamp \in [Callers -> Nat] /\ \A c \in Callers : stamp[c] \in 0 .. head_now
    BY <1>1 DEF ActionsTyped, JournalInv
  <2> QED
    BY <2>1
<1>3. ASSUME NEW i \in DOMAIN records
      PROVE  records[i] \in [accepted : BOOLEAN, captured_at_ts : 0 .. head_now]
  <2>1. records[i] \in Dated /\ records[i].captured_at_ts <= head_now
    BY <1>1, <1>3 DEF JournalInv
  <2>2. records[i].captured_at_ts \in 0 .. head_now
    BY <1>1, <2>1 DEF Dated
  <2> QED
    BY <2>1, <2>2, Zenon DEF Dated
<1>4. ptz_last_target_angle \in TargetAngles \cup {None}
  BY DEF MovesInv
<1> QED
  BY <1>2, <1>3, <1>4, Zenon DEF ActionsTyped, HandlersTyped, Steps, Actions!TypeOK

LEMMA InitActionsTyped == Actions!Init => ActionsTyped
<1> SUFFICES ASSUME Actions!Init PROVE ActionsTyped
  OBVIOUS
<1>1. MaxEvents \in Nat /\ max_items \in Nat
  BY SensesAssumption DEF Actions!ActionsAssumption
<1>2. head_now \in 0 .. MaxEvents /\ Len(records) <= max_items /\ stamp \in [Callers -> Nat]
  BY <1>1 DEF Actions!Init
<1>3. /\ body \subseteq Actions!Abilities /\ voice \in {None, "native", "openclaw"}
      /\ head \in TargetAngles \cup {None}
  BY DEF Actions!Init, Actions!Abilities
<1>4. HandlersTyped
  BY DEF Actions!Init, HandlersTyped, Steps, Fits
<1>5. {raised, overlapped, far, crowded} \subseteq BOOLEAN
  BY Zenon DEF Actions!Init
<1> QED
  BY <1>2, <1>3, <1>4, <1>5 DEF ActionsTyped

\* Each component's part of it, sight's and motion's.
SightTyped ==
    /\ VisionInv /\ Vision!TypeOK
    /\ SceneInv /\ Scene!TypeOK
    /\ EyeTyped
    /\ Tracker!TypeOK
    /\ BoxesInv /\ Boxes!TypeOK
    /\ AnswerInv /\ AnswerTyped

MotionTyped ==
    /\ MovesInv /\ JournalInv /\ ActionsTyped
    /\ YawInv /\ YawTyped
    /\ FollowInv /\ FollowTyped
    /\ RegistryInv /\ MemoryInv /\ Identity!TypeOK
    /\ Target!TypeOK

Focused == focus \in {"vision", "bridge", "eye", "tracker", "actions", "boxes", "yaw", "follow",
                      "identity", "answer", "target"}

\* Every component of sight and motion keeps its state in its type: the vision process and its
\* file, the scene, the eye service, the tracker, the requests to the head and their journal,
\* the readers of a box, the two other neck controllers, the identities, the answer and the
\* neck's target, for all values of their constants (vision_loop.py, scene.py, service.py,
\* tracking.py, app.py, event_journal.py, yaw.py, vision_follow.py, registry.py,
\* identity_memory.py).
THEOREM SpecTypeCorrect == Spec => []TypeOK
<1>1. Init => SightTyped
  BY InitVisionInv, InitVisionTypes, InitSceneTypes, InitEyeTyped, InitTrackerTypes,
     InitBoxTypes, InitAnswerTyped, InitSceneInv, InitBoxesInv, InitAnswerInv
  DEF Init, SightTyped
<1>2. Init => MotionTyped
  BY InitMoves, InitActionsTyped, InitYawInv, InitYawTyped, InitFollowInv, InitFollowTyped,
     InitIdentities, InitIdentityTypes, InitTargetTypes
  DEF Init, MotionTyped
<1>3. SightTyped /\ [Next]_vars => SightTyped'
  BY StepOfVision, StepOfScene, StepOfEye, StepOfTracker, StepOfBoxes, StepOfAnswer,
     NextKeepsVisionInv, NextKeepsVisionTypes, NextKeepsSceneInv, NextKeepsSceneTypes,
     NextKeepsEyeTyped, NextKeepsTrackerTypes, NextKeepsBoxesInv, NextKeepsBoxTypes,
     NextKeepsAnswerInv, NextKeepsAnswerTyped
  DEF SightTyped
<1>4. MotionTyped /\ [Next]_vars => MotionTyped'
  BY StepOfActions, StepOfYaw, StepOfFollow, StepOfIdentity, StepOfTarget,
     NextKeepsMovesInv, NextKeepsJournalInv, NextKeepsActionsTyped, NextKeepsYawInv,
     NextKeepsYawTyped, NextKeepsFollowInv, NextKeepsFollowTyped, NextKeepsIdentities,
     NextKeepsIdentityTypes, NextKeepsTargetTypes
  DEF MotionTyped
<1>5. Init => Focused
  BY DEF Init, Focused
<1>6. Focused /\ [Next]_vars => Focused'
  BY DEF Next, vars, Focused
<1>7. SightTyped /\ MotionTyped /\ Focused => TypeOK
  <2> SUFFICES ASSUME SightTyped, MotionTyped, Focused PROVE TypeOK
    OBVIOUS
  <2>1. /\ Vision!TypeOK /\ Scene!TypeOK /\ Eye!TypeOK /\ Tracker!TypeOK /\ Boxes!TypeOK
        /\ Answer!TypeOK
    BY AnswerTypes DEF SightTyped, EyeTyped
  <2>2. /\ Actions!TypeOK /\ Yaw!TypeOK /\ Follow!TypeOK /\ Identity!TypeOK /\ Target!TypeOK
    BY ActionsTypes, YawTypes, FollowTypes DEF MotionTyped
  <2> QED
    BY <2>1, <2>2 DEF Focused, TypeOK
<1> QED
  BY <1>1, <1>2, <1>3, <1>4, <1>5, <1>6, <1>7, PTL DEF Spec

=============================================================================
