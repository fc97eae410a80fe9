----------------------------- MODULE YawControl -----------------------------
(***************************************************************************)
(* organs/neck/yaw.py: YawController.decide with its YawControlState, and  *)
(* devices/neck_servo.py: apply_decision, which hands a decision to the    *)
(* driver.  The controller has counted a command as made before the driver *)
(* is asked, and never hears what became of it.                            *)
(*                                                                         *)
(* A target's position is a whole number of 1 / Span of the frame, counted *)
(* from its middle; invert only changes the sign of it.                    *)
(***************************************************************************)
EXTENDS Integers

CONSTANTS pan_min, pan_max, home_angle,
          Span,                    \* positions in a frame, an even number
          deadband,                \* in positions
          step_gain,               \* degrees per frame
          max_step,
          min_command_interval_s,
          alpha,                   \* smoothing_alpha is 1 / alpha
          Targets,                 \* the angles asked for directly
          None

\* What is assumed of the constants: whoever makes the state starts within the limits.
YawAssumption ==
    /\ {pan_min, pan_max, home_angle, deadband, step_gain, max_step,
        min_command_interval_s, alpha, Span} \subseteq Nat
    /\ pan_min <= home_angle /\ home_angle <= pan_max
    /\ max_step > 0 /\ alpha > 0 /\ Span > 0 /\ Span % 2 = 0 /\ Targets \subseteq Int
    /\ None \notin Int

VARIABLES last_angle, desired_angle, last_commanded_angle,
          last_target_x,  \* as its error
          since,          \* seconds since last_command_at_ts, as far as they matter
          reason,         \* of the last decision; "" is a command
          pending,        \* a command the driver has not been asked for
          servo,          \* where the driver has put the servo
          refused         \* history: the driver raised, or there was none

controller == <<last_angle, desired_angle, last_commanded_angle, last_target_x, since, reason>>
vars == <<controller, pending, servo, refused>>

Angles == pan_min .. pan_max
Errors == -(Span \div 2) .. Span \div 2

TypeOK ==
    /\ last_angle \in Angles /\ desired_angle \in Angles
    /\ last_commanded_angle \in Angles \cup {None}
    /\ last_target_x \in Errors \cup {None}
    /\ since \in 0 .. min_command_interval_s \cup {None}
    /\ reason \in {"none", "", "intent_expired", "low_confidence", "deadband", "same_angle",
                   "min_interval"}
    /\ pending \in BOOLEAN /\ servo \in Angles \cup {None} /\ refused \in BOOLEAN

Init ==
    /\ last_angle = home_angle /\ desired_angle = home_angle
    /\ last_commanded_angle = None /\ last_target_x = None /\ since = None
    /\ reason = "none"
    /\ pending = FALSE /\ servo = None /\ refused = FALSE

-----------------------------------------------------------------------------

Clipped(a, low, high) == IF a < low THEN low ELSE IF a > high THEN high ELSE a
ClipAngle(a) == Clipped(a, pan_min, pan_max)
Sign(a) == IF a > 0 THEN 1 ELSE -1
Magnitude(a) == IF a < 0 THEN -a ELSE a

\* round(a / b), which takes a half to the even neighbour.
Rounded(a, b) ==
    LET floor == a \div b
        rest == 2 * (a % b)
    IN  IF rest < b \/ (rest = b /\ floor % 2 = 0) THEN floor ELSE floor + 1

Delta(error) ==
    LET delta == Rounded(error * step_gain, Span)
    IN  Clipped(IF delta = 0 THEN Sign(error) ELSE delta, -max_step, max_step)

\* map_intent_to_pan of a target outside the deadband: a step, smoothed from the second
\* target on, of at least a degree.
Smoothed(error) ==
    LET stepped == ClipAngle(last_angle + Delta(error))
        smoothed == IF last_target_x = None THEN stepped
                    ELSE Rounded(last_angle * alpha + stepped - last_angle, alpha)
    IN  ClipAngle(IF smoothed = last_angle THEN last_angle + Sign(error) ELSE smoothed)

Suppress(why, angle, error) ==
    /\ desired_angle' = ClipAngle(angle)
    /\ last_target_x' = error
    /\ reason' = why
    /\ UNCHANGED <<last_angle, last_commanded_angle, since, pending, servo, refused>>

SameAngle(angle) == last_commanded_angle = angle

TooSoon == since # None /\ since < min_command_interval_s

Command(angle, error) ==
    /\ desired_angle' = angle /\ last_angle' = angle /\ last_commanded_angle' = angle
    /\ since' = 0 /\ last_target_x' = error
    /\ reason' = ""
    /\ pending' = TRUE
    /\ UNCHANGED <<servo, refused>>

\* The rest of decide, once the intent is mapped to an angle.
Settle(angle, error) ==
    \/ SameAngle(angle) /\ Suppress("same_angle", angle, error)
    \/ ~SameAngle(angle) /\ TooSoon /\ Suppress("min_interval", angle, error)
    \/ ~SameAngle(angle) /\ ~TooSoon /\ Command(angle, error)

\* An intent that has expired or is not confident enough.
DecideUnfit ==
    /\ ~pending
    /\ \E why \in {"intent_expired", "low_confidence"}, error \in Errors \cup {None} :
           Suppress(why, last_angle, error)

DecideTarget ==
    /\ ~pending
    /\ \E error \in Errors :
           IF Magnitude(error) <= deadband THEN Suppress("deadband", last_angle, error)
           ELSE Settle(Smoothed(error), error)

\* A target_angle, or neither an angle nor a target: home.
DecideAngle ==
    /\ ~pending
    /\ \E angle \in Targets \cup {home_angle} : Settle(ClipAngle(angle), None)

\* apply_decision: written, or the driver raises, or the adapter is an unavailable one.
Apply ==
    /\ pending
    /\ \/ servo' = last_commanded_angle /\ UNCHANGED refused
       \/ refused' = TRUE /\ UNCHANGED servo
    /\ pending' = FALSE
    /\ UNCHANGED controller

\* Time passes between decisions.
Tick ==
    /\ since # None /\ since < min_command_interval_s
    /\ since' = since + 1
    /\ UNCHANGED <<last_angle, desired_angle, last_commanded_angle, last_target_x,
                   reason, pending, servo, refused>>

Next == DecideUnfit \/ DecideTarget \/ DecideAngle \/ Apply \/ Tick

Spec == Init /\ [][Next]_vars

-----------------------------------------------------------------------------

\* A command is only left out as a repetition if the servo is there, as long as the
\* driver has refused none.
SameAngleIsThere ==
    reason = "same_angle" /\ ~pending => refused \/ servo = desired_angle
=============================================================================
