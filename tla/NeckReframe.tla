---------------------------- MODULE NeckReframe ----------------------------
(***************************************************************************)
(* The head's pan axis: the reframe planner (neck/reframe.py), the pan     *)
(* planner (neck/pan.py), the servo adapter (devices/neck_servo.py) and    *)
(* what runtime/app.py makes of them: a loop thread that ticks the reframe *)
(* planner, HTTP threads that handle move_head, and an owner who starts    *)
(* and stops the loop.  Nothing here holds a lock.                         *)
(*                                                                         *)
(* Angles are whole degrees.  Of a visual target only the side counts on   *)
(* which it is unclear, 0 when nothing is.  Timestamps are kept as ages.   *)
(***************************************************************************)
EXTENDS Integers, FiniteSets

CONSTANTS Loops,       \* reframe loop threads, told apart by their stop event
          Users,       \* HTTP threads that handle move_head
          UserAngles,  \* angles they ask for
          PanMin, PanMax, Deadband, InitialAngle,    \* PanNeckState
          ReframeMin, ReframeMax, Home,              \* ReframeConfig ...
          ReframeStep, ReturnStep, ConfirmFrames,
          MinInterval, ObserveHold, Cooldown, AntiOscillation,
          MaxAge,        \* bound: ages are not told apart beyond it
          MaxUserMoves,  \* bound: move_head requests in a behaviour
          None

\* The limits of the two planners are the same in the deployed configuration.
\* A return step within the deadband would be suppressed for ever.
ASSUME NeckAssumption ==
    /\ Loops \cap Users = {} /\ None \notin Loops
    /\ UserAngles \subseteq Int
    /\ {PanMin, PanMax, InitialAngle, ReframeMin, ReframeMax, Home} \subseteq Int
    /\ PanMin <= ReframeMin /\ ReframeMin <= Home
    /\ Home <= ReframeMax /\ ReframeMax <= PanMax
    /\ ReframeMin <= InitialAngle /\ InitialAngle <= ReframeMax
    /\ {Deadband, ReframeStep, ReturnStep, MaxUserMoves} \subseteq Nat
    /\ Deadband < ReturnStep
    /\ {MinInterval, ObserveHold, Cooldown, AntiOscillation} \subseteq 0..MaxAge
    /\ MaxAge \in Nat /\ ConfirmFrames \in Nat \ {0}

Threads == Loops \cup Users
Directions == {-1, 0, 1}
Phases == {"idle", "observe", "return_home", "cooldown"}

VARIABLES reframe,       \* neck_reframe_state
          pan_angle,     \* neck_pan_state.current_angle, where the head is thought to be
          servo_angle,   \* the angle last written to the servo, or where it was found
          thread,        \* _neck_reframe_thread
          alive,         \* the loop threads that have not ended
          told,          \* those of them whose stop event is set
          stopping,      \* the owner is in stop_neck_reframe_loop
          step,          \* per thread, the next step of its tick or request
          move,          \* per thread, the plan of its move
          before,        \* per loop, state_before_action while its move is under way
          commanded,     \* history: the servo has been written to
          overlapped,    \* history: a move was planned during another
          user_moves     \* history: move_head requests so far

planner == <<reframe, before>>
head == <<pan_angle, servo_angle, commanded>>
lifecycle == <<thread, alive, told, stopping>>
moving == <<step, move, overlapped, user_moves>>
vars == <<planner, head, lifecycle, moving>>

Angles == PanMin..PanMax
Ages == 0..MaxAge

PlannerStates ==
    [current_pan_deg : Angles, phase : Phases, phase_age : Ages, command_age : Ages,
     last_direction : Directions, unclear_direction : Directions,
     unclear_count : 0..ConfirmFrames]

Steps == {"idle", "look", "plan", "store", "apply", "commit"}
Plans == [goal : Int, seen : Angles, moves : BOOLEAN]

TypeOK ==
    /\ reframe \in PlannerStates
    /\ pan_angle \in Angles /\ servo_angle \in Angles
    /\ thread \in Loops \cup {None}
    /\ alive \subseteq Loops /\ told \subseteq alive
    /\ stopping \in BOOLEAN
    /\ step \in [Threads -> Steps]
    /\ move \in [Threads -> Plans]
    /\ before \in [Loops -> PlannerStates]
    /\ {commanded, overlapped} \subseteq BOOLEAN
    /\ user_moves \in Nat

FirstState ==
    [current_pan_deg |-> InitialAngle, phase |-> "idle", phase_age |-> MaxAge,
     command_age |-> MaxAge, last_direction |-> 0, unclear_direction |-> 0,
     unclear_count |-> 0]

NoPlan == [goal |-> InitialAngle, seen |-> InitialAngle, moves |-> FALSE]

\* Nobody knows where the head is before the first command.
Init ==
    /\ reframe = FirstState
    /\ pan_angle = InitialAngle
    /\ servo_angle \in {PanMin, InitialAngle}
    /\ thread = None /\ alive = {} /\ told = {} /\ stopping = FALSE
    /\ step = [t \in Threads |-> "idle"]
    /\ move = [t \in Threads |-> NoPlan]
    /\ before = [l \in Loops |-> FirstState]
    /\ commanded = FALSE /\ overlapped = FALSE
    /\ user_moves = 0

Clamp(x, low, high) == IF x < low THEN low ELSE IF x > high THEN high ELSE x
Distance(x, y) == IF x < y THEN y - x ELSE x - y
Smaller(x, y) == IF x < y THEN x ELSE y

-----------------------------------------------------------------------------
(* plan_reframe_action, on the state a tick finds. *)

Cooling == reframe.phase = "cooldown" /\ reframe.phase_age < Cooldown
Observing == reframe.phase = "observe" /\ reframe.phase_age < ObserveHold
Returning == reframe.phase \in {"observe", "return_home"} /\ ~Observing
Watching == reframe.phase \in {"idle", "cooldown"} /\ ~Cooling

\* _rate_limited
RateLimited == reframe.command_age < MinInterval

\* _set_phase
EnterPhase(r, phase) ==
    IF r.phase = phase THEN r ELSE [r EXCEPT !.phase = phase, !.phase_age = 0]

\* A frame with the target unclear on side `d` (_target_unclear) is counted.
Watched(d) ==
    [EnterPhase(reframe, "idle") EXCEPT
        !.unclear_direction = d,
        !.unclear_count =
            IF d = 0 THEN 0
            ELSE IF reframe.unclear_direction = d THEN Smaller(@ + 1, ConfirmFrames)
            ELSE 1]

FlipTooSoon(d) ==
    reframe.last_direction \notin {0, d} /\ reframe.command_age < AntiOscillation

ReframeGoal(d) ==
    Clamp(reframe.current_pan_deg + d * ReframeStep, ReframeMin, ReframeMax)

MayReframe(d) ==
    /\ d # 0
    /\ Watched(d).unclear_count >= ConfirmFrames
    /\ ~RateLimited
    /\ ~FlipTooSoon(d)
    /\ ReframeGoal(d) # reframe.current_pan_deg

\* What a command to `goal` makes of the planner's state.
Commanded(r, goal, d, phase) ==
    [EnterPhase(r, phase) EXCEPT
        !.current_pan_deg = goal, !.command_age = 0, !.last_direction = d]

\* Slip: the way back is the way out.
AwayFromHome == IF Home > reframe.current_pan_deg THEN -1 ELSE 1

HomeDirection == IF Home > reframe.current_pan_deg THEN 1 ELSE -1

ReturnGoal ==
    Clamp(reframe.current_pan_deg + HomeDirection * ReturnStep, ReframeMin, ReframeMax)

HomeInReach == Distance(Home, reframe.current_pan_deg) <= ReturnStep

-----------------------------------------------------------------------------
(* A tick, up to the dispatch of its move. *)

\* The angle is read, the voice gate is open, the scene is asked for.
TickLooks(l) ==
    /\ l \in alive \ told /\ step[l] = "idle"
    /\ reframe' = [reframe EXCEPT !.current_pan_deg = pan_angle]
    /\ step' = [step EXCEPT ![l] = "look"]
    /\ UNCHANGED <<before, head, lifecycle, move, overlapped, user_moves>>

\* The voice gate is closed.
TickHolds(l) ==
    /\ l \in alive \ told /\ step[l] = "idle"
    /\ reframe' = [reframe EXCEPT !.current_pan_deg = pan_angle]
    /\ UNCHANGED <<before, head, lifecycle, moving>>

EndTick(l) ==
    /\ step' = [step EXCEPT ![l] = "idle"]
    /\ UNCHANGED <<before, head, lifecycle, move, overlapped, user_moves>>

\* "hold" and "observe": nothing moves; also what is left of a tick that raised.
PlanHolds(l) ==
    /\ step[l] = "look"
    /\ \/ UNCHANGED reframe
       \/ Watching /\ \E d \in Directions : ~MayReframe(d) /\ reframe' = Watched(d)
    /\ EndTick(l)

\* The planner's state is that after the command, and the move is dispatched.
Dispatch(l, after) ==
    /\ reframe' = after
    /\ before' = [before EXCEPT ![l] = reframe]
    /\ step' = [step EXCEPT ![l] = "plan"]
    /\ move' = [move EXCEPT ![l].goal = after.current_pan_deg]
    /\ UNCHANGED <<head, lifecycle, overlapped, user_moves>>

PlanReframes(l) ==
    /\ step[l] = "look"
    /\ Watching
    /\ \E d \in Directions :
           /\ MayReframe(d)
           /\ Dispatch(l, Commanded(Watched(d), ReframeGoal(d), d, "observe"))

PlanReturns(l) ==
    /\ step[l] = "look"
    /\ Returning /\ ~RateLimited /\ ~HomeInReach
    /\ Dispatch(l, Commanded(reframe, ReturnGoal, HomeDirection, "return_home"))

\* Slip: what is near enough is called home.
PlanReachesNearHome(l) ==
    /\ step[l] = "look"
    /\ Returning /\ ~RateLimited /\ HomeInReach
    /\ reframe' = Commanded(reframe, reframe.current_pan_deg, 0, "cooldown")
    /\ EndTick(l)

PlanReachesHome(l) ==
    /\ step[l] = "look"
    /\ Returning /\ ~RateLimited /\ HomeInReach
    /\ LET after == Commanded(reframe, Home, 0, "cooldown") IN
       IF reframe.current_pan_deg = Home
       THEN reframe' = after /\ EndTick(l)
       ELSE Dispatch(l, after)

-----------------------------------------------------------------------------
(* _handle_native_neck_action, for a tick's move and for a request. *)

InMove == {"store", "apply", "commit"}

\* A move_head request comes in.
Request(u, angle) ==
    /\ step[u] = "idle"
    /\ user_moves < MaxUserMoves
    /\ user_moves' = user_moves + 1
    /\ step' = [step EXCEPT ![u] = "plan"]
    /\ move' = [move EXCEPT ![u].goal = angle]
    /\ UNCHANGED <<planner, head, lifecycle, overlapped>>

\* plan_pan_move on the pan state as it is now.
PlanMove(t, goal, moves) ==
    /\ step[t] = "plan"
    /\ move' = [move EXCEPT ![t] = [goal |-> goal, seen |-> pan_angle, moves |-> moves]]
    /\ step' = [step EXCEPT ![t] = "store"]
    /\ overlapped' = (overlapped \/ \E o \in Threads \ {t} : step[o] \in InMove)
    /\ UNCHANGED <<planner, head, lifecycle, user_moves>>

MovePlans(t) ==
    LET goal == Clamp(move[t].goal, PanMin, PanMax)
    IN  PlanMove(t, goal, Distance(goal, pan_angle) > Deadband)

\* A request without a usable angle or for another axis.
MoveInvalid(u) == PlanMove(u, pan_angle, FALSE)

\* The plan's state replaces the pan state, whatever it has become since.
MoveStores(t) ==
    /\ step[t] = "store"
    /\ pan_angle' = move[t].seen
    /\ step' = [step EXCEPT ![t] = "apply"]
    /\ UNCHANGED <<planner, servo_angle, commanded, lifecycle, move, overlapped, user_moves>>

\* The move is over.  A tick whose move was not a success takes its state back.
Finish(t, success) ==
    /\ step' = [step EXCEPT ![t] = "idle"]
    /\ reframe' = IF t \in Loops /\ ~success THEN before[t] ELSE reframe
    /\ before' = [l \in Loops |-> IF l = t THEN FirstState ELSE before[l]]
    /\ move' = [move EXCEPT ![t] = NoPlan]
    /\ UNCHANGED <<lifecycle, overlapped, user_moves>>

\* apply_plan stops before the hardware.
MoveSuppressed(t) ==
    /\ step[t] = "apply" /\ ~move[t].moves
    /\ Finish(t, TRUE)
    /\ UNCHANGED head

\* ctrl_servo
MoveApplies(t) ==
    /\ step[t] = "apply" /\ move[t].moves
    /\ servo_angle' = move[t].goal
    /\ commanded' = TRUE
    /\ step' = [step EXCEPT ![t] = "commit"]
    /\ UNCHANGED <<planner, pan_angle, lifecycle, move, overlapped, user_moves>>

\* ctrl_servo raises, or the adapter is unavailable.
MoveRefused(t) ==
    /\ step[t] = "apply" /\ move[t].moves
    /\ Finish(t, FALSE)
    /\ UNCHANGED head

\* Slip: the angle is not taken over.
MoveForgets(t) ==
    /\ step[t] = "commit"
    /\ Finish(t, TRUE)
    /\ UNCHANGED head

MoveCommits(t) ==
    /\ step[t] = "commit"
    /\ pan_angle' = move[t].goal
    /\ Finish(t, TRUE)
    /\ UNCHANGED <<servo_angle, commanded>>

-----------------------------------------------------------------------------
(* start_neck_reframe_loop, stop_neck_reframe_loop and the clock. *)

\* A loop thread starts unless one is known to be alive.
StartLoop ==
    /\ ~stopping
    /\ thread \notin alive
    /\ alive # Loops
    /\ LET l == CHOOSE k \in Loops \ alive : TRUE   \* any free name will do
       IN  thread' = l /\ alive' = alive \cup {l}
    /\ UNCHANGED <<planner, head, told, stopping, moving>>

StopLoop ==
    /\ ~stopping
    /\ thread # None
    /\ told' = told \cup ({thread} \cap alive)
    /\ stopping' = TRUE
    /\ UNCHANGED <<planner, head, thread, alive, moving>>

\* join returns, in time or not: a thread that is still alive stays known.
StopReturns ==
    /\ stopping
    /\ stopping' = FALSE
    /\ thread' = IF thread \in alive THEN thread ELSE None
    /\ UNCHANGED <<planner, head, alive, told, moving>>

LoopEnds(l) ==
    /\ l \in alive \cap told
    /\ step[l] = "idle"
    /\ alive' = alive \ {l}
    /\ told' = told \ {l}
    /\ UNCHANGED <<planner, head, thread, stopping, moving>>

\* Ticks are short on the scale of the timers: no time passes within one.
ClockTicks ==
    /\ \A l \in Loops : step[l] = "idle"
    /\ reframe.phase_age < MaxAge \/ reframe.command_age < MaxAge
    /\ reframe' = [reframe EXCEPT !.phase_age = Smaller(@ + 1, MaxAge),
                                  !.command_age = Smaller(@ + 1, MaxAge)]
    /\ UNCHANGED <<before, head, lifecycle, moving>>

LoopStep(l) ==
    \/ TickLooks(l) \/ TickHolds(l)
    \/ PlanHolds(l) \/ PlanReframes(l) \/ PlanReturns(l) \/ PlanReachesHome(l)
    \/ LoopEnds(l)

MoveStep(t) ==
    \/ MovePlans(t) \/ MoveStores(t)
    \/ MoveSuppressed(t) \/ MoveApplies(t) \/ MoveRefused(t) \/ MoveCommits(t)

UserStep(u) == MoveInvalid(u) \/ \E angle \in UserAngles : Request(u, angle)

Next ==
    \/ \E l \in Loops : LoopStep(l)
    \/ \E t \in Threads : MoveStep(t)
    \/ \E u \in Users : UserStep(u)
    \/ StartLoop \/ StopLoop \/ StopReturns
    \/ ClockTicks

Spec == Init /\ [][Next]_vars

\* The loop and the requests run on and time passes; and, so that coming home
\* can be expected at all, the voice gate is open and the camera delivers again
\* and again, and a servo that is asked again and again accepts in the end.
Fairness ==
    /\ \A l \in Loops :
           /\ WF_vars(LoopStep(l)) /\ WF_vars(MoveStep(l))
           /\ SF_vars(TickLooks(l))
           /\ SF_vars(PlanReturns(l) \/ PlanReachesHome(l))
           /\ SF_vars(MoveApplies(l))
    /\ \A u \in Users : WF_vars(MoveStep(u))
    /\ SF_vars(ClockTicks)

FairSpec == Spec /\ Fairness

-----------------------------------------------------------------------------
(* Properties *)

\* However starts, stops and joins that give up follow each other, there are
\* never two loops that tick the same planner.
OneLoop == Cardinality(alive) <= 1

\* Unless two moves were handled at once, the runtime is right about where the
\* head is from the first command on, whatever was refused or suppressed.
BelievedAngle ==
    ~overlapped /\ commanded /\ (\A t \in Threads : step[t] # "commit")
        => pan_angle = servo_angle

\* No tick is moving the head: the planner's state is not about to be taken back.
Settled == \A l \in Loops : step[l] \in {"idle", "look"}

\* When a reframe is over and nobody else moved the head, it is back home up to
\* the deadband, which suppresses the last step when that is a small one.
RestsNearHome ==
    user_moves = 0 /\ reframe.phase = "cooldown" /\ Settled
        => Distance(Home, pan_angle) <= Deadband

\* The loop alone never swings the head: each command after the first is at
\* most a step away from the one before.
SmallSteps ==
    [][commanded /\ user_moves = 0
        => \/ Distance(servo_angle, servo_angle') <= ReframeStep
           \/ Distance(servo_angle, servo_angle') <= ReturnStep]_vars

LoopRuns == \E l \in Loops : l \in alive \ told

\* A reframe is temporary: once the head has turned, it comes home, whatever
\* requests move it meanwhile, as long as the loop runs.
ComesHome ==
    (reframe.phase \in {"observe", "return_home"} /\ Settled)
        ~> ((reframe.phase = "cooldown" /\ Settled) \/ ~LoopRuns)
=============================================================================
