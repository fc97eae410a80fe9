------------------------- MODULE NeckReframeProofs -------------------------
(***************************************************************************)
(* What NeckReframe promises for every number of loops and requests, every *)
(* angle and step and all timers: the safety properties that the run neck  *)
(* checks, and the inductive invariant that they rest on.                  *)
(***************************************************************************)
EXTENDS NeckReframe, FiniteSetTheorems, TLAPS

\* A plan that is being carried out is one for an angle within the limits.
GoalsInLimits == \A t \in Threads : step[t] \in InMove => move[t].goal \in Angles

\* At most one loop is alive, the known one, and only it ticks.
Ticking ==
    /\ alive \subseteq {thread}
    /\ \A l \in Loops : step[l] # "idle" => l \in alive

\* Moves that do not overlap: the one that is made saw the head where it still
\* is thought to be, and between two moves it is there.
Undisturbed ==
    /\ \A t, o \in Threads : step[t] \in InMove /\ step[o] \in InMove => t = o
    /\ \A t \in Threads : step[t] \in InMove => move[t].seen = pan_angle
    /\ \A t \in Threads : step[t] = "commit" => servo_angle = move[t].goal
    /\ commanded /\ (\A t \in Threads : step[t] # "commit") => pan_angle = servo_angle

Near(angle) == Distance(Home, angle) <= Deadband

OneStep(from, to) == Distance(from, to) <= ReframeStep \/ Distance(from, to) <= ReturnStep

\* The move that loop `l` has under way is the one its planner planned.
LoopMove(l) ==
    step[l] \in {"plan"} \cup InMove =>
        /\ move[l].goal = reframe.current_pan_deg
        /\ move[l].goal \in ReframeMin..ReframeMax
        /\ reframe.phase = "cooldown" => move[l].goal = Home
        /\ OneStep(pan_angle, move[l].goal)
        /\ before[l].phase = "cooldown" => Near(pan_angle)
        /\ step[l] # "plan" /\ ~move[l].moves => Distance(move[l].goal, pan_angle) <= Deadband

\* A loop that has the head to itself.
Undivided ==
    /\ \A u \in Users : step[u] = "idle"
    /\ ~overlapped
    /\ pan_angle \in ReframeMin..ReframeMax
    /\ reframe.phase = "cooldown" /\ Settled => Near(pan_angle)
    /\ \A l \in Loops : (step[l] = "look" => reframe.current_pan_deg = pan_angle) /\ LoopMove(l)

\* The inductive invariant.
NeckInv ==
    /\ TypeOK /\ GoalsInLimits /\ Ticking
    /\ ~overlapped => Undisturbed
    /\ user_moves = 0 => Undivided

-----------------------------------------------------------------------------
(* Angles and planner states. *)

USE DEF Steps

\* Clamping leads into the limits and leaves what is in them alone.
LEMMA Clamped ==
    ASSUME NEW x \in Int, NEW low \in Int, NEW high \in Int, low <= high
    PROVE  /\ Clamp(x, low, high) \in low..high
           /\ x \in low..high => Clamp(x, low, high) = x
BY DEF Clamp

\* The reframe limits are within those of the pan axis.
LEMMA Limits ==
    /\ ReframeMin..ReframeMax \subseteq Angles
    /\ Home \in ReframeMin..ReframeMax /\ InitialAngle \in ReframeMin..ReframeMax
    /\ \A x \in Int : Clamp(x, PanMin, PanMax) \in Angles
    /\ \A x \in Angles : Clamp(x, PanMin, PanMax) = x
    /\ \A x \in Int : Clamp(x, ReframeMin, ReframeMax) \in ReframeMin..ReframeMax
    /\ Angles \subseteq Int
BY NeckAssumption DEF Angles, Clamp

\* A step that is clamped is not longer for it.
LEMMA ClampedStep ==
    ASSUME NEW x \in ReframeMin..ReframeMax, NEW k \in Nat, NEW d \in {-1, 1}
    PROVE  Distance(x, Clamp(x + d * k, ReframeMin, ReframeMax)) <= k
<1>1. CASE d = 1
    <2>1. x + d * k = x + k
        BY <1>1
    <2> QED BY <2>1, NeckAssumption DEF Distance, Clamp
<1>2. CASE d = -1
    <2>1. x + d * k = x - k
        BY <1>2
    <2> QED BY <2>1, NeckAssumption DEF Distance, Clamp
<1> QED BY <1>1, <1>2

\* Entering a phase changes the phase and its age.
LEMMA EnterPhaseType ==
    ASSUME NEW r \in PlannerStates, NEW phase \in Phases
    PROVE  /\ EnterPhase(r, phase) \in PlannerStates
           /\ EnterPhase(r, phase).phase = phase
           /\ EnterPhase(r, phase).current_pan_deg = r.current_pan_deg
<1>1. 0 \in Ages
    BY NeckAssumption DEF Ages
<1>2. CASE r.phase = phase
    BY <1>2 DEF EnterPhase
<1>3. CASE r.phase # phase
    <2>1. EnterPhase(r, phase) = [r EXCEPT !.phase = phase, !.phase_age = 0]
        BY <1>3 DEF EnterPhase
    <2>2. LET w == [r EXCEPT !.phase = phase, !.phase_age = 0] IN
          w \in PlannerStates /\ w.phase = phase /\ w.current_pan_deg = r.current_pan_deg
        BY <1>1 DEF PlannerStates
    <2> QED BY <2>1, <2>2, Zenon
<1> QED BY <1>2, <1>3

\* A frame that is counted leaves the planner idle and the angle alone.
LEMMA WatchedType ==
    ASSUME reframe \in PlannerStates, NEW d \in Directions
    PROVE  /\ Watched(d) \in PlannerStates
           /\ Watched(d).phase = "idle"
           /\ Watched(d).current_pan_deg = reframe.current_pan_deg
<1>1. /\ EnterPhase(reframe, "idle") \in PlannerStates
      /\ EnterPhase(reframe, "idle").phase = "idle"
      /\ EnterPhase(reframe, "idle").current_pan_deg = reframe.current_pan_deg
    BY EnterPhaseType DEF Phases
<1> DEFINE r == EnterPhase(reframe, "idle")
           n == IF d = 0 THEN 0
                ELSE IF reframe.unclear_direction = d THEN Smaller(r.unclear_count + 1, ConfirmFrames)
                ELSE 1
<1>2. r.unclear_count \in 0..ConfirmFrames
    BY <1>1 DEF PlannerStates
<1>3. n \in 0..ConfirmFrames
    BY <1>2, NeckAssumption DEF Smaller
<1>4. Watched(d) = [r EXCEPT !.unclear_direction = d, !.unclear_count = n]
    BY DEF Watched
<1>5. ASSUME NEW q \in PlannerStates, NEW m \in 0..ConfirmFrames
      PROVE  LET w == [q EXCEPT !.unclear_direction = d, !.unclear_count = m] IN
             w \in PlannerStates /\ w.phase = q.phase
               /\ w.current_pan_deg = q.current_pan_deg
    BY DEF PlannerStates
<1> HIDE DEF r, n
<1>6. /\ Watched(d) \in PlannerStates /\ Watched(d).phase = r.phase
      /\ Watched(d).current_pan_deg = r.current_pan_deg
    BY <1>1, <1>3, <1>4, <1>5, Zenon DEF r
<1> QED BY <1>1, <1>6, Zenon DEF r

\* What a command makes of the planner's state.
LEMMA CommandedType ==
    ASSUME NEW r \in PlannerStates, NEW goal \in Angles, NEW d \in Directions,
           NEW phase \in Phases
    PROVE  /\ Commanded(r, goal, d, phase) \in PlannerStates
           /\ Commanded(r, goal, d, phase).phase = phase
           /\ Commanded(r, goal, d, phase).current_pan_deg = goal
<1>1. EnterPhase(r, phase) \in PlannerStates /\ EnterPhase(r, phase).phase = phase
    BY EnterPhaseType
<1>2. 0 \in Ages
    BY NeckAssumption DEF Ages
<1>3. ASSUME NEW q \in PlannerStates
      PROVE  LET w == [q EXCEPT !.current_pan_deg = goal, !.command_age = 0, !.last_direction = d]
             IN  w \in PlannerStates /\ w.phase = q.phase /\ w.current_pan_deg = goal
    BY <1>2 DEF PlannerStates
<1> QED BY <1>1, <1>3, Zenon DEF Commanded

-----------------------------------------------------------------------------
(* Types, limits and the loop that ticks. *)

\* The steps of the loop that change the planner and nothing of the head.
LEMMA PlanType ==
    ASSUME TypeOK, NEW l \in Loops, NEW after \in PlannerStates,
           Dispatch(l, after) \/ (reframe' = after /\ EndTick(l))
    PROVE  TypeOK'
<1>1. after.current_pan_deg \in Int
    BY Limits DEF PlannerStates
<1>2. \A x \in Int, t \in Threads : [move EXCEPT ![t].goal = x] \in [Threads -> Plans]
    BY DEF TypeOK, Plans
<1>3. move' \in [Threads -> Plans] /\ before' \in [Loops -> PlannerStates]
    BY <1>1, <1>2 DEF TypeOK, Dispatch, EndTick, Threads
<1>4. step' \in [Threads -> Steps]
    BY DEF TypeOK, Dispatch, EndTick, Threads
<1> QED
    BY <1>3, <1>4 DEF TypeOK, Dispatch, EndTick, head, lifecycle

\* What plan_reframe_action makes of the planner's state, and where its command
\* leads from where the planner thinks the head is.
LEMMA PlanResult ==
    ASSUME TypeOK, NEW l \in Loops,
           PlanReframes(l) \/ PlanReturns(l) \/ PlanReachesHome(l)
    PROVE  \E after \in PlannerStates :
               /\ Dispatch(l, after) \/ (reframe' = after /\ EndTick(l)
                                           /\ reframe.current_pan_deg = Home)
               /\ after.current_pan_deg \in ReframeMin..ReframeMax
               /\ after.phase = "cooldown" => after.current_pan_deg = Home
               /\ reframe.current_pan_deg \in ReframeMin..ReframeMax
                    => OneStep(reframe.current_pan_deg, after.current_pan_deg)
<1> USE DEF Phases
<1>0. reframe \in PlannerStates /\ reframe.current_pan_deg \in Int
    BY Limits DEF TypeOK, PlannerStates
<1>1. CASE PlanReframes(l)
    <2>1. PICK d \in Directions :
              MayReframe(d) /\ Dispatch(l, Commanded(Watched(d), ReframeGoal(d), d, "observe"))
        BY <1>1 DEF PlanReframes
    <2>2. d \in {-1, 1} /\ d * ReframeStep \in Int /\ ReframeStep \in Nat
        BY <2>1, NeckAssumption DEF MayReframe, Directions
    <2>3. ReframeGoal(d) \in ReframeMin..ReframeMax
        BY <1>0, <2>2, Limits DEF ReframeGoal
    <2>4. reframe.current_pan_deg \in ReframeMin..ReframeMax
              => OneStep(reframe.current_pan_deg, ReframeGoal(d))
        BY <2>2, ClampedStep DEF ReframeGoal, OneStep
    <2> DEFINE after == Commanded(Watched(d), ReframeGoal(d), d, "observe")
    <2>5. after \in PlannerStates /\ after.phase = "observe"
              /\ after.current_pan_deg = ReframeGoal(d)
        <3>1. Watched(d) \in PlannerStates /\ ReframeGoal(d) \in Angles /\ d \in Directions
            BY <1>0, <2>1, <2>3, Limits, WatchedType
        <3> QED BY <3>1, CommandedType
    <2> HIDE DEF after
    <2> QED BY <2>1, <2>3, <2>4, <2>5 DEF after
<1>2. CASE PlanReturns(l)
    <2> DEFINE after == Commanded(reframe, ReturnGoal, HomeDirection, "return_home")
    <2>1. HomeDirection \in {-1, 1} /\ HomeDirection * ReturnStep \in Int /\ ReturnStep \in Nat
        BY NeckAssumption DEF HomeDirection
    <2>2. ReturnGoal \in ReframeMin..ReframeMax
        BY <1>0, <2>1, Limits DEF ReturnGoal
    <2>3. reframe.current_pan_deg \in ReframeMin..ReframeMax
              => OneStep(reframe.current_pan_deg, ReturnGoal)
        BY <2>1, ClampedStep DEF ReturnGoal, OneStep
    <2>4. after \in PlannerStates /\ after.phase = "return_home"
              /\ after.current_pan_deg = ReturnGoal
        <3>1. ReturnGoal \in Angles /\ HomeDirection \in Directions
            BY <2>1, <2>2, Limits DEF Directions
        <3> QED BY <1>0, <3>1, CommandedType
    <2>5. Dispatch(l, after)
        BY <1>2 DEF PlanReturns
    <2> HIDE DEF after
    <2> QED BY <2>2, <2>3, <2>4, <2>5
<1>3. CASE PlanReachesHome(l)
    <2> DEFINE after == Commanded(reframe, Home, 0, "cooldown")
    <2>1. after \in PlannerStates /\ after.current_pan_deg = Home
        <3>1. Home \in Angles /\ 0 \in Directions
            BY Limits DEF Directions
        <3> QED BY <1>0, <3>1, CommandedType
    <2>2. OneStep(reframe.current_pan_deg, Home)
        BY <1>0, <1>3, NeckAssumption DEF PlanReachesHome, HomeInReach, OneStep, Distance
    <2>3. Dispatch(l, after) \/ (reframe' = after /\ EndTick(l) /\ reframe.current_pan_deg = Home)
        BY <1>3 DEF PlanReachesHome
    <2> HIDE DEF after
    <2> QED BY <2>1, <2>2, <2>3, Limits
<1> QED BY <1>1, <1>2, <1>3

\* The end of a move keeps the types.
LEMMA FinishType ==
    ASSUME TypeOK, NEW t \in Threads, NEW success \in BOOLEAN, Finish(t, success),
           pan_angle' \in Angles, UNCHANGED <<servo_angle, commanded>>
    PROVE  TypeOK'
<1>1. NoPlan \in Plans /\ reframe' \in PlannerStates
    BY Limits DEF NoPlan, Plans, Finish, TypeOK
<1>2. FirstState \in PlannerStates
    BY Limits, NeckAssumption DEF FirstState, PlannerStates, Phases, Ages, Directions
<1>3. before' \in [Loops -> PlannerStates] /\ move' \in [Threads -> Plans]
    BY <1>1, <1>2 DEF Finish, TypeOK
<1>4. step' \in [Threads -> Steps]
    BY DEF TypeOK, Finish
<1> QED BY <1>1, <1>3, <1>4 DEF TypeOK, Finish, lifecycle

\* A plan is stored, or a request comes in.
LEMMA PlanMoveType ==
    ASSUME TypeOK, NEW t \in Threads, NEW goal \in Angles, NEW moves \in BOOLEAN,
           PlanMove(t, goal, moves)
    PROVE  TypeOK'
<1>1. [goal |-> goal, seen |-> pan_angle, moves |-> moves] \in Plans
    BY Limits DEF Plans, TypeOK
<1>2. move' \in [Threads -> Plans]
    BY <1>1 DEF PlanMove, TypeOK
<1>3. step' \in [Threads -> Steps]
    BY DEF TypeOK, PlanMove
<1>4. overlapped' \in BOOLEAN
    BY DEF TypeOK, PlanMove
<1> QED BY <1>2, <1>3, <1>4 DEF TypeOK, PlanMove, planner, head, lifecycle

LEMMA RequestType ==
    ASSUME TypeOK, NEW u \in Users, NEW angle \in UserAngles, Request(u, angle)
    PROVE  TypeOK'
<1>1. angle \in Int /\ user_moves' \in Nat
    BY NeckAssumption DEF TypeOK, Request
<1>2. [move EXCEPT ![u].goal = angle] \in [Threads -> Plans]
    BY <1>1 DEF TypeOK, Plans
<1>3. step' \in [Threads -> Steps]
    BY DEF TypeOK, Request
<1> QED BY <1>1, <1>2, <1>3 DEF TypeOK, Request, planner, head, lifecycle

\* Every step keeps the state typed and carries out only plans within the limits.
LEMMA TypeStep == TypeOK /\ GoalsInLimits /\ [Next]_vars => TypeOK'
<1> SUFFICES ASSUME TypeOK, GoalsInLimits, [Next]_vars PROVE TypeOK'
    OBVIOUS
<1>0. Loops \subseteq Threads /\ Users \subseteq Threads
    BY DEF Threads
<1>1. ASSUME NEW l \in Loops, LoopStep(l) PROVE TypeOK'
    <2>1. [reframe EXCEPT !.current_pan_deg = pan_angle] \in PlannerStates
        BY DEF TypeOK, PlannerStates
    <2>2. CASE TickLooks(l)
        BY <2>1, <2>2 DEF TickLooks, TypeOK, head, lifecycle
    <2>3. CASE TickHolds(l)
        BY <2>1, <2>3 DEF TickHolds, TypeOK, head, lifecycle, moving
    <2>4. CASE PlanHolds(l)
        <3>1. reframe' \in PlannerStates
            BY <2>4, WatchedType DEF PlanHolds, TypeOK
        <3> QED BY <2>4, <3>1, PlanType DEF PlanHolds
    <2>5. CASE PlanReframes(l) \/ PlanReturns(l) \/ PlanReachesHome(l)
        BY <2>5, PlanResult, PlanType
    <2>6. CASE LoopEnds(l)
        BY <2>6 DEF LoopEnds, TypeOK, planner, head, moving
    <2> QED BY <1>1, <2>2, <2>3, <2>4, <2>5, <2>6 DEF LoopStep
<1>2. ASSUME NEW t \in Threads, MoveStep(t) PROVE TypeOK'
    <2>1. CASE MovePlans(t)
        <3> DEFINE goal == Clamp(move[t].goal, PanMin, PanMax)
                   moves == Distance(goal, pan_angle) > Deadband
        <3>1. goal \in Angles
            BY Limits DEF TypeOK, Plans
        <3>2. PlanMove(t, goal, moves) /\ moves \in BOOLEAN
            BY <2>1 DEF MovePlans
        <3> HIDE DEF goal, moves
        <3> QED BY <3>1, <3>2, PlanMoveType
    <2>2. CASE MoveStores(t)
        <3>1. move[t].seen \in Angles
            BY DEF TypeOK, Plans
        <3> QED BY <2>2, <3>1 DEF MoveStores, TypeOK, planner, lifecycle
    <2>3. CASE MoveSuppressed(t) \/ MoveRefused(t)
        BY <2>3, FinishType DEF MoveSuppressed, MoveRefused, head, TypeOK
    <2>4. CASE MoveApplies(t)
        <3>1. move[t].goal \in Angles
            BY <2>4 DEF GoalsInLimits, MoveApplies, InMove
        <3> QED BY <2>4, <3>1 DEF MoveApplies, TypeOK, planner, lifecycle
    <2>5. CASE MoveCommits(t)
        <3>1. move[t].goal \in Angles
            BY <2>5 DEF GoalsInLimits, MoveCommits, InMove
        <3> QED BY <2>5, <3>1, FinishType DEF MoveCommits
    <2> QED BY <1>2, <2>1, <2>2, <2>3, <2>4, <2>5 DEF MoveStep
<1>3. ASSUME NEW u \in Users, UserStep(u) PROVE TypeOK'
    <2>1. CASE MoveInvalid(u)
        BY <1>0, <2>1, PlanMoveType DEF MoveInvalid, TypeOK
    <2> QED BY <1>3, <2>1, RequestType DEF UserStep
<1>4. CASE StartLoop
    <2>1. (CHOOSE k \in Loops \ alive : TRUE) \in Loops \ alive
        BY <1>4 DEF StartLoop, TypeOK
    <2> QED BY <1>4, <2>1 DEF StartLoop, TypeOK, planner, head, moving
<1>5. CASE StopLoop \/ StopReturns
    BY <1>5 DEF StopLoop, StopReturns, TypeOK, planner, head, moving
<1>6. CASE ClockTicks
    <2>1. \A n \in Ages : Smaller(n + 1, MaxAge) \in Ages
        BY NeckAssumption DEF Ages, Smaller
    <2>2. reframe' \in PlannerStates
        BY <1>6, <2>1 DEF ClockTicks, TypeOK, PlannerStates
    <2> QED BY <1>6, <2>2 DEF ClockTicks, TypeOK, head, lifecycle, moving
<1>7. CASE UNCHANGED vars
    BY <1>7 DEF TypeOK, vars, planner, head, lifecycle, moving
<1> QED BY <1>1, <1>2, <1>3, <1>4, <1>5, <1>6, <1>7 DEF Next

\* Plans are made within the limits and carried out as made.
LEMMA GoalsStep == TypeOK /\ GoalsInLimits /\ [Next]_vars => GoalsInLimits'
<1> SUFFICES ASSUME TypeOK, GoalsInLimits, [Next]_vars,
                    NEW t \in Threads, step'[t] \in InMove
             PROVE  move'[t].goal \in Angles
    BY DEF GoalsInLimits, InMove
<1> USE DEF InMove
<1>0. move \in [Threads -> Plans] /\ step \in [Threads -> Steps] /\ pan_angle \in Angles
    BY DEF TypeOK
<1>1. step[t] \in InMove => move[t].goal \in Angles
    BY DEF GoalsInLimits
<1>2. ASSUME NEW l \in Loops, LoopStep(l) PROVE move'[t].goal \in Angles
    <2>1. step[t] \in InMove /\ move'[t].goal = move[t].goal
        BY <1>0, <1>2 DEF LoopStep, TickLooks, TickHolds, PlanHolds, PlanReframes, PlanReturns,
              PlanReachesHome, Dispatch, EndTick, LoopEnds, moving, Threads
    <2> QED BY <1>1, <2>1
<1>3. ASSUME NEW o \in Threads, MoveStep(o) PROVE move'[t].goal \in Angles
    <2>1. CASE MovePlans(o) /\ o = t
        <3>1. Clamp(move[t].goal, PanMin, PanMax) \in Angles
            BY <1>0, Limits DEF Plans
        <3> QED BY <1>0, <2>1, <3>1 DEF MovePlans, PlanMove
    <2>2. CASE ~(MovePlans(o) /\ o = t)
        <3>1. step[t] \in InMove /\ move'[t].goal = move[t].goal
            BY <1>0, <1>3, <2>2 DEF MoveStep, MovePlans, PlanMove, MoveStores, MoveSuppressed,
                  MoveApplies, MoveRefused, MoveCommits, Finish
        <3> QED BY <1>1, <3>1
    <2> QED BY <2>1, <2>2
<1>4. ASSUME NEW u \in Users, UserStep(u) PROVE move'[t].goal \in Angles
    BY <1>0, <1>1, <1>4 DEF UserStep, MoveInvalid, PlanMove, Request, Threads
<1>5. CASE StartLoop \/ StopLoop \/ StopReturns \/ ClockTicks \/ UNCHANGED vars
    BY <1>1, <1>5 DEF StartLoop, StopLoop, StopReturns, ClockTicks, vars, moving
<1> QED BY <1>2, <1>3, <1>4, <1>5 DEF Next

\* Only the known thread is alive, and only a thread that is alive ticks.
LEMMA TickingStep == TypeOK /\ Ticking /\ [Next]_vars => Ticking'
<1> SUFFICES ASSUME TypeOK, Ticking, [Next]_vars PROVE Ticking'
    OBVIOUS
<1> USE DEF Ticking
<1>0. step \in [Threads -> Steps] /\ Loops \cap Users = {} /\ Loops \subseteq Threads
    BY NeckAssumption DEF TypeOK, Threads
<1>1. ASSUME NEW l \in Loops, LoopStep(l) PROVE Ticking'
    BY <1>0, <1>1 DEF LoopStep, TickLooks, TickHolds, PlanHolds, PlanReframes, PlanReturns,
          PlanReachesHome, Dispatch, EndTick, LoopEnds, lifecycle, moving
<1>2. ASSUME NEW t \in Threads, MoveStep(t) PROVE Ticking'
    BY <1>0, <1>2 DEF MoveStep, MovePlans, PlanMove, MoveStores, MoveSuppressed,
          MoveApplies, MoveRefused, MoveCommits, Finish, lifecycle
<1>3. ASSUME NEW u \in Users, UserStep(u) PROVE Ticking'
    BY <1>0, <1>3 DEF UserStep, MoveInvalid, PlanMove, Request, lifecycle
<1>4. CASE StartLoop
    BY <1>4 DEF StartLoop, moving
<1>5. CASE StopLoop \/ StopReturns
    BY <1>5 DEF StopLoop, StopReturns, moving
<1>6. CASE ClockTicks \/ UNCHANGED vars
    BY <1>6 DEF ClockTicks, vars, lifecycle, moving
<1> QED BY <1>1, <1>2, <1>3, <1>4, <1>5, <1>6 DEF Next

-----------------------------------------------------------------------------
(* Moves that do not overlap. *)

\* Steps that leave the head alone and take no thread into or out of a move.
LEMMA UndisturbedKept ==
    ASSUME Undisturbed, UNCHANGED head,
           \A t \in Threads : (step'[t] \in InMove \/ step[t] \in InMove)
                                => step'[t] = step[t] /\ move'[t] = move[t]
    PROVE  Undisturbed'
BY DEF Undisturbed, head, InMove

\* As long as no move overlaps another, the one that is made goes by the angle
\* the head is at.
LEMMA UndisturbedStep ==
    TypeOK /\ (~overlapped => Undisturbed) /\ [Next]_vars => (~overlapped' => Undisturbed')
<1> SUFFICES ASSUME TypeOK, ~overlapped => Undisturbed, [Next]_vars, ~overlapped'
             PROVE  Undisturbed'
    OBVIOUS
<1>0. /\ move \in [Threads -> Plans] /\ step \in [Threads -> Steps]
      /\ Loops \subseteq Threads /\ Users \subseteq Threads
    BY DEF TypeOK, Threads
<1>1. ~overlapped
    BY DEF Next, LoopStep, MoveStep, UserStep, TickLooks, TickHolds, PlanHolds, PlanReframes,
           PlanReturns, PlanReachesHome, Dispatch, EndTick, LoopEnds, MovePlans, PlanMove,
           MoveStores, MoveSuppressed, MoveApplies, MoveRefused, MoveCommits, Finish,
           MoveInvalid, Request, StartLoop, StopLoop, StopReturns, ClockTicks, moving, vars
<1>2. Undisturbed
    BY <1>1
<1> USE DEF InMove
<1>3. ASSUME NEW t \in Threads, NEW goal, NEW moves, PlanMove(t, goal, moves) PROVE Undisturbed'
    <2>1. \A o \in Threads : step[o] \notin InMove
        BY <1>3 DEF PlanMove
    <2> QED BY <1>0, <1>2, <1>3, <2>1 DEF PlanMove, Undisturbed, head
<1>4. ASSUME NEW l \in Loops, LoopStep(l) PROVE Undisturbed'
    BY <1>0, <1>2, <1>4, UndisturbedKept DEF LoopStep, TickLooks, TickHolds, PlanHolds,
          PlanReframes, PlanReturns, PlanReachesHome, Dispatch, EndTick, LoopEnds, moving
<1>5. ASSUME NEW t \in Threads, MoveStep(t) PROVE Undisturbed'
    <2>1. CASE MovePlans(t)
        BY <1>3, <2>1, Zenon DEF MovePlans
    <2>2. CASE MoveStores(t)
        BY <1>0, <1>2, <2>2 DEF MoveStores, Undisturbed
    <2>3. CASE MoveSuppressed(t) \/ MoveRefused(t)
        BY <1>0, <1>2, <2>3 DEF MoveSuppressed, MoveRefused, Finish, Undisturbed, head
    <2>4. CASE MoveApplies(t)
        BY <1>0, <1>2, <2>4 DEF MoveApplies, Undisturbed
    <2>5. CASE MoveCommits(t)
        BY <1>0, <1>2, <2>5 DEF MoveCommits, Finish, Undisturbed
    <2> QED BY <1>5, <2>1, <2>2, <2>3, <2>4, <2>5 DEF MoveStep
<1>6. ASSUME NEW u \in Users, UserStep(u) PROVE Undisturbed'
    <2>1. CASE MoveInvalid(u)
        BY <1>0, <1>3, <2>1, Zenon DEF MoveInvalid
    <2>2. CASE \E angle \in UserAngles : Request(u, angle)
        BY <1>0, <1>2, <2>2, UndisturbedKept DEF Request
    <2> QED BY <1>6, <2>1, <2>2 DEF UserStep
<1>7. CASE StartLoop \/ StopLoop \/ StopReturns \/ ClockTicks \/ UNCHANGED vars
    BY <1>2, <1>7, UndisturbedKept DEF StartLoop, StopLoop, StopReturns, ClockTicks,
          vars, head, moving
<1> QED BY <1>4, <1>5, <1>6, <1>7 DEF Next

-----------------------------------------------------------------------------
(* A loop that has the head to itself. *)

\* When no loop is in a tick, all that counts is where the head is.
LEMMA BetweenTicks ==
    ASSUME ~overlapped', \A u \in Users : step'[u] = "idle",
           \A l \in Loops : step'[l] = "idle",
           pan_angle' \in ReframeMin..ReframeMax,
           reframe'.phase = "cooldown" => Near(pan_angle')
    PROVE  Undivided'
BY DEF Undivided, LoopMove, InMove, Near

\* While a loop carries out its move, all that counts is that move.
LEMMA DuringMove ==
    ASSUME ~overlapped', \A u \in Users : step'[u] = "idle",
           pan_angle' \in ReframeMin..ReframeMax,
           NEW l \in Loops, step'[l] \in {"plan"} \cup InMove, LoopMove(l)',
           \A k \in Loops \ {l} : step'[k] = "idle"
    PROVE  Undivided'
BY DEF Undivided, LoopMove, InMove, Settled

\* As long as nobody else moves the head, a tick moves it as its planner says.
LEMMA UndividedStep ==
    NeckInv /\ [Next]_vars => (user_moves' = 0 => Undivided')
<1> SUFFICES ASSUME NeckInv, [Next]_vars, user_moves' = 0 PROVE Undivided'
    OBVIOUS
<1>0. /\ TypeOK /\ step \in [Threads -> Steps] /\ move \in [Threads -> Plans]
      /\ before \in [Loops -> PlannerStates] /\ reframe \in PlannerStates
      /\ Loops \subseteq Threads /\ Threads = Loops \cup Users /\ Loops \cap Users = {}
      /\ user_moves \in Nat
    BY NeckAssumption DEF NeckInv, TypeOK, Threads
<1>1. user_moves = 0
    BY <1>0 DEF Next, LoopStep, MoveStep, UserStep, TickLooks, TickHolds, PlanHolds, PlanReframes,
           PlanReturns, PlanReachesHome, Dispatch, EndTick, LoopEnds, MovePlans, PlanMove,
           MoveStores, MoveSuppressed, MoveApplies, MoveRefused, MoveCommits, Finish,
           MoveInvalid, Request, StartLoop, StopLoop, StopReturns, ClockTicks, moving, vars
<1>2. Undivided /\ Undisturbed
    BY <1>1 DEF NeckInv, Undivided
<1>3. /\ ~overlapped /\ \A u \in Users : step[u] = "idle"
      /\ pan_angle \in ReframeMin..ReframeMax /\ pan_angle \in Int
    BY <1>2, NeckAssumption DEF Undivided
<1>4. ASSUME NEW l \in Loops, l \in alive \/ step[l] # "idle",
             NEW k \in Loops \ {l}
      PROVE  step[k] = "idle"
    BY <1>4 DEF NeckInv, Ticking
<1> USE DEF InMove
<1>5. ASSUME NEW l \in Loops, LoopStep(l) PROVE Undivided'
    <2>0. (\A k \in Loops \ {l} : step[k] = "idle")
        BY <1>4, <1>5 DEF LoopStep, TickLooks, TickHolds, PlanHolds, PlanReframes,
              PlanReturns, PlanReachesHome, LoopEnds
    <2>1. CASE TickLooks(l)
        <3>1. reframe'.phase = reframe.phase /\ reframe'.current_pan_deg = pan_angle
            BY <1>0, <2>1 DEF TickLooks, PlannerStates
        <3>2. reframe.phase = "cooldown" => Near(pan_angle)
            BY <1>2, <2>0, <2>1 DEF TickLooks, Undivided, Settled
        <3> QED BY <1>0, <1>3, <2>0, <2>1, <3>1, <3>2
              DEF TickLooks, Undivided, LoopMove, head, Near
    <2>2. CASE TickHolds(l)
        <3>1. reframe'.phase = reframe.phase
            BY <1>0, <2>2 DEF TickHolds, PlannerStates
        <3>2. reframe.phase = "cooldown" => Near(pan_angle)
            BY <1>2, <2>0, <2>2 DEF TickHolds, Undivided, Settled
        <3> QED BY <1>3, <2>0, <2>2, <3>1, <3>2, BetweenTicks DEF TickHolds, moving, head
    <2>3. CASE PlanHolds(l)
        <3>1. reframe' = reframe \/ reframe'.phase = "idle"
            BY <1>0, <2>3, WatchedType DEF PlanHolds
        <3>2. reframe.phase = "cooldown" => Near(pan_angle)
            BY <1>2, <2>0, <2>3 DEF PlanHolds, Undivided, Settled
        <3> QED BY <1>0, <1>3, <2>0, <2>3, <3>1, <3>2, BetweenTicks DEF PlanHolds, EndTick, head
    <2>4. CASE PlanReframes(l) \/ PlanReturns(l) \/ PlanReachesHome(l)
        <3>1. step[l] = "look" /\ reframe.current_pan_deg = pan_angle
            BY <1>2, <2>4 DEF PlanReframes, PlanReturns, PlanReachesHome, Undivided
        <3>2. reframe.phase = "cooldown" => Near(pan_angle)
            BY <1>2, <2>0, <3>1 DEF Undivided, Settled
        <3>3. PICK after \in PlannerStates :
               /\ Dispatch(l, after) \/ (reframe' = after /\ EndTick(l)
                                           /\ reframe.current_pan_deg = Home)
               /\ after.current_pan_deg \in ReframeMin..ReframeMax
               /\ after.phase = "cooldown" => after.current_pan_deg = Home
               /\ reframe.current_pan_deg \in ReframeMin..ReframeMax
                    => OneStep(reframe.current_pan_deg, after.current_pan_deg)
            BY <1>0, <2>4, PlanResult
        <3>4. CASE Dispatch(l, after)
            <4>1. /\ move'[l].goal = after.current_pan_deg /\ step'[l] = "plan"
                  /\ before'[l] = reframe /\ reframe' = after /\ pan_angle' = pan_angle
                BY <1>0, <3>4 DEF Dispatch, head, Plans
            <4>2. LoopMove(l)'
                BY <1>3, <3>1, <3>2, <3>3, <4>1 DEF LoopMove, OneStep, Near
            <4> QED BY <1>0, <1>3, <2>0, <3>4, <4>1, <4>2, DuringMove DEF Dispatch
        <3>5. CASE EndTick(l) /\ reframe.current_pan_deg = Home
            <4>1. Near(pan_angle)
                BY <3>1, <3>5, NeckAssumption DEF Near, Distance
            <4> QED BY <1>0, <1>3, <2>0, <3>5, <4>1, BetweenTicks DEF EndTick, head
        <3> QED BY <3>3, <3>4, <3>5
    <2>5. CASE LoopEnds(l)
        <3>1. (\A k \in Loops : step[k] = "idle") /\ (reframe.phase = "cooldown" => Near(pan_angle))
            BY <1>2, <2>0, <2>5 DEF LoopEnds, Undivided, Settled
        <3> QED BY <1>3, <2>5, <3>1, BetweenTicks DEF LoopEnds, planner, head, moving
    <2> QED BY <1>5, <2>1, <2>2, <2>3, <2>4, <2>5 DEF LoopStep
<1>6. ASSUME NEW l \in Loops, MoveStep(l) PROVE Undivided'
    <2>0. (\A k \in Loops \ {l} : step[k] = "idle") /\ step[l] \in {"plan"} \cup InMove
        BY <1>4, <1>6 DEF MoveStep, MovePlans, PlanMove, MoveStores, MoveSuppressed,
              MoveApplies, MoveRefused, MoveCommits
    <2>1. /\ move[l].goal = reframe.current_pan_deg
          /\ move[l].goal \in ReframeMin..ReframeMax
          /\ reframe.phase = "cooldown" => move[l].goal = Home
          /\ OneStep(pan_angle, move[l].goal)
          /\ before[l].phase = "cooldown" => Near(pan_angle)
          /\ step[l] # "plan" /\ ~move[l].moves => Distance(move[l].goal, pan_angle) <= Deadband
        BY <1>2, <2>0 DEF Undivided, LoopMove
    <2>2. CASE MovePlans(l)
        <3>1. Clamp(move[l].goal, PanMin, PanMax) = move[l].goal
            BY <2>1, Limits
        <3>2. ~overlapped'
            BY <1>0, <1>3, <2>0, <2>2 DEF MovePlans, PlanMove
        <3> DEFINE moves == Distance(move[l].goal, pan_angle) > Deadband
        <3>3. PlanMove(l, move[l].goal, moves) /\ moves \in BOOLEAN
            BY <2>2, <3>1 DEF MovePlans
        <3>4. ~moves => Distance(move[l].goal, pan_angle) <= Deadband
            BY <1>3, <2>1, NeckAssumption DEF Distance
        <3> HIDE DEF moves
        <3>5. /\ move'[l].goal = move[l].goal /\ step'[l] = "store"
              /\ ~move'[l].moves => Distance(move[l].goal, pan_angle) <= Deadband
            BY <1>0, <3>3, <3>4 DEF PlanMove
        <3>6. pan_angle' = pan_angle /\ reframe' = reframe /\ before' = before
            BY <2>2 DEF MovePlans, PlanMove, planner, head
        <3>7. LoopMove(l)'
            BY <2>1, <3>5, <3>6 DEF LoopMove, OneStep, Near
        <3> QED BY <1>0, <1>3, <2>0, <2>2, <3>2, <3>5, <3>7, DuringMove
               DEF MovePlans, PlanMove, head
    <2>3. CASE MoveStores(l)
        <3>1. pan_angle' = pan_angle
            BY <1>0, <1>2, <2>3 DEF MoveStores, Undisturbed
        <3>2. LoopMove(l)'
            BY <1>0, <2>1, <2>3, <3>1 DEF MoveStores, planner, LoopMove, OneStep, Near
        <3> QED BY <1>0, <1>3, <2>0, <2>3, <3>1, <3>2, DuringMove DEF MoveStores
    <2>4. CASE MoveSuppressed(l)
        <3>1. reframe.phase = "cooldown" => Near(pan_angle)
            BY <2>1, <2>4 DEF MoveSuppressed, Near
        <3> QED BY <1>0, <1>3, <2>0, <2>4, <3>1, BetweenTicks DEF MoveSuppressed, Finish, head
    <2>5. CASE MoveApplies(l)
        <3>1. LoopMove(l)'
            BY <1>0, <2>1, <2>5 DEF MoveApplies, planner, LoopMove, OneStep, Near
        <3> QED BY <1>0, <1>3, <2>0, <2>5, <3>1, DuringMove DEF MoveApplies
    <2>6. CASE MoveRefused(l)
        BY <1>0, <1>3, <2>0, <2>1, <2>6, BetweenTicks DEF MoveRefused, Finish, head
    <2>7. CASE MoveCommits(l)
        <3>1. reframe.phase = "cooldown" => Near(move[l].goal)
            BY <2>1, NeckAssumption DEF Near, Distance
        <3> QED BY <1>0, <1>3, <2>0, <2>1, <2>7, <3>1, BetweenTicks DEF MoveCommits, Finish
    <2> QED BY <1>6, <2>2, <2>3, <2>4, <2>5, <2>6, <2>7 DEF MoveStep
<1>7. ASSUME NEW u \in Users, MoveStep(u) \/ UserStep(u) PROVE FALSE
    <2>1. step[u] = "idle"
        BY <1>3
    <2>2. PICK angle \in UserAngles : Request(u, angle)
        BY <1>7, <2>1 DEF MoveStep, MovePlans, PlanMove, MoveStores, MoveSuppressed,
              MoveApplies, MoveRefused, MoveCommits, UserStep, MoveInvalid
    <2> QED BY <1>1, <2>2 DEF Request
<1>8. CASE StartLoop \/ StopLoop \/ StopReturns \/ UNCHANGED vars
    BY <1>2, <1>8 DEF StartLoop, StopLoop, StopReturns, vars, planner, head, moving,
          Undivided, LoopMove, Settled, Near, OneStep
<1>9. CASE ClockTicks
    <2>1. reframe'.phase = reframe.phase
        BY <1>0, <1>9 DEF ClockTicks, PlannerStates
    <2>2. (\A k \in Loops : step[k] = "idle") /\ (reframe.phase = "cooldown" => Near(pan_angle))
        BY <1>2, <1>9 DEF ClockTicks, Undivided, Settled
    <2> QED BY <1>3, <1>9, <2>1, <2>2, BetweenTicks DEF ClockTicks, head, moving
<1> QED BY <1>0, <1>5, <1>6, <1>7, <1>8, <1>9 DEF Next

-----------------------------------------------------------------------------
(* The theorems. *)

LEMMA NeckInit == Init => NeckInv
<1> SUFFICES ASSUME Init PROVE NeckInv
    OBVIOUS
<1> USE DEF Init
<1>1. NoPlan \in Plans /\ FirstState \in PlannerStates /\ FirstState.phase = "idle"
    BY Limits, NeckAssumption
       DEF NoPlan, Plans, FirstState, PlannerStates, Phases, Ages, Directions
<1>2. TypeOK
    <2>1. servo_angle \in Angles /\ pan_angle \in Angles
        BY Limits, NeckAssumption DEF Angles
    <2> QED BY <1>1, <2>1 DEF TypeOK
<1>3. \A t \in Threads : step[t] = "idle"
    OBVIOUS
<1>4. GoalsInLimits /\ Ticking /\ Undisturbed
    BY <1>3 DEF GoalsInLimits, Ticking, Undisturbed, InMove, Threads
<1>5. Undivided
    BY <1>1, <1>3, Limits DEF Undivided, LoopMove, InMove, Threads
<1> QED BY <1>2, <1>4, <1>5 DEF NeckInv

LEMMA NeckStep == NeckInv /\ [Next]_vars => NeckInv'
BY TypeStep, GoalsStep, TickingStep, UndisturbedStep, UndividedStep DEF NeckInv

LEMMA NeckInvariance == Spec => []NeckInv
BY NeckInit, NeckStep, PTL DEF Spec

\* The state keeps its types, and both angles stay within the pan limits,
\* whatever angles move_head asks for.
THEOREM NeckTypeCorrect == Spec => []TypeOK
<1>1. NeckInv => TypeOK
    BY DEF NeckInv
<1> QED BY <1>1, NeckInvariance, PTL

\* start_neck_reframe_loop never adds a second loop to a living one, also after
\* a stop whose join timed out.
THEOREM NeverTwoLoops == Spec => []OneLoop
<1>1. NeckInv => OneLoop
    <2> SUFFICES ASSUME NeckInv PROVE Cardinality(alive) <= 1
        BY DEF OneLoop
    <2>1. alive = {} \/ alive = {thread}
        BY DEF NeckInv, Ticking
    <2>2. Cardinality({}) = 0 /\ Cardinality({thread}) = 1
        BY FS_EmptySet, FS_Singleton
    <2> QED BY <2>1, <2>2
<1> QED BY <1>1, NeckInvariance, PTL

\* As long as no two moves are handled at once, the pan state is right about the
\* head between moves.
THEOREM AngleIsBelieved == Spec => []BelievedAngle
<1>1. NeckInv => BelievedAngle
    BY DEF NeckInv, Undisturbed, BelievedAngle
<1> QED BY <1>1, NeckInvariance, PTL

\* A reframe that is over has left the head within the deadband of home, if the
\* loop had it to itself, however often the servo refused.
THEOREM HeadRestsNearHome == Spec => []RestsNearHome
<1>1. NeckInv => RestsNearHome
    BY DEF NeckInv, Undivided, RestsNearHome, Near
<1> QED BY <1>1, NeckInvariance, PTL

\* The loop alone never swings the head by more than a step of its planner.
THEOREM LoopTakesSmallSteps == Spec => SmallSteps
<1> DEFINE Swing == commanded /\ user_moves = 0
                      => OneStep(servo_angle, servo_angle')
<1>1. NeckInv /\ [Next]_vars => [Swing]_vars
    <2> SUFFICES ASSUME NeckInv, [Next]_vars, commanded, user_moves = 0
                 PROVE  OneStep(servo_angle, servo_angle')
        OBVIOUS
    <2>1. TypeOK /\ Undivided /\ Undisturbed
        BY DEF NeckInv, Undivided
    <2>2. CASE servo_angle' = servo_angle
        BY <2>1, <2>2, Limits, NeckAssumption DEF TypeOK, OneStep, Distance
    <2>3. ASSUME NEW t \in Threads, MoveApplies(t)
          PROVE  OneStep(servo_angle, servo_angle')
        <3>1. t \in Loops
            BY <2>1, <2>3 DEF Undivided, MoveApplies, Threads
        <3>2. OneStep(pan_angle, move[t].goal)
            BY <2>1, <2>3, <3>1 DEF Undivided, LoopMove, MoveApplies, InMove
        <3>3. pan_angle = servo_angle
            BY <2>1, <2>3 DEF Undisturbed, MoveApplies, InMove
        <3> QED BY <2>3, <3>2, <3>3 DEF MoveApplies
    <2>4. servo_angle' = servo_angle \/ \E t \in Threads : MoveApplies(t)
        BY DEF Next, LoopStep, MoveStep, UserStep, TickLooks, TickHolds, PlanHolds, PlanReframes,
               PlanReturns, PlanReachesHome, Dispatch, EndTick, LoopEnds, MovePlans, PlanMove,
               MoveStores, MoveSuppressed, MoveRefused, MoveCommits, Finish,
               MoveInvalid, Request, StartLoop, StopLoop, StopReturns, ClockTicks, head, vars
    <2> QED BY <2>2, <2>3, <2>4
<1>2. Spec => [][Swing]_vars
    BY <1>1, NeckInvariance, PTL DEF Spec
<1> QED BY <1>2, PTL DEF SmallSteps, OneStep
=============================================================================
