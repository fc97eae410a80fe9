----------------------------- MODULE HeadActions -----------------------------
(***************************************************************************)
(* runtime/app.py: how HeadRuntimeApp handles the events and actions of    *)
(* concurrent requests when a body runtime or a voice runtime carries them *)
(* out, and runtime/event_journal.py, the journal of what became of them.  *)
(* A head with a servo of its own is NeckReframe's.                        *)
(*                                                                         *)
(* Only the journal has a lock, and only around its deque: a move is       *)
(* compared, carried out and remembered in three steps, and an event gets  *)
(* its time before it gets its place in the journal.                       *)
(***************************************************************************)
EXTENDS Naturals, Sequences

CONSTANTS Callers,      \* the threads of requests
          TargetAngles, \* the target angles asked for
          ptz_min_angle_delta,
          max_items,    \* of the journal
          MaxEvents,    \* bound: requests that come in
          None

\* What is assumed of the constants.
ActionsAssumption ==
    /\ TargetAngles \subseteq Nat /\ None \notin Nat \cup Callers
    /\ {ptz_min_angle_delta, MaxEvents} \subseteq Nat /\ max_items \in Nat \ {0}

VARIABLES body,          \* what body_runtime can do, for good
          voice,         \* the voice_runtime, for good
          step,          \* of each thread
          request,       \* of each thread: its kind, and a move's angle
          outcome,       \* of each thread: status and success of its request
          journalled,    \* of each thread: whether its request is an event
          ptz_last_target_angle,
          head,          \* where the body has turned the head
          records,       \* _records: whether accepted, and when
          now,           \* the clock: how many requests have come in
          stamp,         \* of each thread: the time of the record it will append
          raised,        \* history: a body or voice runtime raised
          overlapped,    \* history: a move was compared while another was under way
          far,           \* history: a move was suppressed that was not a small one
          crowded        \* history: two events were journalled at once

setup == <<body, voice>>
handler == <<step, request, outcome, journalled, stamp>>
ptz == <<ptz_last_target_angle, head>>
history == <<raised, overlapped, far, crowded>>
vars == <<setup, handler, ptz, records, now, history>>

Abilities == {"dispatch_actions", "capture_frame", "latest_visual_frame_path"}
\* Kinds of events that are not about an action ("not_routed": invalid, or of a name or
\* route nobody supports), and of actions.
Events == {"not_routed", "diagnostic"}
Actions == {"speak", "speak_nothing", "stop_speech", "capture_frame", "unsupported_action"}
Moves == [kind : {"move_head"}, angle : TargetAngles]
Requests == [kind : Events \cup Actions, angle : {None}] \cup Moves
Statuses == {"not_processed", "recorded", "accepted", "skipped", "unsupported", "not_wired",
             "not_supported", "stopped", "error"}
Outcomes == [status : Statuses, success : BOOLEAN]

TypeOK ==
    /\ body \subseteq Abilities /\ voice \in {None, "native", "openclaw"}
    /\ step \in [Callers -> {"idle", "handle", "dispatch", "commit", "stamp", "append"}]
    /\ request \in [Callers -> Requests \cup {None}]
    /\ outcome \in [Callers -> Outcomes \cup {None}]
    /\ journalled \in [Callers -> BOOLEAN]
    /\ ptz_last_target_angle \in TargetAngles \cup {None} /\ head \in TargetAngles \cup {None}
    /\ Len(records) <= max_items
    /\ \A i \in DOMAIN records :
        records[i] \in [accepted : BOOLEAN, captured_at_ts : 0 .. now]
    /\ now \in 0 .. MaxEvents /\ stamp \in [Callers -> 0 .. now]
    /\ {raised, overlapped, far, crowded} \subseteq BOOLEAN

Init ==
    /\ body \in {{}, {"dispatch_actions", "capture_frame"},
                 {"dispatch_actions", "latest_visual_frame_path"}}
    /\ voice \in IF body = {} THEN {None, "native", "openclaw"} ELSE {None}
    /\ step = [c \in Callers |-> "idle"] /\ request = [c \in Callers |-> None]
    /\ outcome = [c \in Callers |-> None] /\ journalled = [c \in Callers |-> FALSE]
    /\ ptz_last_target_angle = None /\ head = None
    /\ records = <<>> /\ now = 0 /\ stamp = [c \in Callers |-> 0]
    /\ raised = FALSE /\ overlapped = FALSE /\ far = FALSE /\ crowded = FALSE

Goto(c, place) == step' = [step EXCEPT ![c] = place]

Result(status, success) == [status |-> status, success |-> success]

\* The handler is done with `result`: an event is journalled, an action answered.
Ends(c, result) ==
    /\ outcome' = [outcome EXCEPT ![c] = IF journalled[c] THEN result ELSE None]
    /\ Goto(c, IF journalled[c] THEN "stamp" ELSE "idle")
    /\ request' = [request EXCEPT ![c] = None]
    /\ UNCHANGED <<journalled, stamp>>

-----------------------------------------------------------------------------

\* handle_event or handle_action is called; what is not an action is only an event.
Receive(c) ==
    /\ step[c] = "idle" /\ now < MaxEvents
    /\ now' = now + 1
    /\ \E r \in Requests, event \in BOOLEAN :
           /\ r.kind \in Events => event
           /\ request' = [request EXCEPT ![c] = r]
           /\ journalled' = [journalled EXCEPT ![c] = event]
    /\ Goto(c, "handle")
    /\ UNCHANGED <<setup, outcome, stamp, ptz, records, history>>

\* classify_event, and the actions that end without a body or voice runtime.
Refused(kind) ==
    CASE kind = "not_routed" -> Result("not_processed", FALSE)
      [] kind = "diagnostic" -> Result("recorded", TRUE)
      [] kind = "speak_nothing" -> Result("skipped", FALSE)
      [] kind = "unsupported_action" -> Result("unsupported", FALSE)

Refuse(c) ==
    /\ step[c] = "handle"
    /\ request[c].kind \in Events \cup {"speak_nothing", "unsupported_action"}
    /\ Ends(c, Refused(request[c].kind))
    /\ UNCHANGED <<setup, ptz, records, now, history>>

Distance(a, b) == IF a < b THEN b - a ELSE a - b

\* _maybe_suppress_ptz_jitter, of a move.
Jitter(angle) ==
    /\ ptz_last_target_angle # None /\ ptz_min_angle_delta > 0
    /\ Distance(angle, ptz_last_target_angle) <= ptz_min_angle_delta

\* Another thread has compared its move and not yet remembered it.
Crossed == \E d \in Callers : step[d] \in {"dispatch", "commit"} /\ request[d] \in Moves

Suppress(c) ==
    /\ step[c] = "handle" /\ request[c] \in Moves
    /\ Jitter(request[c].angle)
    /\ Ends(c, Result("skipped", FALSE))
    /\ far' = (far \/ head = None \/ Distance(request[c].angle, head) > ptz_min_angle_delta)
    /\ overlapped' = (overlapped \/ Crossed)
    /\ UNCHANGED <<setup, ptz, records, now, raised, crowded>>

Begin(c) ==
    /\ step[c] = "handle"
    /\ request[c] \in Moves => ~Jitter(request[c].angle)
    /\ request[c].kind \in {"move_head", "speak", "stop_speech", "capture_frame"}
    /\ Goto(c, "dispatch")
    /\ overlapped' = (overlapped \/ (request[c] \in Moves /\ Crossed))
    /\ UNCHANGED <<setup, request, outcome, journalled, stamp, ptz, records, now, raised, far, crowded>>

\* The body is asked.  It may do nothing, and it may raise before or after it moved.
Dispatch(c) ==
    LET r == request[c] IN
    /\ step[c] = "dispatch" /\ r.kind # "capture_frame" /\ "dispatch_actions" \in body
    /\ \/ /\ outcome' = [outcome EXCEPT ![c] = Result("accepted", TRUE)]
          /\ head' = (IF r \in Moves THEN r.angle ELSE head) /\ UNCHANGED raised
       \/ /\ outcome' = [outcome EXCEPT ![c] = Result("skipped", FALSE)]
          /\ UNCHANGED <<head, raised>>
       \/ /\ outcome' = [outcome EXCEPT ![c] = Result("error", FALSE)]
          /\ head' \in (IF r \in Moves THEN {head, r.angle} ELSE {head}) /\ raised' = TRUE
    /\ Goto(c, "commit")
    /\ UNCHANGED <<setup, request, journalled, stamp, ptz_last_target_angle, records, now,
                   overlapped, far, crowded>>

\* Slip: the angle is remembered whatever became of the move.
CommitAnyway(c) ==
    /\ step[c] = "commit"
    /\ ptz_last_target_angle' = IF request[c] \in Moves THEN request[c].angle
                                ELSE ptz_last_target_angle
    /\ Ends(c, outcome[c])
    /\ UNCHANGED <<setup, head, records, now, history>>

\* An accepted move is what the next one is compared with.
Commit(c) ==
    /\ step[c] = "commit"
    /\ ptz_last_target_angle' = IF request[c] \in Moves /\ outcome[c].success
                                THEN request[c].angle ELSE ptz_last_target_angle
    /\ Ends(c, outcome[c])
    /\ UNCHANGED <<setup, head, records, now, history>>

\* _handle_native_voice_action: what the voice runtime answers when there is no body.
VoiceAnswers(kind) ==
    CASE kind = "move_head" \/ voice = None -> {Result("not_wired", FALSE)}
      [] kind = "speak" /\ voice = "openclaw" -> {Result("not_supported", FALSE)}
      [] kind = "speak" /\ voice = "native" -> {Result("accepted", TRUE), Result("error", FALSE)}
      [] kind = "stop_speech" /\ voice # None -> {Result("stopped", TRUE)}

UseVoice(c) ==
    LET kind == request[c].kind IN
    /\ step[c] = "dispatch" /\ kind # "capture_frame" /\ "dispatch_actions" \notin body
    /\ \/ \E answer \in VoiceAnswers(kind) : Ends(c, answer) /\ UNCHANGED raised
       \/ /\ kind # "move_head" /\ voice # None
          /\ Ends(c, Result("error", FALSE)) /\ raised' = TRUE
    /\ UNCHANGED <<setup, ptz, records, now, overlapped, far, crowded>>

\* _capture_frame_outcome
CaptureFrame(c) ==
    /\ step[c] = "dispatch" /\ request[c].kind = "capture_frame"
    /\ \/ /\ body \cap {"capture_frame", "latest_visual_frame_path"} = {}
          /\ Ends(c, Result("not_wired", FALSE))
       \/ /\ body \cap {"capture_frame", "latest_visual_frame_path"} # {}
          /\ Ends(c, Result("accepted", TRUE))
       \/ "capture_frame" \in body /\ Ends(c, Result("error", FALSE))
       \/ "latest_visual_frame_path" \in body /\ Ends(c, Result("skipped", FALSE))
    /\ UNCHANGED <<setup, ptz, records, now, history>>

\* latest_visual_frame_path raises, which nobody catches: nothing is journalled.
Raises(c) ==
    /\ step[c] = "dispatch" /\ request[c].kind = "capture_frame"
    /\ "latest_visual_frame_path" \in body
    /\ Goto(c, "idle") /\ raised' = TRUE
    /\ request' = [request EXCEPT ![c] = None]
    /\ journalled' = [journalled EXCEPT ![c] = FALSE]
    /\ UNCHANGED <<setup, outcome, stamp, ptz, records, now, overlapped, far, crowded>>

-----------------------------------------------------------------------------
(* EventJournal.append *)

\* The record is made ...
Stamp(c) ==
    /\ step[c] = "stamp"
    /\ stamp' = [stamp EXCEPT ![c] = now]
    /\ Goto(c, "append")
    /\ crowded' = (crowded \/ \E d \in Callers : step[d] = "append")
    /\ UNCHANGED <<setup, request, outcome, journalled, ptz, records, now, raised,
                   overlapped, far>>

Record(c) == [accepted |-> outcome[c].status = "accepted" \/ outcome[c].success,
              captured_at_ts |-> stamp[c]]

\* Slip: the deque has no limit.
AppendedUnbounded(record) == Append(records, record)

\* A deque of max_items.
Appended(record) ==
    IF Len(records) = max_items THEN Append(Tail(records), record)
    ELSE Append(records, record)

\* ... and, under the lock, appended.
AppendRecord(c) ==
    /\ step[c] = "append"
    /\ records' = Appended(Record(c))
    /\ Goto(c, "idle")
    /\ outcome' = [outcome EXCEPT ![c] = None]
    /\ stamp' = [stamp EXCEPT ![c] = 0]
    /\ journalled' = [journalled EXCEPT ![c] = FALSE]
    /\ UNCHANGED <<setup, request, ptz, now, history>>

Next ==
    \E c \in Callers :
        \/ Receive(c) \/ Refuse(c) \/ Suppress(c) \/ Begin(c)
        \/ Dispatch(c) \/ Commit(c) \/ UseVoice(c) \/ CaptureFrame(c) \/ Raises(c)
        \/ Stamp(c) \/ AppendRecord(c)

Spec == Init /\ [][Next]_vars

-----------------------------------------------------------------------------

\* A move is only dismissed as jitter when the head is already that near to it, as long
\* as no two moves overlap and the body does not raise in the middle of one.
SuppressedIsNear == far => overlapped \/ raised

\* The journal is in the order of its times, also once it drops old records, as long
\* as no two threads journal at once; then one may overtake the other.
ChronologicalUnlessCrowded ==
    ~crowded =>
        \A i, j \in DOMAIN records :
            i < j => records[i].captured_at_ts <= records[j].captured_at_ts
=============================================================================
