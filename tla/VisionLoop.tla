------------------------------ MODULE VisionLoop ------------------------------
(***************************************************************************)
(* eye/vision_loop.py, the process that polls camera and detector, with    *)
(* what its poll runs through (eye/adapters.py, eye/realtime.py, the       *)
(* evidence writer of eye/gstreamer.py), the state file it leaves, and the *)
(* request in another process that reads it (runtime/native_services.py),  *)
(* lets it pass (runtime/app.py) and says how healthy the eye is           *)
(* (monitoring/realtime_vision.py).                                        *)
(*                                                                         *)
(* Nothing but the file connects the two.  Every step may take any time:   *)
(* a sample is waited for, a face is matched, a sighting is posted.        *)
(***************************************************************************)
EXTENDS Integers

CONSTANTS max_frame_age_s,  \* of the pipeline
          max_age_s,        \* of the reader
          realtime_vision_max_age_seconds,   \* of the runtime application
          min_interval_s,   \* of the evidence writer
          MaxTime,          \* bound: ticks of the clock
          None,
          Throttled,        \* evidence that says only that there was some
          Torn              \* half of a state file

VARIABLES now,
          pc,
          updated_at,      \* updated_at_ts of the pass
          last_frame,      \* whether the pipeline has a _last_frame
          status,          \* of the poll: its status and the frame it is about
          evidence,        \* _last_evidence: when its face crops were cut
          last_export_at,  \* of the evidence writer
          kept_frame,      \* whether it has a _last_frame_evidence
          identities,      \* last_identity_observations: when their crops were cut
          tmp, file,       \* the state file, and the one it is written to first
          held             \* what a request has read and not yet judged

pipeline == <<last_frame, last_export_at, kept_frame>>
vars == <<now, pc, updated_at, pipeline, status, evidence, identities,
          tmp, file, held>>

Times == 1 .. MaxTime
Instants == Times \cup {None}
Statuses == {"ok", "stale", "waiting_for_frame", "not_wired", "degraded"}
Payload == [status : Statuses, frame : Instants, identities : Instants, updated_at : Times]

\* What is assumed of the constants.
VisionAssumption ==
    /\ {max_frame_age_s, max_age_s, realtime_vision_max_age_seconds, min_interval_s, MaxTime}
           \subseteq Nat \ {0}
    /\ {None, Throttled} \cap Nat = {} /\ None # Throttled
    /\ None # Torn /\ Torn \notin Payload

TypeOK ==
    /\ now \in Times
    /\ pc \in {"down", "top", "poll", "frame", "matching", "building", "replacing"}
    /\ updated_at \in Instants
    /\ last_frame \in BOOLEAN /\ last_export_at \in Instants /\ kept_frame \in BOOLEAN
    /\ status \in [status : Statuses, frame : Instants]
    /\ evidence \in Instants \cup {Throttled} /\ identities \in Instants
    /\ {tmp, file, held} \subseteq Payload \cup {None, Torn}

Status(s, f) == [status |-> s, frame |-> f]
NoStatus == Status("waiting_for_frame", None)

\* What a process starts with.
Fresh(stage) ==
    /\ pc' = stage /\ updated_at' = None /\ status' = NoStatus
    /\ last_frame' = FALSE /\ last_export_at' = None /\ kept_frame' = FALSE
    /\ evidence' = None /\ identities' = None /\ tmp' = None

Init ==
    /\ now = 1 /\ pc = "down" /\ updated_at = None /\ status = NoStatus
    /\ last_frame = FALSE /\ last_export_at = None /\ kept_frame = FALSE
    /\ evidence = None /\ identities = None
    /\ tmp = None /\ file = None /\ held = None

outside == <<file, held, now>>

-----------------------------------------------------------------------------

Start == pc = "down" /\ Fresh("top") /\ UNCHANGED outside

\* The process ends: by a signal, which is seen between two passes, by a match or
\* a write that raises, or by a crash in any step.
End == pc # "down" /\ Fresh("down") /\ UNCHANGED outside

BeginPass ==
    /\ pc = "top"
    /\ updated_at' = now /\ pc' = "poll"
    /\ UNCHANGED <<pipeline, status, evidence, identities, tmp, outside>>

\* _record_evidence and export: of the pipeline's last frame, new or not.  Too soon
\* after the last export it is only said that there was one; else a picture or face
\* crops or neither come of it, and a failed write leaves nothing.
Export ==
    IF last_export_at # None /\ now - last_export_at < min_interval_s
    THEN /\ evidence' = IF kept_frame THEN Throttled ELSE None
         /\ UNCHANGED <<last_export_at, kept_frame>>
    ELSE \/ /\ evidence' = None
            /\ UNCHANGED <<last_export_at, kept_frame>>
         \/ \E picture, crops \in BOOLEAN :
                /\ picture \/ crops
                /\ evidence' = IF crops THEN now ELSE None
                /\ last_export_at' = now
                /\ kept_frame' = (kept_frame \/ picture)

PollEnds(s) == status' = s /\ pc' = "matching"

\* A device is missing, or the reader, the detector or a conversion raises: the
\* evidence of the last poll that did not fail stays.
PollFails ==
    /\ pc \in {"poll", "frame"}
    /\ \E s \in {"not_wired", "degraded"} :
           /\ s = "not_wired" => pc = "poll"
           /\ PollEnds(Status(s, None))
    /\ UNCHANGED <<updated_at, pipeline, evidence, identities, tmp, outside>>

PollFindsNoFrame ==
    /\ pc = "poll"
    /\ IF ~last_frame THEN evidence' = None /\ UNCHANGED <<last_export_at, kept_frame>>
       ELSE Export
    /\ PollEnds(NoStatus)
    /\ UNCHANGED <<updated_at, last_frame, identities, tmp, outside>>

\* A sample is pulled and stamped; the detector still has to look at it.
PullFrame ==
    /\ pc = "poll"
    /\ pc' = "frame" /\ status' = Status("ok", now)
    /\ UNCHANGED <<updated_at, pipeline, evidence, identities, tmp, outside>>

Stale(frame) == now - frame > max_frame_age_s

\* The detector has looked: _build_status, unless a device vanished meanwhile.
PollSees ==
    /\ pc = "frame"
    /\ last_frame' = TRUE
    /\ \/ PollEnds(Status(IF Stale(status.frame) THEN "stale" ELSE "ok", status.frame))
       \/ ~Stale(status.frame) /\ PollEnds(Status("not_wired", status.frame))
    /\ Export
    /\ UNCHANGED <<updated_at, identities, tmp, outside>>

\* _identity_observations_from_evidence: crops are matched, whatever the poll's
\* status; throttled evidence stands for the observations of the pass before.
MatchIdentities ==
    /\ pc = "matching" /\ pc' = "building"
    /\ identities' = IF evidence = Throttled THEN identities ELSE evidence
    /\ UNCHANGED <<updated_at, pipeline, status, evidence, tmp, outside>>

\* Slip: the payload is stamped when it is built.
StampedLate == [status |-> status.status, frame |-> status.frame,
                identities |-> identities, updated_at |-> now]

built == [status |-> status.status, frame |-> status.frame,
          identities |-> identities, updated_at |-> updated_at]

\* write_vision_state: beside the state file first.
WriteBeside == tmp' = built /\ UNCHANGED file

Write ==
    /\ pc = "building" /\ pc' = "replacing"
    /\ WriteBeside
    /\ UNCHANGED <<updated_at, pipeline, status, evidence, identities, held, now>>

Replace ==
    /\ pc = "replacing" /\ pc' = "top"
    /\ file' = tmp /\ tmp' = None
    /\ updated_at' = None /\ status' = NoStatus
    /\ UNCHANGED <<pipeline, evidence, identities, held, now>>

-----------------------------------------------------------------------------

writer == <<pc, updated_at, pipeline, status, evidence, identities, tmp, file>>

\* StateFileEyeAdapter._read: the text, then the clock.  (Until there is a file, the
\* answer is that it is missing.)
ReadFile ==
    /\ held = None /\ file # None
    /\ held' = file
    /\ UNCHANGED <<writer, now>>

Old(payload) == now - payload.updated_at > max_age_s

\* The status that is made of a payload at this moment.
Judged(payload) ==
    IF payload = Torn \/ Old(payload)
    THEN [status |-> "degraded", frame |-> None, identities |-> None]
    ELSE [status |-> payload.status, frame |-> payload.frame, identities |-> payload.identities]

\* _is_realtime_vision_payload: what is not wired, or has a picture too old for the
\* time of the request, which vision_realtime takes before it asks, is not passed on.
PassedOn(shown, asked) ==
    /\ shown.status # "not_wired"
    /\ shown.frame # None => asked - shown.frame <= realtime_vision_max_age_seconds

\* health_state of the monitor: a stream that is not ready is degraded.
health_state(payload, asked) ==
    LET shown == Judged(payload) IN
    IF ~PassedOn(shown, asked) THEN "offline"
    ELSE CASE shown.status = "ok" -> "healthy"
           [] shown.status = "stale" -> "stale"
           [] OTHER -> "degraded"

Answer ==
    /\ held # None
    /\ held' = None
    /\ UNCHANGED <<writer, now>>

Tick == now < MaxTime /\ now' = now + 1 /\ UNCHANGED <<writer, held>>

Next ==
    \/ Start \/ End \/ BeginPass
    \/ PollFails \/ PollFindsNoFrame \/ PullFrame \/ PollSees
    \/ MatchIdentities \/ Write \/ Replace
    \/ ReadFile \/ Answer \/ Tick

Spec == Init /\ [][Next]_vars

-----------------------------------------------------------------------------

\* The eye is only called healthy with a picture taken at most max_age_s ago, however
\* long detection, matching, posting and reading took, whenever the request came, and
\* even when the writer has died since.
HealthyMeansRecent ==
    held # None => \A asked \in 1 .. now :
        health_state(held, asked) = "healthy" => now - held.frame <= max_age_s

\* The people shown with a picture, or while one is waited for, were cut from a
\* sample within the throttle interval and the reader's limit.  A poll that fails
\* shows those of the last one that did not, for as long as it fails.
PeopleAreRecent ==
    held # None => LET shown == Judged(held) IN
        shown.status \notin {"degraded", "not_wired"} /\ shown.identities # None
            => now - shown.identities < max_age_s + min_interval_s

\* Once there is a state file it can be read, wherever its writer ends.
NeverTorn == held # Torn
=============================================================================
