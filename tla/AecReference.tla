---------------------------- MODULE AecReference ----------------------------
(***************************************************************************)
(* eivoice_runtime/aec.py: the buffer of what was played                   *)
(* (LoopbackReferenceBuffer), the search in it for what a captured frame   *)
(* may be the echo of, and what NoOpAcousticFrontend says about it.  The   *)
(* frontend changes no sound.                                              *)
(*                                                                         *)
(* Times are ages in ticks of frame_ms / FrameTicks.                       *)
(***************************************************************************)
EXTENDS Integers, SequencesExt

CONSTANTS FrameTicks,   \* frame_ms
          max_age,      \* max_age_ms
          capacity,     \* capacity_ms
          MaxDelay,     \* bound: how old a captured frame is when it is processed
          Numbers,      \* bound: the sequence numbers of frames, which may recur
          None

\* What is assumed of the constants: the buffer holds a frame more than is looked for.
AecAssumption ==
    /\ {FrameTicks, capacity} \subseteq Nat \ {0} /\ {max_age, MaxDelay} \subseteq Nat
    /\ capacity >= max_age + MaxDelay + FrameTicks
    /\ None \notin Numbers /\ None \notin [age : Int, matched_by : {"sequence", "time"}]

VARIABLES frames,     \* _frames: sequence number and age
          played,     \* history: every frame that is not too old for any capture
          capture,    \* the last one: its number, its age, and whether it was processed
                      \* with a reference of the caller's
          health      \* what was said about it, until something else happens: state, age of
                      \* the reference, matched_by

vars == <<frames, played, capture, health>>

\* Beyond this age all frames are alike.
Old == max_age + MaxDelay + 1
Frames == [sequence : Numbers, age : 0 .. Old]
States == {"aec_unavailable", "passthrough", "missing", "stale", "ready"}

max_frames == (capacity + FrameTicks - 1) \div FrameTicks

TypeOK ==
    /\ Len(frames) <= max_frames /\ Range(frames) \subseteq Frames
    /\ played \subseteq Frames
    /\ capture \in [sequence : Numbers, age : 0 .. MaxDelay, explicit : BOOLEAN] \cup {None}
    /\ health = None \/ health.state \in States

Init ==
    /\ frames = <<>> /\ played = {} /\ capture = None /\ health = None

-----------------------------------------------------------------------------

\* The deque after its oldest have made room.
Kept(all) == IF Len(all) > max_frames THEN Tail(all) ELSE all

\* write_playback, by a player that plays no faster than it is heard.
WritePlayback ==
    /\ \A f \in Range(frames) : f.age >= FrameTicks
    /\ \E n \in Numbers :
        /\ frames' = Kept(Append(frames, [sequence |-> n, age |-> 0]))
        /\ played' = played \cup {[sequence |-> n, age |-> 0]}
        /\ capture' = None /\ health' = None

\* _reference_age_ms, of a frame and a capture
ReferenceAge(c, frame) == frame.age - c.age
Usable(c, frame) == ReferenceAge(c, frame) \in 0 .. max_age

Match(c, frame, how) == [age |-> ReferenceAge(c, frame), matched_by |-> how]

\* reference_for_capture: the newest of that number that can be it, else the nearest.
ReferenceFor(c) ==
    LET usable == {i \in DOMAIN frames : Usable(c, frames[i])}
        same == {i \in usable : frames[i].sequence = c.sequence}
    IN  IF same # {} THEN Match(c, frames[Max(same)], "sequence")
        ELSE IF usable # {} THEN Match(c, frames[Max(usable)], "time")
        ELSE None

Switch == {"off", "unavailable", "on"}

\* build_loopback_reference_diagnostics
Health(aec, loopback, match) ==
    CASE aec = "unavailable" -> "aec_unavailable"
      [] aec = "off" \/ (aec = "on" /\ loopback = "off") -> "passthrough"
      [] aec = "on" /\ loopback # "off" /\ (loopback = "unavailable" \/ match = None) -> "missing"
      [] OTHER -> IF match.age > max_age THEN "stale" ELSE "ready"

\* process_capture, with any configuration.  The caller may bring a reference of any age.
\* It changes nothing that the next one reads, so one at a time is enough.
ProcessCapture ==
    /\ capture = None
    /\ \E n \in Numbers, age \in 0 .. MaxDelay, explicit \in BOOLEAN, aec, loopback \in Switch :
        LET c == [sequence |-> n, age |-> age, explicit |-> explicit] IN
        /\ capture' = c
        /\ \E match \in IF explicit
                        THEN {[age |-> a, matched_by |-> "explicit"] : a \in {-1, 0, max_age + 1}}
                        ELSE {ReferenceFor(c)} :
               health' = [state |-> Health(aec, loopback, match), match |-> match]
        /\ UNCHANGED <<frames, played>>

Older(frame) == [frame EXCEPT !.age = IF @ = Old THEN Old ELSE @ + 1]

Tick ==
    /\ frames' = [i \in DOMAIN frames |-> Older(frames[i])]
    /\ played' = {Older(f) : f \in {g \in played : g.age < Old - 1}}
    /\ capture' = None /\ health' = None

Next == WritePlayback \/ ProcessCapture \/ Tick

Spec == Init /\ [][Next]_vars

-----------------------------------------------------------------------------

Echoes == {f \in played : Usable(capture, f)}

\* What was played while it could still be heard is found, by its number if it has the one
\* of the capture, and nothing else is.
EchoIsFound ==
    health # None /\ ~capture.explicit =>
        /\ health.match = None <=> Echoes = {}
        /\ health.match # None =>
              /\ health.match.age \in {ReferenceAge(capture, f) : f \in Echoes}
              /\ health.match.matched_by = "sequence" <=>
                    \E f \in Echoes : f.sequence = capture.sequence
=============================================================================
