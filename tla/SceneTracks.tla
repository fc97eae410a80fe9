----------------------------- MODULE SceneTracks -----------------------------
(***************************************************************************)
(* eye/scene.py: RealtimeVisionSceneBridge, and the tracker it has when    *)
(* the full one is not installed (_FallbackRealtimeVisionSimulator).       *)
(*                                                                         *)
(* A frame is a sequence of detections, a detection a label and a place.   *)
(* Places lie on one line through the picture, in tenths of its width.     *)
(* What a result says beside tracks and events (modalities, confidences,   *)
(* summaries, the target of attention) follows from these and is left out. *)
(***************************************************************************)
EXTENDS Integers, Sequences, FiniteSets

CONSTANTS Labels, Places,
          match_distance, move_threshold, max_missing_frames,
          MaxDetections,   \* bound: detections in a frame
          MaxTracks        \* bound: tracks of a label in a behaviour

\* What is assumed of the constants.
SceneAssumption ==
    /\ Places \subseteq 0 .. 10
    /\ {match_distance, move_threshold, max_missing_frames, MaxDetections, MaxTracks} \subseteq Nat

VARIABLES tracks,     \* _tracks: where each was last seen, and the frames since
          next_ids,   \* _next_ids: the last number given out for each label
          objects,    \* of the last result: the tracks in it
          told        \* history: the region of each track as the events tell it

vars == <<tracks, next_ids, objects, told>>

Regions == {"left", "center", "right"}
TrackIds == Labels \X (1 .. MaxTracks)
Detection == [label : Labels, place : Places]
Frames == UNION {[1 .. n -> Detection] : n \in 0 .. MaxDetections}

TypeOK ==
    /\ DOMAIN tracks \subseteq TrackIds
    /\ \A t \in DOMAIN tracks :
           tracks[t] \in [place : Places, missing_frames : 0 .. max_missing_frames]
    /\ next_ids \in [Labels -> 0 .. MaxTracks]
    /\ objects \subseteq DOMAIN tracks
    /\ DOMAIN told \subseteq TrackIds /\ \A t \in DOMAIN told : told[t] \in Regions

Init == tracks = <<>> /\ next_ids = [l \in Labels |-> 0] /\ objects = {} /\ told = <<>>

Distance(a, b) == IF a < b THEN b - a ELSE a - b

\* The thirds are taken at 0.33 and 0.66.
Region(place) == IF place < 4 THEN "left" ELSE IF place < 7 THEN "center" ELSE "right"

-----------------------------------------------------------------------------

\* The pairs of a detection and a track near enough to be one, nearest first, then
\* in the order of detections, then of tracks.
Pair(frame, i, t) ==
    [distance |-> Distance(frame[i].place, tracks[t].place), detection |-> i, track |-> t]
Candidates(frame) ==
    {c \in {Pair(frame, i, t) : i \in DOMAIN frame, t \in DOMAIN tracks} :
        /\ frame[c.detection].label = c.track[1]
        /\ c.distance <= match_distance}

Before(c, d) ==
    \/ c.distance < d.distance
    \/ c.distance = d.distance /\ c.detection < d.detection
    \/ c.distance = d.distance /\ c.detection = d.detection /\ c.track[2] < d.track[2]

Rivals(c, d) == c # d /\ (c.detection = d.detection \/ c.track = d.track)

\* _match: they are gone through in this order, and a pair is taken unless one that shares
\* its detection or its track was taken before it.
Match(frame) ==
    LET candidates == Candidates(frame)
        taken[c \in candidates] ==
            \A d \in candidates : Rivals(c, d) /\ Before(d, c) => ~taken[d]
    IN  {c \in candidates : taken[c]}

\* Slip: something has moved only when it has moved far.
MovedFar(from, to) == Distance(from, to) >= move_threshold

Moved(from, to) == Distance(from, to) >= move_threshold \/ Region(from) # Region(to)

Event(type, t, to) == [type |-> type, track |-> t, to |-> to]

\* What the events of a result say of where the tracks are.
Retold(events) ==
    LET gone == {e.track : e \in {v \in events : v.type = "disappeared"}}
        news == {e \in events : e.type # "disappeared"}
    IN  [t \in (DOMAIN told \cup {e.track : e \in news}) \ gone |->
            IF \E e \in news : e.track = t THEN (CHOOSE e \in news : e.track = t).to
            ELSE told[t]]

\* update with a live observation: matched tracks follow their detections, the other
\* detections begin tracks, the other tracks are missed once more.  An observation
\* that is waiting for a frame, or degraded, counts as live and as an empty frame.
Update(frame) ==
    LET match == Match(frame)
        unmatched == DOMAIN frame \ {c.detection : c \in match}
        new == [i \in unmatched |->
                   LET l == frame[i].label
                   IN  <<l, next_ids[l] + Cardinality({j \in unmatched : j <= i /\ frame[j].label = l})>>]
        begun == {new[i] : i \in unmatched}
        followed == {c.track : c \in match}
        missed == DOMAIN tracks \ followed
        lost == {t \in missed : tracks[t].missing_frames + 1 > max_missing_frames}
        at == [t \in followed \cup begun |->
                  (CHOOSE d \in {frame[c.detection] : c \in {m \in match : m.track = t}}
                           \cup {frame[i] : i \in {j \in unmatched : new[j] = t}} : TRUE).place]
    IN  /\ begun \subseteq TrackIds
        /\ tracks' = [t \in (DOMAIN tracks \cup begun) \ lost |->
                         IF t \in missed
                         THEN [tracks[t] EXCEPT !.missing_frames = @ + 1]
                         ELSE [place |-> at[t], missing_frames |-> 0]]
        /\ next_ids' = [l \in Labels |->
                           next_ids[l] + Cardinality({i \in unmatched : frame[i].label = l})]
        /\ objects' = followed \cup begun
        /\ told' = Retold({Event("moved", t, Region(at[t])) :
                              t \in {u \in followed : Moved(tracks[u].place, at[u])}}
                          \cup {Event("appeared", t, Region(at[t])) : t \in begun}
                          \cup {Event("disappeared", t, "") : t \in lost})

\* An observation that is not live shows nothing and leaves the tracks as they are.
NonLive == objects' = {} /\ UNCHANGED <<tracks, next_ids, told>>

Next == NonLive \/ \E frame \in Frames : Update(frame)

Spec == Init /\ [][Next]_vars

-----------------------------------------------------------------------------

\* Whoever only follows the events knows every live track and the region it is in,
\* however tracks cross, are missed, end, begin, or creep from region to region.
EventsTellTheScene == told = [t \in DOMAIN tracks |-> Region(tracks[t].place)]
=============================================================================
