----------------------------- MODULE NeckTarget -----------------------------
(***************************************************************************)
(* Whom the neck turns to: runtime/app.py makes one target of the parts of *)
(* the vision state, which are collected on different ways.  The detector  *)
(* finds faces (eye/hailo_metadata.py), the evidence writer cuts them out  *)
(* when it is time to (eye/gstreamer.py), and the vision loop matches the  *)
(* crops with the registry, or repeats what it matched last                *)
(* (eye/vision_loop.py).  Place, size and whether the face is known are    *)
(* brought together by track ids where both sides have one, else by the    *)
(* place.                                                                  *)
(***************************************************************************)
EXTENDS Naturals, FiniteSets

CONSTANTS People, None

VARIABLES acquainted,    \* whom the registry knows
          track_ids,     \* configuration: a tracker numbers the detections
          detected,      \* label of each person's detection, None without
          crops,         \* evidence.face_crops: whose faces were cut out
          throttled,     \* evidence.throttled: nothing was cut, it was not time to
          observations,  \* identity_observations, with how they were matched
          repeated_last, \* history: crops or observations are of an earlier frame
          target         \* VisualTarget: whose place, whose size, and known

vars == <<acquainted, track_ids, detected, crops, throttled, observations, repeated_last,
          target>>

DetectedLabels == {"face", "human_face", "person"}

\* What is assumed of the constants.
TargetAssumption == IsFiniteSet(People) /\ None \notin People \cup DetectedLabels

Observations == [who : People, known : BOOLEAN]

TypeOK ==
    /\ acquainted \subseteq People /\ track_ids \in BOOLEAN
    /\ detected \in [People -> DetectedLabels \cup {None}]
    /\ crops \subseteq People /\ observations \subseteq Observations
    /\ {throttled, repeated_last} \subseteq BOOLEAN
    /\ \/ target = None
       \/ target \in [place_of : People, size_of : People, known : BOOLEAN]

Init ==
    /\ acquainted \in SUBSET People /\ track_ids \in BOOLEAN
    /\ detected = [p \in People |-> None]
    /\ crops = {} /\ observations = {} /\ target = None
    /\ throttled = FALSE /\ repeated_last = FALSE

-----------------------------------------------------------------------------
(* The vision loop. *)

\* FaceIdentityMatcher.match: whom the registry does not know is unknown, and whom it
\* knows is recognised or not.
Matches(p) == {o \in Observations : o.who = p /\ (o.known => p \in acquainted)}

\* Crops of one frame, matched unless they are too small.
MatchedFrom(cut) ==
    {obs \in SUBSET UNION {Matches(p) : p \in cut} :
        \A o1, o2 \in obs : o1.who = o2.who => o1 = o2}

\* export cuts out what is labelled "face"; a crop can fail.
Frame ==
    /\ detected' \in [People -> DetectedLabels \cup {None}]
    /\ crops' \in SUBSET {p \in People : detected'[p] = "face"}
    /\ observations' \in MatchedFrom(crops')
    /\ throttled' = FALSE /\ repeated_last' = FALSE /\ target' = None
    /\ UNCHANGED <<acquainted, track_ids>>

\* Within min_interval_s nothing is cut, and the observations of the pass before repeated.
ThrottledFrame ==
    /\ detected' \in [People -> DetectedLabels \cup {None}]
    /\ crops' = {} /\ throttled' = TRUE /\ repeated_last' = TRUE /\ target' = None
    /\ UNCHANGED <<acquainted, track_ids, observations>>

\* A poll that fails detects nothing and leaves the evidence, which is matched again.
FailedPoll ==
    /\ detected' = [p \in People |-> None]
    /\ IF throttled THEN observations' = observations ELSE observations' \in MatchedFrom(crops)
    /\ repeated_last' = TRUE /\ target' = None
    /\ UNCHANGED <<acquainted, track_ids, crops, throttled>>

-----------------------------------------------------------------------------
(* runtime/app.py *)

Present == {p \in People : detected[p] # None}

\* _is_face_detection
Faces == {p \in People : detected[p] \in {"face", "human_face"}}

\* Detected faces first, then matched ones, then crops, then whatever was detected.
Candidates ==
    CASE Faces # {} -> [kind : {"detection"}, who : Faces]
      [] Faces = {} /\ observations # {} ->
             [kind : {"observation"}, who : {o.who : o \in observations}]
      [] Faces = {} /\ observations = {} /\ crops # {} -> [kind : {"crop"}, who : crops]
      [] OTHER -> [kind : {"detection"}, who : Present]

\* Slip: anybody known in the picture makes the target known.
KnownAtAll(candidate) == \E o \in observations : o.known

\* _candidate_has_known_identity.  An observation brings its own answer.  A detection
\* with a track id asks for an observation with it, and the crops have none: nobody
\* matches.  One without asks for the one observation of the one detection.
HasKnownIdentity(candidate) ==
    \/ /\ candidate.kind = "observation"
       /\ \E o \in observations : o.who = candidate.who /\ o.known
    \/ /\ candidate.kind # "observation"
       /\ ~(candidate.kind = "detection" /\ track_ids)
       /\ Cardinality(observations) = 1 /\ Cardinality(Present) <= 1
       /\ \E o \in observations : o.known

\* _matching_face_crop: the crops have no track ids, the nearest is taken; an only crop
\* is near enough wherever it is.
CropOf(p) == IF p \in crops \/ crops = {} THEN {p} ELSE crops

\* _extract_visual_reframe_target, of the best of the candidates, whose confidence and
\* size decide.
Tick ==
    /\ target = None
    /\ \E candidate \in Candidates : \E q \in CropOf(candidate.who) :
           target' = [place_of |-> candidate.who, size_of |-> q,
                      known |-> HasKnownIdentity(candidate)]
    /\ UNCHANGED <<acquainted, track_ids, detected, crops, throttled, observations,
                   repeated_last>>

Next == Frame \/ ThrottledFrame \/ FailedPoll \/ Tick

Spec == Init /\ [][Next]_vars

-----------------------------------------------------------------------------

\* The target is one person.  Called known, it is a person the registry knows; its size is
\* its own unless only another's face was cut out; and a face that was recognised, alone
\* and not tracked, is called known.  Not so for what is repeated from an earlier frame:
\* there a newcomer inherits the identity of whoever stood before the camera.
TargetIsOnePerson ==
    target # None /\ ~repeated_last =>
        /\ target.known => target.place_of \in acquainted
        /\ target.size_of # target.place_of => target.place_of \notin crops
        /\ (/\ Present = {target.place_of} /\ ~track_ids
            /\ [who |-> target.place_of, known |-> TRUE] \in observations) => target.known
=============================================================================
