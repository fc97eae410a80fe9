---------------------------- MODULE DetectionBoxes ----------------------------
(***************************************************************************)
(* The five readers of a detection's box: the neck's reframe target        *)
(* (runtime/app.py), the tracker (eye/tracking.py), the scene              *)
(* (eye/scene.py), the overlay of the monitor                              *)
(* (monitoring/realtime_vision.py) and the face crops (eye/gstreamer.py).  *)
(* Each has its own rules for what the four numbers mean, corners or a     *)
(* corner and a size, and for whether they are pixels.                     *)
(*                                                                         *)
(* Numbers are multiples of 1 / Unit.  What a reader finds is given in     *)
(* pixels times 2 * Unit: twice the horizontal centre, twice the width.    *)
(* The vertical axis is read in the same way; it is kept where it decides  *)
(* what the horizontal numbers mean.                                       *)
(***************************************************************************)
EXTENDS Integers, FiniteSetsExt

CONSTANTS Unit,           \* the number that stands for 1.0
          frame_width,    \* in pixels; the frame is as high as it is wide
          None

\* What is assumed of the constants: a normalised number falls on a pixel.
BoxesAssumption ==
    /\ {Unit, frame_width} \subseteq Nat \ {0, 1}
    /\ frame_width % Unit = 0

VARIABLES box,        \* where something is: left, top, right, bottom
          normalized, \* whether as parts of the frame, or in pixels
          form,       \* how the detector says so
          piped,      \* whether the detection went through RealtimeDetection
          reader,     \* who read it
          reading     \* and where it was found

vars == <<box, normalized, form, piped, reader, reading>>

\* A mapping of corners under either name, a mapping of a corner and a size, a list that
\* says what it is, and one that does not.
Forms == {"x_min", "x1", "x_w", "list_xyxy", "list_xywh", "list"}

Readers == {"app", "tracker", "scene", "overlay", "crop"}

Edges(parts) == IF parts THEN 0 .. Unit ELSE {p * Unit : p \in 0 .. frame_width}
Boxes(parts) == [l : Edges(parts), t : Edges(parts), r : Edges(parts), b : Edges(parts)]

TypeOK ==
    /\ normalized \in BOOLEAN /\ piped \in BOOLEAN /\ form \in Forms
    /\ box \in Boxes(normalized) \cup {None}
    /\ reader \in Readers \cup {None}
    /\ reading = None \/ {reading.centre, reading.width} \subseteq Int

Init ==
    /\ box = None /\ normalized = TRUE /\ form = "x_min" /\ piped = FALSE
    /\ reader = None /\ reading = None

\* What the detector finds lies in the frame.  A list without a hint is a corner and a size.
Detect ==
    /\ box = None
    /\ normalized' \in BOOLEAN /\ form' \in Forms /\ piped' \in BOOLEAN
    /\ box' \in {b \in Boxes(normalized') : b.l < b.r /\ b.t < b.b}
    /\ UNCHANGED <<reader, reading>>

-----------------------------------------------------------------------------

\* The four numbers that the detection carries ...
Sized == form \in {"x_w", "list_xywh", "list"}
Given == [form |-> form,
          x |-> box.l, y |-> box.t,
          third |-> IF Sized THEN box.r - box.l ELSE box.r,
          fourth |-> IF Sized THEN box.b - box.t ELSE box.b]

\* ... and what is left of them after RealtimeDetection: a list becomes corners.
Exported(d) ==
    IF d.form \in {"list", "list_xyxy", "list_xywh"} THEN [d EXCEPT !.form = "x_min"] ELSE d

Detection == IF piped THEN Exported(Given) ELSE Given

Magnitude(a) == IF a < 0 THEN -a ELSE a
Clipped(a, low, high) == IF a < low THEN low ELSE IF a > high THEN high ELSE a

\* A number of either kind on the frame.
OnFrame(a) == IF a > Unit THEN a ELSE a * frame_width
Corners(x1, y1, x2, y2) == [x1 |-> x1, y1 |-> y1, x2 |-> x2, y2 |-> y2]
AsCorners(d) == Corners(d.x, d.y, d.third, d.fourth)
AsSize(d) == Corners(d.x, d.y, d.x + d.third, d.y + d.fourth)

\* Slip: the guess is made before the hint is looked at.
GuessFirst(d) ==
    IF \/ Max({d.x, d.y, d.third, d.fourth}) <= Unit
       \/ d.third <= d.x \/ d.fourth <= d.y
    THEN AsSize(d) ELSE AsCorners(d)

\* Tracker, scene and overlay guess alike what an unmarked list is.
SequenceBox(d) ==
    CASE d.form = "list_xyxy" -> AsCorners(d)
      [] d.form = "list_xywh" -> AsSize(d)
      [] OTHER ->
            IF \/ Max({d.x, d.y, d.third, d.fourth}) <= Unit
               \/ d.third <= d.x \/ d.fourth <= d.y
            THEN AsSize(d) ELSE AsCorners(d)

CoercedBox(d) ==
    CASE d.form \in {"x_min", "x1"} -> AsCorners(d)
      [] d.form = "x_w" -> AsSize(d)
      [] OTHER -> SequenceBox(d)

Reading(twice_centre, width) == [centre |-> twice_centre, width |-> 2 * width]

-----------------------------------------------------------------------------

\* app.py.  The centre is halved before it is compared with 1, the width is taken for
\* pixels from one pixel on.
TargetX(twice_centre) ==
    Clipped(IF twice_centre > 2 * Unit THEN twice_centre ELSE twice_centre * frame_width,
            0, 2 * Unit * frame_width)

AppReads(d) ==
    CASE d.form \in {"x_min", "list_xyxy"} ->
            Reading(TargetX(d.x + d.third), OnFrame(Magnitude(d.third - d.x)))
      [] d.form = "x_w" -> Reading(TargetX(2 * d.x + d.third), OnFrame(d.third))
      [] d.form = "x1" -> None
      [] OTHER ->
            IF d.x <= Unit /\ d.third <= Unit
            THEN Reading(TargetX(2 * d.x + d.third), OnFrame(d.third))
            ELSE LET width == IF d.third > d.x THEN d.third - d.x ELSE d.third
                 IN  Reading(TargetX(2 * d.x + width), width)

\* tracking.py.  The box as a whole is normalised or not.
ScaleNormalizedBbox(c) ==
    LET k == IF Max({Magnitude(c.x1), Magnitude(c.y1), Magnitude(c.x2), Magnitude(c.y2)}) <= Unit
             THEN frame_width ELSE 1
    IN  [c EXCEPT !.x1 = c.x1 * k, !.x2 = c.x2 * k]

TrackerReads(d) ==
    LET c == ScaleNormalizedBbox(CoercedBox(d))
    IN  IF c.x2 <= c.x1 \/ c.y2 <= c.y1 THEN None
        ELSE Reading(c.x1 + c.x2, c.x2 - c.x1)

\* scene.py.  Whatever is beyond the frame is cut off, pixels too.
SceneReads(d) ==
    LET c == CoercedBox(d)
        x1 == Clipped(c.x1, 0, Unit)
        x2 == IF d.form = "x_w" THEN Clipped(x1 + d.third, 0, Unit) ELSE Clipped(c.x2, 0, Unit)
    IN  Reading((x1 + x2) * frame_width, Magnitude(x2 - x1) * frame_width)

\* monitoring/realtime_vision.py.  Each edge is normalised or not.
OverlayReads(d) ==
    LET c == CoercedBox(d)
    IN  Reading(OnFrame(c.x1) + OnFrame(c.x2), OnFrame(c.x2) - OnFrame(c.x1))

\* gstreamer.py.  Each edge is normalised or not, a list is corners, no other name is known.
CropReads(d) ==
    IF d.form \in {"x1", "x_w"} THEN None
    ELSE LET right == frame_width * Unit
             x1 == Clipped(OnFrame(d.x), 0, right - Unit)
             x2 == Max({x1 + Unit, Clipped(OnFrame(d.third), 0, right)})
         IN  Reading(x1 + x2, x2 - x1)

ReadBy(r) ==
    CASE r = "app" -> AppReads(Detection)
      [] r = "tracker" -> TrackerReads(Detection)
      [] r = "scene" -> SceneReads(Detection)
      [] r = "overlay" -> OverlayReads(Detection)
      [] r = "crop" -> CropReads(Detection)

-----------------------------------------------------------------------------

Read(r) ==
    /\ box # None /\ reader = None
    /\ reader' = r /\ reading' = ReadBy(r)
    /\ UNCHANGED <<box, normalized, form, piped>>

Next == Detect \/ \E r \in Readers : Read(r)

Spec == Init /\ [][Next]_vars

-----------------------------------------------------------------------------

Where == LET pixels == IF normalized THEN frame_width ELSE 1
         IN  Reading((box.l + box.r) * pixels, (box.r - box.l) * pixels)

\* A number of one pixel, or a centre there, is taken for 1.0.
Blurred == ~normalized /\ (Unit \in {box.l, box.r, box.r - box.l} \/ box.l + box.r <= 2 * Unit)

\* What a reader takes for something else: a size, once RealtimeDetection has made a list
\* corners, and for the crop every list is; a size in pixels that goes beyond the corner,
\* unless there is a hint, which the reframe target ignores; and for the scene all pixels.
Misread(r) ==
    LET d == Detection IN
    \/ d.form = "x_min" /\ Sized
    \/ r = "crop" /\ d.form \in {"list", "list_xywh"}
    \/ ~normalized /\ d.form = "list" /\ d.third > d.x /\ (r = "app" \/ d.fourth > d.y)
    \/ ~normalized /\ d.form = "list_xywh" /\ r = "app" /\ d.third > d.x
    \/ ~normalized /\ r = "scene"

\* What lies in the frame is found where it is, by whoever can read it.
FoundWhereItIs == reading = None \/ Blurred \/ Misread(reader) \/ reading = Where
=============================================================================
