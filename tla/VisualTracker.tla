---------------------------- MODULE VisualTracker ----------------------------
(***************************************************************************)
(* eye/tracking.py: LongTermVisualTracker, which keeps one target over the *)
(* frames of a detector that misses things and changes its mind.           *)
(*                                                                         *)
(* A frame is the sequence of its candidates, best first: who each one is  *)
(* and how sure the detector is.  Who a candidate without an id of its own *)
(* is taken for depends on boxes, which are left out: it may be anyone,    *)
(* and two candidates may be taken for the same one.                       *)
(***************************************************************************)
EXTENDS Integers, Sequences, FiniteSets

CONSTANTS Ids, Scores,
          switch_score_margin, switch_hold_frames, max_misses,
          MaxCandidates,   \* bound: candidates in a frame
          None

\* What is assumed of the constants.
TrackerAssumption ==
    /\ Scores \subseteq Nat \ {0} /\ None \notin Ids
    /\ {switch_score_margin, MaxCandidates} \subseteq Nat
    /\ {switch_hold_frames, max_misses} \subseteq Nat \ {0}

VARIABLES tracks,          \* _tracks
          active,          \* _active_track_id
          pending, pending_frames,   \* _pending_switch_id, _pending_switch_frames
          led              \* history: in how many frames since the target was chosen
                           \* each other one was the best and led by the margin

vars == <<tracks, active, pending, pending_frames, led>>

\* Misses are counted up to one more than the limit: no more is told apart.
Record == [miss_count : 0 .. max_misses + 1, last_score : Scores]
Candidate == [id : Ids, score : Scores]
Frames ==
    {f \in UNION {[1 .. n -> Candidate] : n \in 0 .. MaxCandidates} :
        \A i, j \in DOMAIN f : i < j => f[i].score >= f[j].score}

TypeOK ==
    /\ DOMAIN tracks \subseteq Ids /\ \A t \in DOMAIN tracks : tracks[t] \in Record
    /\ active \in DOMAIN tracks \cup {None}
    /\ pending \in Ids \cup {None} /\ pending_frames \in 0 .. switch_hold_frames
    /\ led \in [Ids -> 0 .. switch_hold_frames]

Init ==
    /\ tracks = <<>> /\ active = None
    /\ pending = None /\ pending_frames = 0
    /\ led = [t \in Ids |-> 0]

-----------------------------------------------------------------------------

Seen(frame) == {frame[i].id : i \in DOMAIN frame}

\* The last of the candidates that are taken for `t` is the one that is kept.
ScoreOf(frame, t) ==
    frame[CHOOSE i \in DOMAIN frame :
            frame[i].id = t /\ \A j \in DOMAIN frame : frame[j].id = t => j <= i].score

\* The records after the misses of this frame and what it shows are noted.
Noted(frame) ==
    [t \in DOMAIN tracks \cup Seen(frame) |->
        IF t \notin DOMAIN tracks
        THEN [miss_count |-> 0, last_score |-> ScoreOf(frame, t)]
        ELSE IF t \in Seen(frame)
        THEN [tracks[t] EXCEPT !.last_score = ScoreOf(frame, t)]
        ELSE [tracks[t] EXCEPT !.miss_count = IF @ > max_misses THEN @ ELSE @ + 1]]

\* _select_active.
Select(t, score, noted) ==
    tracks' = [noted EXCEPT ![t] = [miss_count |-> 0, last_score |-> score]]

NoneLed == [t \in Ids |-> 0]

\* _activate, which also ends a switch that was pending.
Activate(best, noted) ==
    /\ active' = best.id
    /\ pending' = None /\ pending_frames' = 0
    /\ Select(best.id, best.score, noted)
    /\ led' = NoneLed

\* Nothing is selected; an active target that was missed too often is given up.
HoldMissing(noted) ==
    /\ tracks' = noted
    /\ active' = IF active # None /\ noted[active].miss_count > max_misses THEN None ELSE active

\* Slip: whoever leads helps whoever comes next.
ConfirmAnyone(best) == pending_frames + 1

\* _confirm_pending_switch: how many frames the best candidate has been pending.
Confirmed(best) == IF pending = best.id THEN pending_frames + 1 ELSE 1

\* The best candidate leads: it becomes the target when it has done so often enough,
\* until then the target is held if it is there.
Challenge(frame, best, noted) ==
    IF Confirmed(best) >= switch_hold_frames
    THEN Activate(best, noted)
    ELSE /\ pending' = best.id /\ pending_frames' = Confirmed(best)
         /\ led' = [led EXCEPT ![best.id] = IF @ < switch_hold_frames THEN @ + 1 ELSE @]
         /\ IF active \in Seen(frame)
            THEN Select(active, ScoreOf(frame, active), noted) /\ UNCHANGED active
            ELSE HoldMissing(noted)

Leads(best, noted) == best.score >= noted[active].last_score + switch_score_margin

NoPending == pending' = None /\ pending_frames' = 0

UpdateEmpty ==
    /\ NoPending
    /\ HoldMissing(Noted(<<>>))
    /\ UNCHANGED led

\* update, with something to see.
Update(frame) ==
    LET best == frame[1]
        noted == Noted(frame)
    IN  \/ active = None /\ Activate(best, noted)
        \/ active \in Seen(frame) /\ (best.id = active \/ ~Leads(best, noted))
           /\ NoPending
           /\ Select(active, ScoreOf(frame, active), noted)
           /\ UNCHANGED <<active, led>>
        \/ active # None /\ active \notin Seen(frame) /\ ~Leads(best, noted)
           /\ HoldMissing(noted)
           /\ UNCHANGED <<pending, pending_frames, led>>
        \/ active # None /\ best.id # active /\ Leads(best, noted)
           /\ Challenge(frame, best, noted)

Next == UpdateEmpty \/ \E frame \in Frames \ {<<>>} : Update(frame)

Spec == Init /\ [][Next]_vars

-----------------------------------------------------------------------------

\* The target only changes to one that was the best and led by the margin in as many
\* frames as that takes, however losses, misses and other challengers came between:
\* no frame in which somebody else led helps it.
SwitchIsEarned ==
    [][active # None /\ active' \notin {None, active}
        => led[active'] + 1 >= switch_hold_frames]_vars
=============================================================================
