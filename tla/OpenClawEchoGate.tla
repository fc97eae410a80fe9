-------------------------- MODULE OpenClawEchoGate --------------------------
(***************************************************************************)
(* runtime/openclaw_runtime.py: OpenClawPlaybackEchoGate, the frontend     *)
(* every microphone frame goes through, as OpenClawRealtimeRuntime drives  *)
(* it: capture is suspended while output is heard, and what the gate sends *)
(* on goes to the remote session as a text or as the frames themselves.    *)
(*                                                                         *)
(* Frames are numbered in the order they are captured.  What a frame        *)
(* sounds like, what a segment says and whether a text gets through are    *)
(* chosen by the environment; so is the output, which comes and goes       *)
(* between the check for it and the frame's capture.                       *)
(***************************************************************************)
EXTENDS Naturals, Sequences

CONSTANTS MaxSegment,         \* local_vad_max_frames
          HangoverFrames,     \* local_vad_hangover_frames
          ConsecutiveFrames,  \* consecutive_frames of a barge-in
          Configs,            \* configurations: sets of enabled features
          MaxCaptured         \* bound: frames captured in a behaviour

Features == {"wake_word_required", "barge_in_enabled", "local_transcriber"}

ASSUME EchoGateAssumption ==
    /\ MaxSegment \in Nat \ {0} /\ ConsecutiveFrames \in Nat \ {0}
    /\ HangoverFrames \in Nat /\ MaxCaptured \in Nat
    /\ Configs \subseteq SUBSET Features

VARIABLES enabled,              \* the features of this gate, for good
          conversation_active,  \* _conversation_active
          vad_active,           \* _local_vad_active
          silence_frames,       \* _local_vad_silence_frames
          segment_frames,       \* _local_vad_segment_frames
          segment,              \* _local_gate_segment_frames
          replay,               \* _local_gate_replay_frames
          speech_frames,        \* _speech_frames
          suspended,            \* _capture_suspended_for_output
          capturing,            \* a frame is being captured: no output was heard
          output,               \* remote or local output is heard
          captured,             \* how many frames were captured
          upstream,             \* history: the last frame sent on, by itself or
                                \* in a text, 0 for none
          since                 \* history: first frame of the segment with the
                                \* wake word that opened this conversation

vad == <<vad_active, silence_frames, segment_frames>>
vars == <<enabled, conversation_active, vad, segment, replay, speech_frames,
          suspended, capturing, output, captured, upstream, since>>

wake_word_required == "wake_word_required" \in enabled
barge_in_enabled == "barge_in_enabled" \in enabled

TypeOK ==
    /\ enabled \in Configs
    /\ {conversation_active, vad_active, suspended, capturing, output} \subseteq BOOLEAN
    /\ silence_frames \in 0 .. HangoverFrames
    /\ segment_frames \in 0 .. MaxSegment
    /\ speech_frames \in 0 .. ConsecutiveFrames - 1
    /\ segment \in Seq(1 .. captured)
    /\ replay \in Seq(1 .. captured)
    /\ captured \in 0 .. MaxCaptured
    /\ upstream \in 0 .. captured /\ since \in 0 .. captured

Init ==
    /\ enabled \in Configs
    /\ conversation_active = ~wake_word_required
    /\ vad_active = FALSE /\ silence_frames = 0 /\ segment_frames = 0
    /\ segment = <<>> /\ replay = <<>>
    /\ speech_frames = 0
    /\ suspended = FALSE /\ capturing = FALSE /\ output = FALSE
    /\ captured = 0 /\ upstream = 0 /\ since = 0

ResetVad == vad_active' = FALSE /\ silence_frames' = 0 /\ segment_frames' = 0

Forget == segment' = <<>> /\ replay' = <<>> /\ ResetVad

\* A frame was captured; it, or the frame or text it releases, may go upstream.
Captured ==
    /\ captured' = captured + 1
    /\ capturing' = FALSE
    /\ UNCHANGED <<enabled, suspended>>

SendOn(f) == upstream' = f

\* popleft of a non-empty `held`.
ReplayFirst(held) == SendOn(Head(held)) /\ replay' = Tail(held)

-----------------------------------------------------------------------------
(* _step_runtime_once. *)

BeginCapture ==
    /\ ~capturing /\ ~output
    /\ captured < MaxCaptured
    /\ capturing' = TRUE
    /\ suspended' = FALSE
    /\ UNCHANGED <<enabled, conversation_active, vad, segment, replay, speech_frames,
                   output, captured, upstream, since>>

\* _suspend_capture_for_output: discard_capture, once per output phase.
SuspendCapture ==
    /\ ~capturing /\ output /\ ~suspended
    /\ suspended' = TRUE
    /\ speech_frames' = 0
    /\ Forget
    /\ UNCHANGED <<enabled, conversation_active, capturing, output, captured,
                   upstream, since>>

\* Remote audio begins, or the last grace period is over.
OutputChanges ==
    /\ output' = ~output
    /\ UNCHANGED <<enabled, conversation_active, vad, segment, replay, speech_frames,
                   suspended, capturing, captured, upstream, since>>

\* Slip: only the flag is reset.
SessionEndsKeepingFrames ==
    /\ ~capturing
    /\ conversation_active' = ~wake_word_required
    /\ since' = 0
    /\ UNCHANGED <<enabled, vad, segment, replay, speech_frames, suspended,
                   capturing, output, captured, upstream>>

\* reset_conversation, when the relay session has ended.
SessionEnds ==
    /\ ~capturing
    /\ conversation_active' = ~wake_word_required
    /\ since' = 0
    /\ Forget
    /\ UNCHANGED <<enabled, speech_frames, suspended, capturing, output, captured, upstream>>

-----------------------------------------------------------------------------
(* process_capture while output is heard. *)

Mute ==
    /\ capturing /\ output
    /\ ~barge_in_enabled
    /\ Captured
    /\ speech_frames' = 0
    /\ Forget
    /\ UNCHANGED <<conversation_active, output, upstream, since>>

SuppressEcho(loud) ==
    /\ capturing /\ output
    /\ barge_in_enabled
    /\ ~loud \/ speech_frames + 1 < ConsecutiveFrames
    /\ Captured
    /\ speech_frames' = IF loud THEN speech_frames + 1 ELSE 0
    /\ UNCHANGED <<conversation_active, vad, segment, replay, output, upstream, since>>

\* The frame goes upstream as it is, and the output it talks over is cancelled.
BargeIn ==
    /\ capturing /\ output
    /\ barge_in_enabled
    /\ speech_frames + 1 >= ConsecutiveFrames
    /\ Captured
    /\ speech_frames' = 0
    /\ output' \in BOOLEAN
    /\ SendOn(captured')
    /\ UNCHANGED <<conversation_active, vad, segment, replay, since>>

SegmentFull == vad_active /\ segment_frames >= MaxSegment

Listening == capturing /\ ~output /\ Captured /\ speech_frames' = 0

-----------------------------------------------------------------------------
(* _process_local_vad, without a wake word. *)

VadPasses(speech) ==
    \/ speech /\ vad_active' = TRUE /\ silence_frames' = 0
    \/ ~speech /\ vad_active /\ silence_frames < HangoverFrames
       /\ silence_frames' = silence_frames + 1 /\ UNCHANGED vad_active

VadPass(speech) ==
    /\ ~wake_word_required
    /\ Listening
    /\ ~SegmentFull
    /\ VadPasses(speech)
    /\ segment_frames' = segment_frames + 1
    /\ SendOn(captured')
    /\ UNCHANGED <<conversation_active, segment, replay, output, since>>

VadDrop(speech) ==
    /\ ~wake_word_required
    /\ Listening
    /\ \/ SegmentFull
       \/ ~speech /\ (~vad_active \/ silence_frames >= HangoverFrames)
    /\ ResetVad
    /\ UNCHANGED <<conversation_active, segment, replay, output, upstream, since>>

-----------------------------------------------------------------------------
(* _process_local_wake_gate. *)

\* A frame of an earlier segment goes upstream in this frame's place.
Replay ==
    /\ wake_word_required
    /\ Listening
    /\ replay # <<>>
    /\ ReplayFirst(replay)
    /\ UNCHANGED <<conversation_active, vad, segment, output, since>>

AtGate == wake_word_required /\ replay = <<>> /\ Listening

GateUnavailable ==
    /\ AtGate
    /\ "local_transcriber" \notin enabled
    /\ UNCHANGED <<conversation_active, vad, segment, replay, output, upstream, since>>

Armed == AtGate /\ "local_transcriber" \in enabled

GateCollects(speech) ==
    /\ Armed
    /\ ~SegmentFull
    /\ VadPasses(speech)
    /\ segment_frames' = segment_frames + 1
    /\ segment' = Append(segment, captured')
    /\ UNCHANGED <<conversation_active, replay, output, upstream, since>>

GateIgnores ==
    /\ Armed
    /\ ~vad_active
    /\ UNCHANGED <<conversation_active, vad, segment, replay, output, upstream, since>>

\* Slip: the segment's frames are not cleared.
FinalizeKeepingFrames ==
    /\ Armed
    /\ SegmentFull \/ (vad_active /\ silence_frames >= HangoverFrames)
    /\ segment # <<>>
    /\ UNCHANGED segment
    /\ ResetVad

\* _finalize_local_gate_segment, up to the transcript; the frame that made the
\* segment too long, or the silence too long, is dropped.
Finalize ==
    /\ Armed
    /\ SegmentFull \/ (vad_active /\ silence_frames >= HangoverFrames)
    /\ segment # <<>>
    /\ segment' = <<>>
    /\ ResetVad

\* Nothing understood, nothing meaningful, or no wake word while asleep.
SegmentDropped ==
    /\ Finalize
    /\ UNCHANGED <<conversation_active, replay, output, upstream, since>>

\* send_text succeeds, or is left out because the text echoes the assistant, or
\* fails and the frames of the segment are sent instead, the first one now.
SegmentGoesUpstream ==
    \/ SendOn(segment[Len(segment)]) /\ UNCHANGED replay
    \/ UNCHANGED <<upstream, replay>>
    \/ ReplayFirst(replay \o segment)

ActiveUtterance ==
    /\ Finalize
    /\ conversation_active
    /\ SegmentGoesUpstream
    /\ UNCHANGED <<conversation_active, output, since>>

\* A local reply is heard from now on, unless there is no voice for it.
EndPhrase ==
    /\ Finalize
    /\ conversation_active
    /\ conversation_active' = FALSE
    /\ since' = 0
    /\ replay' = <<>>
    /\ output' \in BOOLEAN
    /\ UNCHANGED upstream

\* The wake word, and what was said after it in the same breath.
WakeWord(remainder) ==
    /\ Finalize
    /\ ~conversation_active
    /\ conversation_active' = TRUE
    /\ since' = Head(segment)
    /\ output' \in BOOLEAN
    /\ IF remainder THEN SegmentGoesUpstream ELSE UNCHANGED <<upstream, replay>>

ProcessCapture ==
    \/ Mute \/ BargeIn
    \/ Replay \/ GateUnavailable \/ GateIgnores
    \/ SegmentDropped \/ ActiveUtterance \/ EndPhrase
    \/ \E remainder \in BOOLEAN : WakeWord(remainder)
    \/ \E speech \in BOOLEAN : VadPass(speech) \/ VadDrop(speech) \/ GateCollects(speech)
    \/ \E loud \in BOOLEAN : SuppressEcho(loud)

Next == BeginCapture \/ SuspendCapture \/ OutputChanges \/ SessionEnds \/ ProcessCapture

Spec == Init /\ [][Next]_vars

-----------------------------------------------------------------------------
(* Properties *)

\* Whatever the gate sends on, a frame, a text or a replay, is later than all it
\* sent before: nothing said goes upstream twice, or after what was said later.
\* (With both a wake word and barge-in, a frame that barges in overtakes the
\* segment or the replay it finds.)
UpstreamInOrder ==
    [][upstream' # upstream /\ ~(wake_word_required /\ barge_in_enabled) =>
           upstream' > upstream]_vars

\* Nothing said before the wake word, or after an end phrase or the end of the
\* session, ever goes upstream: not even by way of a segment or a replay that
\* was under way then.
NothingBeforeWakeWord ==
    [][upstream' # upstream /\ wake_word_required /\ ~barge_in_enabled =>
           conversation_active' /\ since' # 0 /\ upstream' >= since']_vars

\* A replay has the gate to itself: no new segment grows under it, and it never
\* outlives the conversation it belongs to.
ReplayHasTheGate ==
    replay # <<>> => conversation_active /\ segment = <<>> /\ ~vad_active

\* The counter that limits a segment counts the frames it holds, whichever of
\* the resets, discards and mutings came between.
SegmentCounted ==
    wake_word_required =>
        /\ segment_frames = Len(segment)
        /\ vad_active <=> segment # <<>>
=============================================================================
