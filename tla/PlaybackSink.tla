---------------------------- MODULE PlaybackSink ----------------------------
(***************************************************************************)
(* runtime/openclaw_runtime.py: AplayPcmPlaybackSink, which hands frames   *)
(* of speech to an aplay process and keeps, beside it, a window of time in *)
(* which they are taken to sound.  The echo gate and the status of the     *)
(* runtime ask for that window: the microphone is muted while it is open.  *)
(*                                                                         *)
(* A frame is its length and its format.  The speaker plays what it was    *)
(* given one after the other, without a delay of its own.                  *)
(***************************************************************************)
EXTENDS Integers

CONSTANTS Formats,          \* a sample rate and a number of channels
          Durations,        \* lengths of frames
          active_grace_s,
          MaxNow,           \* bound: the clock, and how far ahead frames are given
          None

\* What is assumed of the constants.
SinkAssumption ==
    /\ None \notin Formats /\ Durations \subseteq Nat
    /\ {active_grace_s, MaxNow} \subseteq Nat

VARIABLES sink_now,
          process,          \* _process: "none", "runs", or "dead" by itself
          format,           \* _format
          queued_audio_until, active_until,
          sounds_until,     \* until when the speaker has something to play
          restarted         \* history: the speaker was last given to by a new process

player == <<process, format>>
window == <<queued_audio_until, active_until>>
vars == <<sink_now, player, window, sounds_until, restarted>>

TypeOK ==
    /\ process \in {"none", "runs", "dead"} /\ format \in Formats \cup {None}
    /\ {sink_now, queued_audio_until, active_until, sounds_until} \subseteq Nat
    /\ restarted \in BOOLEAN

Init ==
    /\ sink_now = 0 /\ process = "none" /\ format = None
    /\ queued_audio_until = 0 /\ active_until = 0 /\ sounds_until = 0
    /\ restarted = FALSE

Later(x, y) == IF x < y THEN y ELSE x

Tick ==
    /\ sink_now < MaxNow /\ sink_now' = sink_now + 1
    /\ UNCHANGED <<player, window, sounds_until, restarted>>

\* aplay ends by itself: the device is unplugged or busy.
Dies ==
    /\ process = "runs" /\ process' = "dead"
    /\ sounds_until' = sink_now
    /\ UNCHANGED <<sink_now, format, window, restarted>>

\* Slip: each frame opens the window anew.
WindowOf(duration) == sink_now + duration

\* _record_playback_window: this frame sounds after those before it.
QueuedAfter(duration) == Later(sink_now, queued_audio_until) + duration

Silent == queued_audio_until' = 0 /\ active_until' = 0

\* play: the window is recorded, then the process is seen to.  One that is dead or
\* plays another format is stopped first, and with it goes the window just recorded.
Play(duration, f) ==
    LET replaced == process # "none" /\ (process = "dead" \/ format # f) IN
    /\ queued_audio_until < MaxNow
    /\ process' = "runs" /\ format' = f
    /\ IF replaced
       THEN Silent
       ELSE /\ queued_audio_until' = QueuedAfter(duration)
            /\ active_until' = queued_audio_until' + active_grace_s
    /\ restarted' = (replaced \/ (restarted /\ sounds_until > sink_now))
    /\ sounds_until' = duration + IF replaced THEN sink_now ELSE Later(sink_now, sounds_until)
    /\ UNCHANGED sink_now

\* There is no aplay to start: play raises after the window has been recorded.
PlayRaises(duration, f) ==
    /\ process = "none" /\ queued_audio_until < MaxNow
    /\ format' = f
    /\ queued_audio_until' = QueuedAfter(duration)
    /\ active_until' = queued_audio_until' + active_grace_s
    /\ UNCHANGED <<sink_now, process, sounds_until, restarted>>

\* The pipe breaks under the write: the player is stopped.
PlayFails ==
    /\ process' = "none" /\ format' = None
    /\ Silent
    /\ sounds_until' = sink_now /\ restarted' = FALSE
    /\ UNCHANGED sink_now

\* stop: aplay is terminated, whatever it still had to play.
Stop ==
    /\ process # "none"
    /\ process' = "none" /\ format' = None
    /\ Silent
    /\ sounds_until' = sink_now /\ restarted' = FALSE
    /\ UNCHANGED sink_now

\* status
Active == sink_now <= active_until

Next ==
    \/ Tick \/ Dies \/ PlayFails \/ Stop
    \/ \E duration \in Durations, f \in Formats : Play(duration, f) \/ PlayRaises(duration, f)

Spec == Init /\ [][Next]_vars

-----------------------------------------------------------------------------

\* What the speaker still plays is taken to sound, however frames, pauses and stops
\* follow each other: the microphone does not hear the robot.  Not so for a frame that
\* a new process had to be started for: stopping the old one closes its window.
HeardIsActive == sink_now < sounds_until /\ ~restarted => Active
=============================================================================
