-------------------------- MODULE NativeVoiceLoop --------------------------
(***************************************************************************)
(* eivoice_runtime/native_loop.py: NativeVoiceInteractionLoop and its      *)
(* ArecordAudioFrameSource.  The loop thread reads frames from an arecord  *)
(* process, cuts them into utterances, has them transcribed, passes the    *)
(* wake gate, asks for a reply and plays it, all on one thread; HTTP       *)
(* threads speak() through the same _play_text; an owner starts and stops. *)
(*                                                                         *)
(* A lock guards the counters, not the frame source and not the frames     *)
(* that an utterance takes.  Frames are numbered in the order they are     *)
(* recorded; whether one holds voice, what an utterance says and whether   *)
(* speech can be played are choices.  Durations are counted in frames.     *)
(*                                                                         *)
(* Phase, state and health, which only status payloads show, are left out, *)
(* and with them what changes nothing else: an arecord that cannot be run  *)
(* (the loop tries again) and a speak() without text.                      *)
(***************************************************************************)
EXTENDS Naturals, Sequences, FiniteSets

CONSTANTS Loops,         \* loop threads that can be alive at once
          Users,         \* HTTP threads that speak
          Owner,         \* the thread that starts and stops the loop
          Recorders,     \* names for arecord processes; free again once ended
          MinVoice,      \* vad_min_voice_ms
          EndSilence,    \* vad_end_silence_ms
          MaxUtterance,  \* max_utterance_ms
          MaxPipe,       \* bound: frames in the pipe of a recorder
          MaxFrames,     \* bound: frames recorded in a behaviour
          MaxSpeaks,     \* bound: speak() requests in a behaviour
          None

ASSUME NativeVoiceAssumption ==
    /\ Loops \cap Users = {} /\ Owner \notin Loops \cup Users
    /\ None \notin Loops \cup Recorders
    /\ {MinVoice, EndSilence, MaxUtterance, MaxPipe} \subseteq Nat \ {0}
    /\ {MaxFrames, MaxSpeaks} \subseteq Nat

Threads == Loops \cup Users \cup {Owner}

VARIABLES stop_event,     \* _stop_event
          thread,         \* _thread
          alive,          \* the loop threads that have not ended
          process,        \* _process of the frame source
          recording,      \* the arecord processes that run
          pipe,           \* per recorder, the frames not read yet
          frames,         \* _frames
          vad_triggered, voice, silence, captured,   \* _state
          wake_word_required,   \* configuration
          conversation_active,  \* _state.conversation_active
          step,           \* per thread, the next step of what it is doing
          handle,         \* per thread, the recorder its call in progress uses
          raised,         \* the loops whose playback raised
          recorded,       \* history: frames recorded so far
          heard,          \* history: the last frame of the last utterance
          spoke_at,       \* history: frames recorded when the loop last fell silent
          speaks,         \* history: speak() requests so far
          abandoned       \* history: a stop() gave up on joining the loop

source == <<process, recording, pipe, recorded>>
vad == <<vad_triggered, voice, silence, captured>>
lifecycle == <<stop_event, thread, alive, abandoned>>
gate == <<wake_word_required, conversation_active>>
vars == <<source, frames, vad, lifecycle, gate, step, handle, raised,
          heard, spoke_at, speaks>>

Steps == {"idle",                                     \* nothing under way
          "check", "read", "finalize", "asr", "think", "turn_over",   \* loop
          "mute", "muting", "play", "clear",          \* _play_text
          "close", "closing",                         \* the end of a run or a stop
          "join"}                                     \* owner

TypeOK ==
    /\ {stop_event, vad_triggered, wake_word_required, conversation_active,
        abandoned} \subseteq BOOLEAN
    /\ thread \in Loops \cup {None} /\ alive \subseteq Loops /\ raised \subseteq Loops
    /\ process \in Recorders \cup {None} /\ recording \subseteq Recorders
    /\ \A r \in Recorders : pipe[r] \in Seq(1 .. recorded) /\ Len(pipe[r]) <= MaxPipe
    /\ frames \in Seq(1 .. recorded) /\ Len(frames) <= MaxUtterance
    /\ voice \in 0 .. MinVoice
    /\ silence \in 0 .. EndSilence /\ captured \in 0 .. MaxUtterance
    /\ step \in [Threads -> Steps]
    /\ handle \in [Threads -> Recorders \cup {None}]
    /\ recorded \in 0 .. MaxFrames /\ heard \in 0 .. recorded
    /\ spoke_at \in 0 .. recorded /\ speaks \in 0 .. MaxSpeaks

Init ==
    /\ stop_event = FALSE /\ thread = None /\ alive = {} /\ abandoned = FALSE
    /\ process = None /\ recording = {} /\ pipe = [r \in Recorders |-> <<>>]
    /\ frames = <<>>
    /\ vad_triggered = FALSE /\ voice = 0 /\ silence = 0 /\ captured = 0
    /\ wake_word_required \in BOOLEAN /\ conversation_active = FALSE
    /\ step = [t \in Threads |-> "idle"]
    /\ handle = [t \in Threads |-> None]
    /\ raised = {}
    /\ recorded = 0 /\ heard = 0 /\ spoke_at = 0 /\ speaks = 0

Smaller(x, y) == IF x < y THEN x ELSE y

Goto(t, s) == step' = [step EXCEPT ![t] = s]

\* _reset_vad
ResetCounters ==
    vad_triggered' = FALSE /\ voice' = 0 /\ silence' = 0 /\ captured' = 0

-----------------------------------------------------------------------------
(* ArecordAudioFrameSource, and the microphone behind it. *)

Running == process # None /\ process \in recording

\* A name no process in sight goes by.
FreeRecorders == Recorders \ (recording \cup {process} \cup {handle[t] : t \in Threads})

\* start(), and the handle that read_frame then works with.
OpenRecorder(l) ==
    IF Running
    THEN handle' = [handle EXCEPT ![l] = process] /\ UNCHANGED source
    ELSE /\ FreeRecorders # {}
         /\ LET r == CHOOSE k \in FreeRecorders : TRUE IN
            /\ process' = r /\ recording' = recording \cup {r}
            /\ pipe' = [pipe EXCEPT ![r] = <<>>]
            /\ handle' = [handle EXCEPT ![l] = r]
         /\ UNCHANGED recorded

\* stop(): whoever calls it reads _process first and then forgets it.
StopReads(t) == handle' = [handle EXCEPT ![t] = process] /\ UNCHANGED source

\* Slip: the process is forgotten without being terminated.
StopLeavesRunning(t) ==
    /\ process' = None
    /\ handle' = [handle EXCEPT ![t] = None]
    /\ UNCHANGED <<recording, pipe, recorded>>

StopTerminates(t) ==
    /\ process' = None
    /\ recording' = recording \ {handle[t]}
    /\ handle' = [handle EXCEPT ![t] = None]
    /\ UNCHANGED <<pipe, recorded>>

\* A frame is recorded; a pipe that is full makes arecord drop it.
Record(r) ==
    /\ r \in recording
    /\ recorded < MaxFrames
    /\ recorded' = recorded + 1
    /\ pipe' = IF Len(pipe[r]) < MaxPipe
               THEN [pipe EXCEPT ![r] = Append(@, recorded + 1)] ELSE pipe
    /\ UNCHANGED <<process, recording, frames, vad, lifecycle, gate, step,
                   handle, raised, heard, spoke_at, speaks>>

\* arecord gives up by itself.
RecorderFails(r) ==
    /\ r \in recording
    /\ recording' = recording \ {r}
    /\ UNCHANGED <<process, pipe, recorded, frames, vad, lifecycle, gate, step,
                   handle, raised, heard, spoke_at, speaks>>

-----------------------------------------------------------------------------
(* _run and _observe_frame *)

RunChecks(l) ==
    /\ step[l] = "check" /\ ~stop_event
    /\ OpenRecorder(l)
    /\ Goto(l, "read")
    /\ UNCHANGED <<frames, vad, lifecycle, gate, raised, heard, spoke_at, speaks>>

RunLeaves(l) ==
    /\ step[l] = "check" /\ stop_event
    /\ Goto(l, "close")
    /\ UNCHANGED <<source, frames, vad, lifecycle, gate, handle, raised,
                   heard, spoke_at, speaks>>

\* Slip: reading goes on without a new recorder.
ReadsOn(l) ==
    /\ step[l] = "read"
    /\ handle[l] \notin recording /\ pipe[handle[l]] = <<>>
    /\ process' = None
    /\ UNCHANGED <<recording, pipe, recorded, frames, vad, lifecycle, gate,
                   step, handle, raised, heard, spoke_at, speaks>>

\* The recorder was stopped or has failed.
ReadEnds(l) ==
    /\ step[l] = "read"
    /\ handle[l] \notin recording /\ pipe[handle[l]] = <<>>
    /\ process' = None
    /\ Goto(l, "check")
    /\ handle' = [handle EXCEPT ![l] = None]
    /\ UNCHANGED <<recording, pipe, recorded, frames, vad, lifecycle, gate,
                   raised, heard, spoke_at, speaks>>

\* Voice begins, goes on, or triggers.
ObserveVoice(f) ==
    LET fresh == voice = 0 /\ ~vad_triggered IN
    /\ frames' = IF fresh THEN <<f>> ELSE Append(frames, f)
    /\ voice' = Smaller(voice + 1, MinVoice)
    /\ silence' = 0
    /\ captured' = captured + 1
    /\ vad_triggered' = (vad_triggered \/ voice' >= MinVoice)

\* Silence within an utterance belongs to it.
ObservePause(f) ==
    /\ vad_triggered
    /\ frames' = Append(frames, f)
    /\ silence' = silence + 1
    /\ captured' = captured + 1
    /\ UNCHANGED <<vad_triggered, voice>>

\* Too little voice is forgotten.
ObserveSilence ==
    /\ ~vad_triggered
    /\ IF voice > 0
       THEN frames' = <<>> /\ ResetCounters
       ELSE UNCHANGED <<frames, vad>>

UtteranceOver ==
    vad_triggered' /\ (silence' >= EndSilence \/ captured' >= MaxUtterance)

ReadFrame(l) ==
    /\ step[l] = "read" /\ pipe[handle[l]] # <<>>
    /\ LET f == Head(pipe[handle[l]])
       IN  ObserveVoice(f) \/ ObservePause(f) \/ ObserveSilence
    /\ pipe' = [pipe EXCEPT ![handle[l]] = Tail(@)]
    /\ Goto(l, IF UtteranceOver THEN "finalize" ELSE "check")
    /\ handle' = [handle EXCEPT ![l] = None]
    /\ UNCHANGED <<process, recording, recorded, lifecycle, gate, raised,
                   heard, spoke_at, speaks>>

-----------------------------------------------------------------------------
(* _finalize_utterance and _apply_wake_gate *)

Takes(l) ==
    /\ step[l] = "finalize" /\ frames # <<>>
    /\ frames' = <<>>
    /\ heard' = frames[Len(frames)]
    /\ Goto(l, "asr")
    /\ UNCHANGED vad

\* Someone spoke, and cleared the frames, just before.
TakesNothing(l) ==
    /\ step[l] = "finalize" /\ frames = <<>>
    /\ ResetCounters
    /\ Goto(l, "check")
    /\ UNCHANGED <<frames, heard>>

Finalize(l) ==
    /\ Takes(l) \/ TakesNothing(l)
    /\ UNCHANGED <<source, lifecycle, gate, handle, raised, spoke_at, speaks>>

\* The utterance comes to nothing: it cannot be transcribed, is empty, or is
\* not for the head.
Dismiss(l) ==
    /\ step[l] = "asr"
    /\ ResetCounters
    /\ Goto(l, "check")
    /\ UNCHANGED gate

\* A wake word or an end phrase is acknowledged at once.
Acknowledge(l) ==
    /\ step[l] = "asr" /\ wake_word_required
    /\ conversation_active' = ~conversation_active
    /\ Goto(l, "mute")
    /\ UNCHANGED <<vad, wake_word_required>>

\* Words for the dialogue: in a conversation, or behind the wake word.
Ask(l) ==
    /\ step[l] = "asr"
    /\ conversation_active' = wake_word_required
    /\ Goto(l, "think")
    /\ UNCHANGED <<vad, wake_word_required>>

Transcribe(l) ==
    /\ Dismiss(l) \/ Acknowledge(l) \/ Ask(l)
    /\ UNCHANGED <<source, frames, lifecycle, handle, raised, heard, spoke_at, speaks>>

\* There is always a reply, if only that of the template.
Reply(l) ==
    /\ step[l] = "think"
    /\ Goto(l, "mute")
    /\ UNCHANGED <<source, frames, vad, lifecycle, gate, handle, raised,
                   heard, spoke_at, speaks>>

TurnOver(l) ==
    /\ step[l] = "turn_over"
    /\ ResetCounters
    /\ Goto(l, "check")
    /\ UNCHANGED <<source, frames, lifecycle, gate, handle, raised,
                   heard, spoke_at, speaks>>

-----------------------------------------------------------------------------
(* _play_text, of a turn or of speak() *)

Speak(u) ==
    /\ step[u] = "idle"
    /\ speaks < MaxSpeaks
    /\ speaks' = speaks + 1
    /\ Goto(u, "mute")
    /\ UNCHANGED <<source, frames, vad, lifecycle, gate, handle, raised,
                   heard, spoke_at>>

\* Slip: the head speaks into its own ear.
SpeaksUnmuted(t) ==
    /\ step[t] = "mute"
    /\ Goto(t, "play")
    /\ UNCHANGED <<source, handle, frames, vad, lifecycle, gate, raised, heard,
                   spoke_at, speaks>>

\* capture_source.stop(), before anything is played.
Mute(t) ==
    /\ \/ step[t] = "mute" /\ StopReads(t) /\ Goto(t, "muting")
       \/ step[t] = "muting" /\ StopTerminates(t) /\ Goto(t, "play")
    /\ UNCHANGED <<frames, vad, lifecycle, gate, raised, heard, spoke_at, speaks>>

\* It was played, or an error is reported; or piper or aplay cannot be run.
Played(t) ==
    /\ step[t] = "play"
    /\ raised' \in {raised, raised \cup ({t} \cap Loops)}
    /\ Goto(t, "clear")
    /\ UNCHANGED <<source, frames, vad, lifecycle, gate, handle,
                   heard, spoke_at, speaks>>

\* Slip: the frames are forgotten, not their counts.
ClearedFrames(t) ==
    /\ step[t] = "clear"
    /\ frames' = <<>>
    /\ UNCHANGED vad
    /\ spoke_at' = IF t \in Loops THEN recorded ELSE spoke_at

\* The cooldown is over, and what was captured is forgotten.
Cleared(t) ==
    /\ step[t] = "clear"
    /\ frames' = <<>>
    /\ ResetCounters
    /\ spoke_at' = IF t \in Loops THEN recorded ELSE spoke_at

Clear(t) ==
    /\ Cleared(t)
    /\ IF t \in raised
       THEN Goto(t, "idle") /\ alive' = alive \ {t} /\ raised' = raised \ {t}
       ELSE /\ Goto(t, IF t \in Loops THEN "turn_over" ELSE "idle")
            /\ UNCHANGED <<alive, raised>>
    /\ UNCHANGED <<source, stop_event, thread, abandoned, gate, handle, heard, speaks>>

-----------------------------------------------------------------------------
(* start, stop and the end of the loop *)

Close(t) ==
    /\ \/ step[t] = "close" /\ StopReads(t) /\ Goto(t, "closing") /\ UNCHANGED alive
       \/ /\ step[t] = "closing"
          /\ StopTerminates(t)
          /\ alive' = alive \ {t}
          /\ Goto(t, "idle")
    /\ UNCHANGED <<frames, vad, stop_event, thread, abandoned, gate, raised,
                   heard, spoke_at, speaks>>

Start ==
    /\ step[Owner] = "idle"
    /\ thread \notin alive
    /\ \E l \in Loops \ alive :
           /\ thread' = l /\ alive' = alive \cup {l}
           /\ step' = [step EXCEPT ![l] = "check"]
    /\ stop_event' = FALSE
    /\ UNCHANGED <<source, frames, vad, abandoned, gate, handle, raised,
                   heard, spoke_at, speaks>>

Stop ==
    /\ step[Owner] = "idle"
    /\ stop_event' = TRUE
    /\ Goto(Owner, "join")
    /\ UNCHANGED <<source, frames, vad, thread, alive, abandoned, gate, handle,
                   raised, heard, spoke_at, speaks>>

\* join returns after two seconds, ended or not.
Joined ==
    /\ step[Owner] = "join"
    /\ abandoned' = (abandoned \/ thread \in alive)
    /\ thread' = None
    /\ Goto(Owner, "close")
    /\ UNCHANGED <<source, frames, vad, stop_event, alive, gate, handle, raised,
                   heard, spoke_at, speaks>>

LoopStep(l) ==
    \/ RunChecks(l) \/ RunLeaves(l) \/ ReadFrame(l) \/ ReadEnds(l)
    \/ Finalize(l) \/ Transcribe(l) \/ Reply(l) \/ TurnOver(l)

SpeechStep(t) == Mute(t) \/ Played(t) \/ Clear(t)

Next ==
    \/ \E l \in Loops : LoopStep(l)
    \/ \E t \in Loops \cup Users : SpeechStep(t)
    \/ \E t \in Loops \cup {Owner} : Close(t)
    \/ \E u \in Users : Speak(u)
    \/ Start \/ Stop \/ Joined
    \/ \E r \in Recorders : Record(r) \/ RecorderFails(r)

Spec == Init /\ [][Next]_vars

\* Threads go on: transcription, dialogue and playback end.  An arecord that is
\* tried again and again can be run in the end.
Fairness ==
    /\ \A l \in Loops : WF_vars(LoopStep(l) \/ SpeechStep(l) \/ Close(l))
    /\ \A u \in Users : WF_vars(SpeechStep(u))
    /\ WF_vars(Close(Owner) \/ Joined)

FairSpec == Spec /\ Fairness

-----------------------------------------------------------------------------
(* Properties *)

\* No frame gets into two utterances or ahead of an earlier one, however
\* recorders end and begin and whoever speaks meanwhile.
FramesAreNew ==
    ~abandoned =>
        /\ \A i \in DOMAIN frames : frames[i] > heard
        /\ \A i, j \in DOMAIN frames : i < j => frames[i] < frames[j]

\* Whoever cleared the frames, the loop or a speak() under its feet, the counts
\* that trigger and end an utterance are those of the frames it has.
CountersAgree ==
    \A l \in Loops : step[l] \in {"check", "read"} /\ ~abandoned =>
        /\ captured = Len(frames)
        /\ vad_triggered <=> voice >= MinVoice
        /\ frames = <<>> <=> voice = 0

\* Utterances are made of what was said, once and in order, and end by their own counts.
UtterancesIntact == FramesAreNew /\ CountersAgree

\* The loop never listens to what it said itself, whoever speaks or stops the source
\* meanwhile: all it has was recorded after its last word.
OwnVoiceUnheard ==
    ~abandoned => \A i \in DOMAIN frames : frames[i] > spoke_at

\* The recorders nobody holds a handle to any more.
Stray == recording \ ({process} \cup {handle[t] : t \in Threads})

\* A speak() that stops the source while the loop restarts it can leave one
\* arecord behind that nobody will end, but not more, and nothing else can.
FewStrayRecorders == ~abandoned => Cardinality(Stray) <= speaks

Listening == alive # {} /\ ~stop_event

\* A recorder runs that the loop reads, or will read next.
Hearing == Running \/ \E l \in Loops : handle[l] \in recording

\* The microphone comes back on after whatever turned it off, as long as the
\* loop runs: its own words, those of an HTTP thread, a recorder that failed.
HearsAgain == (Listening /\ ~Hearing) ~> (Hearing \/ ~Listening)
=============================================================================
