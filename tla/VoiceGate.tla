----------------------------- MODULE VoiceGate -----------------------------
(***************************************************************************)
(* The neck turns only while the voice is awake: runtime/app.py reads the  *)
(* voice status before each tick of the reframe loop and keeps the head    *)
(* still unless somebody is in a conversation.  This module has the two    *)
(* runtimes that answer, with the parts of their state the answer shows,   *)
(* and the reader: eivoice_runtime/native_loop.py, where phase and flag    *)
(* are kept by the loop thread as it goes through a turn, and              *)
(* runtime/openclaw_runtime.py, where they come from the transport, the    *)
(* player and the echo gate.  Neither answer is one look at the state: the *)
(* reader takes one field after the other while the runtime goes on.       *)
(***************************************************************************)
EXTENDS Naturals

CONSTANT None

\* What is assumed of the constant.
GateAssumption == None \notin BOOLEAN

VARIABLES backend, wake_word_required, enabled,   \* configuration
          conversation_active,  \* of _LoopState, or of the echo gate
          voice_running,        \* _LoopState.running, or _started
          phase,                \* native: _LoopState.phase
          turn,                 \* native: where the loop thread is, "none" without one
          owner, told_to_stop,  \* native: start and stop
          session, connected,   \* openclaw: _session_state and the connection
          sounding,             \* openclaw: the playback window is open
          heard_lately,         \* openclaw: audio came within OUTPUT_AUDIO_GRACE_S
          look, view,           \* of the reader: its next step, and what it saw
          gate_open,            \* the answer of the last read, None before
          awake,                \* history: at some moment since that read began
          adrift                \* history: a turn died, or stop left state behind

config == <<backend, wake_word_required, enabled>>
native == <<phase, turn, owner, told_to_stop>>
openclaw == <<session, connected, sounding, heard_lately>>
reader == <<look, view, gate_open>>
vars == <<config, conversation_active, voice_running, native, openclaw, reader,
          awake, adrift>>

Looks == {"away", "phase", "running", "active", "session", "playback", "started", "gate"}

TypeOK ==
    /\ backend \in {"native", "openclaw"} /\ {wake_word_required, enabled} \subseteq BOOLEAN
    /\ {conversation_active, voice_running} \subseteq BOOLEAN
    /\ phase \in {"not_started", "disabled", "listening", "awaiting_wake", "listening_voice",
                  "asr_decoding", "thinking", "speaking", "error", "stopped"}
    /\ turn \in {"none", "idle", "voice", "asr", "understood", "local", "think", "speak",
                 "reset"}
    /\ owner \in {"idle", "starting", "joining"} /\ told_to_stop \in BOOLEAN
    /\ session \in {"idle", "ready", "listening", "speaking", "interrupted", "ended", "error"}
    /\ {connected, sounding, heard_lately} \subseteq BOOLEAN
    /\ look \in Looks /\ gate_open \in BOOLEAN \cup {None}
    /\ {awake, adrift} \subseteq BOOLEAN

NothingSeen == [phase |-> "", running |-> FALSE, active |-> FALSE, recent |-> FALSE]

Init ==
    /\ backend \in {"native", "openclaw"}
    /\ wake_word_required \in BOOLEAN /\ enabled \in BOOLEAN
    /\ conversation_active = (backend = "openclaw" /\ ~wake_word_required)
    /\ voice_running = FALSE
    /\ phase = "not_started" /\ turn = "none" /\ owner = "idle" /\ told_to_stop = FALSE
    /\ session = "idle" /\ connected = FALSE /\ sounding = FALSE /\ heard_lately = FALSE
    /\ look = "away" /\ view = NothingSeen /\ gate_open = None
    /\ awake = FALSE /\ adrift = FALSE

\* Somebody is in a conversation, or is being answered; without a wake word everybody
\* who speaks is, as long as the runtime is there.
Conversing ==
    \/ wake_word_required /\ conversation_active
    \/ backend = "native" /\ turn \in {"understood", "local", "think", "speak"}
    \/ backend = "native" /\ ~wake_word_required /\ (turn # "none" \/ voice_running)
    \/ backend = "openclaw" /\ (sounding \/ heard_lately)
    \/ backend = "openclaw" /\ ~wake_word_required /\ (connected \/ session = "listening")

-----------------------------------------------------------------------------
(* native_loop.py *)

\* _idle_phase
IdlePhase(active) ==
    IF wake_word_required /\ ~active THEN "awaiting_wake" ELSE "listening"

LoopGoes(from, to, p) ==
    /\ turn = from /\ turn' = to /\ phase' = p
    /\ UNCHANGED <<config, voice_running, owner, told_to_stop, openclaw, reader>>

\* start: the thread runs before the state says so.
Start ==
    /\ backend = "native" /\ owner = "idle" /\ turn = "none"
    /\ IF enabled
       THEN turn' = "idle" /\ owner' = "starting" /\ UNCHANGED phase
       ELSE phase' = "disabled" /\ UNCHANGED <<turn, owner>>
    /\ told_to_stop' = FALSE
    /\ UNCHANGED <<config, conversation_active, voice_running, openclaw, reader, adrift>>

Started ==
    /\ owner = "starting" /\ owner' = "idle"
    /\ phase' = IdlePhase(conversation_active) /\ voice_running' = TRUE
    /\ UNCHANGED <<config, conversation_active, turn, told_to_stop, openclaw, reader, adrift>>

\* stop waits two seconds for the loop, which may be thinking or speaking for longer;
\* the conversation stays as it was.
Stop ==
    /\ backend = "native" /\ owner = "idle"
    /\ told_to_stop' = TRUE /\ owner' = "joining"
    /\ UNCHANGED <<config, conversation_active, voice_running, phase, turn, openclaw, reader,
                   adrift>>

Stopped ==
    /\ owner = "joining" /\ owner' = "idle"
    /\ voice_running' = FALSE /\ phase' = "stopped"
    /\ adrift' = (adrift \/ turn # "none" \/ conversation_active)
    /\ UNCHANGED <<config, conversation_active, turn, told_to_stop, openclaw, reader>>

\* _observe_frame, up to the end of an utterance; a microphone that fails is
\* _record_error, and the loop ends when it was told.
Listens ==
    /\ \/ LoopGoes("idle", "voice", "listening_voice")
       \/ LoopGoes("idle", "idle",
                   IF phase = "speaking" THEN phase ELSE IdlePhase(conversation_active))
       \/ LoopGoes("idle", "idle", "error") \/ LoopGoes("voice", "voice", "error")
       \/ LoopGoes("voice", "asr", "asr_decoding") \/ LoopGoes("voice", "reset", phase)
       \/ told_to_stop /\ LoopGoes("idle", "none", phase)
       \/ told_to_stop /\ LoopGoes("voice", "none", phase)
    /\ UNCHANGED <<conversation_active, adrift>>

\* The recogniser fails or finds no words, or the words are not the wake word.
NotUnderstood ==
    /\ \/ LoopGoes("asr", "reset", "error") \/ LoopGoes("asr", "reset", phase)
       \/ /\ wake_word_required /\ ~conversation_active
          /\ LoopGoes("asr", "reset", IdlePhase(conversation_active))
    /\ UNCHANGED <<conversation_active, adrift>>

Understood ==
    /\ wake_word_required => conversation_active
    /\ LoopGoes("asr", "understood", phase)
    /\ UNCHANGED <<conversation_active, adrift>>

\* The wake word, alone or before a sentence.
WakeWord ==
    /\ wake_word_required /\ ~conversation_active
    /\ conversation_active' = TRUE
    /\ LoopGoes("asr", "local", phase) \/ LoopGoes("asr", "understood", phase)
    /\ UNCHANGED adrift

EndPhrase ==
    /\ wake_word_required /\ conversation_active
    /\ conversation_active' = FALSE
    /\ LoopGoes("asr", "local", phase)
    /\ UNCHANGED adrift

\* _reset_vad, whoever it is that ended.
ResetPhase ==
    IF phase \in {"speaking", "stopped", "disabled"} THEN phase
    ELSE IdlePhase(conversation_active)

\* Slip: the phase after an answer is left to _reset_vad, which leaves "speaking" alone.
LeftToReset == phase

\* What the phase is, once the answer has been spoken.
AfterSpeech == IdlePhase(conversation_active)

Answers ==
    /\ \/ LoopGoes("understood", "think", "thinking")
       \/ LoopGoes("local", "speak", "speaking") \/ LoopGoes("think", "speak", "speaking")
       \/ LoopGoes("speak", "reset", AfterSpeech)
       \/ LoopGoes("reset", "idle", ResetPhase)
    /\ UNCHANGED <<conversation_active, adrift>>

\* The dialogue client or the playback raises: nothing catches it, and the thread
\* ends with the phase it had.
TurnDies ==
    /\ adrift' = TRUE
    /\ LoopGoes("think", "none", phase) \/ LoopGoes("speak", "none", phase)
    /\ UNCHANGED conversation_active

-----------------------------------------------------------------------------
(* openclaw_runtime.py and openclaw_transport.py *)

TransportGoes ==
    /\ backend = "openclaw"
    /\ UNCHANGED <<config, conversation_active, voice_running, native, reader, adrift>>

Connects ==
    /\ voice_running /\ ~connected
    /\ connected' = TRUE /\ session' = "ready"
    /\ TransportGoes /\ UNCHANGED <<sounding, heard_lately>>

Fails ==
    /\ connected /\ connected' = FALSE /\ session' = "error"
    /\ TransportGoes /\ UNCHANGED <<sounding, heard_lately>>

\* _session_state_from_message, and the interruption of an output.
Message ==
    /\ connected
    /\ session' \in {"ready", "listening", "speaking", "ended", "error", "interrupted"}
    /\ heard_lately' = (heard_lately \/ session' = "speaking")
    /\ TransportGoes /\ UNCHANGED <<connected, sounding>>

\* The speaker takes up what was received; its window and the grace pass.
SpeakerGoes ==
    /\ \/ heard_lately /\ sounding' = TRUE /\ UNCHANGED heard_lately
       \/ sounding' = FALSE /\ UNCHANGED heard_lately
       \/ heard_lately' = FALSE /\ UNCHANGED sounding
    /\ TransportGoes /\ UNCHANGED <<session, connected>>

\* The echo gate hears the wake word or the end phrase, or is reset when a session ends.
GateGoes ==
    /\ backend = "openclaw" /\ voice_running
    /\ conversation_active' \in BOOLEAN
    /\ ~wake_word_required => conversation_active'
    /\ UNCHANGED <<config, voice_running, native, openclaw, reader, adrift>>

StartOpenClaw ==
    /\ backend = "openclaw" /\ enabled /\ ~voice_running
    /\ voice_running' = TRUE
    /\ UNCHANGED <<config, conversation_active, native, openclaw, reader, adrift>>

\* stop closes the transport; what the session and the gate were, they stay.
StopOpenClaw ==
    /\ backend = "openclaw" /\ voice_running
    /\ voice_running' = FALSE /\ connected' = FALSE /\ sounding' = FALSE
    /\ adrift' = (adrift \/ session = "listening" \/ (wake_word_required /\ conversation_active))
    /\ UNCHANGED <<config, conversation_active, native, session, heard_lately, reader>>

-----------------------------------------------------------------------------
(* The reader: tick_neck_reframe. *)

Look(from, to, saw) ==
    /\ look = from /\ look' = to /\ view' = saw
    /\ UNCHANGED <<config, conversation_active, voice_running, native, openclaw, gate_open,
                   awake, adrift>>

BeginRead ==
    /\ look = "away" /\ view' = NothingSeen
    /\ look' = IF backend = "native" THEN "phase" ELSE "running"
    /\ gate_open' = None /\ awake' = Conversing
    /\ UNCHANGED <<config, conversation_active, voice_running, native, openclaw, adrift>>

\* _copy_state of _voice_status_payload, which takes no lock: in the order of the fields.
CopyState ==
    /\ backend = "native"
    /\ \/ Look("phase", "running", [view EXCEPT !.phase = phase])
       \/ Look("running", "active", [view EXCEPT !.running = voice_running])

\* status of the transport; whether audio came lately is worked out of it later.
ReadTransport ==
    /\ backend = "openclaw"
    /\ \/ Look("running", "session", [view EXCEPT !.running = connected])
       \/ Look("session", "playback", [view EXCEPT !.phase = session, !.recent = heard_lately])

\* _openclaw_ws_status: a session that still says "speaking" when all has been played
\* is ready.
SessionShown(window_open, recent) ==
    IF view.phase = "speaking" /\ ~window_open /\ ~recent THEN "ready" ELSE view.phase

ReadPlayback ==
    \E recent \in BOOLEAN :
        /\ recent => view.recent
        /\ Look("playback", "started", [view EXCEPT !.phase = SessionShown(sounding, recent)])

ReadStarted == Look("started", "gate", [view EXCEPT !.running = @ /\ voice_running])

\* _dialogue_status: asleep until the wake word, unless it is answering.
Dialogue ==
    [view EXCEPT !.phase = IF wake_word_required /\ ~conversation_active /\ @ # "speaking"
                           THEN "sleeping" ELSE @,
                 !.active = IF wake_word_required THEN conversation_active ELSE view.running]

\* _neck_reframe_voice_gate
Allowed(dialogue) ==
    \/ dialogue.active
    \/ dialogue.phase \in {"listening", "thinking", "responding", "speaking", "active",
                           "conversation_active"}
    \/ dialogue.running /\ ~wake_word_required

Answer ==
    /\ \/ look = "active"
          /\ gate_open' = Allowed([view EXCEPT !.active = conversation_active])
       \/ look = "gate" /\ gate_open' = Allowed(Dialogue)
    /\ look' = "away" /\ view' = NothingSeen
    /\ UNCHANGED <<config, conversation_active, voice_running, native, openclaw, awake, adrift>>

NativeStep ==
    \/ Start \/ Started \/ Stop \/ Stopped
    \/ Listens \/ NotUnderstood \/ Understood \/ WakeWord \/ EndPhrase \/ Answers \/ TurnDies

OpenClawStep ==
    \/ Connects \/ Fails \/ Message \/ SpeakerGoes \/ GateGoes \/ StartOpenClaw \/ StopOpenClaw

\* Whatever a runtime does, a read under way takes note.
Next ==
    \/ (NativeStep \/ OpenClawStep) /\ awake' = (awake \/ Conversing')
    \/ BeginRead \/ CopyState \/ ReadTransport \/ ReadPlayback \/ ReadStarted \/ Answer

Spec == Init /\ [][Next]_vars

-----------------------------------------------------------------------------

\* The gate opens for the neck only if, at some moment of the read, somebody was in a
\* conversation or was being answered.  The phase is kept by whoever passed last and the
\* session by whatever message came last, and each lives on when its turn is over, so
\* this asks of every turn that it leaves them as they should be.  Not so once a turn
\* died half-way, or stop() came in the middle of a conversation.
OpenOnlyAwake == gate_open = TRUE /\ ~adrift => awake
=============================================================================
