------------------------------- MODULE MCVoice -------------------------------
(***************************************************************************)
(* The echo gate, and the components of the voice around its two runtimes, *)
(* for TLC: speech out and in, the stream transport, the echo reference,   *)
(* the queue of several users, the playback sink, the gate the voice       *)
(* is for the neck, what the monitor says of it, and its gateway.  They    *)
(* share no state, so one of them is in focus for a whole behaviour and    *)
(* the others stay where they start: the state space is the sum of theirs. *)
(***************************************************************************)
EXTENDS OpenClawEchoGate

CONSTANTS None,
          MaxCalls, Rounds, MaxChunks,                                  \* StreamingTts
          max_inflight_frames, MaxFrames, MaxResults,                   \* StreamingAsr
          outbound_capacity, inbound_capacity, heartbeat_interval_s,    \* StreamTransport
          pong_timeout_s, reconnect_base_delay_s, reconnect_max_delay_s,
          FrameTicks, max_age, capacity, MaxDelay, Numbers,             \* AecReference
          Pushers, Poppers, Capacity, MaxOffers,                        \* BoundedAudioQueue
          Formats, Durations, active_grace_s, MaxNow,                   \* PlaybackSink
          MaxChunkIndex, MaxPending                                     \* VoiceGateway

VARIABLES
    focus,
    pc, round, cancelled, rounds, active, cancelled_round_count, ws, closed, shut, source,
    left, served, late, meddled,
    asr_pc, canceller, pending, received, processed, dropped, events, state, started,
    asr_closed, socket, results, cleared, stopped, in_hand,
    connection_state, idle_for, pinged_ago, awaiting_pong, backoff, retry_in, outbound,
    inbound, keeper, line, answered, wronged, line_meddled,
    frames, played, capture, health,
    full_policy, items, pushed, popped, dropped_oldest, dropped_newest, waiters, call,
    delivered,
    sink_now, process, format, queued_audio_until, active_until, sounds_until, restarted,
    backend, asks_wake_word, has_voice, in_conversation, voice_running, phase, turn, owner,
    told_to_stop, session, connected, sounding, heard_lately, look, view, gate_open, awake,
    adrift,
    voice_backend, voice_up, loop_state, last_status, readings, verdict, was_up, kept_up,
    kept_failing,
    gateway_state, gateway_link, tts_queue, tts_chunk_index, mic_pending, mic_in_flight,
    speaker, speaker_runs, near_speech, gateway_told, barges, overwritten, balked

Tts == INSTANCE StreamingTts
Asr == INSTANCE StreamingAsr WITH pc <- asr_pc, closed <- asr_closed
Transport == INSTANCE StreamTransport WITH meddled <- line_meddled
Aec == INSTANCE AecReference
Queue == INSTANCE BoundedAudioQueue
Sink == INSTANCE PlaybackSink
Gate == INSTANCE VoiceGate WITH
            wake_word_required <- asks_wake_word, enabled <- has_voice,
            conversation_active <- in_conversation
Monitor == INSTANCE VoiceMonitor
Gateway == INSTANCE VoiceGateway WITH told <- gateway_told

tts == <<pc, round, cancelled, rounds, active, cancelled_round_count, ws, closed, shut,
         source, left, served, late, meddled>>
asr == <<asr_pc, canceller, pending, received, processed, dropped, events, state, started,
         asr_closed, socket, results, cleared, stopped, in_hand>>
transport == <<connection_state, idle_for, pinged_ago, awaiting_pong, backoff, retry_in,
               outbound, inbound, keeper, line, answered, wronged, line_meddled>>
aec == <<frames, played, capture, health>>
shared_queue == <<full_policy, items, pushed, popped, dropped_oldest, dropped_newest, waiters,
                  call, delivered>>
sink == <<sink_now, process, format, queued_audio_until, active_until, sounds_until,
          restarted>>
neck_gate == <<backend, asks_wake_word, has_voice, in_conversation, voice_running, phase,
               turn, owner, told_to_stop, session, connected, sounding, heard_lately, look,
               view, gate_open, awake, adrift>>
monitor == <<voice_backend, voice_up, loop_state, last_status, readings, verdict, was_up,
             kept_up, kept_failing>>
gateway == <<gateway_state, gateway_link, tts_queue, tts_chunk_index, mic_pending,
             mic_in_flight, speaker, speaker_runs, near_speech, gateway_told, barges,
             overwritten, balked>>
voice_vars == <<focus, vars, tts, asr, transport, aec, shared_queue, sink, neck_gate,
                monitor, gateway>>

\* The wake gate with and without a transcriber, alone and with barge-in, and the
\* plain voice activity detector.
AllConfigs == SUBSET Features

\* Each component's assumption about its constants.
ASSUME VoiceAssumption ==
    /\ Tts!TtsAssumption /\ Asr!AsrAssumption /\ Transport!TransportAssumption
    /\ Aec!AecAssumption /\ Queue!BoundedAudioQueueAssumption /\ Sink!SinkAssumption
    /\ Gate!GateAssumption
    /\ Monitor!MonitorAssumption /\ Gateway!GatewayAssumption

VoiceInit ==
    /\ focus \in {"echo", "tts", "asr", "transport", "aec", "queue", "sink", "gate",
                 "monitor", "gateway"}
    /\ Init /\ Tts!Init /\ Asr!Init /\ Transport!Init /\ Aec!Init /\ Queue!Init
    /\ Sink!Init /\ Gate!Init /\ Monitor!Init /\ Gateway!Init
    /\ focus # "echo" => enabled = {}
    /\ focus # "queue" => full_policy = "block"
    /\ focus # "gate" => backend = "native" /\ ~asks_wake_word /\ ~has_voice
    /\ focus # "monitor" => voice_backend = "none"

\* Rounds are interchangeable: the first call may as well be for this one.
FirstRound == round[1] \in {None, CHOOSE r \in Rounds : TRUE}

VoiceNext ==
    /\ UNCHANGED focus
    /\ IF focus # "echo" THEN UNCHANGED vars ELSE TRUE
    /\ IF focus # "tts" THEN UNCHANGED tts ELSE TRUE
    /\ IF focus # "asr" THEN UNCHANGED asr ELSE TRUE
    /\ IF focus # "transport" THEN UNCHANGED transport ELSE TRUE
    /\ IF focus # "aec" THEN UNCHANGED aec ELSE TRUE
    /\ IF focus # "queue" THEN UNCHANGED shared_queue ELSE TRUE
    /\ IF focus # "sink" THEN UNCHANGED sink ELSE TRUE
    /\ IF focus # "gate" THEN UNCHANGED neck_gate ELSE TRUE
    /\ IF focus # "monitor" THEN UNCHANGED monitor ELSE TRUE
    /\ IF focus # "gateway" THEN UNCHANGED gateway ELSE TRUE
    /\ CASE focus = "echo" -> Next
         [] focus = "tts" -> Tts!Next
         [] focus = "asr" -> Asr!Next
         [] focus = "transport" -> Transport!Next
         [] focus = "aec" -> Aec!Next
         [] focus = "queue" -> Queue!Next
         [] focus = "sink" -> Sink!Next
         [] focus = "gate" -> Gate!Next
         [] focus = "monitor" -> Monitor!Next
         [] focus = "gateway" -> Gateway!Next
    /\ FirstRound'

VoiceSpec == VoiceInit /\ [][VoiceNext]_voice_vars

-----------------------------------------------------------------------------

\* Each component's state has its type.
VoiceTypeOK ==
    CASE focus = "echo" -> TypeOK
      [] focus = "tts" -> Tts!TypeOK
      [] focus = "asr" -> Asr!TypeOK
      [] focus = "transport" -> Transport!TypeOK
      [] focus = "aec" -> Aec!TypeOK
      [] focus = "queue" -> Queue!TypeOK
      [] focus = "sink" -> Sink!TypeOK
      [] focus = "gate" -> Gate!TypeOK
      [] focus = "monitor" -> Monitor!TypeOK
      [] focus = "gateway" -> Gateway!TypeOK

\* A cancelled or superseded round of speech gives out at most the one chunk its
\* consumer was already waiting for (tts.py, _is_cancelled_or_stale), and a stream that
\* completes without saying so was neither cancelled nor cut short by another round's
\* cancel (tts.py, cancel; cloud_providers.py, close).
SpeechEndsAsTold == focus = "tts" => Tts!AtMostOneChunkLate /\ Tts!CancelledOrWhole

\* Every frame of the recogniser is pending, processed or counted as discarded, and one
\* that was told to stop between two frames stays stopped and keeps no connection
\* (asr.py, flush and accept_frame against cancel; cloud_providers.py, accept_frame).
CancelDiscardsAndStops == focus = "asr" => Asr!FramesAccounted /\ Asr!CancelStops

\* A connection is given up as silent only if its last ping went unanswered
\* (transport.py, send_ping and check_heartbeat).
OnlySilenceTimesOut == focus = "transport" => Transport!OnlySilenceTimesOut

\* What was played while it could still be heard is found in the loopback buffer, and
\* while the speaker sounds the sink says that output is active, so that the echo gate
\* mutes the microphone (aec.py, write_playback and reference_for_capture;
\* openclaw_runtime.py, _record_playback_window against stop).
SoundIsKnown ==
    /\ focus = "aec" => Aec!EchoIsFound
    /\ focus = "sink" => Sink!HeardIsActive

\* Two producers and two consumers on two slots, under every policy and in every
\* interleaving of waiting, waking and timing out: the queue is the FIFO that AudioQueue
\* promises (core.py, BoundedAudioQueue).
SharedQueueIsAFifo ==
    /\ focus = "queue" => Queue!Abstract!Init
    /\ [][focus = "queue" => [Queue!Abstract!Next]_(Queue!Abstract!vars)]_voice_vars

\* The neck is told that somebody is in a conversation only if somebody was, at a moment
\* since it asked (app.py, _neck_reframe_voice_gate, which asks in several steps).
OpenOnlyAwake == focus = "gate" => Gate!OpenOnlyAwake

\* A voice that runs through a request is shown as wired, one in error is not (voice.py,
\* build_voice_diagnostics_from_app and _voice_payload_rank).
ShownAsItIs == focus = "monitor" => Monitor!ShownAsItIs

\* A barge-in is told once for a start of playback, and the gateway has in its queue what
\* the device holds (gateway.py, probe_barge_in, start_playback and stop_playback).
GatewayTellsTheDevice ==
    focus = "gateway" => Gateway!BargeInIsTold /\ Gateway!GatewayKeepsTrack
==============================================================================
