---------------------------- MODULE VoiceGateway ----------------------------
(***************************************************************************)
(* The gateway of the voice for tests with injected devices                *)
(* (eivoice_runtime/gateway.py).  One word, state, is shared by whatever   *)
(* the gateway does: capture, the transcripts, playback, a barge-in and    *)
(* the connection overwrite it, and probe_barge_in and mark_connected      *)
(* decide by it.  Any call may come at any time, and a device may refuse   *)
(* one (raise); the device plays its chunks on its own.                    *)
(***************************************************************************)
EXTENDS Naturals, Sequences, SequencesExt

CONSTANTS MaxChunkIndex,    \* bound: chunks in the life of the gateway
          MaxPending,       \* bound: frames waiting at the microphone
          None

VARIABLES gateway_state,    \* state
          gateway_link,     \* connected
          tts_queue,        \* _tts_queue: indices of the chunks
          tts_chunk_index,  \* _tts_chunk_index: the index of the next one
          mic_pending,      \* capture device: frames waiting, read again until acked
          mic_in_flight,    \* capture device: reads not acknowledged
          speaker,          \* playback device: chunks it holds
          speaker_runs,     \* playback device: started and not stopped
          near_speech,      \* capture device: what a probe detects
          told,             \* name of the event the last call returned, None without
          barges,           \* history: barge-ins told since the last start
          overwritten,      \* history: another call set the state since the last start
          balked            \* history: the device did what it was asked and yet raised

queues == <<tts_queue, tts_chunk_index>>
microphone == <<mic_pending, mic_in_flight, near_speech>>
player == <<speaker, speaker_runs>>
since_start == <<barges, overwritten, balked>>
vars == <<gateway_state, gateway_link, queues, microphone, player, told, since_start>>

Words == {"idle", "capturing", "listening", "heard", "playing", "stopped", "barge_in",
          "disconnected"}
Events == {"audio.frame", "asr.partial", "asr.final", "tts.chunk", "playback.started",
           "playback.stopped", "barge_in.detected", "session.heartbeat"}

\* What is assumed of the constants.
GatewayAssumption == MaxChunkIndex \in Nat /\ MaxPending \in Nat /\ None \notin Events

TypeOK ==
    /\ gateway_state \in Words /\ gateway_link \in BOOLEAN
    /\ tts_chunk_index \in 0..MaxChunkIndex
    /\ tts_queue \in BoundedSeq(0..(MaxChunkIndex - 1), MaxChunkIndex)
    /\ speaker \in BoundedSeq(0..(MaxChunkIndex - 1), MaxChunkIndex)
    /\ mic_pending \in 0..MaxPending /\ mic_in_flight \in 0..MaxPending
    /\ {near_speech, speaker_runs, overwritten, balked} \subseteq BOOLEAN
    /\ told \in Events \cup {None} /\ barges \in Nat

Init ==
    /\ gateway_state = "idle" /\ gateway_link = TRUE
    /\ tts_queue = <<>> /\ tts_chunk_index = 0
    /\ mic_pending = 0 /\ mic_in_flight = 0 /\ near_speech = FALSE
    /\ speaker = <<>> /\ speaker_runs = FALSE /\ told = None
    /\ barges = 0 /\ overwritten = FALSE /\ balked = FALSE

-----------------------------------------------------------------------------
(* The devices go on by themselves. *)

Hear ==
    /\ \/ mic_pending < MaxPending /\ mic_pending' = mic_pending + 1
          /\ UNCHANGED near_speech
       \/ near_speech' = ~near_speech /\ UNCHANGED mic_pending
    /\ UNCHANGED <<gateway_state, gateway_link, queues, mic_in_flight, player, told, since_start>>

Play ==
    /\ speaker_runs /\ speaker # <<>>
    /\ speaker' = Tail(speaker)
    /\ UNCHANGED <<gateway_state, gateway_link, queues, microphone, speaker_runs, told, since_start>>

-----------------------------------------------------------------------------
(* The calls. *)

\* _build_voice_event of a call that sets the state to word.
Tells(word, event) ==
    /\ gateway_state' = word /\ told' = event
    /\ overwritten' = TRUE
    /\ UNCHANGED <<barges, balked>>

\* The microphone gives its first frame until that is acknowledged.
CaptureAudioFrame ==
    /\ \/ mic_pending = 0 /\ told' = None
          /\ UNCHANGED <<gateway_state, mic_in_flight, since_start>>
       \/ /\ mic_pending > 0 /\ mic_in_flight < MaxPending
          /\ mic_in_flight' = mic_in_flight + 1
          /\ Tells("capturing", "audio.frame")
    /\ UNCHANGED <<gateway_link, queues, mic_pending, near_speech, player>>

AckCaptureFrame(count) ==
    LET acked == IF count <= mic_in_flight THEN count ELSE mic_in_flight IN
    /\ mic_in_flight' = mic_in_flight - acked
    /\ mic_pending' = IF acked <= mic_pending THEN mic_pending - acked ELSE 0
    /\ told' = None
    /\ UNCHANGED <<gateway_state, gateway_link, queues, near_speech, player, since_start>>

FlushCapture ==
    /\ mic_pending' = 0 /\ mic_in_flight' = 0 /\ told' = None
    /\ UNCHANGED <<gateway_state, gateway_link, queues, near_speech, player, since_start>>

AcceptAsr ==
    /\ Tells("listening", "asr.partial") \/ Tells("heard", "asr.final")
    /\ UNCHANGED <<gateway_link, queues, microphone, player>>

\* The gateway has the chunk before the device is asked.
EnqueueTtsChunk ==
    /\ tts_chunk_index < MaxChunkIndex
    /\ tts_chunk_index' = tts_chunk_index + 1
    /\ tts_queue' = Append(tts_queue, tts_chunk_index)
    /\ \/ speaker' = Append(speaker, tts_chunk_index) /\ told' = "tts.chunk"
       \/ UNCHANGED speaker /\ told' = None
    /\ UNCHANGED <<gateway_state, gateway_link, microphone, speaker_runs, since_start>>

StartPlayback ==
    /\ \/ /\ speaker_runs' = TRUE
          /\ gateway_state' = "playing" /\ told' = "playback.started"
          /\ barges' = 0 /\ overwritten' = FALSE /\ balked' = FALSE
       \/ \E started \in BOOLEAN :
              /\ speaker_runs' = (speaker_runs \/ started)
              /\ balked' = (balked \/ started) /\ told' = None
              /\ UNCHANGED <<gateway_state, barges, overwritten>>
    /\ UNCHANGED <<gateway_link, queues, microphone, speaker>>

\* _tts_queue is cleared after the device has stopped.
QueueAfterStop(stopped) == IF stopped THEN <<>> ELSE tts_queue

\* A device that raises has stopped or has not.
StopPlayback ==
    /\ \E stopped, raised \in BOOLEAN :
           /\ stopped \/ raised
           /\ speaker_runs' = (speaker_runs /\ ~stopped)
           /\ speaker' = IF stopped THEN <<>> ELSE speaker
           /\ tts_queue' = QueueAfterStop(~raised)
           /\ IF raised
              THEN /\ told' = None /\ balked' = (balked \/ stopped)
                   /\ UNCHANGED <<gateway_state, barges, overwritten>>
              ELSE Tells("stopped", "playback.stopped")
    /\ UNCHANGED <<gateway_link, tts_chunk_index, microphone>>

\* Slip: the state stays as it is, and the next probe tells the same speech again.
StillPlaying == "playing"

AfterBargeIn == "barge_in"

ProbeBargeIn ==
    /\ IF gateway_state = "playing" /\ near_speech
       THEN /\ gateway_state' = AfterBargeIn /\ told' = "barge_in.detected"
            /\ barges' = barges + 1
            /\ UNCHANGED <<overwritten, balked>>
       ELSE told' = None /\ UNCHANGED <<gateway_state, since_start>>
    /\ UNCHANGED <<gateway_link, queues, microphone, player>>

\* The heartbeat tells the state, the length of both queues and the link.
Heartbeat ==
    /\ told' = "session.heartbeat"
    /\ UNCHANGED <<gateway_state, gateway_link, queues, microphone, player, since_start>>

MarkDisconnected ==
    /\ gateway_link' = FALSE /\ gateway_state' = "disconnected" /\ overwritten' = TRUE
    /\ told' = None
    /\ UNCHANGED <<queues, microphone, player, barges, balked>>

MarkConnected ==
    /\ gateway_link' = TRUE
    /\ gateway_state' = IF gateway_state = "disconnected" THEN "idle" ELSE gateway_state
    /\ told' = None
    /\ UNCHANGED <<queues, microphone, player, since_start>>

Next ==
    \/ Hear \/ Play
    \/ CaptureAudioFrame \/ FlushCapture \/ \E count \in 1..2 : AckCaptureFrame(count)
    \/ AcceptAsr \/ EnqueueTtsChunk \/ StartPlayback \/ StopPlayback \/ ProbeBargeIn
    \/ Heartbeat \/ MarkDisconnected \/ MarkConnected

Spec == Init /\ [][Next]_vars

-----------------------------------------------------------------------------

\* A barge-in is told at most once for a start of playback, and only while the device
\* plays; and as long as nothing else was told since the start, the next probe tells it.
BargeInIsTold ==
    /\ barges <= 1
    /\ told = "barge_in.detected" /\ ~balked => speaker_runs
    /\ speaker_runs /\ barges = 0 /\ ~overwritten /\ ~balked => gateway_state = "playing"

\* What the device holds, the gateway has in its queue, whichever call of the device
\* failed; and it is "disconnected" only without a link.
GatewayKeepsTrack ==
    /\ ToSet(speaker) \subseteq ToSet(tts_queue)
    /\ gateway_state = "disconnected" => ~gateway_link
=============================================================================
