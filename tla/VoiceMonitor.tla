---------------------------- MODULE VoiceMonitor ----------------------------
(***************************************************************************)
(* What the monitor says of the voice: monitoring/voice.py asks the app    *)
(* for the voice's state three times in one request, once in the form of a *)
(* runtime panel (monitoring/eivoice_runtime.py), and once the body, turns *)
(* each answer into the states of its parts and these into one status, and *)
(* shows the best of them.  The voice goes on between the readings: a      *)
(* native loop (eivoice_runtime/native_loop.py), an OpenClaw session       *)
(* (runtime/openclaw_runtime.py), or no runtime but the configuration      *)
(* (runtime/native_services.py).                                           *)
(***************************************************************************)
EXTENDS Naturals, Sequences, SequencesExt

CONSTANT None

VARIABLES voice_backend,  \* configuration: "native", "openclaw", or "none" attached
          voice_up,       \* _LoopState.running; or started and connected
          loop_state,     \* native: _LoopState.state
          last_status,    \* native: _LoopState.last_status; openclaw: _session_state
          readings,       \* of a request under way: what was read so far
          verdict,        \* status of the payload shown, None without
          was_up,         \* history: the voice was up at a moment of the request
          kept_up,        \* history: it was up, and not in error, all the time
          kept_failing    \* history: it was in error all the time

voice == <<voice_up, loop_state, last_status>>
history == <<was_up, kept_up, kept_failing>>
vars == <<voice_backend, voice, readings, verdict, history>>

States == {"wired", "degraded", "not_wired", "unknown"}

\* What is assumed of the constant.
MonitorAssumption == None \notin States

\* VOICE_RUNTIME_ATTRS that the app has, then the snapshot and the runtime panel.
Sources == <<"voice_realtime", "voice_status", "snapshot", "eivoice_runtime">>

TypeOK ==
    /\ voice_backend \in {"native", "openclaw", "none"}
    /\ voice_up \in BOOLEAN
    /\ loop_state \in {"created", "disabled", "running", "error", "stopped"}
    /\ last_status \in {"not_started", "disabled", "listening", "awaiting_wake", "stopped",
                        "error", "idle", "session_created", "ready", "speaking", "ended",
                        "interrupted"}
    /\ \/ readings = None
       \/ readings \in BoundedSeq(States \cup {None}, Len(Sources))
    /\ verdict \in States \cup {None}
    /\ {was_up, kept_up, kept_failing} \subseteq BOOLEAN

Init ==
    /\ voice_backend \in {"native", "openclaw", "none"}
    /\ voice_up = FALSE /\ loop_state = "created"
    /\ last_status = IF voice_backend = "openclaw" THEN "idle" ELSE "not_started"
    /\ readings = None /\ verdict = None
    /\ was_up = FALSE /\ kept_up = FALSE /\ kept_failing = FALSE

-----------------------------------------------------------------------------
(* The voice. *)

\* Whatever happens to the voice, the request under way sees it.
Becomes(up, st, word) ==
    /\ verdict = None
    /\ voice_up' = up /\ loop_state' = st /\ last_status' = word
    /\ was_up' = (was_up \/ up)
    /\ kept_up' = (kept_up /\ up /\ word # "error")
    /\ kept_failing' = (kept_failing /\ word = "error")
    /\ UNCHANGED <<voice_backend, readings, verdict>>

NativeGoes ==
    /\ voice_backend = "native"
    /\ \/ ~voice_up /\ Becomes(FALSE, "disabled", "disabled")
       \/ ~voice_up /\ \E word \in {"listening", "awaiting_wake"} : Becomes(TRUE, "running", word)
       \/ voice_up /\ Becomes(FALSE, "stopped", "stopped")

\* A frame is heard, or the microphone fails; state and health stay "error" after that.
LoopGoes ==
    /\ voice_backend = "native" /\ voice_up
    /\ \/ \E word \in {"listening", "awaiting_wake"} : Becomes(TRUE, loop_state, word)
       \/ Becomes(TRUE, "error", "error")

\* _session_state goes through the handshake, with the messages, and to "error" with
\* the connection; stop() closes the connection and leaves it as it is.
SessionGoes ==
    /\ voice_backend = "openclaw"
    /\ \/ ~voice_up /\ Becomes(FALSE, loop_state, "session_created")
       \/ ~voice_up /\ Becomes(TRUE, loop_state, "ready")
       \/ \E word \in {"ready", "listening", "speaking", "ended", "interrupted", "error"} :
              voice_up /\ Becomes(TRUE, loop_state, word)
       \/ Becomes(FALSE, loop_state, "error")
       \/ voice_up /\ Becomes(FALSE, loop_state, last_status)

-----------------------------------------------------------------------------
(* The states of its parts: monitoring/voice.py *)

\* _classify_component_state; the words of the loop and of a session that it does not
\* know are unknown.
Classify(word) ==
    CASE word = "disabled" -> "not_wired"
      [] word = "error" -> "degraded"
      [] word \in {"ready", "running", "listening", "speaking"} -> "wired"
      [] OTHER -> "unknown"

\* _voice_overall_status
Overall(parts) ==
    IF "wired" \in parts /\ parts \cap {"degraded", "not_wired"} = {} THEN "wired"
    ELSE IF parts \cap {"wired", "degraded"} # {} THEN "degraded" ELSE "not_wired"

\* An attached runtime has a mouth, and a backend with it, in every state.
Mouth == "wired"

\* _voice_status_payload: the ear listens while the loop runs.
Ear ==
    IF voice_backend = "openclaw" \/ voice_up THEN "wired" ELSE Classify(loop_state)

Scheduler ==
    IF voice_backend = "openclaw" \/ voice_up \/ loop_state \notin {"error", "disabled"}
    THEN "unknown" ELSE Classify(loop_state)

\* build_native_voice_status: nothing was probed.
Configured == {"degraded", "not_wired", None}

ReadStatus ==
    IF voice_backend = "none" THEN Configured
    ELSE {Overall({Ear, Mouth, Classify(last_status), Scheduler})}

\* What the body says of its own ear and mouth.
ReadSnapshot == States \cup {None}

\* build_eivoice_runtime_panel: the gate of the OpenClaw runtime has no noise suppression
\* and no loopback.
PanelHealth == IF voice_backend = "openclaw" THEN "degraded" ELSE "healthy"

\* _voice_payload_from_eivoice_runtime: the ear has the health of the panel, and the
\* dialogue the state of the loop where its own status would be.
ReadPanel ==
    LET ear == IF PanelHealth = "degraded" THEN "degraded" ELSE "wired" IN
    IF voice_backend = "none" THEN {None} ELSE {Overall({ear, Mouth, Classify(loop_state)})}

-----------------------------------------------------------------------------
(* The request. *)

Ask ==
    /\ readings = None
    /\ readings' = <<>> /\ verdict' = None
    /\ was_up' = voice_up
    /\ kept_up' = (voice_up /\ last_status # "error")
    /\ kept_failing' = (last_status = "error")
    /\ UNCHANGED <<voice_backend, voice>>

Read ==
    /\ readings # None /\ Len(readings) < Len(Sources)
    /\ LET source == Sources[Len(readings) + 1] IN
       \E status \in CASE source = "snapshot" -> ReadSnapshot
                       [] source = "eivoice_runtime" -> ReadPanel
                       [] OTHER -> ReadStatus :
           readings' = Append(readings, status)
    /\ UNCHANGED <<voice_backend, voice, verdict, history>>

\* Slip: trouble outranks everything.
TroubleFirst(status) ==
    CASE status = "degraded" -> 400 [] status = "wired" -> 300 [] status = "unknown" -> 200
      [] status = "not_wired" -> 100 [] OTHER -> 0

\* _voice_payload_rank
Rank(status) ==
    CASE status = "wired" -> 400 [] status = "degraded" -> 300 [] status = "unknown" -> 200
      [] status = "not_wired" -> 100 [] OTHER -> 0

\* The candidate of the highest rank; without any, and for None, nothing is wired.
Show ==
    /\ readings # None /\ Len(readings) = Len(Sources) /\ verdict = None
    /\ \E best \in ToSet(readings) :
           /\ \A other \in ToSet(readings) : Rank(other) <= Rank(best)
           /\ verdict' = IF best = None THEN "not_wired" ELSE best
    /\ UNCHANGED <<voice_backend, voice, readings, history>>

Leave ==
    /\ verdict # None
    /\ readings' = None /\ verdict' = None
    /\ UNCHANGED <<voice_backend, voice, history>>

Next ==
    \/ NativeGoes \/ LoopGoes \/ SessionGoes
    \/ Ask \/ Read \/ Show \/ Leave

Spec == Init /\ [][Next]_vars

-----------------------------------------------------------------------------

BodyIsWired == readings[3] = "wired"

\* A voice that runs without an error through a request is shown as wired, whatever was
\* the trouble before and whatever the other sources say; a voice in error through the
\* whole request is not, unless the body has one that works.
ShownAsItIs ==
    verdict # None =>
        /\ (kept_up /\ voice_backend # "none" => verdict = "wired")
        /\ (kept_failing /\ ~BodyIsWired => verdict # "wired")

\* Nothing is shown as wired that did not run at any moment of the request.
NoFakeHealthy == (verdict = "wired" /\ ~BodyIsWired) => was_up
=============================================================================
