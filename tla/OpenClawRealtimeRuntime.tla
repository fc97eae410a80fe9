---------------------- MODULE OpenClawRealtimeRuntime ----------------------
(***************************************************************************)
(* runtime/openclaw_runtime.py: OpenClawRealtimeRuntime, and the transport *)
(* it shares between threads, eivoice_runtime/openclaw_transport.py:       *)
(* OpenClawRealtimeTransport.  The run loop connects, sends, receives and  *)
(* reconnects; the HTTP threads that handle a stop_speech action read from *)
(* and write to the same websocket; an owner starts and stops the runtime. *)
(*                                                                         *)
(* No lock is held across a transport method: each reads self._ws first    *)
(* and then uses that handle, whatever the other threads do to self._ws    *)
(* and to self._session_state meanwhile.  A step is one use of the shared  *)
(* state or of the socket.  Frames, texts and codecs are left out: an      *)
(* audio event and a text are the same kind of send.                       *)
(***************************************************************************)
EXTENDS Naturals, Sequences, FiniteSets

CONSTANTS Loops,      \* run loop threads that can be alive at once
          Users,      \* HTTP threads that handle stop_speech
          Sockets,    \* names for websockets; one is free again when closed
          MaxInbox,   \* bound: messages under way on a websocket
          MaxSpeechStops,  \* bound: stop_speech requests in a behaviour
          None

ASSUME RuntimeAssumption ==
    /\ Loops \cap Users = {}
    /\ None \notin Loops \cup Users \cup Sockets
    /\ MaxInbox \in Nat \ {0} /\ MaxSpeechStops \in Nat

Threads == Loops \cup Users

VARIABLES conn,        \* _connection_state
          session,     \* _session_state; the states of a turn count as "ready"
          ws,          \* _ws
          retry,       \* _next_retry_at: "none", "waiting" for it, or "due"
          recent,      \* _last_audio_rx_ms is within OUTPUT_AUDIO_GRACE_S
          open,        \* the websockets this side has not closed
          down,        \* the open websockets whose connection is broken
          inbox,       \* per websocket, the messages not received yet
          wake_word_required,  \* configuration
          conversation,        \* _conversation_active of the echo gate
          stop_event,  \* _stop_event
          thread,      \* _thread
          running,     \* the run loops that have not returned from _run
          owner,       \* where the owner is in stop()
          ops,         \* per thread, the calls left in this pass or request
          handle,      \* per thread, the websocket its call in progress uses
          heard,       \* history: websockets whose session end was received
          lapsed,      \* history: the last session's end was received
          misdirected, \* history: something was sent to an ended session
          speech_stops,   \* history: stop_speech requests so far
          abandoned       \* history: a stop() gave up on joining the loop

transport == <<conn, session, ws, retry, recent>>
network == <<open, down, inbox>>
gate == <<wake_word_required, conversation>>
runtime == <<stop_event, thread, running, owner>>
calls == <<ops, handle>>
history == <<heard, lapsed, misdirected, speech_stops, abandoned>>
vars == <<transport, network, gate, runtime, calls, history>>

\* Slip: the state a failed call leaves is the only terminal one.
TerminalWithoutEnded == {"error"}

\* _is_terminal_session_state
Terminal == {"ended", "error"}

Messages == {"audio", "ended"}   \* "ended" is every message that ends a session

Ops == {"redial", "dial", "handshake", "mark_connected", "capture", "send",
        "receive", "play", "cancel", "interrupted", "drain"}

TypeOK ==
    /\ conn \in {"idle", "connecting", "connected", "reconnect_wait", "closed"}
    /\ session \in {"idle", "ready", "speaking", "interrupted"} \cup Terminal
    /\ ws \in Sockets \cup {None}
    /\ retry \in {"none", "waiting", "due"}
    /\ recent \in BOOLEAN
    /\ open \subseteq Sockets /\ down \subseteq open
    /\ inbox \in [Sockets -> Seq(Messages)]
    /\ wake_word_required \in BOOLEAN /\ conversation \in BOOLEAN
    /\ stop_event \in BOOLEAN
    /\ thread \in Loops \cup {None}
    /\ running \subseteq Loops
    /\ owner \in {"idle", "join", "close"}
    /\ ops \in [Threads -> Seq(Ops)]
    /\ handle \in [Threads -> Sockets \cup {None}]
    /\ heard \subseteq Sockets
    /\ {lapsed, misdirected, abandoned} \subseteq BOOLEAN
    /\ speech_stops \in Nat

Init ==
    /\ conn = "idle" /\ session = "idle" /\ ws = None
    /\ retry = "none" /\ recent = FALSE
    /\ open = {} /\ down = {} /\ inbox = [s \in Sockets |-> <<>>]
    /\ wake_word_required \in BOOLEAN
    /\ conversation = ~wake_word_required
    /\ stop_event = FALSE /\ thread = None /\ running = {} /\ owner = "idle"
    /\ ops = [t \in Threads |-> <<>>]
    /\ handle = [t \in Threads |-> None]
    /\ heard = {} /\ lapsed = FALSE /\ misdirected = FALSE
    /\ speech_stops = 0 /\ abandoned = FALSE

\* Thread `t` is about to make call `op`, or, with a handle, is inside it.
At(t, op) == ops[t] # <<>> /\ Head(ops[t]) = op /\ handle[t] = None
Inside(t, op) == ops[t] # <<>> /\ Head(ops[t]) = op /\ handle[t] # None

\* The call is over and `next` comes before what was left to do.
Continue(t, next) ==
    /\ ops' = [ops EXCEPT ![t] = next \o Tail(@)]
    /\ handle' = [handle EXCEPT ![t] = None]

\* The pass is over: the run loop is back at its top.
BackToTop(t) ==
    /\ ops' = [ops EXCEPT ![t] = <<>>]
    /\ handle' = [handle EXCEPT ![t] = None]

\* ws = self._ws, the first thing a transport method does.
UseSocket(t) ==
    /\ handle' = [handle EXCEPT ![t] = ws]
    /\ UNCHANGED <<transport, network, gate, runtime, ops, history>>

\* A call that finds no websocket returns at once.
NoSocket(t) ==
    /\ ws = None
    /\ Continue(t, <<>>)
    /\ UNCHANGED <<transport, network, gate, runtime, history>>

\* The websockets left after those in `closing` are closed.
Close(closing) ==
    /\ open' = open \ closing
    /\ down' = down \ closing
    /\ inbox' = [s \in Sockets |-> IF s \in closing THEN <<>> ELSE inbox[s]]

\* Slip: the state says wait, but not until when.
CloseWithoutRetryTime ==
    /\ Close({ws})
    /\ ws' = None
    /\ conn' = "reconnect_wait"
    /\ retry' = "none"

\* _close_socket, then schedule_reconnect: what every failing call ends in.
CloseAndRetry ==
    /\ Close({ws})
    /\ ws' = None
    /\ conn' = "reconnect_wait"
    /\ retry' = "waiting"

\* A send or a receive raised: whichever websocket is current pays for it.
CallFails ==
    /\ CloseAndRetry
    /\ session' = "error"
    /\ UNCHANGED <<recent, gate, runtime, history>>

\* reset_conversation
ResetConversation == conversation' = ~wake_word_required

-----------------------------------------------------------------------------
(* _run and _ensure_connected. *)

LoopExit(l) ==
    /\ l \in running
    /\ ops[l] = <<>>
    /\ stop_event
    /\ running' = running \ {l}
    /\ UNCHANGED <<transport, network, gate, stop_event, thread, owner, calls, history>>

AtTop(l) == l \in running /\ ops[l] = <<>> /\ ~stop_event

Proceed(l, next) ==
    /\ ops' = [ops EXCEPT ![l] = next]
    /\ UNCHANGED <<transport, network, gate, runtime, handle, history>>

\* _is_remote_output_active, for what the remote side says.
RemoteOutputActive == session = "speaking" /\ recent

\* Connected: one pass, of _step_output_once while output is heard (or while a
\* played frame or a local reply still sounds), else of step_once.
LoopSteps(l) ==
    /\ AtTop(l)
    /\ conn = "connected" /\ session \notin Terminal
    /\ \/ Proceed(l, <<"receive">>)
       \/ ~RemoteOutputActive /\ Proceed(l, <<"capture">>)

\* _handle_terminal_openclaw_session
LoopRetiresSession(l) ==
    /\ AtTop(l)
    /\ conn = "connected" /\ session \in Terminal
    /\ ResetConversation
    /\ CloseAndRetry
    /\ UNCHANGED <<session, recent, wake_word_required, runtime, calls, history>>

LoopConnects(l) ==
    /\ AtTop(l)
    /\ \/ conn = "reconnect_wait" /\ retry = "due" /\ Proceed(l, <<"redial">>)
       \/ conn \notin {"connected", "reconnect_wait"} /\ Proceed(l, <<"dial">>)

\* reconnect: _close_socket, then connect.
Redial(l) ==
    /\ At(l, "redial")
    /\ Close({ws})
    /\ ws' = None
    /\ Continue(l, <<"dial">>)
    /\ UNCHANGED <<conn, session, retry, recent, gate, runtime, history>>

\* connect.  Its early return when self._ws is set needs a second loop that
\* assigns self._ws between this loop's _ensure_connected and here: Loops names
\* one thread at a time in every run, and Dial only has the guard.
Dial(l) ==
    /\ At(l, "dial")
    /\ ws = None
    /\ \E s \in Sockets \ (open \cup {handle[t] : t \in Threads}) :
           /\ handle' = [handle EXCEPT ![l] = s]
           /\ open' = open \cup {s}
           /\ heard' = heard \ {s}
    /\ ops' = [ops EXCEPT ![l] = <<"handshake">>]
    /\ conn' = "connecting"
    /\ UNCHANGED <<session, ws, retry, recent, down, inbox, gate, runtime,
                   lapsed, misdirected, speech_stops, abandoned>>

\* The challenge, the session and its "ready" came: self._ws is assigned ...
HandshakeSucceeds(l) ==
    /\ Inside(l, "handshake")
    /\ ws' = handle[l]
    /\ session' = "ready"
    /\ lapsed' = FALSE
    /\ Continue(l, <<"mark_connected">>)
    /\ UNCHANGED <<conn, retry, recent, network, gate, runtime,
                   heard, misdirected, speech_stops, abandoned>>

\* ... and then the connection is marked, unless someone saw it fail meanwhile:
\* nothing looks again.
MarkConnected(l) ==
    /\ At(l, "mark_connected")
    /\ conn' = "connected"
    /\ retry' = "none"
    /\ Continue(l, <<"capture">>)
    /\ UNCHANGED <<session, ws, recent, network, gate, runtime, history>>

\* Slip: the websocket of a failed handshake is only forgotten.
HandshakeFailsOpen(l) ==
    /\ Inside(l, "handshake")
    /\ session' = "error"
    /\ conn' = "reconnect_wait"
    /\ retry' = "waiting"
    /\ BackToTop(l)
    /\ UNCHANGED <<ws, recent, network, gate, runtime, history>>

HandshakeFails(l) ==
    /\ Inside(l, "handshake")
    /\ Close({handle[l]})
    /\ session' = "error"
    /\ conn' = "reconnect_wait"
    /\ retry' = "waiting"
    /\ BackToTop(l)
    /\ UNCHANGED <<ws, recent, gate, runtime, history>>

-----------------------------------------------------------------------------
(* One pass of the loop: process_capture and the gate's events, then send,  *)
(* receive and play.                                                        *)

\* Nothing goes upstream: silence, a muted frame, a segment still growing.
CaptureNothing(l) ==
    /\ At(l, "capture")
    /\ Continue(l, <<"receive">>)
    /\ UNCHANGED <<transport, network, gate, runtime, history>>

\* An utterance is sent, as text by send_text or as frames by send_event.
CaptureUtterance(l) ==
    /\ At(l, "capture")
    /\ conversation
    /\ ~RemoteOutputActive
    /\ Continue(l, <<"send", "receive">>)
    /\ UNCHANGED <<transport, network, gate, runtime, history>>

\* A wake word opens the conversation; what follows it may be sent at once.
CaptureWakeWord(l) ==
    /\ At(l, "capture")
    /\ ~conversation
    /\ ~RemoteOutputActive
    /\ conversation' = TRUE
    /\ \/ Continue(l, <<"receive">>)
       \/ Continue(l, <<"send", "receive">>)
    /\ UNCHANGED <<transport, network, wake_word_required, runtime, history>>

\* Slip: the order of stop_speech.
EndPhraseDrainsFirst(l) ==
    /\ At(l, "capture")
    /\ wake_word_required /\ conversation
    /\ ~RemoteOutputActive
    /\ conversation' = FALSE
    /\ Continue(l, <<"drain", "cancel", "receive">>)
    /\ UNCHANGED <<transport, network, wake_word_required, runtime, history>>

\* _handle_local_gate_event for an end phrase.
CaptureEndPhrase(l) ==
    /\ At(l, "capture")
    /\ wake_word_required /\ conversation
    /\ ~RemoteOutputActive
    /\ conversation' = FALSE
    /\ Continue(l, <<"cancel", "drain", "receive">>)
    /\ UNCHANGED <<transport, network, wake_word_required, runtime, history>>

\* _handle_barge_in: output began since _is_output_phase was asked.
CaptureBargeIn(l) ==
    /\ At(l, "capture")
    /\ RemoteOutputActive
    /\ Continue(l, <<"cancel", "drain", "send", "receive">>)
    /\ UNCHANGED <<transport, network, gate, runtime, history>>

\* The microphone, a codec or the player raises: _record_runtime_error.
LoopRaises(l) ==
    /\ At(l, "capture") \/ At(l, "play")
    /\ BackToTop(l)
    /\ IF conn = "reconnect_wait"
       THEN UNCHANGED <<transport, network>>
       ELSE CloseAndRetry /\ UNCHANGED <<session, recent>>
    /\ UNCHANGED <<gate, runtime, history>>

\* send_event and send_text, up to the check of the session's state.
SendBegins(t) ==
    /\ At(t, "send")
    /\ \/ NoSocket(t)
       \/ /\ ws # None /\ session \in Terminal
          /\ CloseAndRetry
          /\ Continue(t, <<>>)
          /\ UNCHANGED <<session, recent, gate, runtime, history>>
       \/ ws # None /\ session \notin Terminal /\ UseSocket(t)

Send(t) ==
    /\ Inside(t, "send")
    /\ handle[t] \in open
    /\ misdirected' = (misdirected \/ handle[t] \in heard)
    /\ Continue(t, <<>>)
    /\ UNCHANGED <<transport, network, gate, runtime, heard, lapsed, speech_stops, abandoned>>

SendFails(t) ==
    /\ Inside(t, "send")
    /\ Continue(t, <<>>)
    /\ CallFails

\* The relay session was closed under the call: "not ready", nothing is sent.
SendRefused(t) ==
    /\ Inside(t, "send")
    /\ handle[t] \notin open
    /\ Continue(t, <<>>)
    /\ UNCHANGED <<transport, network, gate, runtime, history>>

-----------------------------------------------------------------------------
(* receive_event, once from the loop and again and again from a drain.      *)

Receiving == {"receive", "drain"}

ReceiveBegins(t) ==
    /\ \E op \in Receiving : At(t, op)
    /\ NoSocket(t) \/ (ws # None /\ UseSocket(t))

\* A message: _record_message, and the event goes to the player or, drained, is
\* dropped and the next one is asked for.
Receive(t) ==
    /\ \E op \in Receiving : Inside(t, op)
    /\ handle[t] \in open
    /\ inbox[handle[t]] # <<>>
    /\ LET m == Head(inbox[handle[t]]) IN
       /\ session' = IF m = "audio" THEN "speaking" ELSE "ended"
       /\ recent' = (recent \/ m = "audio")
       /\ heard' = IF m = "ended" THEN heard \cup {handle[t]} ELSE heard
       /\ lapsed' = (lapsed \/ m = "ended")
       /\ Continue(t, IF Head(ops[t]) = "drain" THEN <<"drain">>
                      ELSE IF m = "audio" THEN <<"play">> ELSE <<>>)
    /\ inbox' = [inbox EXCEPT ![handle[t]] = Tail(@)]
    /\ UNCHANGED <<conn, ws, retry, open, down, gate, runtime,
                   misdirected, speech_stops, abandoned>>

ReceiveTimesOut(t) ==
    /\ \E op \in Receiving : Inside(t, op)
    /\ handle[t] \in open
    /\ inbox[handle[t]] = <<>>
    /\ Continue(t, <<>>)
    /\ UNCHANGED <<transport, network, gate, runtime, history>>

ReceiveFails(t) ==
    /\ \E op \in Receiving : Inside(t, op)
    /\ handle[t] \in down \/ handle[t] \notin open
    /\ Continue(t, <<>>)
    /\ CallFails

Play(l) ==
    /\ At(l, "play")
    /\ Continue(l, <<>>)
    /\ UNCHANGED <<transport, network, gate, runtime, history>>

-----------------------------------------------------------------------------
(* cancel_output and stop_speech. *)

CancelBegins(t) ==
    /\ At(t, "cancel")
    /\ NoSocket(t) \/ (ws # None /\ UseSocket(t))

CancelSent(t) ==
    /\ Inside(t, "cancel")
    /\ handle[t] \in open
    /\ Continue(t, <<"interrupted">>)
    /\ UNCHANGED <<transport, network, gate, runtime, history>>

CancelFails(t) ==
    /\ Inside(t, "cancel")
    /\ handle[t] \in down \/ handle[t] \notin open
    /\ Continue(t, <<>>)
    /\ UNCHANGED <<transport, network, gate, runtime, history>>

\* The request is out: whatever the session's state is by now, it is replaced.
CancelRecorded(t) ==
    /\ At(t, "interrupted")
    /\ session' = "interrupted"
    /\ Continue(t, <<>>)
    /\ UNCHANGED <<conn, ws, retry, recent, network, gate, runtime, history>>

\* stop_speech: the drain of interrupt_playback, and only then cancel_output.
StopSpeech(u) ==
    /\ ops[u] = <<>>
    /\ ops' = [ops EXCEPT ![u] = <<"drain", "cancel">>]
    /\ speech_stops < MaxSpeechStops
    /\ speech_stops' = speech_stops + 1
    /\ UNCHANGED <<transport, network, gate, runtime, handle,
                   heard, lapsed, misdirected, abandoned>>

-----------------------------------------------------------------------------
(* start and stop. *)

Start ==
    /\ owner = "idle"
    /\ thread \notin running
    /\ stop_event' = FALSE
    /\ \E l \in Loops \ running : thread' = l /\ running' = running \cup {l}
    /\ UNCHANGED <<transport, network, gate, owner, calls, history>>

Stop ==
    /\ owner = "idle"
    /\ stop_event' = TRUE
    /\ owner' = "join"
    /\ UNCHANGED <<transport, network, gate, thread, running, calls, history>>

\* join(timeout=2.0) returns: the loop has returned, or it is abandoned.
StopJoins ==
    /\ owner = "join"
    /\ abandoned' = (abandoned \/ thread \in running)
    /\ thread' = None
    /\ owner' = "close"
    /\ UNCHANGED <<transport, network, gate, stop_event, running, calls,
                   heard, lapsed, misdirected, speech_stops>>

StopCloses ==
    /\ owner = "close"
    /\ Close({ws})
    /\ ws' = None
    /\ conn' = "closed"
    /\ lapsed' = FALSE
    /\ owner' = "idle"
    /\ UNCHANGED <<session, retry, recent, gate, stop_event, thread, running, calls,
                   heard, misdirected, speech_stops, abandoned>>

-----------------------------------------------------------------------------
(* The gateway, the network and the clock. *)

GatewaySends(s, m) ==
    /\ s = ws
    /\ Len(inbox[s]) < MaxInbox
    /\ s \notin heard
    /\ \A i \in DOMAIN inbox[s] : inbox[s][i] # "ended"
    /\ inbox' = [inbox EXCEPT ![s] = Append(@, m)]
    /\ UNCHANGED <<transport, open, down, gate, runtime, calls, history>>

ConnectionBreaks(s) ==
    /\ s \in open \ down
    /\ down' = down \cup {s}
    /\ UNCHANGED <<transport, open, inbox, gate, runtime, calls, history>>

BackoffElapses ==
    /\ retry = "waiting"
    /\ retry' = "due"
    /\ UNCHANGED <<conn, session, ws, recent, network, gate, runtime, calls, history>>

AudioGraceElapses ==
    /\ recent
    /\ recent' = FALSE
    /\ UNCHANGED <<conn, session, ws, retry, network, gate, runtime, calls, history>>

TransportCall(t) ==
    \/ SendBegins(t) \/ Send(t) \/ SendFails(t) \/ SendRefused(t)
    \/ ReceiveBegins(t) \/ Receive(t) \/ ReceiveTimesOut(t) \/ ReceiveFails(t)
    \/ CancelBegins(t) \/ CancelSent(t) \/ CancelFails(t) \/ CancelRecorded(t)

LoopStep(l) ==
    \/ LoopExit(l) \/ LoopSteps(l) \/ LoopRetiresSession(l) \/ LoopConnects(l)
    \/ Redial(l) \/ Dial(l)
    \/ HandshakeSucceeds(l) \/ MarkConnected(l) \/ HandshakeFails(l)
    \/ CaptureNothing(l) \/ CaptureUtterance(l) \/ CaptureWakeWord(l)
    \/ CaptureEndPhrase(l) \/ CaptureBargeIn(l) \/ LoopRaises(l) \/ Play(l)

Environment ==
    \/ \E s \in Sockets, m \in Messages : GatewaySends(s, m)
    \/ \E s \in Sockets : ConnectionBreaks(s)
    \/ BackoffElapses \/ AudioGraceElapses

Next ==
    \/ \E l \in Loops : LoopStep(l)
    \/ \E t \in Threads : TransportCall(t)
    \/ \E u \in Users : StopSpeech(u)
    \/ Start \/ Stop \/ StopJoins \/ StopCloses
    \/ Environment

Spec == Init /\ [][Next]_vars

\* Every thread runs on until its call or its request is over, stop() returns
\* and the backoff passes; nobody has to start, stop or say anything, and the
\* gateway and the network owe nothing.
Fairness ==
    /\ \A l \in Loops : WF_vars(LoopStep(l) \/ TransportCall(l))
    /\ \A u \in Users : WF_vars(TransportCall(u))
    /\ WF_vars(StopJoins \/ StopCloses)
    /\ WF_vars(BackoffElapses)

FairSpec == Spec /\ Fairness

-----------------------------------------------------------------------------
(* Properties *)

Quiet == speech_stops = 0 /\ ~abandoned

\* Nothing is sent to a relay session whose end has been received, as long as
\* the loop is the only thread that uses the transport.
NoSendToEndedSession == Quiet => ~misdirected

\* Every open websocket is the current one or the one a loop is shaking hands
\* on, as long as there is a single loop: no failure, reconnect or stop_speech,
\* in whatever order, leaves one behind that nobody will close.
NoLeakedSocket ==
    ~abandoned =>
        open \subseteq {ws} \cup {handle[l] : l \in {k \in Loops : Inside(k, "handshake")}}

\* A connection that calls itself connected has a websocket: the run loop never
\* idles on a connection that is not there.
ConnectedHasSocket == Quiet /\ conn = "connected" => ws # None

\* Once stop() has joined the loop and returned, nothing is open, and nothing
\* that was still running opens it again.
StoppedIsClosed ==
    ~abandoned /\ thread = None /\ owner = "idle" => open = {} /\ conn # "connected"

\* The wake word is asked for again in the session after one that ended.
WakeGateRearmed ==
    Quiet /\ lapsed /\ (\E l \in Loops : Inside(l, "handshake")) =>
        conversation = ~wake_word_required

\* The sockets there are are the ones the runtime knows of, from start to stop.
SocketsAccounted == NoLeakedSocket /\ ConnectedHasSocket /\ StoppedIsClosed

\* The end of a relay session ends it: no more is sent, and the next one has to be woken.
EndedIsOver == NoSendToEndedSession /\ WakeGateRearmed

Running == running # {} /\ ~stop_event

Dialling == \E l \in Loops : Inside(l, "handshake")

\* A lost or refused connection is tried again for as long as the loop runs.
LossIsRetried ==
    (Running /\ ws = None /\ Quiet) ~> (ws # None \/ Dialling \/ ~Running \/ ~Quiet)

\* A relay session whose end was received is given up for a new one, whoever
\* received it: the loop that runs does not go on with it for ever.
EndedSessionRetired ==
    \A s \in Sockets :
        (ws = s /\ s \in heard /\ Running /\ ~abandoned)
            ~> (ws # s \/ ~Running \/ abandoned)

\* The same for a loop that has the transport to itself.
EndedSessionRetiredByLoop ==
    \A s \in Sockets : (ws = s /\ s \in heard /\ Quiet) ~> (ws # s \/ ~Quiet)
=============================================================================
