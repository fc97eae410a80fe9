---------------------------- MODULE StreamingAsr ----------------------------
(***************************************************************************)
(* eivoice_runtime/asr.py: StreamingAsrSession, with the provider and the  *)
(* websocket of eivoice_runtime/cloud_providers.py that it sends frames to *)
(* (DashScopeStreamingAsrProvider, DashScopeWebSocketAsrTransport).        *)
(*                                                                         *)
(* One thread captures: it offers a frame and flushes what is pending to   *)
(* the provider.  cancel and close come from any other thread, in the      *)
(* middle of a flush too: nothing here is locked.                          *)
(***************************************************************************)
EXTENDS Naturals, Sequences

CONSTANTS max_inflight_frames,
          MaxFrames,   \* bound: frames captured
          MaxResults   \* bound: results the provider sends

\* What is assumed of the constants.
AsrAssumption ==
    /\ max_inflight_frames \in Nat \ {0}
    /\ MaxFrames \in Nat /\ MaxResults \in Nat

VARIABLES pc,         \* the capturing thread's place in flush
          canceller,  \* the cancelling thread's place in cancel
          pending,    \* _pending: numbers of frames
          received, processed, dropped,
          events,     \* how many events drain_events would return
          state,      \* the provider's _state
          started,    \* transport._started
          closed,     \* transport._closed: set for good by the first close
          socket,     \* what transport._ws is
          results,    \* results the provider has sent so far
          cleared,    \* history: frames discarded by cancel
          stopped,    \* history: the provider was told to cancel or to close
          in_hand     \* history: it was told while it had a frame in hand

session == <<pending, received, processed, dropped, events, cleared>>
transport == <<started, closed, socket, results>>
vars == <<pc, canceller, session, state, transport, stopped, in_hand>>

Working == {"sending", "draining"}   \* inside provider.accept_frame

TypeOK ==
    /\ pc \in {"idle", "flush", "take", "taken"} \cup Working
    /\ canceller \in {"idle", "clearing"}
    /\ pending \in Seq(1 .. received) /\ Len(pending) <= max_inflight_frames
    /\ received \in 0 .. MaxFrames
    /\ {processed, dropped, cleared} \subseteq 0 .. received
    /\ events \in 0 .. results /\ results \in 0 .. MaxResults
    /\ state \in {"idle", "streaming", "finalized", "error", "cancelled", "closed"}
    /\ {started, closed, stopped, in_hand} \subseteq BOOLEAN
    /\ socket \in {"none", "open", "broken", "shut"}

Init ==
    /\ pc = "idle" /\ canceller = "idle"
    /\ pending = <<>> /\ received = 0 /\ processed = 0 /\ dropped = 0
    /\ events = 0 /\ cleared = 0
    /\ state = "idle"
    /\ started = FALSE /\ closed = FALSE /\ socket = "none" /\ results = 0
    /\ stopped = FALSE /\ in_hand = FALSE

can_accept_frame == state \notin {"cancelled", "closed"}

-----------------------------------------------------------------------------
(* The capturing thread. *)

\* Slip: one frame too many is kept.
EnqueueOverfull ==
    IF Len(pending) > max_inflight_frames
    THEN pending' = Append(Tail(pending), received + 1) /\ dropped' = dropped + 1
    ELSE pending' = Append(pending, received + 1) /\ UNCHANGED dropped

\* The oldest frame makes room for the new one.
Enqueue ==
    IF Len(pending) >= max_inflight_frames
    THEN pending' = Append(Tail(pending), received + 1) /\ dropped' = dropped + 1
    ELSE pending' = Append(pending, received + 1) /\ UNCHANGED dropped

AcceptFrame ==
    /\ pc = "idle" /\ received < MaxFrames
    /\ received' = received + 1
    /\ Enqueue
    /\ pc' = "flush"
    /\ UNCHANGED <<canceller, processed, events, cleared, state, transport, stopped, in_hand>>

\* The loop of flush goes round while there are frames and the provider is ready.
Flush ==
    /\ pc = "flush"
    /\ pc' = IF pending # <<>> /\ can_accept_frame THEN "take" ELSE "idle"
    /\ UNCHANGED <<canceller, session, state, transport, stopped, in_hand>>

\* popleft, which raises if cancel has cleared the frames meanwhile.
Take ==
    /\ pc = "take"
    /\ IF pending = <<>> THEN pc' = "idle" /\ UNCHANGED <<pending, processed>>
       ELSE /\ pending' = Tail(pending)
            /\ processed' = processed + 1
            /\ pc' = "taken"
    /\ UNCHANGED <<canceller, received, dropped, events, cleared, state, transport,
                   stopped, in_hand>>

\* Slip: flush's check is taken for good.
OfferUnchecked ==
    /\ pc = "taken" /\ pc' = "sending"
    /\ UNCHANGED <<canceller, session, state, transport, stopped, in_hand>>

\* provider.accept_frame asks once more, then sends.
Offer ==
    /\ pc = "taken"
    /\ pc' = IF can_accept_frame THEN "sending" ELSE "flush"
    /\ UNCHANGED <<canceller, session, state, transport, stopped, in_hand>>

\* The frame is with the provider, on a connection that _ensure_started opens unless
\* its task was started before: whatever was written to the provider's state
\* meanwhile is overwritten.
SendSucceeds ==
    /\ pc = "sending"
    /\ IF started THEN socket = "open" /\ UNCHANGED <<socket, started>>
       ELSE socket' = "open" /\ started' = TRUE
    /\ state' = "streaming"
    /\ pc' = "draining"
    /\ UNCHANGED <<canceller, session, closed, results, stopped, in_hand>>

\* The frame is lost.  A connection whose task was started is never replaced; one
\* whose task was not is left open.
SendFails ==
    /\ pc = "sending"
    /\ \/ socket' = (IF socket = "open" THEN "broken" ELSE socket) /\ UNCHANGED started
       \/ ~started /\ socket' = "open" /\ UNCHANGED started
       \/ ~started /\ socket' = "broken" /\ started' = TRUE
    /\ state' = "error"
    /\ pc' = "flush"
    /\ UNCHANGED <<canceller, session, closed, results, stopped, in_hand>>

\* receive_json: a result, which becomes an event, or the provider's error.
ReceiveMessage ==
    /\ pc = "draining" /\ socket = "open" /\ results < MaxResults
    /\ results' = results + 1
    /\ \/ state' \in {"streaming", "finalized"} /\ events' = events + 1
       \/ state' = "error" /\ UNCHANGED events
    /\ UNCHANGED <<pc, canceller, pending, received, processed, dropped, cleared,
                   started, closed, socket, stopped, in_hand>>

\* Nothing more has come, or the receive raises.
ReceiveEnds ==
    /\ pc = "draining"
    /\ \/ socket = "open" /\ UNCHANGED <<socket, state>>
       \/ socket' = (IF socket = "open" THEN "broken" ELSE socket) /\ state' = "error"
    /\ pc' = "flush"
    /\ UNCHANGED <<canceller, session, started, closed, results, stopped, in_hand>>

DrainEvents ==
    /\ pc = "idle" /\ events > 0
    /\ events' = 0
    /\ UNCHANGED <<pc, canceller, pending, received, processed, dropped, cleared, state,
                   transport, stopped, in_hand>>

-----------------------------------------------------------------------------
(* Any other thread. *)

\* transport.close: once.
CloseTransport ==
    /\ closed' = TRUE
    /\ socket' = IF ~closed /\ socket # "none" THEN "shut" ELSE socket
    /\ UNCHANGED <<started, results>>

Stop(how) ==
    /\ state' = how
    /\ CloseTransport
    /\ stopped' = TRUE
    /\ in_hand' = (in_hand \/ pc \in Working)

\* cancel tells the provider, and only then discards the frames.
CancelProvider ==
    /\ canceller = "idle" /\ Stop("cancelled")
    /\ canceller' = "clearing"
    /\ UNCHANGED <<pc, session>>

CancelClears ==
    /\ canceller = "clearing"
    /\ cleared' = cleared + Len(pending)
    /\ pending' = <<>>
    /\ canceller' = "idle"
    /\ UNCHANGED <<pc, received, processed, dropped, events, state, transport, stopped, in_hand>>

CloseSession ==
    /\ canceller = "idle" /\ Stop("closed")
    /\ UNCHANGED <<pc, canceller, session>>

Next ==
    \/ AcceptFrame \/ Flush \/ Take \/ Offer \/ SendSucceeds \/ SendFails
    \/ ReceiveMessage \/ ReceiveEnds \/ DrainEvents
    \/ CancelProvider \/ CancelClears \/ CloseSession

Spec == Init /\ [][Next]_vars

-----------------------------------------------------------------------------

\* Every frame captured is pending, was handed to the provider, or was discarded and
\* counted, also when cancel empties the queue under flush's hands; what is pending
\* is the newest frames without a gap.
FramesAccounted ==
    /\ received = processed + dropped + cleared + Len(pending)
    /\ \A i \in 1 .. Len(pending) : pending[i] = received - Len(pending) + i

\* A recogniser that was cancelled or closed stays so and keeps no connection, whatever
\* flush had already decided; unless it was told with a frame in hand: the end of
\* that frame writes another state, and the next frames are sent again.
CancelStops ==
    stopped /\ ~in_hand => ~can_accept_frame /\ socket # "open"
=============================================================================
