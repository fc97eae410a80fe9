----------------------- MODULE EiVoiceRuntimePipeline -----------------------
(***************************************************************************)
(* eivoice_runtime/runtime.py: EiVoiceRuntimeRunner, driven as             *)
(* runtime/openclaw_runtime.py drives it.  The runtime thread moves frames *)
(* upstream (capture, encode, send) and downstream (receive, decode, play) *)
(* one step method at a time; interrupt_playback empties the downstream    *)
(* half from whichever thread was told to stop the speech.                 *)
(*                                                                         *)
(* Every queue operation is one step (BoundedAudioQueue shows that it is   *)
(* atomic); between taking a frame from one queue and putting it into the  *)
(* next a step method holds the frame alone, and other threads run.        *)
(* Frames are numbered in the order they are captured, or delivered.       *)
(***************************************************************************)
EXTENDS Naturals, Sequences, FiniteSets

CONSTANTS EncodeCapacity,    \* capacity of opus_encode_queue
          SendCapacity,      \* capacity of ws_send_queue
          InboundCapacity,   \* capacity of the transport's inbound queue
          DecodeCapacity,    \* capacity of opus_decode_queue
          PlaybackCapacity,  \* capacity of audio_playback_queue
          Drivers,           \* who calls the step methods: "runtime", "any"
          InterrupterSets,   \* the sets of threads that may interrupt: "run"
                             \* on a barge-in, "http" for a stop_speech action
          MaxCaptured,       \* bound: frames captured in a behaviour
          MaxDelivered,      \* bound: frames the server delivers
          MaxInterrupts      \* bound: interrupts in a behaviour

ASSUME PipelineAssumption ==
    /\ {EncodeCapacity, SendCapacity, InboundCapacity,
        DecodeCapacity, PlaybackCapacity} \subseteq Nat \ {0}
    /\ Drivers \subseteq {"runtime", "any"}
    /\ InterrupterSets \subseteq SUBSET {"run", "http"}
    /\ {MaxCaptured, MaxDelivered, MaxInterrupts} \subseteq Nat

VARIABLES driver,            \* how the step methods are called, for good
          interrupters,      \* which threads interrupt, for good
          todo,              \* the step methods left in this pass of the loop
          held,              \* the frame the running step method took, if any
          encode_queue, send_queue,                   \* upstream
          inbound_queue, decode_queue, playback_queue,  \* downstream
          metrics,           \* the counters the runtime thread writes
          interrupt,         \* where each thread is in interrupt_playback
          interrupts,        \* _cancelled_round_count, at the interrupts' starts
          cleared,           \* history: frames that interrupts took out
          captured, sent,    \* history: frames captured, frames accepted upstream
          delivered,         \* history: frames put into the inbound queue
          played,            \* history: the last frame played, 0 for none
          lost,              \* history: downstream frames a raising step dropped
          asked, silenced    \* history: the newest frame delivered when a running
                             \* interrupt began; when a finished one did

upstream == <<encode_queue, send_queue, captured, sent>>
downstream == <<inbound_queue, decode_queue, playback_queue>>
stopping == <<interrupt, interrupts, cleared, asked, silenced>>
setup == <<driver, interrupters>>
vars == <<setup, todo, held, upstream, downstream, metrics, stopping,
          delivered, played, lost>>

Threads == {"run", "http"}

Steps == {"capture", "encode", "send", "receive", "decode", "playback"}

\* step_once, and the pass of _step_output_once, whose receive is followed by
\* another decode and playback when it brought a frame.
StepOnce == <<"capture", "encode", "send", "receive", "decode", "playback">>

\* Slip: no frame is received while output is heard.
OutputPassStarved == <<"playback", "decode">>

OutputPass == <<"playback", "decode", "receive_and_play">>

Passes == IF driver = "runtime" THEN {StepOnce, OutputPass} ELSE {<<s>> : s \in Steps}

Nothing == [stage |-> "none", frame |-> 0]
Stages == {"none"} \cup Steps

Counters == {"capture_frames", "capture_queue_full", "encode_frames",
             "dropped_oldest", "send_frames", "send_rejected", "receive_frames", "receive_queue_full",
             "decode_frames", "decode_queue_full", "playback_frames"}

TypeOK ==
    /\ driver \in Drivers
    /\ interrupters \in InterrupterSets
    /\ todo \in Seq(Steps \cup {"receive_and_play"})
    /\ held \in [stage : Stages, frame : Nat]
    /\ encode_queue \in Seq(Nat) /\ Len(encode_queue) <= EncodeCapacity
    /\ send_queue \in Seq(Nat) /\ Len(send_queue) <= SendCapacity
    /\ inbound_queue \in Seq(Nat) /\ Len(inbound_queue) <= InboundCapacity
    /\ decode_queue \in Seq(Nat) /\ Len(decode_queue) <= DecodeCapacity
    /\ playback_queue \in Seq(Nat) /\ Len(playback_queue) <= PlaybackCapacity
    /\ metrics \in [Counters -> Nat]
    /\ interrupt \in [Threads -> {"no", "playback", "decode", "inbound", "record"}]
    /\ asked \in [Threads -> Nat]
    /\ {captured, sent, delivered, played, lost, interrupts, cleared, silenced} \subseteq Nat

Init ==
    /\ driver \in Drivers
    /\ interrupters \in InterrupterSets
    /\ todo = <<>>
    /\ held = Nothing
    /\ encode_queue = <<>> /\ send_queue = <<>>
    /\ inbound_queue = <<>> /\ decode_queue = <<>> /\ playback_queue = <<>>
    /\ metrics = [c \in Counters |-> 0]
    /\ interrupt = [a \in Threads |-> "no"]
    /\ asked = [a \in Threads |-> 0]
    /\ captured = 0 /\ sent = 0 /\ delivered = 0
    /\ played = 0 /\ lost = 0
    /\ interrupts = 0 /\ cleared = 0 /\ silenced = 0

\* push(..., block=False) on a queue that drops the newest.
HasRoom(queue, capacity) == Len(queue) < capacity

Count(c) == metrics' = [metrics EXCEPT ![c] = @ + 1]

\* The runtime thread runs: it is not inside an interrupt of its own.
Running == interrupt["run"] = "no"

\* The runtime thread is about to run step method `s`, and holds no frame.
AtStep(s) == Running /\ held = Nothing /\ todo # <<>> /\ Head(todo) = s

\* The step method in progress took `f` from the queue in front of it.
Holds(s) == Running /\ held.stage = s

Hold(s, f) == held' = [stage |-> s, frame |-> f] /\ UNCHANGED todo

StepDone == todo' = Tail(todo) /\ held' = Nothing

-----------------------------------------------------------------------------
(* The upstream steps. *)

BeginPass ==
    /\ Running
    /\ held = Nothing
    /\ todo = <<>>
    /\ todo' \in Passes
    /\ UNCHANGED <<setup, held, upstream, downstream, metrics, stopping,
                   delivered, played, lost>>

\* step_capture: no frame from the microphone, or none left by the frontend.
CaptureNothing ==
    /\ AtStep("capture")
    /\ StepDone
    /\ UNCHANGED <<setup, upstream, downstream, metrics, stopping,
                   delivered, played, lost>>

\* step_capture: the frontend returns a frame, after a barge-in or without one.
CaptureFrame ==
    /\ AtStep("capture")
    /\ captured < MaxCaptured
    /\ captured' = captured + 1
    /\ IF HasRoom(encode_queue, EncodeCapacity)
       THEN /\ encode_queue' = Append(encode_queue, captured')
            /\ Count("capture_frames")
       ELSE /\ Count("capture_queue_full")
            /\ UNCHANGED encode_queue
    /\ StepDone
    /\ UNCHANGED <<setup, send_queue, sent, downstream, stopping,
                   delivered, played, lost>>

\* step_encode: drop_oldest makes room in ws_send_queue.
Encode ==
    /\ AtStep("encode")
    /\ IF encode_queue = <<>>
       THEN UNCHANGED <<upstream, metrics>>
       ELSE LET full == Len(send_queue) = SendCapacity IN
            /\ encode_queue' = Tail(encode_queue)
            /\ send_queue' = Append(IF full THEN Tail(send_queue) ELSE send_queue,
                                    Head(encode_queue))
            /\ metrics' = [metrics EXCEPT !["encode_frames"] = @ + 1,
                                          !["dropped_oldest"] = IF full THEN @ + 1 ELSE @]
            /\ UNCHANGED <<captured, sent>>
    /\ StepDone
    /\ UNCHANGED <<setup, downstream, stopping, delivered, played, lost>>

\* step_send: the transport takes the frame, or refuses it and it is gone.
Send ==
    /\ AtStep("send")
    /\ IF send_queue = <<>>
       THEN UNCHANGED <<upstream, metrics>>
       ELSE /\ send_queue' = Tail(send_queue)
            /\ \/ Count("send_frames") /\ sent' = Head(send_queue)
               \/ Count("send_rejected") /\ UNCHANGED sent
            /\ UNCHANGED <<encode_queue, captured>>
    /\ StepDone
    /\ UNCHANGED <<setup, downstream, stopping, delivered, played, lost>>

-----------------------------------------------------------------------------
(* The downstream steps. *)

\* deliver_from_server / push_inbound_event; a full queue drops the newest.
Deliver ==
    /\ delivered < MaxDelivered
    /\ HasRoom(inbound_queue, InboundCapacity)
    /\ delivered' = delivered + 1
    /\ inbound_queue' = Append(inbound_queue, delivered')
    /\ UNCHANGED <<setup, todo, held, upstream, decode_queue, playback_queue,
                   metrics, stopping, played, lost>>

Receives == {"receive", "receive_and_play"}

ReceiveNothing ==
    /\ \E s \in Receives : AtStep(s)
    /\ inbound_queue = <<>>
    /\ StepDone
    /\ UNCHANGED <<setup, upstream, downstream, metrics, stopping,
                   delivered, played, lost>>

\* Slip: the newest event first.
ReceiveTakeNewest ==
    /\ \E s \in Receives : AtStep(s)
    /\ inbound_queue # <<>>
    /\ inbound_queue' = SubSeq(inbound_queue, 1, Len(inbound_queue) - 1)
    /\ Hold("receive", inbound_queue[Len(inbound_queue)])
    /\ UNCHANGED <<setup, upstream, decode_queue, playback_queue, metrics,
                   stopping, delivered, played, lost>>

ReceiveTake ==
    /\ \E s \in Receives : AtStep(s)
    /\ inbound_queue # <<>>
    /\ inbound_queue' = Tail(inbound_queue)
    /\ Hold("receive", Head(inbound_queue))
    /\ UNCHANGED <<setup, upstream, decode_queue, playback_queue, metrics,
                   stopping, delivered, played, lost>>

ReceivePut ==
    /\ Holds("receive")
    /\ held' = Nothing
    /\ IF HasRoom(decode_queue, DecodeCapacity)
       THEN /\ decode_queue' = Append(decode_queue, held.frame)
            /\ Count("receive_frames")
            /\ todo' = (IF Head(todo) = "receive_and_play"
                        THEN <<"decode", "playback">> ELSE <<>>) \o Tail(todo)
       ELSE /\ Count("receive_queue_full")
            /\ todo' = Tail(todo)
            /\ UNCHANGED decode_queue
    /\ UNCHANGED <<setup, upstream, inbound_queue, playback_queue, stopping,
                   delivered, played, lost>>

DecodeTake ==
    /\ AtStep("decode")
    /\ IF decode_queue = <<>>
       THEN StepDone /\ UNCHANGED decode_queue
       ELSE Hold("decode", Head(decode_queue)) /\ decode_queue' = Tail(decode_queue)
    /\ UNCHANGED <<setup, upstream, inbound_queue, playback_queue, metrics,
                   stopping, delivered, played, lost>>

DecodePut ==
    /\ Holds("decode")
    /\ IF HasRoom(playback_queue, PlaybackCapacity)
       THEN /\ playback_queue' = Append(playback_queue, held.frame)
            /\ Count("decode_frames")
       ELSE /\ Count("decode_queue_full")
            /\ UNCHANGED playback_queue
    /\ StepDone
    /\ UNCHANGED <<setup, upstream, inbound_queue, decode_queue, stopping,
                   delivered, played, lost>>

PlaybackTake ==
    /\ AtStep("playback")
    /\ IF playback_queue = <<>>
       THEN StepDone /\ UNCHANGED playback_queue
       ELSE Hold("playback", Head(playback_queue)) /\ playback_queue' = Tail(playback_queue)
    /\ UNCHANGED <<setup, upstream, inbound_queue, decode_queue, metrics,
                   stopping, delivered, played, lost>>

Play ==
    /\ Holds("playback")
    /\ played' = held.frame
    /\ Count("playback_frames")
    /\ StepDone
    /\ UNCHANGED <<setup, upstream, downstream, stopping, delivered, lost>>

\* The codec or the player raises: _run catches it and starts another pass.
StepRaises ==
    /\ Holds("decode") \/ Holds("playback")
    /\ lost' = lost + 1
    /\ held' = Nothing
    /\ todo' = <<>>
    /\ UNCHANGED <<setup, upstream, downstream, metrics, stopping, delivered, played>>

-----------------------------------------------------------------------------
(* interrupt_playback, one queue after the other. *)

\* playback_sink.stop(): from step_capture on a barge-in, or for stop_speech.
InterruptStart(a) ==
    /\ a \in interrupters
    /\ interrupt[a] = "no"
    /\ a = "run" => AtStep("capture")
    /\ interrupts < MaxInterrupts
    /\ interrupts' = interrupts + 1
    /\ interrupt' = [interrupt EXCEPT ![a] = "playback"]
    /\ asked' = [asked EXCEPT ![a] = delivered]
    /\ UNCHANGED <<setup, todo, held, upstream, downstream, metrics, cleared,
                   silenced, delivered, played, lost>>

\* One pop of _drain_queue or drain_inbound_events on `queue`, and on to the
\* next queue when this one is empty.
Drain(a, name, queue, next) ==
    /\ interrupt[a] = name
    /\ IF queue = <<>>
       THEN interrupt' = [interrupt EXCEPT ![a] = next] /\ UNCHANGED cleared
       ELSE cleared' = cleared + 1 /\ UNCHANGED interrupt
    /\ UNCHANGED <<setup, todo, held, upstream, metrics, interrupts, asked,
                   silenced, delivered, played, lost>>

\* Slip: the queue is emptied and one frame is counted.
EmptiedAtOnce(queue) == <<>>

Emptied(queue) == IF queue = <<>> THEN queue ELSE Tail(queue)

InterruptDrainPlayback(a) ==
    /\ Drain(a, "playback", playback_queue, "decode")
    /\ playback_queue' = Emptied(playback_queue)
    /\ UNCHANGED <<inbound_queue, decode_queue>>

\* Slip: the transport's inbound events are left alone.
InterruptSkipsInbound(a) ==
    /\ Drain(a, "decode", decode_queue, "record")
    /\ decode_queue' = Emptied(decode_queue)
    /\ UNCHANGED <<inbound_queue, playback_queue>>

InterruptDrainDecode(a) ==
    /\ Drain(a, "decode", decode_queue, "inbound")
    /\ decode_queue' = Emptied(decode_queue)
    /\ UNCHANGED <<inbound_queue, playback_queue>>

InterruptDrainInbound(a) ==
    /\ Drain(a, "inbound", inbound_queue, "record")
    /\ inbound_queue' = Emptied(inbound_queue)
    /\ UNCHANGED <<decode_queue, playback_queue>>

\* record_interrupt: the interrupt is over, its caller may report "stopped".
InterruptRecord(a) ==
    /\ interrupt[a] = "record"
    /\ interrupt' = [interrupt EXCEPT ![a] = "no"]
    /\ silenced' = IF asked[a] > silenced THEN asked[a] ELSE silenced
    /\ asked' = [asked EXCEPT ![a] = 0]
    /\ UNCHANGED <<setup, todo, held, upstream, downstream, metrics, interrupts,
                   cleared, delivered, played, lost>>

RunStep ==
    \/ BeginPass \/ CaptureNothing \/ CaptureFrame \/ Encode \/ Send
    \/ ReceiveNothing \/ ReceiveTake \/ ReceivePut
    \/ DecodeTake \/ DecodePut \/ PlaybackTake \/ Play \/ StepRaises

Interrupt(a) ==
    \/ InterruptDrainPlayback(a) \/ InterruptDrainDecode(a)
    \/ InterruptDrainInbound(a) \/ InterruptRecord(a)

Next ==
    \/ RunStep
    \/ Deliver
    \/ \E a \in Threads : InterruptStart(a) \/ Interrupt(a)

Spec == Init /\ [][Next]_vars

\* The runtime thread loops for ever and an interrupt that began runs on; the
\* microphone, the server and the user owe nothing.
Fairness ==
    /\ WF_vars(RunStep)
    /\ \A a \in Threads : WF_vars(Interrupt(a))

FairSpec == Spec /\ Fairness

-----------------------------------------------------------------------------
(* Properties *)

HeldDownstream == held.stage \in {"receive", "decode", "playback"}

\* Every frame the server delivered is in a queue, in the hands of a step
\* method, or in exactly one of the counts of what became of it: a frame is
\* neither lost without trace nor played or cleared twice, even while an
\* interrupt empties the queues under the running steps.
DownstreamAccounted ==
    delivered = Len(inbound_queue) + Len(decode_queue) + Len(playback_queue)
                + (IF HeldDownstream THEN 1 ELSE 0)
                + metrics["receive_queue_full"] + metrics["decode_queue_full"]
                + metrics["playback_frames"] + lost + cleared

\* Whatever is dropped, cleared or raised on the way, the frames that do come
\* out come out in the order they went in, each once.
InOrder == [][/\ played' # played => played' > played
              /\ sent' # sent => sent' > sent]_vars

\* Between two passes of the runtime's own loop nothing is left between the
\* stages, so that the bounded queues never drop anything in the runtime.
NothingLeftBetweenPasses ==
    driver = "runtime" /\ todo = <<>> =>
        /\ held = Nothing
        /\ encode_queue = <<>> /\ send_queue = <<>>
        /\ decode_queue = <<>> /\ playback_queue = <<>>

\* No frame is lost without trace, in the middle of a pass or after it.
FramesAccounted == DownstreamAccounted /\ NothingLeftBetweenPasses

\* Frame `f` is on its way from the server to the player.
Underway(f) ==
    \/ HeldDownstream /\ held.frame = f
    \/ \E queue \in {inbound_queue, decode_queue, playback_queue} :
           \E i \in DOMAIN queue : queue[i] = f

\* The frames, not yet played, that were delivered before a finished interrupt.
Stale == {f \in 1 .. silenced : Underway(f)}

\* However stop_speech and the runtime thread interleave, at most the one
\* frame in the runtime thread's hands survives an interrupt that returned; a
\* barge-in, which runs on the runtime thread itself, leaves none.
AtMostOneStaleFrame ==
    /\ driver = "runtime" => Cardinality(Stale) <= 1
    /\ interrupters = {"run"} => Stale = {}

\* An interrupt that has returned has cleared all downstream buffers: nothing
\* the server had sent before it is left to be played.
InterruptClearsDownstream == Stale = {}

\* Every frame that arrives is played, dropped or cleared in the end.
DownstreamDrains ==
    \A f \in 1 .. MaxDelivered : driver = "runtime" /\ Underway(f) ~> ~Underway(f)
=============================================================================
