--------------------------- MODULE MCVoiceProofs ---------------------------
(***************************************************************************)
(* What the components around the two voice runtimes promise, for every    *)
(* value of their constants.  Each has a section: its invariant, the steps *)
(* that keep it, and the theorem of VoiceSpec.                             *)
(***************************************************************************)
EXTENDS MCVoice, OpenClawEchoGateProofs, Integers, FiniteSets, FiniteSetTheorems,
        WellFoundedInduction

-----------------------------------------------------------------------------
(* A component out of focus stays where it is. *)

LEMMA StepOfAsr == [VoiceNext]_voice_vars => [Asr!Next]_(Asr!vars)
  BY DEF VoiceNext, voice_vars, asr, Asr!vars, Asr!session, Asr!transport

LEMMA StepOfSink == [VoiceNext]_voice_vars => [Sink!Next]_(Sink!vars)
  BY DEF VoiceNext, voice_vars, sink, Sink!vars, Sink!player, Sink!window

LEMMA StepOfTransport == [VoiceNext]_voice_vars => [Transport!Next]_(Transport!vars)
  BY DEF VoiceNext, voice_vars, transport, Transport!vars, Transport!clock,
         Transport!reconnect, Transport!queues, Transport!history

LEMMA StepOfAec == [VoiceNext]_voice_vars => [Aec!Next]_(Aec!vars)
  BY DEF VoiceNext, voice_vars, aec, Aec!vars

LEMMA StepOfTts == [VoiceNext]_voice_vars => [Tts!Next]_(Tts!vars)
  BY DEF VoiceNext, voice_vars, tts, Tts!vars

LEMMA StepOfGate == [VoiceNext]_voice_vars => [Gate!Next]_(Gate!vars)
  BY DEF VoiceNext, voice_vars, neck_gate, Gate!vars, Gate!config, Gate!native,
         Gate!openclaw, Gate!reader

LEMMA StepOfMonitor == [VoiceNext]_voice_vars => [Monitor!Next]_(Monitor!vars)
  BY DEF VoiceNext, voice_vars, monitor, Monitor!vars, Monitor!voice, Monitor!history

LEMMA StepOfGateway == [VoiceNext]_voice_vars => [Gateway!Next]_(Gateway!vars)
  BY DEF VoiceNext, voice_vars, gateway, Gateway!vars, Gateway!queues,
         Gateway!microphone, Gateway!player, Gateway!since_start

-----------------------------------------------------------------------------
(* The heartbeat (StreamTransport). *)

\* As long as nobody meddles, whoever waits for a pong, is about to, or has given up
\* waiting, was not answered.
AskedAndUnanswered ==
    ~line_meddled =>
        /\ ~wronged
        /\ awaiting_pong \/ keeper \in {"pinged", "failing"} => ~answered

LEMMA TransportKeepsAsking ==
    AskedAndUnanswered /\ [Transport!Next]_(Transport!vars) => AskedAndUnanswered'
<1> SUFFICES ASSUME AskedAndUnanswered, [Transport!Next]_(Transport!vars)
             PROVE  AskedAndUnanswered'
  OBVIOUS
<1> USE DEF AskedAndUnanswered
<1>1. CASE Transport!MarkConnected \/ Transport!ScheduleReconnect \/ Transport!Close
           \/ Transport!RecordPong
  BY <1>1 DEF Transport!MarkConnected, Transport!ScheduleReconnect, Transport!Close,
              Transport!RecordPong, Transport!Meddling, Transport!Reschedule
<1>2. CASE Transport!BeginReconnect
  BY <1>2 DEF Transport!BeginReconnect, Transport!Meddling
<1>3. CASE Transport!SendEvent \/ Transport!PopOutbound \/ Transport!PushInbound
           \/ Transport!Receive \/ Transport!Tick
  BY <1>3 DEF Transport!SendEvent, Transport!PopOutbound, Transport!PushInbound,
              Transport!Receive, Transport!Tick, Transport!history
<1>4. CASE Transport!SendPing
  BY <1>4 DEF Transport!SendPing
<1>5. CASE Transport!NotePing
  BY <1>5 DEF Transport!NotePing, Transport!history
<1>6. CASE Transport!CheckHeartbeat
  BY <1>6 DEF Transport!CheckHeartbeat, Transport!TimedOut
<1>7. CASE Transport!GiveUp
  BY <1>7 DEF Transport!GiveUp, Transport!Reschedule
<1>8. CASE UNCHANGED Transport!vars
  BY <1>8 DEF Transport!vars, Transport!history
<1> QED
  BY <1>1, <1>2, <1>3, <1>4, <1>5, <1>6, <1>7, <1>8 DEF Transport!Next

\* A connection is given up as silent only if its last ping went unanswered, for every
\* interval, timeout and delay (transport.py, send_ping and check_heartbeat).
THEOREM SpecOnlySilenceTimesOut == VoiceSpec => []OnlySilenceTimesOut
<1>1. VoiceInit => AskedAndUnanswered
  BY DEF VoiceInit, Transport!Init, AskedAndUnanswered
<1>2. AskedAndUnanswered => OnlySilenceTimesOut
  BY DEF AskedAndUnanswered, OnlySilenceTimesOut, Transport!OnlySilenceTimesOut
<1> QED
  BY <1>1, <1>2, StepOfTransport, TransportKeepsAsking, PTL DEF VoiceSpec

-----------------------------------------------------------------------------
(* The recogniser (StreamingAsr). *)

\* What the accounts are of.
FramesTyped ==
    /\ pending \in Seq(Nat)
    /\ {received, processed, dropped, cleared} \subseteq Nat

FramesInv == FramesTyped /\ Asr!FramesAccounted

\* What a stop leaves behind: the transport closed with it, and unless it met a frame
\* in hand, the capturing thread is not with the provider and will not get there.
StopInv ==
    /\ stopped <=> asr_closed
    /\ stopped /\ ~in_hand => asr_pc \notin Asr!Working
    /\ Asr!CancelStops

\* The frames that are pending have no gap and end with the newest.
Unbroken(q, last) == \A i \in 1 .. Len(q) : q[i] = last - Len(q) + i

\* One that is taken from the front leaves no gap.
LEMMA TailUnbroken ==
    ASSUME NEW q \in Seq(Nat), NEW last \in Nat, q # <<>>, Unbroken(q, last)
    PROVE  /\ Tail(q) \in Seq(Nat) /\ Len(Tail(q)) = Len(q) - 1
           /\ Unbroken(Tail(q), last)
<1>1. /\ Tail(q) \in Seq(Nat) /\ Len(Tail(q)) = Len(q) - 1 /\ Len(q) \in Nat
      /\ \A i \in 1 .. Len(Tail(q)) : Tail(q)[i] = q[i + 1]
  BY HeadTailProperties
<1>2. ASSUME NEW i \in 1 .. Len(Tail(q))
      PROVE  Tail(q)[i] = last - Len(Tail(q)) + i
  BY <1>1, <1>2 DEF Unbroken
<1> QED
  BY <1>1, <1>2 DEF Unbroken

\* Nor does the next one, put behind them.
LEMMA AppendUnbroken ==
    ASSUME NEW q \in Seq(Nat), NEW last \in Nat, Unbroken(q, last)
    PROVE  /\ Append(q, last + 1) \in Seq(Nat)
           /\ Len(Append(q, last + 1)) = Len(q) + 1
           /\ Unbroken(Append(q, last + 1), last + 1)
<1> DEFINE longer == Append(q, last + 1)
<1>1. /\ longer \in Seq(Nat) /\ Len(longer) = Len(q) + 1 /\ Len(q) \in Nat
      /\ \A i \in 1 .. Len(q) : longer[i] = q[i]
      /\ longer[Len(q) + 1] = last + 1
  BY AppendProperties
<1>2. ASSUME NEW i \in 1 .. Len(longer)
      PROVE  longer[i] = last + 1 - Len(longer) + i
  BY <1>1, <1>2 DEF Unbroken
<1> QED
  BY <1>1, <1>2 DEF Unbroken

\* A new frame is accounted for, also when the oldest makes room for it.
LEMMA AcceptKeepsFrames ==
    ASSUME Asr!AsrAssumption, FramesInv, Asr!AcceptFrame
    PROVE  FramesInv'
<1>1. /\ pending \in Seq(Nat) /\ received \in Nat /\ processed \in Nat
      /\ dropped \in Nat /\ cleared \in Nat /\ Len(pending) \in Nat
      /\ received = processed + dropped + cleared + Len(pending)
      /\ Unbroken(pending, received)
  BY LenProperties DEF FramesInv, FramesTyped, Asr!FramesAccounted, Unbroken
<1>2. received' = received + 1 /\ processed' = processed /\ cleared' = cleared
  BY DEF Asr!AcceptFrame
<1>3. CASE Len(pending) >= max_inflight_frames
  <2>1. pending # <<>>
    <3>1. max_inflight_frames \in Nat \ {0} /\ Len(<<>>) = 0
      BY EmptySeq DEF Asr!AsrAssumption
    <3> QED
      BY <1>1, <1>3, <3>1
  <2>2. /\ Tail(pending) \in Seq(Nat) /\ Len(Tail(pending)) = Len(pending) - 1
        /\ Unbroken(Tail(pending), received)
    BY <1>1, <2>1, TailUnbroken
  <2>3. pending' = Append(Tail(pending), received + 1) /\ dropped' = dropped + 1
    BY <1>3, Zenon DEF Asr!AcceptFrame, Asr!Enqueue
  <2>4. /\ pending' \in Seq(Nat) /\ Len(pending') = Len(pending)
        /\ Unbroken(pending', received')
    <3> DEFINE rest == Tail(pending)
    <3>1. /\ Append(rest, received + 1) \in Seq(Nat)
          /\ Len(Append(rest, received + 1)) = Len(rest) + 1
          /\ Unbroken(Append(rest, received + 1), received + 1)
      BY <1>1, <2>2, AppendUnbroken
    <3>2. Len(rest) + 1 = Len(pending)
      BY <1>1, <2>2
    <3> QED
      BY <1>2, <2>3, <3>1, <3>2
  <2>5. received' = processed' + dropped' + cleared' + Len(pending')
    BY <1>1, <1>2, <2>3, <2>4
  <2>6. {received', processed', dropped', cleared'} \subseteq Nat
    BY <1>1, <1>2, <2>3
  <2> QED
    BY <2>4, <2>5, <2>6 DEF FramesInv, FramesTyped, Asr!FramesAccounted, Unbroken
<1>4. CASE ~(Len(pending) >= max_inflight_frames)
  <2>1. pending' = Append(pending, received + 1) /\ dropped' = dropped
    BY <1>4 DEF Asr!AcceptFrame, Asr!Enqueue
  <2>2. /\ pending' \in Seq(Nat) /\ Len(pending') = Len(pending) + 1
        /\ Unbroken(pending', received')
    BY <1>1, <1>2, <2>1, AppendUnbroken
  <2> QED
    BY <1>1, <1>2, <2>1, <2>2 DEF FramesInv, FramesTyped, Asr!FramesAccounted, Unbroken
<1> QED
  BY <1>3, <1>4

\* So is one that is taken for the provider.
LEMMA TakeKeepsFrames ==
    ASSUME FramesInv, Asr!Take
    PROVE  FramesInv'
<1>1. CASE pending = <<>>
  BY <1>1 DEF Asr!Take, FramesInv, FramesTyped, Asr!FramesAccounted
<1>2. CASE pending # <<>>
  <2>1. /\ pending \in Seq(Nat) /\ received \in Nat /\ processed \in Nat
        /\ dropped \in Nat /\ cleared \in Nat /\ Len(pending) \in Nat
        /\ received = processed + dropped + cleared + Len(pending)
        /\ Unbroken(pending, received)
    BY LenProperties DEF FramesInv, FramesTyped, Asr!FramesAccounted, Unbroken
  <2>2. /\ pending' = Tail(pending) /\ processed' = processed + 1
        /\ received' = received /\ dropped' = dropped /\ cleared' = cleared
    BY <1>2 DEF Asr!Take
  <2>3. /\ pending' \in Seq(Nat) /\ Len(pending') = Len(pending) - 1
        /\ Unbroken(pending', received')
    BY <1>2, <2>1, <2>2, TailUnbroken
  <2> QED
    BY <2>1, <2>2, <2>3 DEF FramesInv, FramesTyped, Asr!FramesAccounted, Unbroken
<1> QED
  BY <1>1, <1>2

\* And all that cancel discards.
LEMMA ClearKeepsFrames ==
    ASSUME FramesInv, Asr!CancelClears
    PROVE  FramesInv'
<1>1. pending' \in Seq(Nat) /\ Len(pending') = 0 /\ Len(pending) \in Nat
  BY EmptySeq, LenProperties DEF Asr!CancelClears, FramesInv, FramesTyped
<1>2. /\ cleared' = cleared + Len(pending)
      /\ received' = received /\ processed' = processed /\ dropped' = dropped
  BY DEF Asr!CancelClears
<1> QED
  BY <1>1, <1>2 DEF FramesInv, FramesTyped, Asr!FramesAccounted

\* Every step keeps the accounts.
LEMMA NextKeepsFrames == FramesInv /\ [Asr!Next]_(Asr!vars) => FramesInv'
<1> SUFFICES ASSUME FramesInv, [Asr!Next]_(Asr!vars) PROVE FramesInv'
  OBVIOUS
<1>1. CASE Asr!AcceptFrame
  BY <1>1, AcceptKeepsFrames, VoiceAssumption
<1>2. CASE Asr!Take
  BY <1>2, TakeKeepsFrames
<1>3. CASE Asr!CancelClears
  BY <1>3, ClearKeepsFrames
<1>4. CASE UNCHANGED <<pending, received, processed, dropped, cleared>>
  BY <1>4 DEF FramesInv, FramesTyped, Asr!FramesAccounted
<1>5. CASE Asr!Flush \/ Asr!Offer \/ Asr!SendSucceeds \/ Asr!SendFails
           \/ Asr!ReceiveMessage \/ Asr!ReceiveEnds \/ Asr!DrainEvents
           \/ Asr!CancelProvider \/ Asr!CloseSession
  <2>1. UNCHANGED <<pending, received, processed, dropped, cleared>>
    BY <1>5 DEF Asr!Flush, Asr!Offer, Asr!SendSucceeds, Asr!SendFails,
                Asr!ReceiveMessage, Asr!ReceiveEnds, Asr!DrainEvents,
                Asr!CancelProvider, Asr!CloseSession, Asr!session
  <2> QED
    BY <2>1, <1>4
<1>6. CASE UNCHANGED Asr!vars
  BY <1>6, <1>4 DEF Asr!vars, Asr!session
<1> QED
  BY <1>1, <1>2, <1>3, <1>5, <1>6 DEF Asr!Next

\* Every step keeps what a stop leaves behind.
LEMMA NextKeepsStop == StopInv /\ [Asr!Next]_(Asr!vars) => StopInv'
<1> SUFFICES ASSUME StopInv, [Asr!Next]_(Asr!vars) PROVE StopInv'
  OBVIOUS
<1> USE DEF StopInv, Asr!CancelStops, Asr!can_accept_frame, Asr!Working
<1>1. CASE Asr!AcceptFrame \/ Asr!Flush \/ Asr!Take \/ Asr!DrainEvents \/ Asr!CancelClears
  BY <1>1 DEF Asr!AcceptFrame, Asr!Flush, Asr!Take, Asr!DrainEvents, Asr!CancelClears,
              Asr!transport
<1>2. CASE Asr!Offer
  BY <1>2 DEF Asr!Offer, Asr!transport
<1>3. CASE Asr!SendSucceeds \/ Asr!SendFails \/ Asr!ReceiveMessage \/ Asr!ReceiveEnds
  BY <1>3 DEF Asr!SendSucceeds, Asr!SendFails, Asr!ReceiveMessage, Asr!ReceiveEnds
<1>4. CASE Asr!CancelProvider
  BY <1>4 DEF Asr!CancelProvider, Asr!Stop, Asr!CloseTransport
<1>5. CASE Asr!CloseSession
  BY <1>5 DEF Asr!CloseSession, Asr!Stop, Asr!CloseTransport
<1>6. CASE UNCHANGED Asr!vars
  BY <1>6 DEF Asr!vars, Asr!transport
<1> QED
  BY <1>1, <1>2, <1>3, <1>4, <1>5, <1>6 DEF Asr!Next

\* Every frame captured is pending, was handed to the recogniser or was discarded and
\* counted, and one told to stop between two frames takes no more and holds no
\* connection, for every limit and every moment of the cancel (asr.py, flush and
\* accept_frame against cancel; cloud_providers.py, accept_frame).
THEOREM SpecCancelDiscardsAndStops == VoiceSpec => []CancelDiscardsAndStops
<1>1. VoiceInit => FramesInv /\ StopInv
  BY EmptySeq DEF VoiceInit, Asr!Init, FramesInv, FramesTyped, Asr!FramesAccounted,
                  StopInv, Asr!CancelStops, Asr!Working
<1>2. FramesInv /\ StopInv /\ [VoiceNext]_voice_vars => FramesInv' /\ StopInv'
  BY StepOfAsr, NextKeepsFrames, NextKeepsStop
<1>3. FramesInv /\ StopInv => CancelDiscardsAndStops
  BY DEF FramesInv, StopInv, CancelDiscardsAndStops
<1> QED
  BY <1>1, <1>2, <1>3, PTL DEF VoiceSpec

-----------------------------------------------------------------------------
(* The playback sink (PlaybackSink). *)

\* The window covers what the speaker has still to play.
Covered ==
    sink_now < sounds_until /\ ~restarted =>
        /\ sounds_until <= queued_audio_until
        /\ active_until = queued_audio_until + active_grace_s

\* The inductive invariant.
SinkInv == Sink!TypeOK /\ Covered

\* Frames are queued in the window as they are in the player.
LEMMA PlayKeepsSinkInv ==
    ASSUME Sink!SinkAssumption, NEW d \in Durations, NEW f \in Formats, SinkInv, Sink!Play(d, f)
    PROVE  SinkInv'
<1> DEFINE replaced == process # "none" /\ (process = "dead" \/ format # f)
<1> d \in Nat /\ active_grace_s \in Nat
  BY DEF Sink!SinkAssumption
<1>1. CASE replaced
  <2>1. /\ queued_audio_until' = 0 /\ active_until' = 0
        /\ restarted' /\ restarted' \in BOOLEAN
        /\ sounds_until' = d + sink_now
        /\ sink_now' = sink_now /\ process' = "runs" /\ format' = f
    BY <1>1 DEF Sink!Play, Sink!Silent
  <2> QED
    BY <2>1 DEF SinkInv, Sink!TypeOK, Covered
<1>2. CASE ~replaced
  <2>1. /\ queued_audio_until' = Sink!QueuedAfter(d)
        /\ active_until' = queued_audio_until' + active_grace_s
        /\ restarted' = (restarted /\ sounds_until > sink_now)
        /\ sounds_until' = d + Sink!Later(sink_now, sounds_until)
        /\ sink_now' = sink_now /\ process' = "runs" /\ format' = f
    BY <1>2 DEF Sink!Play
  <2>2. Sink!TypeOK'
    BY <2>1 DEF SinkInv, Sink!TypeOK, Sink!QueuedAfter, Sink!Later
  <2>3. Covered'
    BY <2>1 DEF SinkInv, Sink!TypeOK, Covered, Sink!QueuedAfter, Sink!Later
  <2> QED
    BY <2>2, <2>3 DEF SinkInv
<1> QED
  BY <1>1, <1>2

\* A window recorded for a frame that is then not played is only the longer.
LEMMA PlayRaisesKeepsSinkInv ==
    ASSUME Sink!SinkAssumption, NEW d \in Durations, NEW f \in Formats, SinkInv,
           Sink!PlayRaises(d, f)
    PROVE  SinkInv'
<1> d \in Nat /\ active_grace_s \in Nat
  BY DEF Sink!SinkAssumption
<1>1. Sink!TypeOK'
  BY DEF SinkInv, Sink!TypeOK, Sink!PlayRaises, Sink!QueuedAfter, Sink!Later
<1>2. Covered'
  BY DEF SinkInv, Sink!TypeOK, Covered, Sink!PlayRaises, Sink!QueuedAfter, Sink!Later
<1> QED
  BY <1>1, <1>2 DEF SinkInv

\* When the player has been stopped nothing sounds.
LEMMA StoppedKeepsSinkInv ==
    ASSUME SinkInv, Sink!Silent, process' = "none", format' = None, sounds_until' = sink_now,
           restarted' = FALSE, sink_now' = sink_now
    PROVE  SinkInv'
<1>1. restarted' \in BOOLEAN
  BY Zenon
<1>2. sink_now \in Nat
  BY DEF SinkInv, Sink!TypeOK
<1>3. Sink!TypeOK'
  BY <1>1, <1>2 DEF Sink!Silent, Sink!TypeOK
<1>4. ~(sink_now' < sounds_until')
  BY <1>2
<1> QED
  BY <1>3, <1>4 DEF SinkInv, Covered

\* Every step keeps the invariant.
LEMMA NextKeepsSinkInv == SinkInv /\ [Sink!Next]_(Sink!vars) => SinkInv'
<1> SUFFICES ASSUME SinkInv, [Sink!Next]_(Sink!vars) PROVE SinkInv'
  OBVIOUS
<1> Sink!SinkAssumption
  BY VoiceAssumption
<1>1. CASE Sink!Tick
  BY <1>1 DEF Sink!Tick, SinkInv, Sink!TypeOK, Covered, Sink!player, Sink!window
<1>2. CASE Sink!Dies
  BY <1>2 DEF Sink!Dies, SinkInv, Sink!TypeOK, Covered, Sink!window
<1>3. CASE Sink!PlayFails
  BY <1>3, StoppedKeepsSinkInv DEF Sink!PlayFails
<1>4. CASE Sink!Stop
  BY <1>4, StoppedKeepsSinkInv DEF Sink!Stop
<1>5. ASSUME NEW d \in Durations, NEW f \in Formats, Sink!Play(d, f) \/ Sink!PlayRaises(d, f)
      PROVE  SinkInv'
  BY <1>5, PlayKeepsSinkInv, PlayRaisesKeepsSinkInv
<1>6. CASE UNCHANGED Sink!vars
  BY <1>6 DEF Sink!vars, Sink!player, Sink!window, SinkInv, Sink!TypeOK, Covered
<1> QED
  BY <1>1, <1>2, <1>3, <1>4, <1>5, <1>6 DEF Sink!Next

LEMMA InitSinkInv == VoiceInit => SinkInv
<1> SUFFICES ASSUME VoiceInit PROVE SinkInv
  OBVIOUS
<1>1. Sink!Init
  BY DEF VoiceInit
<1>2. restarted \in BOOLEAN
  BY <1>1, Zenon DEF Sink!Init
<1>3. Sink!TypeOK
  BY <1>1, <1>2 DEF Sink!Init, Sink!TypeOK
<1> QED
  BY <1>1, <1>3 DEF Sink!Init, SinkInv, Covered

\* The window that covers what sounds is active.
LEMMA SinkInvIsHeard == SinkInv => Sink!HeardIsActive
  BY VoiceAssumption DEF Sink!SinkAssumption, SinkInv, Sink!TypeOK, Covered,
         Sink!HeardIsActive, Sink!Active

-----------------------------------------------------------------------------
(* The echo reference (AecReference). *)

AecTyped ==
    /\ frames \in Seq(Aec!Frames) /\ Len(frames) <= Aec!max_frames
    /\ played \subseteq Aec!Frames

\* A frame is as much older than the newest as the frames between them are long.
Spaced(q) ==
    \A i \in 1 .. Len(q) :
        \/ q[i].age = Aec!Old
        \/ q[i].age >= q[Len(q)].age + (Len(q) - i) * FrameTicks

\* The frames that are not too old for any capture.
Young(q) == {f \in Aec!Frames : f.age < Aec!Old /\ \E i \in 1 .. Len(q) : q[i] = f}

AecInv == AecTyped /\ Spaced(frames) /\ played = Young(frames) /\ Aec!EchoIsFound

\* A set of naturals with a bound has a largest.
LEMMA MaxIsThere ==
    ASSUME NEW S \in SUBSET Nat, S # {}, NEW n \in Nat, \A x \in S : x <= n
    PROVE  Aec!Max(S) \in S
<1> DEFINE T == {n - x : x \in S}
<1>1. T \subseteq Nat /\ T # {}
  <2>1. ASSUME NEW x \in S PROVE n - x \in Nat
    BY <2>1
  <2> QED
    BY <2>1
<1>2. PICK least \in T : \A m \in T : least <= m
  <2> DEFINE before == OpToRel(<, Nat)
  <2>1. IsWellFoundedOn(before, Nat)
    BY NatLessThanWellFounded, Zenon
  <2>2. \A x, y \in Nat : <<y, x>> \in before <=> y < x
    BY Zenon DEF OpToRel
  <2> HIDE DEF before, T
  <2>3. PICK least \in T : \A m \in T : ~(<<m, least>> \in before)
    BY <1>1, <2>1, WFMin
  <2>4. ASSUME NEW m \in T PROVE least <= m
    <3>1. m \in Nat /\ least \in Nat /\ ~(m < least)
      BY <1>1, <2>2, <2>3
    <3> QED
      BY <3>1
  <2> QED
    BY <2>3, <2>4
<1>3. PICK x \in S : least = n - x
  BY <1>2
<1>4. ASSUME NEW y \in S PROVE x >= y
  <2>1. n - y \in T /\ x \in Nat /\ y \in Nat
    OBVIOUS
  <2>2. n - x <= n - y
    BY <1>2, <1>3, <2>1
  <2> QED
    BY <2>1, <2>2
<1> QED
  BY <1>3, <1>4 DEF Aec!Max

\* The buffer is long enough for its capacity.
LEMMA FramesFillCapacity ==
    ASSUME Aec!AecAssumption
    PROVE  /\ Aec!max_frames \in Nat \ {0}
           /\ Aec!max_frames * FrameTicks >= capacity
<1>1. FrameTicks \in Nat \ {0} /\ capacity \in Nat \ {0}
  BY DEF Aec!AecAssumption
<1> DEFINE top == capacity + FrameTicks - 1
<1>2. top \in Nat /\ top >= FrameTicks
  BY <1>1
<1>3. /\ (top \div FrameTicks) \in Int
      /\ (top \div FrameTicks) * FrameTicks <= top
      /\ top < ((top \div FrameTicks) + 1) * FrameTicks
  BY <1>1, <1>2
<1> DEFINE q == top \div FrameTicks
<1> HIDE DEF q
<1>4. q \in Int /\ q * FrameTicks <= top /\ top < (q + 1) * FrameTicks
  BY <1>3 DEF q
<1>5. (q + 1) * FrameTicks = q * FrameTicks + FrameTicks
  BY <1>1, <1>4
<1>6. q * FrameTicks >= capacity
  BY <1>1, <1>4, <1>5
<1>7. q > 0
  <2>1. q <= 0 => q * FrameTicks <= 0
    BY <1>1, <1>4
  <2> QED
    BY <1>1, <1>4, <1>6, <2>1
<1> QED
  BY <1>4, <1>6, <1>7 DEF Aec!max_frames, q

\* When the buffer is full, its oldest frame is too old for any capture.
LEMMA FullIsOld ==
    ASSUME Aec!AecAssumption
    PROVE  Aec!max_frames * FrameTicks >= Aec!Old
<1>1. Aec!max_frames * FrameTicks >= capacity
  BY FramesFillCapacity
<1>2. capacity >= Aec!Old /\ Aec!Old \in Nat
  BY DEF Aec!AecAssumption, Aec!Old
<1>3. capacity \in Nat /\ Aec!max_frames \in Nat /\ FrameTicks \in Nat
  BY FramesFillCapacity DEF Aec!AecAssumption
<1> DEFINE span == Aec!max_frames * FrameTicks
<1>4. span \in Nat
  BY <1>3
<1> QED
  BY <1>1, <1>2, <1>3, <1>4

\* The next frame keeps its distance from those before it.
LEMMA AppendSpaced ==
    ASSUME Aec!AecAssumption, NEW q \in Seq(Aec!Frames), Spaced(q),
           \A i \in 1 .. Len(q) : q[i].age >= FrameTicks,
           NEW f \in Aec!Frames, f.age = 0
    PROVE  /\ Append(q, f) \in Seq(Aec!Frames) /\ Len(Append(q, f)) = Len(q) + 1
           /\ Len(q) \in Nat
           /\ \A i \in 1 .. Len(q) : Append(q, f)[i] = q[i]
           /\ Append(q, f)[Len(q) + 1] = f
           /\ \A i \in 1 .. Len(q) + 1 :
                 \/ Append(q, f)[i].age = Aec!Old
                 \/ Append(q, f)[i].age >= (Len(q) + 1 - i) * FrameTicks
           /\ Young(Append(q, f)) = Young(q) \cup {f}
<1> DEFINE longer == Append(q, f)
<1>1. /\ longer \in Seq(Aec!Frames) /\ Len(longer) = Len(q) + 1 /\ Len(q) \in Nat
      /\ \A i \in 1 .. Len(q) : longer[i] = q[i]
      /\ longer[Len(q) + 1] = f
  BY AppendProperties
<1> HIDE DEF longer
<1>2. FrameTicks \in Nat \ {0} /\ Aec!Old \in Nat \ {0}
  BY DEF Aec!AecAssumption, Aec!Old
<1>3. ASSUME NEW i \in 1 .. Len(q) + 1
      PROVE  \/ longer[i].age = Aec!Old
             \/ longer[i].age >= (Len(q) + 1 - i) * FrameTicks
  <2>1. CASE i = Len(q) + 1
    <3>1. Len(q) + 1 - i = 0 /\ 0 * FrameTicks = 0
      BY <1>1, <1>2, <2>1
    <3> QED
      BY <1>1, <2>1, <3>1
  <2>2. CASE i # Len(q) + 1
    <3>1. i \in 1 .. Len(q) /\ Len(q) \in 1 .. Len(q) /\ longer[i] = q[i]
      BY <1>1, <2>2
    <3>2. q[i] \in Aec!Frames /\ q[Len(q)] \in Aec!Frames
      BY <3>1
    <3>3. q[i].age \in Nat /\ q[Len(q)].age \in Nat
      BY <1>2, <3>2 DEF Aec!Frames
    <3> DEFINE gap == (Len(q) - i) * FrameTicks
    <3>4. gap \in Int /\ (Len(q) + 1 - i) * FrameTicks = gap + FrameTicks
      BY <1>1, <1>2, <3>1
    <3>5. q[i].age = Aec!Old \/ q[i].age >= q[Len(q)].age + gap
      BY <3>1 DEF Spaced
    <3>6. q[Len(q)].age >= FrameTicks
      BY <3>1
    <3> HIDE DEF gap
    <3> QED
      BY <1>2, <3>1, <3>3, <3>4, <3>5, <3>6
  <2> QED
    BY <2>1, <2>2
<1>4. Young(longer) = Young(q) \cup {f}
  <2>1. ASSUME NEW g \in Young(longer) PROVE g \in Young(q) \cup {f}
    <3>1. PICK i \in 1 .. Len(q) + 1 : longer[i] = g
      BY <1>1, <2>1 DEF Young
    <3>2. CASE i = Len(q) + 1
      BY <1>1, <3>1, <3>2
    <3>3. CASE i # Len(q) + 1
      <4>1. i \in 1 .. Len(q) /\ q[i] = g
        BY <1>1, <3>1, <3>3
      <4> QED
        BY <2>1, <4>1 DEF Young
    <3> QED
      BY <3>2, <3>3
  <2>2. ASSUME NEW g \in Young(q) PROVE g \in Young(longer)
    <3>1. PICK i \in 1 .. Len(q) : q[i] = g
      BY <2>2 DEF Young
    <3>2. i \in 1 .. Len(longer) /\ longer[i] = g
      BY <1>1, <3>1
    <3> QED
      BY <2>2, <3>2 DEF Young
  <2>3. f \in Young(longer)
    <3>1. f.age < Aec!Old /\ Len(q) + 1 \in 1 .. Len(longer)
      BY <1>1, <1>2
    <3> QED
      BY <1>1, <3>1 DEF Young
  <2> QED
    BY <2>1, <2>2, <2>3
<1> QED
  BY <1>1, <1>3, <1>4 DEF longer

\* What is played goes into the buffer, and what it pushes out is of no more use.
LEMMA WriteKeepsAecInv ==
    ASSUME AecInv, Aec!WritePlayback, Aec!AecAssumption
    PROVE  AecInv'
<1>1. PICK n \in Numbers :
        /\ frames' = Aec!Kept(Append(frames, [sequence |-> n, age |-> 0]))
        /\ played' = played \cup {[sequence |-> n, age |-> 0]}
        /\ capture' = None /\ health' = None
  BY DEF Aec!WritePlayback
<1> DEFINE f == [sequence |-> n, age |-> 0]
           all == Append(frames, f)
<1>2. f \in Aec!Frames /\ f.age = 0
  BY DEF Aec!AecAssumption, Aec!Frames, Aec!Old
<1>3. /\ frames \in Seq(Aec!Frames) /\ Len(frames) <= Aec!max_frames
      /\ Spaced(frames) /\ played = Young(frames) /\ played \subseteq Aec!Frames
  BY DEF AecInv, AecTyped
<1>4. \A i \in 1 .. Len(frames) : frames[i].age >= FrameTicks
  <2>1. \A g \in Aec!Range(frames) : g.age >= FrameTicks
    BY DEF Aec!WritePlayback
  <2>2. DOMAIN frames = 1 .. Len(frames)
    BY <1>3
  <2> QED
    BY <2>1, <2>2 DEF Aec!Range
<1> HIDE DEF f
<1>5. /\ all \in Seq(Aec!Frames) /\ Len(all) = Len(frames) + 1 /\ Len(frames) \in Nat
      /\ \A i \in 1 .. Len(frames) : all[i] = frames[i]
      /\ all[Len(frames) + 1] = f
      /\ \A i \in 1 .. Len(frames) + 1 :
            \/ all[i].age = Aec!Old
            \/ all[i].age >= (Len(frames) + 1 - i) * FrameTicks
      /\ Young(all) = Young(frames) \cup {f}
  BY <1>2, <1>3, <1>4, AppendSpaced
<1>6. frames' = Aec!Kept(all) /\ played' = Young(all) /\ played' \subseteq Aec!Frames
  BY <1>1, <1>2, <1>3, <1>5 DEF f
<1>7. Aec!max_frames \in Nat \ {0} /\ FrameTicks \in Nat /\ Aec!Old \in Nat
  BY FramesFillCapacity DEF Aec!AecAssumption, Aec!Old
<1> HIDE DEF all
<1>8. Aec!EchoIsFound'
  BY <1>1 DEF Aec!EchoIsFound
<1>9. CASE Len(all) <= Aec!max_frames
  <2>1. frames' = all
    BY <1>5, <1>6, <1>7, <1>9 DEF Aec!Kept
  <2>2. Spaced(all)
    <3>1. ASSUME NEW i \in 1 .. Len(all)
          PROVE  \/ all[i].age = Aec!Old
                 \/ all[i].age >= all[Len(all)].age + (Len(all) - i) * FrameTicks
      <4> DEFINE gap == (Len(all) - i) * FrameTicks
      <4>1. gap \in Int /\ gap = (Len(frames) + 1 - i) * FrameTicks
        BY <1>5, <1>7
      <4>2. all[i].age = Aec!Old \/ all[i].age >= gap
        BY <1>5, <4>1
      <4>3. all[Len(all)].age = 0
        BY <1>2, <1>5
      <4> HIDE DEF gap
      <4>4. all[Len(all)].age + gap = gap
        BY <4>1, <4>3
      <4> QED
        BY <4>2, <4>4 DEF gap
    <3> QED
      BY <3>1 DEF Spaced
  <2> QED
    BY <1>5, <1>6, <1>8, <1>9, <2>1, <2>2 DEF AecInv, AecTyped
<1>10. CASE ~(Len(all) <= Aec!max_frames)
  <2>1. frames' = Tail(all) /\ Len(frames) = Aec!max_frames
    BY <1>3, <1>5, <1>6, <1>7, <1>10 DEF Aec!Kept
  <2>2. all # <<>>
    BY <1>5, EmptySeq
  <2>3. /\ frames' \in Seq(Aec!Frames) /\ Len(frames') = Len(frames)
        /\ \A i \in 1 .. Len(frames) : frames'[i] = all[i + 1]
    <3>1. /\ Tail(all) \in Seq(Aec!Frames) /\ Len(Tail(all)) = Len(all) - 1
          /\ \A i \in 1 .. Len(Tail(all)) : Tail(all)[i] = all[i + 1]
      BY <1>5, <2>2, HeadTailProperties
    <3>2. Len(all) - 1 = Len(frames)
      BY <1>5
    <3> QED
      BY <2>1, <3>1, <3>2
  <2>4. Spaced(frames')
    <3>1. ASSUME NEW i \in 1 .. Len(frames')
          PROVE  \/ frames'[i].age = Aec!Old
                 \/ frames'[i].age >= frames'[Len(frames')].age
                                        + (Len(frames') - i) * FrameTicks
      <4> DEFINE gap == (Len(frames') - i) * FrameTicks
      <4>1. i + 1 \in 1 .. Len(frames) + 1 /\ i \in 1 .. Len(frames)
        BY <1>5, <2>3, <3>1
      <4>2. gap \in Int /\ gap = (Len(frames) + 1 - (i + 1)) * FrameTicks
        <5>1. Len(frames') - i = Len(frames) + 1 - (i + 1) /\ Len(frames') - i \in Int
          BY <1>5, <2>3, <4>1
        <5> QED
          BY <1>7, <5>1
      <4>3. frames'[i].age = Aec!Old \/ frames'[i].age >= gap
        BY <1>5, <2>3, <4>1, <4>2
      <4>4. frames'[Len(frames')].age = 0
        <5>1. Len(frames) \in 1 .. Len(frames)
          BY <1>5, <4>1
        <5> QED
          BY <1>2, <1>5, <2>3, <5>1
      <4> HIDE DEF gap
      <4>5. frames'[Len(frames')].age + gap = gap
        BY <4>2, <4>4
      <4> QED
        BY <4>3, <4>5 DEF gap
    <3> QED
      BY <3>1 DEF Spaced
  <2>5. all[1].age = Aec!Old
    <3>1. 1 \in 1 .. Len(frames) + 1 /\ 1 \in 1 .. Len(all)
      BY <1>5
    <3>2. all[1] \in Aec!Frames
      BY <1>5, <3>1
    <3>3. all[1].age \in Nat /\ all[1].age <= Aec!Old
      BY <1>7, <3>2 DEF Aec!Frames
    <3> DEFINE span == (Len(frames) + 1 - 1) * FrameTicks
    <3>4. span = Aec!max_frames * FrameTicks /\ span \in Int
      <4>1. Len(frames) + 1 - 1 = Aec!max_frames
        BY <1>5, <2>1
      <4> QED
        BY <1>7, <4>1
    <3>5. span >= Aec!Old
      BY <3>4, FullIsOld
    <3>6. all[1].age = Aec!Old \/ all[1].age >= span
      BY <1>5, <3>1
    <3> HIDE DEF span
    <3> QED
      BY <1>7, <3>3, <3>4, <3>5, <3>6
  <2>6. Young(frames') = Young(all)
    <3>1. ASSUME NEW g \in Young(frames') PROVE g \in Young(all)
      <4>1. PICK i \in 1 .. Len(frames) : frames'[i] = g
        BY <2>3, <3>1 DEF Young
      <4>2. i + 1 \in 1 .. Len(all) /\ all[i + 1] = g
        BY <1>5, <2>3, <4>1
      <4> QED
        BY <3>1, <4>2 DEF Young
    <3>2. ASSUME NEW g \in Young(all) PROVE g \in Young(frames')
      <4>1. g \in Aec!Frames /\ g.age < Aec!Old
        BY <3>2 DEF Young
      <4>2. PICK i \in 1 .. Len(all) : all[i] = g
        BY <3>2 DEF Young
      <4>3. i # 1
        BY <1>7, <2>5, <4>1, <4>2
      <4>4. i - 1 \in 1 .. Len(frames) /\ (i - 1) + 1 = i
        BY <1>5, <4>2, <4>3
      <4>5. frames'[i - 1] = g
        BY <2>3, <4>2, <4>4
      <4>6. \E j \in 1 .. Len(frames') : frames'[j] = g
        BY <2>3, <4>4, <4>5
      <4> QED
        BY <4>1, <4>6 DEF Young
    <3> QED
      BY <3>1, <3>2
  <2> QED
    BY <1>6, <1>8, <2>1, <2>3, <2>4, <2>6 DEF AecInv, AecTyped
<1> QED
  BY <1>5, <1>7, <1>9, <1>10

\* The reference is an echo, by its number if there is one of that number.
LEMMA ReferenceIsAnEcho ==
    ASSUME Aec!AecAssumption, AecTyped, played = Young(frames),
           NEW c \in [sequence : Numbers, age : 0 .. MaxDelay, explicit : BOOLEAN],
           NEW echoes, echoes = {f \in played : Aec!Usable(c, f)},
           NEW match, match = Aec!ReferenceFor(c)
    PROVE  /\ match = None <=> echoes = {}
           /\ match # None =>
                 /\ match.age \in {Aec!ReferenceAge(c, f) : f \in echoes}
                 /\ match.matched_by = "sequence" <=>
                       \E f \in echoes : f.sequence = c.sequence
<1> DEFINE usable == {i \in DOMAIN frames : Aec!Usable(c, frames[i])}
           same == {i \in usable : frames[i].sequence = c.sequence}
<1>1. frames \in Seq(Aec!Frames) /\ Len(frames) \in Nat /\ DOMAIN frames = 1 .. Len(frames)
  BY DEF AecTyped
<1>2. ASSUME NEW i \in usable PROVE frames[i] \in echoes
  <2>1. i \in 1 .. Len(frames) /\ frames[i] \in Aec!Frames /\ Aec!Usable(c, frames[i])
    BY <1>1
  <2>2. max_age \in Nat /\ MaxDelay \in Nat /\ c.age \in 0 .. MaxDelay
    BY DEF Aec!AecAssumption
  <2>3. frames[i].age < Aec!Old
    BY <2>1, <2>2 DEF Aec!Usable, Aec!ReferenceAge, Aec!Old, Aec!Frames
  <2>4. frames[i] \in Young(frames)
    BY <2>1, <2>3 DEF Young
  <2> QED
    BY <2>1, <2>4
<1>3. ASSUME NEW f \in echoes PROVE \E i \in usable : frames[i] = f
  <2>1. PICK i \in 1 .. Len(frames) : frames[i] = f
    BY DEF Young
  <2>2. i \in usable
    BY <1>1, <2>1
  <2> QED
    BY <2>1, <2>2
<1>4. ASSUME NEW S \in SUBSET usable, S # {} PROVE Aec!Max(S) \in S
  <2>1. S \subseteq Nat /\ \A i \in S : i <= Len(frames)
    BY <1>1
  <2> QED
    BY <1>1, <1>4, <2>1, MaxIsThere
<1>5. ASSUME NEW i \in usable, NEW how
      PROVE  /\ Aec!Match(c, frames[i], how).age = Aec!ReferenceAge(c, frames[i])
             /\ Aec!Match(c, frames[i], how).matched_by = how
             /\ Aec!ReferenceAge(c, frames[i]) \in Int
  <2>1. i \in 1 .. Len(frames) /\ frames[i] \in Aec!Frames
    BY <1>1
  <2>2. frames[i].age \in Int /\ c.age \in Int
    BY <2>1 DEF Aec!Frames, Aec!AecAssumption, Aec!Old
  <2> QED
    BY <2>2 DEF Aec!Match, Aec!ReferenceAge
<1>6. ASSUME NEW i \in usable, NEW how \in {"sequence", "time"}
      PROVE  Aec!Match(c, frames[i], how) # None
  <2>1. Aec!ReferenceAge(c, frames[i]) \in Int
    BY <1>5
  <2> QED
    BY <2>1 DEF Aec!AecAssumption, Aec!Match
<1>7. match = IF same # {} THEN Aec!Match(c, frames[Aec!Max(same)], "sequence")
              ELSE IF usable # {} THEN Aec!Match(c, frames[Aec!Max(usable)], "time")
              ELSE None
  BY DEF Aec!ReferenceFor
<1>8. same # {} <=> \E f \in echoes : f.sequence = c.sequence
  <2>1. ASSUME NEW i \in same PROVE \E f \in echoes : f.sequence = c.sequence
    BY <1>2
  <2>2. ASSUME NEW f \in echoes, f.sequence = c.sequence PROVE same # {}
    <3>1. PICK i \in usable : frames[i] = f
      BY <1>3
    <3> QED
      BY <2>2, <3>1
  <2> QED
    BY <2>1, <2>2
<1>9. usable # {} <=> echoes # {}
  BY <1>2, <1>3
<1>10. same \subseteq usable
  OBVIOUS
<1> HIDE DEF usable, same
<1>11. CASE same # {}
  <2>1. Aec!Max(same) \in usable
    BY <1>4, <1>10, <1>11
  <2> DEFINE i == Aec!Max(same)
  <2>2. frames[i] \in echoes
    BY <1>2, <2>1
  <2>3. /\ match # None /\ match.matched_by = "sequence"
        /\ match.age = Aec!ReferenceAge(c, frames[i])
    BY <1>5, <1>6, <1>7, <1>11, <2>1
  <2> QED
    BY <1>8, <1>11, <2>2, <2>3
<1>12. CASE same = {} /\ usable # {}
  <2>1. Aec!Max(usable) \in usable
    BY <1>4, <1>12
  <2> DEFINE i == Aec!Max(usable)
  <2>2. frames[i] \in echoes
    BY <1>2, <2>1
  <2>3. /\ match # None /\ match.matched_by = "time"
        /\ match.age = Aec!ReferenceAge(c, frames[i])
    BY <1>5, <1>6, <1>7, <1>12, <2>1
  <2> QED
    BY <1>8, <1>12, <2>2, <2>3
<1>13. CASE same = {} /\ usable = {}
  BY <1>7, <1>9, <1>13
<1> QED
  BY <1>11, <1>12, <1>13

\* So what is said of a capture is right.
LEMMA ProcessKeepsAecInv ==
    ASSUME AecInv, Aec!ProcessCapture, Aec!AecAssumption
    PROVE  AecInv'
<1>1. PICK c \in [sequence : Numbers, age : 0 .. MaxDelay, explicit : BOOLEAN] :
        /\ capture' = c /\ frames' = frames /\ played' = played
        /\ ~c.explicit => health'.match = Aec!ReferenceFor(c)
  <2>1. PICK n \in Numbers, age \in 0 .. MaxDelay, explicit \in BOOLEAN,
             about \in Aec!Switch, loopback \in Aec!Switch :
          LET c == [sequence |-> n, age |-> age, explicit |-> explicit] IN
          /\ capture' = c
          /\ \E match \in IF explicit
                          THEN {[age |-> a, matched_by |-> "explicit"] :
                                  a \in {-1, 0, max_age + 1}}
                          ELSE {Aec!ReferenceFor(c)} :
                 health' = [state |-> Aec!Health(about, loopback, match), match |-> match]
          /\ UNCHANGED <<frames, played>>
    BY DEF Aec!ProcessCapture
  <2> DEFINE c == [sequence |-> n, age |-> age, explicit |-> explicit]
  <2>2. c \in [sequence : Numbers, age : 0 .. MaxDelay, explicit : BOOLEAN]
    OBVIOUS
  <2>3. ~explicit => health'.match = Aec!ReferenceFor(c)
    BY <2>1
  <2>4. capture' = c /\ frames' = frames /\ played' = played /\ c.explicit = explicit
    BY <2>1
  <2> HIDE DEF c
  <2> QED
    BY <2>2, <2>3, <2>4
<1> DEFINE echoes == {f \in played : Aec!Usable(c, f)}
<1>2. AecTyped /\ played = Young(frames)
  BY DEF AecInv
<1>3. ASSUME ~c.explicit
      PROVE  /\ health'.match = None <=> echoes = {}
             /\ health'.match # None =>
                   /\ health'.match.age \in {Aec!ReferenceAge(c, f) : f \in echoes}
                   /\ health'.match.matched_by = "sequence" <=>
                         \E f \in echoes : f.sequence = c.sequence
  <2> HIDE DEF echoes
  <2>1. \A match : match = Aec!ReferenceFor(c) =>
          /\ match = None <=> echoes = {}
          /\ match # None =>
                /\ match.age \in {Aec!ReferenceAge(c, f) : f \in echoes}
                /\ match.matched_by = "sequence" <=>
                      \E f \in echoes : f.sequence = c.sequence
    BY <1>2, ReferenceIsAnEcho, Zenon DEF echoes
  <2> QED
    BY <1>1, <1>3, <2>1
<1>4. echoes = Aec!Echoes'
  BY <1>1 DEF Aec!Echoes, Aec!Usable, Aec!ReferenceAge
<1> HIDE DEF echoes
<1>5. Aec!EchoIsFound'
  BY <1>1, <1>3, <1>4 DEF Aec!EchoIsFound, Aec!ReferenceAge
<1> QED
  BY <1>1, <1>5 DEF AecInv, AecTyped, Spaced, Young

\* Time makes all frames older.
LEMMA TickKeepsAecInv ==
    ASSUME AecInv, Aec!Tick, Aec!AecAssumption
    PROVE  AecInv'
<1>1. /\ frames \in Seq(Aec!Frames) /\ Len(frames) <= Aec!max_frames
      /\ Len(frames) \in Nat /\ DOMAIN frames = 1 .. Len(frames)
      /\ Spaced(frames) /\ played = Young(frames) /\ played \subseteq Aec!Frames
  BY DEF AecInv, AecTyped
<1>2. Aec!Old \in Nat \ {0} /\ FrameTicks \in Nat
  BY DEF Aec!AecAssumption, Aec!Old
<1>3. ASSUME NEW f \in Aec!Frames
      PROVE  /\ Aec!Older(f) \in Aec!Frames /\ f.age \in Nat
             /\ Aec!Older(f).age = IF f.age = Aec!Old THEN Aec!Old ELSE f.age + 1
  <2>1. /\ Aec!Older(f) = [f EXCEPT !.age = IF f.age = Aec!Old THEN Aec!Old ELSE f.age + 1]
        /\ f.age \in 0 .. Aec!Old
    BY DEF Aec!Older, Aec!Frames
  <2>2. (IF f.age = Aec!Old THEN Aec!Old ELSE f.age + 1) \in 0 .. Aec!Old
    BY <1>2, <2>1
  <2> QED
    BY <2>1, <2>2 DEF Aec!Frames
<1>4. frames' = [i \in 1 .. Len(frames) |-> Aec!Older(frames[i])]
  BY <1>1 DEF Aec!Tick
<1>5. /\ frames' \in Seq(Aec!Frames) /\ Len(frames') = Len(frames)
      /\ \A i \in 1 .. Len(frames) : frames'[i] = Aec!Older(frames[i])
  <2>1. \A i \in 1 .. Len(frames) : frames[i] \in Aec!Frames
    BY <1>1
  <2>2. \A i \in 1 .. Len(frames) : Aec!Older(frames[i]) \in Aec!Frames
    BY <1>3, <2>1
  <2> QED
    BY <1>1, <1>4, <2>2
<1>6. Spaced(frames')
  <2>1. ASSUME NEW i \in 1 .. Len(frames')
        PROVE  \/ frames'[i].age = Aec!Old
               \/ frames'[i].age >= frames'[Len(frames')].age
                                      + (Len(frames') - i) * FrameTicks
    <3> DEFINE gap == (Len(frames) - i) * FrameTicks
               last == Len(frames)
    <3>1. i \in 1 .. Len(frames) /\ last \in 1 .. Len(frames) /\ gap \in Int
      BY <1>1, <1>2, <1>5, <2>1
    <3>2. frames[i] \in Aec!Frames /\ frames[last] \in Aec!Frames
      BY <1>1, <3>1
    <3>3. frames[i].age = Aec!Old \/ frames[i].age >= frames[last].age + gap
      BY <1>1, <3>1 DEF Spaced
    <3>4. /\ frames[i].age \in Nat /\ frames[last].age \in Nat
          /\ frames'[i].age = IF frames[i].age = Aec!Old THEN Aec!Old
                              ELSE frames[i].age + 1
          /\ frames'[last].age = IF frames[last].age = Aec!Old THEN Aec!Old
                                 ELSE frames[last].age + 1
      BY <1>3, <1>5, <3>1, <3>2
    <3>5. (Len(frames') - i) * FrameTicks = gap /\ Len(frames') = last
      BY <1>5
    <3> HIDE DEF gap, last
    <3>6. frames'[i].age = Aec!Old \/ frames'[i].age >= frames'[last].age + gap
      <4>1. CASE frames[i].age = Aec!Old
        BY <3>4, <4>1
      <4>2. CASE frames[i].age # Aec!Old
        <5>1. frames'[i].age = frames[i].age + 1 /\ frames[i].age >= frames[last].age + gap
          BY <3>3, <3>4, <4>2
        <5>2. /\ frames'[last].age \in Int
              /\ frames'[last].age <= frames[last].age + 1
          BY <1>2, <3>4
        <5>3. \A a, b, c, g \in Int : a >= b + g /\ c <= b + 1 => a + 1 >= c + g
          OBVIOUS
        <5>4. frames[i].age \in Int /\ frames[last].age \in Int /\ gap \in Int
          BY <3>1, <3>4
        <5>5. frames[i].age + 1 >= frames'[last].age + gap
          BY <5>1, <5>2, <5>3, <5>4, Zenon
        <5> QED
          BY <5>1, <5>5
      <4> QED
        BY <4>1, <4>2
    <3> QED
      BY <3>5, <3>6
  <2> QED
    BY <2>1 DEF Spaced
<1>7. played' = Young(frames')
  <2>1. played' = {Aec!Older(f) : f \in {g \in played : g.age < Aec!Old - 1}}
    BY DEF Aec!Tick
  <2>2. ASSUME NEW h \in played' PROVE h \in Young(frames')
    <3>1. PICK f \in played : f.age < Aec!Old - 1 /\ h = Aec!Older(f)
      BY <2>1, <2>2
    <3>2. PICK i \in 1 .. Len(frames) : frames[i] = f
      BY <1>1, <3>1 DEF Young
    <3>3. /\ f \in Aec!Frames /\ f.age \in Nat /\ h \in Aec!Frames
          /\ h.age = IF f.age = Aec!Old THEN Aec!Old ELSE f.age + 1
      BY <1>1, <1>3, <3>1
    <3>4. h.age < Aec!Old
      BY <1>2, <3>1, <3>3
    <3>5. i \in 1 .. Len(frames') /\ frames'[i] = h
      BY <1>5, <3>1, <3>2
    <3> QED
      BY <3>3, <3>4, <3>5 DEF Young
  <2>3. ASSUME NEW h \in Young(frames') PROVE h \in played'
    <3>1. h.age < Aec!Old /\ \E i \in 1 .. Len(frames') : frames'[i] = h
      BY <2>3 DEF Young
    <3>2. PICK i \in 1 .. Len(frames) : h = Aec!Older(frames[i])
      BY <1>5, <3>1
    <3> DEFINE f == frames[i]
    <3>3. f \in Aec!Frames
      BY <1>1, <3>2
    <3>4. /\ f.age \in Nat
          /\ h.age = IF f.age = Aec!Old THEN Aec!Old ELSE f.age + 1
      BY <1>3, <3>2, <3>3
    <3>5. f.age < Aec!Old - 1 /\ f.age < Aec!Old
      BY <1>2, <3>1, <3>4
    <3>6. f \in played
      BY <1>1, <3>2, <3>3, <3>5 DEF Young
    <3> HIDE DEF f
    <3>7. h = Aec!Older(f)
      BY <3>2 DEF f
    <3> QED
      BY <2>1, <3>5, <3>6, <3>7
  <2> QED
    BY <2>2, <2>3
<1>8. played' \subseteq Aec!Frames
  BY <1>7 DEF Young
<1>9. Aec!EchoIsFound'
  BY DEF Aec!Tick, Aec!EchoIsFound
<1> QED
  BY <1>1, <1>5, <1>6, <1>7, <1>8, <1>9 DEF AecInv, AecTyped

\* Every step keeps the invariant.
LEMMA NextKeepsAecInv == AecInv /\ [Aec!Next]_(Aec!vars) => AecInv'
<1> SUFFICES ASSUME AecInv, [Aec!Next]_(Aec!vars) PROVE AecInv'
  OBVIOUS
<1>1. Aec!AecAssumption
  BY VoiceAssumption
<1>2. CASE Aec!WritePlayback
  BY <1>1, <1>2, WriteKeepsAecInv
<1>3. CASE Aec!ProcessCapture
  BY <1>1, <1>3, ProcessKeepsAecInv
<1>4. CASE Aec!Tick
  BY <1>1, <1>4, TickKeepsAecInv
<1>5. CASE UNCHANGED Aec!vars
  BY <1>5 DEF AecInv, AecTyped, Spaced, Young, Aec!vars, Aec!EchoIsFound, Aec!Echoes,
              Aec!Usable, Aec!ReferenceAge
<1> QED
  BY <1>2, <1>3, <1>4, <1>5 DEF Aec!Next

\* Nothing was played yet.
LEMMA InitAecInv == Aec!Init => AecInv
<1> SUFFICES ASSUME Aec!Init PROVE AecInv
  OBVIOUS
<1>1. frames \in Seq(Aec!Frames) /\ Len(frames) = 0
  BY EmptySeq DEF Aec!Init
<1>2. Aec!max_frames \in Nat
  BY FramesFillCapacity, VoiceAssumption
<1>3. Young(frames) = {} /\ Spaced(frames)
  BY <1>1 DEF Young, Spaced
<1> QED
  BY <1>1, <1>2, <1>3 DEF AecInv, AecTyped, Aec!Init, Aec!EchoIsFound

\* What was played while it could still be heard is found, and while the speaker sounds
\* the sink says that output is active, for every length of the buffer, of its frames and
\* of the grace (aec.py, write_playback and reference_for_capture; openclaw_runtime.py,
\* _record_playback_window against stop).
THEOREM SpecSoundIsKnown == VoiceSpec => []SoundIsKnown
<1>1. VoiceInit => AecInv /\ SinkInv
  BY InitAecInv, InitSinkInv DEF VoiceInit
<1>2. AecInv /\ SinkInv /\ [VoiceNext]_voice_vars => AecInv' /\ SinkInv'
  BY StepOfAec, NextKeepsAecInv, StepOfSink, NextKeepsSinkInv
<1>3. AecInv /\ SinkInv => SoundIsKnown
  BY SinkInvIsHeard DEF AecInv, SoundIsKnown
<1> QED
  BY <1>1, <1>2, <1>3, PTL DEF VoiceSpec

-----------------------------------------------------------------------------
(* Speech (StreamingTts). *)

SpeechTyped ==
    /\ pc \in [Tts!Streams -> Tts!Stages]
    /\ round \in [Tts!Streams -> Rounds \cup {None}]
    /\ cancelled \in [Tts!Streams -> BOOLEAN]
    /\ rounds \in [Rounds -> Tts!Streams \cup {None}]
    /\ active \in Rounds \cup {None}
    /\ source \in [Tts!Streams -> Tts!Streams \cup {None}]
    /\ late \in [Tts!Streams -> Nat]
    /\ shut \subseteq Tts!Streams /\ ws \in Tts!Streams \cup {None}

\* A chunk comes late only into a stream that asked for it before it was cancelled, and
\* asks for no more.
LateIsTheLast ==
    \A s \in Tts!Streams :
        late[s] > 0 => late[s] = 1 /\ cancelled[s] /\ pc[s] \in {"open", "done"}

\* What the session knows of its calls: the round of each, and the last call for a round.
CallsKnown ==
    /\ \A r \in Rounds : rounds[r] # None =>
           round[rounds[r]] = r /\ pc[rounds[r]] # "uncalled"
    /\ active # None => rounds[active] # None
    /\ \A s \in Tts!Streams : pc[s] # "uncalled" => round[s] \in Rounds

\* A stream has a connection, open or shut, only after it asked for one.
ConnectedOnce ==
    \A s \in Tts!Streams :
        s \in shut \cup {ws} => pc[s] \in {"open", "receiving", "ending", "done"}

\* A stream that goes on.
Live(s) == pc[s] \notin {"uncalled", "done"} /\ ~cancelled[s]

\* For rounds used as they should be, the one that goes on is the active one, and the
\* transport has its connection.
OnlyTheActive ==
    ~meddled => \A s \in Tts!Streams :
        /\ Live(s) => active = round[s] /\ rounds[round[s]] = s
        /\ pc[s] = "opening" => ~cancelled[s]
        /\ Live(s) /\ pc[s] \in {"open", "receiving"} => ws = s /\ s \notin shut
        /\ Live(s) /\ pc[s] = "receiving" => source[s] = s
        /\ pc[s] \in {"ending", "done"} /\ ~cancelled[s] => s \in served

SpeechInv ==
    SpeechTyped /\ LateIsTheLast /\ CallsKnown /\ ConnectedOnce /\ OnlyTheActive

\* cancel marks one call, and shuts at most the connection the transport has.
LEMMA MarkEffects ==
    ASSUME SpeechTyped, NEW t \in Tts!Streams, Tts!MarkCancelled(t)
    PROVE  /\ cancelled' \in [Tts!Streams -> BOOLEAN]
           /\ \A x \in Tts!Streams : cancelled'[x] <=> cancelled[x] \/ x = t
           /\ ws' = ws /\ shut \subseteq shut' /\ shut' \subseteq Tts!Streams
           /\ \A x \in shut' \ shut : x = ws /\ ~cancelled[t]
<1>1. CASE cancelled[t]
  BY <1>1 DEF Tts!MarkCancelled, Tts!transport, SpeechTyped
<1>2. CASE ~cancelled[t]
  <2>1. /\ cancelled' = [cancelled EXCEPT ![t] = TRUE]
        /\ ws' = ws /\ shut' \in {shut, shut \cup ({ws} \ {None})}
    BY <1>2, Zenon DEF Tts!MarkCancelled, Tts!Close
  <2> QED
    BY <1>2, <2>1 DEF SpeechTyped
<1> QED
  BY <1>1, <1>2

\* What a step of one stream leaves as it was.
OthersStay(s, stage) ==
    /\ pc' = [pc EXCEPT ![s] = stage]
    /\ UNCHANGED <<round, cancelled, rounds, active, shut, meddled>>

LEMMA OthersStayKnown ==
    ASSUME SpeechTyped, CallsKnown, NEW s \in Tts!Streams, NEW stage \in Tts!Stages,
           stage # "uncalled", pc[s] # "uncalled", OthersStay(s, stage)
    PROVE  /\ pc' \in [Tts!Streams -> Tts!Stages] /\ CallsKnown'
           /\ pc'[s] = stage /\ \A x \in Tts!Streams : x # s => pc'[x] = pc[x]
<1>1. /\ pc' \in [Tts!Streams -> Tts!Stages]
      /\ pc'[s] = stage /\ \A x \in Tts!Streams : x # s => pc'[x] = pc[x]
  BY DEF OthersStay, SpeechTyped
<1>2. CallsKnown'
  BY <1>1 DEF OthersStay, SpeechTyped, CallsKnown
<1> QED
  BY <1>1, <1>2

\* A call for a round, which supersedes the unfinished one of another round.
LEMMA SynthesizeKeepsSpeechInv ==
    ASSUME SpeechInv, NEW s \in Tts!Streams, NEW r \in Rounds, Tts!Synthesize(s, r),
           None \notin Tts!Streams \cup Rounds
    PROVE  SpeechInv'
<1>1. pc[s] = "uncalled"
  BY DEF Tts!Synthesize, Tts!Streams
<1>2. /\ pc' = [pc EXCEPT ![s] = "called"] /\ round' = [round EXCEPT ![s] = r]
      /\ rounds' = [rounds EXCEPT ![r] = s] /\ active' = r
      /\ UNCHANGED <<source, left, served, late>>
  BY DEF Tts!Synthesize, Tts!Goto, Tts!network
<1>3. /\ pc' \in [Tts!Streams -> Tts!Stages] /\ pc'[s] = "called"
      /\ round' \in [Tts!Streams -> Rounds \cup {None}] /\ round'[s] = r
      /\ \A x \in Tts!Streams : x # s => pc'[x] = pc[x] /\ round'[x] = round[x]
      /\ rounds' \in [Rounds -> Tts!Streams \cup {None}] /\ rounds'[r] = s
      /\ \A q \in Rounds : q # r => rounds'[q] = rounds[q]
  BY <1>2 DEF SpeechInv, SpeechTyped, Tts!Stages
<1>4. /\ cancelled' \in [Tts!Streams -> BOOLEAN]
      /\ \A x \in Tts!Streams : cancelled'[x] <=> cancelled[x] \/ x \in Tts!Superseded(r)
      /\ ws' = ws /\ shut' \subseteq Tts!Streams
      /\ shut' \subseteq shut \cup {ws}
  <2>1. CASE Tts!Superseded(r) = {}
    BY <2>1 DEF Tts!Synthesize, Tts!transport, SpeechInv, SpeechTyped
  <2>2. CASE Tts!Superseded(r) # {}
    <3>1. PICK t \in Tts!Superseded(r) : Tts!MarkCancelled(t)
      BY <2>2 DEF Tts!Synthesize
    <3>2. active \notin {None, r} /\ Tts!Superseded(r) = {t} /\ t = rounds[active]
      BY <3>1, Zenon DEF Tts!Superseded
    <3>3. t \in Tts!Streams
      BY <3>2 DEF SpeechInv, SpeechTyped, CallsKnown
    <3> QED
      BY <3>1, <3>2, <3>3, MarkEffects DEF SpeechInv
  <2> QED
    BY <2>1, <2>2
<1>5. SpeechTyped'
  BY <1>2, <1>3, <1>4 DEF SpeechInv, SpeechTyped
<1>6. LateIsTheLast'
  BY <1>1, <1>2, <1>3, <1>4 DEF SpeechInv, SpeechTyped, LateIsTheLast
<1>7. CallsKnown'
  BY <1>1, <1>2, <1>3 DEF SpeechInv, SpeechTyped, CallsKnown
<1>8. ConnectedOnce'
  BY <1>1, <1>3, <1>4 DEF SpeechInv, ConnectedOnce
<1>9. ASSUME ~meddled', NEW x \in Tts!Streams, x # s
      PROVE  ~Live(x)' /\ pc'[x] # "opening" /\ (cancelled[x] => cancelled'[x])
  <2>1. /\ ~meddled
        /\ \A t \in Tts!Streams : round[t] = r => pc[t] = "done"
        /\ \A t \in Tts!Superseded(r) : pc[t] # "opening"
    BY <1>9 DEF Tts!Synthesize
  <2>2. Live(x) => x \in Tts!Superseded(r)
    <3> SUFFICES ASSUME Live(x) PROVE x \in Tts!Superseded(r)
      OBVIOUS
    <3>1. active = round[x] /\ rounds[active] = x /\ round[x] \in Rounds /\ pc[x] # "done"
      BY <2>1 DEF SpeechInv, OnlyTheActive, CallsKnown, Live
    <3>2. active # r /\ active # None
      BY <2>1, <3>1
    <3> QED
      BY <3>1, <3>2, Zenon DEF Tts!Superseded
  <2>3. ~Live(x)'
    BY <1>3, <1>4, <1>9, <2>2 DEF Live
  <2>4. pc[x] # "opening"
    <3>1. pc[x] = "opening" => Live(x)
      BY <2>1 DEF SpeechInv, OnlyTheActive, Live
    <3> QED
      BY <2>1, <2>2, <3>1
  <2> QED
    BY <1>3, <1>4, <1>9, <2>3, <2>4
<1>10. OnlyTheActive'
  <2> SUFFICES ASSUME ~meddled', NEW x \in Tts!Streams
               PROVE  /\ Live(x)' => active' = round'[x] /\ rounds'[round'[x]] = x
                      /\ pc'[x] = "opening" => ~cancelled'[x]
                      /\ Live(x)' /\ pc'[x] \in {"open", "receiving"} =>
                             ws' = x /\ x \notin shut'
                      /\ Live(x)' /\ pc'[x] = "receiving" => source'[x] = x
                      /\ pc'[x] \in {"ending", "done"} /\ ~cancelled'[x] => x \in served'
    BY DEF OnlyTheActive
  <2>1. CASE x = s
    BY <1>2, <1>3, <2>1
  <2>2. CASE x # s
    <3>1. ~meddled
      BY DEF Tts!Synthesize
    <3> QED
      BY <1>2, <1>3, <1>9, <2>2, <3>1 DEF SpeechInv, OnlyTheActive
  <2> QED
    BY <2>1, <2>2
<1> QED
  BY <1>5, <1>6, <1>7, <1>8, <1>10 DEF SpeechInv

\* Cancelling a round.
LEMMA CancelKeepsSpeechInv ==
    ASSUME SpeechInv, NEW r \in Rounds, Tts!Cancel(r), None \notin Tts!Streams \cup Rounds
    PROVE  SpeechInv'
<1> DEFINE t == rounds[r]
<1>1. t \in Tts!Streams /\ Tts!MarkCancelled(t) /\ pc[t] # "uncalled"
  BY DEF Tts!Cancel, SpeechInv, SpeechTyped, CallsKnown
<1>2. /\ UNCHANGED <<pc, round, rounds, active, source, left, served, late>>
      /\ ~meddled' => ~meddled /\ pc[t] \notin {"done", "opening"}
  BY DEF Tts!Cancel, Tts!book, Tts!network
<1> HIDE DEF t
<1>3. /\ cancelled' \in [Tts!Streams -> BOOLEAN]
      /\ \A x \in Tts!Streams : cancelled'[x] <=> cancelled[x] \/ x = t
      /\ ws' = ws /\ shut \subseteq shut' /\ shut' \subseteq Tts!Streams
      /\ \A x \in shut' \ shut : x = ws /\ ~cancelled[t]
  BY <1>1, MarkEffects DEF SpeechInv
<1>4. SpeechTyped' /\ LateIsTheLast' /\ CallsKnown' /\ ConnectedOnce'
  BY <1>2, <1>3 DEF SpeechInv, SpeechTyped, LateIsTheLast, CallsKnown, ConnectedOnce
<1>5. ASSUME ~meddled', NEW x \in Tts!Streams
      PROVE  /\ Live(x)' => active' = round'[x] /\ rounds'[round'[x]] = x
             /\ pc'[x] = "opening" => ~cancelled'[x]
             /\ Live(x)' /\ pc'[x] \in {"open", "receiving"} =>
                    ws' = x /\ x \notin shut'
             /\ Live(x)' /\ pc'[x] = "receiving" => source'[x] = x
             /\ pc'[x] \in {"ending", "done"} /\ ~cancelled'[x] => x \in served'
  <2>1. /\ Live(x) => active = round[x] /\ rounds[round[x]] = x
        /\ Live(t) => active = round[t] /\ rounds[round[t]] = t
        /\ pc[x] = "opening" => ~cancelled[x]
        /\ Live(x) /\ pc[x] \in {"open", "receiving"} => ws = x /\ x \notin shut
        /\ Live(x) /\ pc[x] = "receiving" => source[x] = x
        /\ pc[x] \in {"ending", "done"} /\ ~cancelled[x] => x \in served
    BY <1>1, <1>2, <1>5 DEF SpeechInv, OnlyTheActive
  <2>2. Live(x)' => Live(x) /\ x # t
    BY <1>2, <1>3 DEF Live
  <2>3. ~cancelled[t] => Live(t)
    BY <1>1, <1>2, <1>5 DEF Live
  <2>4. Live(x)' /\ x \notin shut => x \notin shut'
    BY <1>3, <2>1, <2>2, <2>3
  <2> QED
    BY <1>2, <1>3, <1>5, <2>1, <2>2, <2>4
<1>6. OnlyTheActive'
  BY <1>5 DEF OnlyTheActive
<1> QED
  BY <1>4, <1>6 DEF SpeechInv

\* A stream that finds itself cancelled or superseded ends.
LEMMA PullStaleKeepsSpeechInv ==
    ASSUME SpeechInv, NEW s \in Tts!Streams, Tts!PullStale(s),
           None \notin Tts!Streams \cup Rounds
    PROVE  SpeechInv'
<1>1. /\ pc[s] \in {"started", "open"} /\ (cancelled[s] \/ active # round[s])
      /\ pc' = [pc EXCEPT ![s] = "done"]
      /\ UNCHANGED <<round, rounds, active, source, left, served, late, meddled>>
  BY DEF Tts!PullStale, Tts!Stale, Tts!Goto, Tts!book, Tts!network
<1>2. /\ pc' \in [Tts!Streams -> Tts!Stages] /\ pc'[s] = "done"
      /\ \A x \in Tts!Streams : x # s => pc'[x] = pc[x]
  BY <1>1 DEF SpeechInv, SpeechTyped, Tts!Stages
<1>3. /\ cancelled' \in [Tts!Streams -> BOOLEAN]
      /\ \A x \in Tts!Streams : cancelled'[x] <=> cancelled[x] \/ x = s
      /\ ws' = ws /\ shut \subseteq shut' /\ shut' \subseteq Tts!Streams
      /\ \A x \in shut' \ shut : x = ws /\ ~cancelled[s]
  BY MarkEffects DEF Tts!PullStale, SpeechInv
<1>4. SpeechTyped' /\ LateIsTheLast'
  BY <1>1, <1>2, <1>3 DEF SpeechInv, SpeechTyped, LateIsTheLast
<1>5. CallsKnown' /\ ConnectedOnce'
  BY <1>1, <1>2, <1>3 DEF SpeechInv, SpeechTyped, CallsKnown, ConnectedOnce
<1>6. CASE ~meddled
  <2>1. cancelled[s]
    BY <1>1, <1>6 DEF SpeechInv, OnlyTheActive, Live
  <2>2. shut' = shut /\ \A x \in Tts!Streams : cancelled'[x] <=> cancelled[x]
    BY <1>3, <2>1
  <2>3. OnlyTheActive'
    BY <1>1, <1>2, <1>3, <1>6, <2>1, <2>2 DEF SpeechInv, OnlyTheActive, Live
  <2> QED
    BY <1>4, <1>5, <2>3 DEF SpeechInv
<1>7. CASE meddled
  BY <1>1, <1>4, <1>5, <1>7 DEF SpeechInv, OnlyTheActive
<1> QED
  BY <1>6, <1>7

\* The start of a sentence, and the end of a stream that ran out.
LEMMA StartEndKeepsSpeechInv ==
    ASSUME SpeechInv, NEW s \in Tts!Streams, None \notin Tts!Streams \cup Rounds,
           Tts!SentenceStart(s) \/ Tts!Complete(s)
    PROVE  SpeechInv'
<1>1. PICK stage \in {"started", "done"} :
         /\ stage = "started" => pc[s] = "called"
         /\ stage = "done" => pc[s] = "ending"
         /\ OthersStay(s, stage)
         /\ UNCHANGED <<ws, source, served, late>>
  BY DEF Tts!SentenceStart, Tts!Complete, Tts!Goto, Tts!book, Tts!transport, Tts!network,
         OthersStay
<1>2. stage \in Tts!Stages /\ stage # "uncalled" /\ pc[s] # "uncalled"
  BY <1>1 DEF Tts!Stages
<1>3. /\ pc' \in [Tts!Streams -> Tts!Stages] /\ CallsKnown'
      /\ pc'[s] = stage /\ \A x \in Tts!Streams : x # s => pc'[x] = pc[x]
  BY <1>1, <1>2, OthersStayKnown DEF SpeechInv
<1>4. SpeechTyped' /\ LateIsTheLast' /\ ConnectedOnce'
  BY <1>1, <1>3 DEF SpeechInv, SpeechTyped, LateIsTheLast, ConnectedOnce, OthersStay
<1>5. OnlyTheActive'
  BY <1>1, <1>3 DEF SpeechInv, OnlyTheActive, OthersStay, Live
<1> QED
  BY <1>3, <1>4, <1>5 DEF SpeechInv

\* The next chunk is asked for.
LEMMA PullChunkKeepsSpeechInv ==
    ASSUME SpeechInv, NEW s \in Tts!Streams, None \notin Tts!Streams \cup Rounds,
           Tts!PullChunk(s)
    PROVE  SpeechInv'
<1>1. PICK stage \in {"opening", "receiving"} :
         /\ stage = (IF pc[s] = "started" THEN "opening" ELSE "receiving")
         /\ pc[s] \in {"started", "open"} /\ ~cancelled[s]
         /\ OthersStay(s, stage)
         /\ source' = [source EXCEPT ![s] = IF pc[s] = "started" THEN None ELSE ws]
         /\ UNCHANGED <<ws, served, late>>
  BY DEF Tts!PullChunk, Tts!Stale, Tts!Goto, Tts!book, Tts!transport, OthersStay
<1>2. stage \in Tts!Stages /\ stage # "uncalled" /\ pc[s] # "uncalled"
  BY <1>1 DEF Tts!Stages
<1>3. /\ pc' \in [Tts!Streams -> Tts!Stages] /\ CallsKnown'
      /\ pc'[s] = stage /\ \A x \in Tts!Streams : x # s => pc'[x] = pc[x]
  BY <1>1, <1>2, OthersStayKnown DEF SpeechInv
<1>4. /\ source' \in [Tts!Streams -> Tts!Streams \cup {None}]
      /\ stage = "receiving" => source'[s] = ws
      /\ \A x \in Tts!Streams : x # s => source'[x] = source[x]
  BY <1>1 DEF SpeechInv, SpeechTyped
<1>5. SpeechTyped' /\ LateIsTheLast' /\ ConnectedOnce'
  BY <1>1, <1>3, <1>4
  DEF SpeechInv, SpeechTyped, LateIsTheLast, ConnectedOnce, OthersStay
<1>6. OnlyTheActive'
  BY <1>1, <1>3, <1>4 DEF SpeechInv, OnlyTheActive, OthersStay, Live
<1> QED
  BY <1>3, <1>5, <1>6 DEF SpeechInv

\* The connection is made, or fails.
LEMMA ConnectKeepsSpeechInv ==
    ASSUME SpeechInv, NEW s \in Tts!Streams, None \notin Tts!Streams \cup Rounds,
           Tts!Connect(s)
    PROVE  SpeechInv'
<1>1. PICK stage \in {"receiving", "ending"} :
         /\ pc[s] = "opening" /\ OthersStay(s, stage) /\ UNCHANGED late
         /\ stage = "receiving" => /\ ws' = s /\ served' = served
                                   /\ source' = [source EXCEPT ![s] = s]
         /\ stage = "ending" => /\ ws' \in {ws, s} /\ served' = served \cup {s}
                                /\ source' = source
  BY DEF Tts!Connect, Tts!Goto, Tts!book, OthersStay
<1>2. stage \in Tts!Stages /\ stage # "uncalled" /\ pc[s] # "uncalled"
  BY <1>1 DEF Tts!Stages
<1>3. /\ pc' \in [Tts!Streams -> Tts!Stages] /\ CallsKnown'
      /\ pc'[s] = stage /\ \A x \in Tts!Streams : x # s => pc'[x] = pc[x]
  BY <1>1, <1>2, OthersStayKnown DEF SpeechInv
<1>4. /\ source' \in [Tts!Streams -> Tts!Streams \cup {None}]
      /\ stage = "receiving" => source'[s] = s
      /\ \A x \in Tts!Streams : x # s => source'[x] = source[x]
      /\ ws' \in {ws, s} /\ (stage = "receiving" => ws' = s)
      /\ served \subseteq served' /\ (stage = "ending" => s \in served')
  BY <1>1 DEF SpeechInv, SpeechTyped
<1>5. SpeechTyped' /\ LateIsTheLast'
  BY <1>1, <1>3, <1>4 DEF SpeechInv, SpeechTyped, LateIsTheLast, OthersStay
<1>6. ConnectedOnce' /\ s \notin shut
  BY <1>1, <1>3, <1>4 DEF SpeechInv, ConnectedOnce, OthersStay
<1>7. ASSUME ~meddled, NEW x \in Tts!Streams, x # s PROVE ~Live(x)
  BY <1>1, <1>7 DEF SpeechInv, OnlyTheActive, Live
<1>8. OnlyTheActive'
  BY <1>1, <1>3, <1>4, <1>6, <1>7 DEF SpeechInv, OnlyTheActive, OthersStay, Live
<1> QED
  BY <1>3, <1>5, <1>6, <1>8 DEF SpeechInv

\* A chunk, or the last message, is received.
LEMMA ReceiveKeepsSpeechInv ==
    ASSUME SpeechInv, NEW s \in Tts!Streams, None \notin Tts!Streams \cup Rounds,
           Tts!ReceiveChunk(s) \/ Tts!ReceiveLast(s)
    PROVE  SpeechInv'
<1>1. PICK stage \in {"open", "ending"} :
         /\ pc[s] = "receiving" /\ OthersStay(s, stage) /\ ws' = ws
         /\ source' = [source EXCEPT ![s] = None]
         /\ stage = "open" =>
               /\ late' = [late EXCEPT ![s] = IF cancelled[s] THEN @ + 1 ELSE @]
               /\ served' = served
         /\ stage = "ending" =>
               /\ late' = late /\ served' \in {served, served \cup {s}}
               /\ source[s] = s /\ s \notin shut => s \in served'
  BY DEF Tts!ReceiveChunk, Tts!ReceiveLast, Tts!Goto, Tts!book, Tts!transport, OthersStay
<1>2. stage \in Tts!Stages /\ stage # "uncalled" /\ pc[s] # "uncalled"
  BY <1>1 DEF Tts!Stages
<1>3. /\ pc' \in [Tts!Streams -> Tts!Stages] /\ CallsKnown'
      /\ pc'[s] = stage /\ \A x \in Tts!Streams : x # s => pc'[x] = pc[x]
  BY <1>1, <1>2, OthersStayKnown DEF SpeechInv
<1>4. /\ source' \in [Tts!Streams -> Tts!Streams \cup {None}]
      /\ \A x \in Tts!Streams : x # s => source'[x] = source[x]
      /\ served \subseteq served'
  BY <1>1 DEF SpeechInv, SpeechTyped
<1>5. /\ late' \in [Tts!Streams -> Nat]
      /\ \A x \in Tts!Streams : x # s => late'[x] = late[x]
      /\ late'[s] > 0 => late'[s] = 1 /\ cancelled[s] /\ stage = "open"
  <2>1. late[s] = 0
    BY <1>1 DEF SpeechInv, SpeechTyped, LateIsTheLast
  <2> QED
    BY <1>1, <2>1 DEF SpeechInv, SpeechTyped
<1>6. SpeechTyped' /\ LateIsTheLast'
  BY <1>1, <1>3, <1>4, <1>5 DEF SpeechInv, SpeechTyped, LateIsTheLast, OthersStay
<1>7. ConnectedOnce'
  BY <1>1, <1>3 DEF SpeechInv, ConnectedOnce, OthersStay
<1>8. OnlyTheActive'
  BY <1>1, <1>3, <1>4 DEF SpeechInv, OnlyTheActive, OthersStay, Live
<1> QED
  BY <1>3, <1>6, <1>7, <1>8 DEF SpeechInv

\* Every step keeps the invariant.
LEMMA NextKeepsSpeechInv == SpeechInv /\ [Tts!Next]_(Tts!vars) => SpeechInv'
<1> SUFFICES ASSUME SpeechInv, [Tts!Next]_(Tts!vars) PROVE SpeechInv'
  OBVIOUS
<1> None \notin Tts!Streams \cup Rounds
  BY VoiceAssumption DEF Tts!TtsAssumption
<1>1. ASSUME NEW s \in Tts!Streams, NEW r \in Rounds, Tts!Synthesize(s, r)
      PROVE  SpeechInv'
  BY <1>1, SynthesizeKeepsSpeechInv
<1>2. ASSUME NEW s \in Tts!Streams,
             \/ Tts!SentenceStart(s) \/ Tts!PullStale(s) \/ Tts!PullChunk(s)
             \/ Tts!Connect(s) \/ Tts!ReceiveChunk(s) \/ Tts!ReceiveLast(s)
             \/ Tts!Complete(s)
      PROVE  SpeechInv'
  BY <1>2, StartEndKeepsSpeechInv, PullStaleKeepsSpeechInv, PullChunkKeepsSpeechInv,
     ConnectKeepsSpeechInv, ReceiveKeepsSpeechInv
<1>3. ASSUME NEW r \in Rounds, Tts!Cancel(r) PROVE SpeechInv'
  BY <1>3, CancelKeepsSpeechInv
<1>4. CASE UNCHANGED Tts!vars
  BY <1>4 DEF Tts!vars, SpeechInv, SpeechTyped, LateIsTheLast, CallsKnown, ConnectedOnce,
              OnlyTheActive, Live
<1> QED
  BY <1>1, <1>2, <1>3, <1>4 DEF Tts!Next

\* A cancelled or superseded round gives out at most one chunk more, and a stream that
\* completes without saying so was neither cancelled nor cut short, for any number of
\* calls, rounds and chunks (tts.py, _is_cancelled_or_stale and cancel;
\* cloud_providers.py, close).
THEOREM SpecSpeechEndsAsTold == VoiceSpec => []SpeechEndsAsTold
<1>1. VoiceInit => SpeechInv
  BY VoiceAssumption
  DEF Tts!TtsAssumption, VoiceInit, Tts!Init, Tts!Stages, SpeechInv, SpeechTyped,
      LateIsTheLast, CallsKnown, ConnectedOnce, OnlyTheActive, Live
<1>2. SpeechInv => SpeechEndsAsTold
  BY DEF SpeechInv, SpeechTyped, LateIsTheLast, OnlyTheActive, SpeechEndsAsTold,
         Tts!AtMostOneChunkLate, Tts!CancelledOrWhole
<1> QED
  BY <1>1, <1>2, StepOfTts, NextKeepsSpeechInv, PTL DEF VoiceSpec

-----------------------------------------------------------------------------
(* What the neck is told (VoiceGate). *)

ViewPhases == {"", "not_started", "disabled", "listening", "awaiting_wake",
               "listening_voice", "asr_decoding", "thinking", "speaking", "error", "stopped",
               "idle", "ready", "interrupted", "ended"}

GateTyped ==
    /\ backend \in {"native", "openclaw"}
    /\ look \in IF backend = "native" THEN {"away", "phase", "running", "active"}
                ELSE {"away", "running", "session", "playback", "started", "gate"}
    /\ view \in [phase : ViewPhases, running : BOOLEAN, active : BOOLEAN, recent : BOOLEAN]
    /\ phase \in ViewPhases /\ session \in ViewPhases \ {"thinking"}
    /\ {voice_running, connected, heard_lately} \subseteq BOOLEAN

\* A loop that runs said so, or is about to.
LoopIsRunning ==
    backend = "native" /\ ~adrift =>
        /\ ~asks_wake_word => ~in_conversation
        /\ owner = "starting" => ~told_to_stop /\ turn # "none"
        /\ turn # "none" /\ owner # "starting" => voice_running

\* The phases that let the neck turn are those of a conversation.
PhaseIsTrue ==
    backend = "native" /\ ~adrift =>
        /\ phase = "thinking" => turn = "think"
        /\ phase = "speaking" => turn = "speak"
        /\ phase = "listening" => Gate!Conversing

\* Whoever looks takes note of a conversation,
Noticed == look # "away" /\ Gate!Conversing => awake

\* and what he saw of one was noted.
ViewIsTrue ==
    /\ look = "away" \/ look = "phase" => view = Gate!NothingSeen
    /\ ~adrift /\ backend = "native" =>
        /\ view.phase \in {"listening", "thinking", "speaking"} => awake
        /\ view.running /\ ~asks_wake_word => awake
    /\ backend = "openclaw" =>
        /\ view.running /\ ~asks_wake_word => awake
        /\ view.phase = "listening" /\ ~asks_wake_word => awake
        /\ view.recent => awake
        /\ look \in {"started", "gate"} /\ view.phase = "speaking" => awake
        /\ view.phase # "thinking"

ReaderInv ==
    /\ GateTyped /\ LoopIsRunning /\ PhaseIsTrue /\ Noticed /\ ViewIsTrue
    /\ Gate!OpenOnlyAwake

\* A step of the runtimes leaves the reader where he is.
ReaderStays == UNCHANGED <<look, view, gate_open>> /\ awake' = (awake \/ Gate!Conversing')

\* If the reader stays and the runtimes keep their own, everything is kept.
LEMMA RuntimeKeepsReaderInv ==
    ASSUME ReaderInv, ReaderStays, GateTyped', LoopIsRunning', PhaseIsTrue',
           UNCHANGED <<backend, asks_wake_word>>, adrift => adrift'
    PROVE  ReaderInv'
<1>1. awake => awake'
  BY DEF ReaderStays
<1>2. Noticed' /\ Gate!OpenOnlyAwake'
  BY <1>1 DEF ReaderStays, ReaderInv, Noticed, Gate!OpenOnlyAwake
<1>3. ViewIsTrue'
  BY <1>1 DEF ReaderStays, ReaderInv, ViewIsTrue, Gate!NothingSeen
<1> QED
  BY <1>2, <1>3 DEF ReaderInv

\* Starting and stopping the native loop.
LEMMA OwnerKeepsReaderInv ==
    ASSUME ReaderInv, ReaderStays,
           Gate!Start \/ Gate!Started \/ Gate!Stop \/ Gate!Stopped
    PROVE  ReaderInv'
<1> USE DEF Gate!config, Gate!native, Gate!openclaw, Gate!reader
<1>1. UNCHANGED <<backend, asks_wake_word, has_voice, in_conversation, session, look, view>>
  BY DEF Gate!Start, Gate!Started, Gate!Stop, Gate!Stopped, ReaderStays
<1>2. adrift => adrift'
  BY DEF Gate!Start, Gate!Started, Gate!Stop, Gate!Stopped
<1>3. GateTyped'
  <2>1. phase' \in ViewPhases
    BY DEF ReaderInv, GateTyped, ViewPhases, Gate!Start, Gate!Started, Gate!Stop,
           Gate!Stopped, Gate!IdlePhase
  <2>2. voice_running' \in BOOLEAN /\ UNCHANGED <<connected, heard_lately>>
    BY DEF ReaderInv, GateTyped, Gate!Start, Gate!Started, Gate!Stop, Gate!Stopped
  <2> QED
    BY <1>1, <2>1, <2>2 DEF ReaderInv, GateTyped
<1>4. LoopIsRunning'
  BY DEF ReaderInv, LoopIsRunning, Gate!Start, Gate!Started, Gate!Stop, Gate!Stopped
<1>5. PhaseIsTrue'
  BY DEF ReaderInv, LoopIsRunning, PhaseIsTrue, Gate!Conversing, Gate!Start, Gate!Started,
         Gate!Stop, Gate!Stopped, Gate!IdlePhase
<1> QED
  BY <1>1, <1>2, <1>3, <1>4, <1>5, RuntimeKeepsReaderInv

\* The turns of the loop's thread.
LEMMA TurnKeepsReaderInv ==
    ASSUME ReaderInv, ReaderStays,
           \/ Gate!Listens \/ Gate!NotUnderstood \/ Gate!Understood \/ Gate!WakeWord
           \/ Gate!EndPhrase \/ Gate!Answers \/ Gate!TurnDies
    PROVE  ReaderInv'
<1> USE DEF Gate!config, Gate!native, Gate!openclaw, Gate!reader
<1>1. PICK from, to, p : Gate!LoopGoes(from, to, p)
  BY DEF Gate!Listens, Gate!NotUnderstood, Gate!Understood, Gate!WakeWord, Gate!EndPhrase,
         Gate!Answers, Gate!TurnDies
<1>2. UNCHANGED <<backend, asks_wake_word, has_voice, session, look, view, owner,
                  told_to_stop, voice_running, connected, heard_lately>>
  BY <1>1 DEF Gate!LoopGoes, ReaderStays
<1>3. adrift => adrift'
  BY DEF Gate!Listens, Gate!NotUnderstood, Gate!Understood, Gate!WakeWord, Gate!EndPhrase,
         Gate!Answers, Gate!TurnDies
<1>4. phase' \in ViewPhases
  BY DEF ReaderInv, GateTyped, ViewPhases, Gate!IdlePhase, Gate!ResetPhase, Gate!AfterSpeech,
         Gate!LoopGoes, Gate!Listens, Gate!NotUnderstood, Gate!Understood, Gate!WakeWord,
         Gate!EndPhrase, Gate!Answers, Gate!TurnDies
<1>5. GateTyped'
  BY <1>2, <1>4 DEF ReaderInv, GateTyped
<1>6. LoopIsRunning'
  BY DEF ReaderInv, LoopIsRunning, Gate!LoopGoes, Gate!Listens, Gate!NotUnderstood,
         Gate!Understood, Gate!WakeWord, Gate!EndPhrase, Gate!Answers, Gate!TurnDies
<1>7. PhaseIsTrue'
  <2> USE DEF ReaderInv, LoopIsRunning, PhaseIsTrue, Gate!Conversing, Gate!LoopGoes,
              Gate!IdlePhase
  <2>1. CASE Gate!Listens
    BY <2>1 DEF Gate!Listens
  <2>2. CASE Gate!NotUnderstood
    BY <2>2 DEF Gate!NotUnderstood
  <2>3. CASE Gate!Understood \/ Gate!WakeWord \/ Gate!EndPhrase
    BY <2>3 DEF Gate!Understood, Gate!WakeWord, Gate!EndPhrase
  <2>4. CASE Gate!Answers
    BY <2>4 DEF Gate!Answers, Gate!AfterSpeech, Gate!ResetPhase
  <2>5. CASE Gate!TurnDies
    BY <2>5 DEF Gate!TurnDies
  <2> QED
    BY <2>1, <2>2, <2>3, <2>4, <2>5
<1> QED
  BY <1>2, <1>3, <1>5, <1>6, <1>7, RuntimeKeepsReaderInv

\* The other runtime has no loop.
LEMMA OpenClawKeepsReaderInv ==
    ASSUME ReaderInv, ReaderStays, Gate!OpenClawStep
    PROVE  ReaderInv'
<1> USE DEF Gate!config, Gate!native, Gate!openclaw, Gate!reader, Gate!OpenClawStep,
            Gate!TransportGoes, Gate!Connects, Gate!Fails, Gate!Message, Gate!SpeakerGoes,
            Gate!GateGoes, Gate!StartOpenClaw, Gate!StopOpenClaw
<1>1. backend = "openclaw" /\ UNCHANGED <<backend, asks_wake_word, look, view, phase>>
  <2>1. CASE Gate!Connects \/ Gate!Fails \/ Gate!Message \/ Gate!SpeakerGoes
    BY <2>1 DEF ReaderStays
  <2>2. CASE Gate!GateGoes \/ Gate!StartOpenClaw \/ Gate!StopOpenClaw
    BY <2>2 DEF ReaderStays
  <2> QED
    BY <2>1, <2>2
<1>4. adrift => adrift'
  OBVIOUS
<1>2. session' \in ViewPhases \ {"thinking"}
  BY DEF ReaderInv, GateTyped, ViewPhases
<1>3. GateTyped' /\ LoopIsRunning' /\ PhaseIsTrue'
  BY <1>1, <1>2 DEF ReaderInv, GateTyped, LoopIsRunning, PhaseIsTrue
<1> QED
  BY <1>1, <1>3, <1>4, RuntimeKeepsReaderInv

\* The reader changes nothing of the runtimes.
LEMMA RuntimesStay ==
    ASSUME ReaderInv, GateTyped',
           UNCHANGED <<backend, asks_wake_word, has_voice, in_conversation, voice_running,
                       phase, turn, owner, told_to_stop, session, connected, sounding,
                       heard_lately, adrift>>
    PROVE  LoopIsRunning' /\ PhaseIsTrue' /\ (Gate!Conversing' <=> Gate!Conversing)
  BY DEF ReaderInv, LoopIsRunning, PhaseIsTrue, Gate!Conversing

\* A look of the reader: what he sees is noted if it was of a conversation.
LEMMA BeginReadKeepsReaderInv ==
    ASSUME ReaderInv, Gate!BeginRead, None \notin BOOLEAN
    PROVE  ReaderInv'
<1> USE DEF Gate!config, Gate!native, Gate!openclaw
<1>1. /\ view' = Gate!NothingSeen /\ gate_open' = None /\ awake' = Gate!Conversing
      /\ look' = IF backend = "native" THEN "phase" ELSE "running"
      /\ UNCHANGED <<backend, asks_wake_word, has_voice, in_conversation, voice_running,
                     phase, turn, owner, told_to_stop, session, connected, sounding,
                     heard_lately, adrift>>
  BY DEF Gate!BeginRead
<1>2. GateTyped'
  BY <1>1 DEF ReaderInv, GateTyped, Gate!NothingSeen, ViewPhases
<1>3. LoopIsRunning' /\ PhaseIsTrue' /\ (Gate!Conversing' <=> Gate!Conversing)
  BY <1>1, <1>2, RuntimesStay
<1>4. Noticed' /\ ViewIsTrue'
  BY <1>1, <1>3 DEF Noticed, ViewIsTrue, Gate!NothingSeen
<1>5. Gate!OpenOnlyAwake'
  BY <1>1 DEF Gate!OpenOnlyAwake
<1> QED
  BY <1>2, <1>3, <1>4, <1>5 DEF ReaderInv

LEMMA LookKeepsReaderInv ==
    ASSUME ReaderInv, GateTyped', ViewIsTrue', look # "away",
           UNCHANGED <<backend, asks_wake_word, has_voice, in_conversation, voice_running,
                       phase, turn, owner, told_to_stop, session, connected, sounding,
                       heard_lately, adrift, gate_open, awake>>
    PROVE  ReaderInv'
<1>1. LoopIsRunning' /\ PhaseIsTrue' /\ (Gate!Conversing' <=> Gate!Conversing)
  BY RuntimesStay
<1>2. Noticed' /\ Gate!OpenOnlyAwake'
  BY <1>1 DEF ReaderInv, Noticed, Gate!OpenOnlyAwake
<1> QED
  BY <1>1, <1>2 DEF ReaderInv

LEMMA NativeLooksKeepReaderInv ==
    ASSUME ReaderInv, Gate!CopyState
    PROVE  ReaderInv'
<1> USE DEF Gate!config, Gate!native, Gate!openclaw
<1>1. /\ backend = "native" /\ look # "away"
      /\ UNCHANGED <<backend, asks_wake_word, has_voice, in_conversation, voice_running,
                     phase, turn, owner, told_to_stop, session, connected, sounding,
                     heard_lately, adrift, gate_open, awake>>
  BY DEF Gate!CopyState, Gate!Look
<1>2. CASE Gate!Look("phase", "running", [view EXCEPT !.phase = phase])
  <2>1. /\ look = "phase" /\ look' = "running" /\ view' = [view EXCEPT !.phase = phase]
    BY <1>2 DEF Gate!Look
  <2>2. GateTyped'
    BY <1>1, <2>1 DEF ReaderInv, GateTyped
  <2>3. view'.phase = phase /\ view'.running = FALSE
    <3>1. view = Gate!NothingSeen
      BY <2>1 DEF ReaderInv, ViewIsTrue
    <3> QED
      BY <2>1, <3>1 DEF Gate!NothingSeen
  <2>4. ~adrift /\ phase \in {"listening", "thinking", "speaking"} => awake
    BY <1>1, <2>1 DEF ReaderInv, PhaseIsTrue, Noticed, Gate!Conversing
  <2>5. ViewIsTrue'
    BY <1>1, <2>1, <2>3, <2>4 DEF ViewIsTrue
  <2> QED
    BY <1>1, <2>2, <2>5, LookKeepsReaderInv
<1>3. CASE Gate!Look("running", "active", [view EXCEPT !.running = voice_running])
  <2>1. /\ look = "running" /\ look' = "active"
        /\ view' = [view EXCEPT !.running = voice_running]
    BY <1>3 DEF Gate!Look
  <2>2. view'.phase = view.phase /\ view'.running = voice_running
    BY <2>1 DEF ReaderInv, GateTyped
  <2>3. voice_running \in BOOLEAN
    BY <1>3 DEF ReaderInv, GateTyped
  <2>4. GateTyped'
    BY <1>1, <2>1, <2>3 DEF ReaderInv, GateTyped
  <2>5. voice_running /\ ~asks_wake_word => awake
    BY <1>1, <2>1 DEF ReaderInv, Noticed, Gate!Conversing
  <2>6. ViewIsTrue'
    BY <1>1, <2>1, <2>2, <2>5 DEF ReaderInv, ViewIsTrue
  <2> QED
    BY <1>1, <2>4, <2>6, LookKeepsReaderInv
<1> QED
  BY <1>2, <1>3 DEF Gate!CopyState

LEMMA OpenClawLooksKeepReaderInv ==
    ASSUME ReaderInv, Gate!ReadTransport \/ Gate!ReadPlayback \/ Gate!ReadStarted
    PROVE  ReaderInv'
<1> USE DEF Gate!config, Gate!native, Gate!openclaw
<1>1. /\ backend = "openclaw" /\ look # "away"
      /\ UNCHANGED <<backend, asks_wake_word, has_voice, in_conversation, voice_running,
                     phase, turn, owner, told_to_stop, session, connected, sounding,
                     heard_lately, adrift, gate_open, awake>>
  BY DEF Gate!ReadTransport, Gate!ReadPlayback, Gate!ReadStarted, Gate!Look, ReaderInv,
         GateTyped
<1>2. Gate!Conversing => awake
  BY <1>1 DEF ReaderInv, Noticed
<1>3. CASE Gate!Look("running", "session", [view EXCEPT !.running = connected])
  <2>1. /\ look = "running" /\ look' = "session"
        /\ view' = [view EXCEPT !.running = connected]
    BY <1>3 DEF Gate!Look
  <2>2. /\ view'.phase = view.phase /\ view'.running = connected
        /\ view'.recent = view.recent
    BY <2>1 DEF ReaderInv, GateTyped
  <2>3. GateTyped'
    BY <1>1, <2>1 DEF ReaderInv, GateTyped
  <2>4. ViewIsTrue'
    BY <1>1, <1>2, <2>1, <2>2 DEF ReaderInv, ViewIsTrue, Gate!Conversing
  <2> QED
    BY <1>1, <2>3, <2>4, LookKeepsReaderInv
<1>4. CASE Gate!Look("session", "playback",
                     [view EXCEPT !.phase = session, !.recent = heard_lately])
  <2>1. /\ look = "session" /\ look' = "playback"
        /\ view' = [view EXCEPT !.phase = session, !.recent = heard_lately]
    BY <1>4 DEF Gate!Look
  <2>2. /\ view'.phase = session /\ view'.running = view.running
        /\ view'.recent = heard_lately
    BY <2>1 DEF ReaderInv, GateTyped
  <2>3. GateTyped'
    BY <1>1, <2>1 DEF ReaderInv, GateTyped
  <2>4. ViewIsTrue'
    BY <1>1, <1>2, <2>1, <2>2 DEF ReaderInv, GateTyped, ViewIsTrue, Gate!Conversing
  <2> QED
    BY <1>1, <2>3, <2>4, LookKeepsReaderInv
<1>5. ASSUME NEW recent \in BOOLEAN, recent => view.recent,
             Gate!Look("playback", "started",
                       [view EXCEPT !.phase = Gate!SessionShown(sounding, recent)])
      PROVE  ReaderInv'
  <2>1. /\ look = "playback" /\ look' = "started"
        /\ view' = [view EXCEPT !.phase = Gate!SessionShown(sounding, recent)]
    BY <1>5 DEF Gate!Look
  <2>2. /\ view'.phase = Gate!SessionShown(sounding, recent)
        /\ view'.running = view.running /\ view'.recent = view.recent
    BY <2>1 DEF ReaderInv, GateTyped
  <2>3. Gate!SessionShown(sounding, recent) \in {view.phase, "ready"}
    BY DEF Gate!SessionShown
  <2>4. GateTyped'
    BY <1>1, <2>1, <2>3 DEF ReaderInv, GateTyped, ViewPhases
  <2>5. Gate!SessionShown(sounding, recent) = "speaking" => sounding \/ recent
    BY DEF Gate!SessionShown
  <2>6. view.recent \/ sounding => awake
    BY <1>1, <1>2 DEF ReaderInv, ViewIsTrue, Gate!Conversing
  <2>7. ViewIsTrue'
    BY <1>1, <1>5, <2>1, <2>2, <2>3, <2>5, <2>6 DEF ReaderInv, ViewIsTrue
  <2> QED
    BY <1>1, <2>4, <2>7, LookKeepsReaderInv
<1>6. CASE Gate!ReadStarted
  <2>1. /\ look = "started" /\ look' = "gate"
        /\ view' = [view EXCEPT !.running = view.running /\ voice_running]
    BY <1>6 DEF Gate!ReadStarted, Gate!Look
  <2>2. /\ view'.phase = view.phase /\ view'.running = (view.running /\ voice_running)
        /\ view'.recent = view.recent
    BY <2>1 DEF ReaderInv, GateTyped
  <2>3. (view.running /\ voice_running) \in BOOLEAN
    BY Zenon
  <2>4. GateTyped'
    BY <1>1, <2>1, <2>3 DEF ReaderInv, GateTyped
  <2>5. ViewIsTrue'
    BY <1>1, <2>1, <2>2 DEF ReaderInv, ViewIsTrue
  <2> QED
    BY <1>1, <2>4, <2>5, LookKeepsReaderInv
<1> QED
  BY <1>3, <1>4, <1>5, <1>6 DEF Gate!ReadTransport, Gate!ReadPlayback

\* The answer opens the gate only for what was noted.
LEMMA AnswerKeepsReaderInv ==
    ASSUME ReaderInv, Gate!Answer
    PROVE  ReaderInv'
<1> USE DEF Gate!config, Gate!native, Gate!openclaw
<1>1. /\ look # "away" /\ look' = "away" /\ view' = Gate!NothingSeen
      /\ UNCHANGED <<backend, asks_wake_word, has_voice, in_conversation, voice_running,
                     phase, turn, owner, told_to_stop, session, connected, sounding,
                     heard_lately, adrift, awake>>
  BY DEF Gate!Answer
<1>2. GateTyped'
  BY <1>1 DEF ReaderInv, GateTyped, Gate!NothingSeen, ViewPhases
<1>3. LoopIsRunning' /\ PhaseIsTrue' /\ (Gate!Conversing' <=> Gate!Conversing)
  BY <1>1, <1>2, RuntimesStay
<1>4. Noticed' /\ ViewIsTrue'
  BY <1>1 DEF Noticed, ViewIsTrue, Gate!NothingSeen
<1>5. Gate!Conversing => awake
  BY <1>1 DEF ReaderInv, Noticed
<1>6. ASSUME look = "active", ~adrift,
             Gate!Allowed([view EXCEPT !.active = in_conversation])
      PROVE  awake
  <2> DEFINE seen == [view EXCEPT !.active = in_conversation]
  <2>1. /\ seen.active = in_conversation /\ seen.phase = view.phase
        /\ seen.running = view.running /\ view.phase \in ViewPhases
    BY DEF ReaderInv, GateTyped
  <2>2. backend = "native"
    BY <1>6 DEF ReaderInv, GateTyped
  <2>3. in_conversation => Gate!Conversing
    BY <1>6, <2>2 DEF ReaderInv, LoopIsRunning, Gate!Conversing
  <2>4. \/ in_conversation
        \/ view.phase \in {"listening", "thinking", "speaking"}
        \/ view.running /\ ~asks_wake_word
    BY <1>6, <2>1 DEF Gate!Allowed, ViewPhases
  <2> QED
    BY <1>5, <1>6, <2>2, <2>3, <2>4 DEF ReaderInv, ViewIsTrue
<1>7. ASSUME look = "gate", Gate!Allowed(Gate!Dialogue)
      PROVE  awake
  <2> DEFINE shown_phase == IF asks_wake_word /\ ~in_conversation /\ view.phase # "speaking"
                            THEN "sleeping" ELSE view.phase
             shown_active == IF asks_wake_word THEN in_conversation ELSE view.running
  <2>1. Gate!Dialogue = [view EXCEPT !.phase = shown_phase, !.active = shown_active]
    BY DEF Gate!Dialogue
  <2>2. /\ Gate!Dialogue.active = shown_active /\ Gate!Dialogue.phase = shown_phase
        /\ Gate!Dialogue.running = view.running /\ view.phase \in ViewPhases
    BY <2>1 DEF ReaderInv, GateTyped
  <2>3. \/ shown_active
        \/ shown_phase \in {"listening", "thinking", "speaking"}
        \/ view.running /\ ~asks_wake_word
    BY <1>7, <2>2 DEF Gate!Allowed, ViewPhases
  <2>4. /\ backend = "openclaw"
        /\ view.running /\ ~asks_wake_word => awake
        /\ view.phase = "listening" /\ ~asks_wake_word => awake
        /\ view.phase = "speaking" => awake
        /\ view.phase # "thinking"
    BY <1>7 DEF ReaderInv, GateTyped, ViewIsTrue
  <2>5. asks_wake_word /\ in_conversation => awake
    BY <1>5 DEF Gate!Conversing
  <2> QED
    BY <2>3, <2>4, <2>5
<1>8. Gate!OpenOnlyAwake'
  <2>1. CASE /\ look = "active"
             /\ gate_open' = Gate!Allowed([view EXCEPT !.active = in_conversation])
    BY <1>1, <1>6, <2>1 DEF Gate!OpenOnlyAwake
  <2>2. CASE look = "gate" /\ gate_open' = Gate!Allowed(Gate!Dialogue)
    BY <1>1, <1>7, <2>2 DEF Gate!OpenOnlyAwake
  <2> QED
    BY <2>1, <2>2 DEF Gate!Answer
<1> QED
  BY <1>2, <1>3, <1>4, <1>8 DEF ReaderInv

\* Every step keeps the invariant.
LEMMA NextKeepsReaderInv == ReaderInv /\ [Gate!Next]_(Gate!vars) => ReaderInv'
<1> SUFFICES ASSUME ReaderInv, [Gate!Next]_(Gate!vars) PROVE ReaderInv'
  OBVIOUS
<1>1. ASSUME Gate!NativeStep, awake' = (awake \/ Gate!Conversing')
      PROVE  ReaderInv'
  <2>1. ReaderStays
    BY <1>1
    DEF ReaderStays, Gate!NativeStep, Gate!Start, Gate!Started, Gate!Stop, Gate!Stopped,
        Gate!Listens, Gate!NotUnderstood, Gate!Understood, Gate!WakeWord, Gate!EndPhrase,
        Gate!Answers, Gate!TurnDies, Gate!LoopGoes, Gate!reader
  <2> QED
    BY <1>1, <2>1, OwnerKeepsReaderInv, TurnKeepsReaderInv DEF Gate!NativeStep
<1>2. ASSUME Gate!OpenClawStep, awake' = (awake \/ Gate!Conversing')
      PROVE  ReaderInv'
  <2>1. ReaderStays
    BY <1>2
    DEF ReaderStays, Gate!OpenClawStep, Gate!Connects, Gate!Fails, Gate!Message,
        Gate!SpeakerGoes, Gate!GateGoes, Gate!StartOpenClaw, Gate!StopOpenClaw,
        Gate!TransportGoes, Gate!reader
  <2> QED
    BY <1>2, <2>1, OpenClawKeepsReaderInv
<1>3. CASE Gate!BeginRead
  BY <1>3, VoiceAssumption, BeginReadKeepsReaderInv DEF Gate!GateAssumption
<1>4. CASE Gate!CopyState
  BY <1>4, NativeLooksKeepReaderInv
<1>5. CASE Gate!ReadTransport \/ Gate!ReadPlayback \/ Gate!ReadStarted
  BY <1>5, OpenClawLooksKeepReaderInv
<1>6. CASE Gate!Answer
  BY <1>6, AnswerKeepsReaderInv
<1>7. CASE UNCHANGED Gate!vars
  <2>1. UNCHANGED <<backend, asks_wake_word, has_voice, in_conversation, voice_running,
                    phase, turn, owner, told_to_stop, session, connected, sounding,
                    heard_lately, adrift, look, view, gate_open, awake>>
    BY <1>7 DEF Gate!vars, Gate!config, Gate!native, Gate!openclaw, Gate!reader
  <2>2. GateTyped'
    BY <2>1 DEF ReaderInv, GateTyped
  <2>3. LoopIsRunning' /\ PhaseIsTrue' /\ (Gate!Conversing' <=> Gate!Conversing)
    BY <2>1, <2>2, RuntimesStay
  <2>4. Noticed' /\ Gate!OpenOnlyAwake'
    BY <2>1, <2>3 DEF ReaderInv, Noticed, Gate!OpenOnlyAwake
  <2>5. ViewIsTrue'
    BY <2>1 DEF ReaderInv, ViewIsTrue, Gate!NothingSeen
  <2> QED
    BY <2>2, <2>3, <2>4, <2>5 DEF ReaderInv
<1> QED
  BY <1>1, <1>2, <1>3, <1>4, <1>5, <1>6, <1>7 DEF Gate!Next

\* The neck is told that somebody is in a conversation only if somebody was at a moment
\* since it asked, however the runtime goes on between its looks (app.py,
\* _neck_reframe_voice_gate).
THEOREM SpecOpenOnlyAwake == VoiceSpec => []OpenOnlyAwake
<1>1. VoiceInit => ReaderInv
  <2> SUFFICES ASSUME VoiceInit PROVE ReaderInv
    OBVIOUS
  <2>1. Gate!Init /\ None \notin BOOLEAN
    BY VoiceAssumption DEF VoiceInit, Gate!GateAssumption
  <2>2. GateTyped
    BY <2>1 DEF Gate!Init, GateTyped, ViewPhases, Gate!NothingSeen
  <2> QED
    BY <2>1, <2>2 DEF Gate!Init, ReaderInv, LoopIsRunning, PhaseIsTrue, Noticed, ViewIsTrue,
                      Gate!OpenOnlyAwake, Gate!NothingSeen
<1>2. ReaderInv => OpenOnlyAwake
  BY DEF ReaderInv, OpenOnlyAwake
<1> QED
  BY <1>1, <1>2, StepOfGate, NextKeepsReaderInv, PTL DEF VoiceSpec

-----------------------------------------------------------------------------
(* What the monitor shows (VoiceMonitor). *)

MonitorTyped ==
    /\ voice_backend \in {"native", "openclaw", "none"}
    /\ readings # None =>
        readings \in Seq(Monitor!States \cup {None}) /\ Len(readings) <= 4
    /\ verdict # None => readings # None /\ Len(readings) = 4

\* What the history says of the voice now.
HistoryIsTrue ==
    /\ kept_up => voice_up /\ last_status # "error"
    /\ voice_up => last_status # "disabled"
    /\ kept_failing => last_status = "error"
    /\ last_status = "error" => voice_backend # "none"
    /\ voice_backend = "native" /\ last_status = "error" => loop_state = "error"

\* What each source can have said of a voice that was up, or in error, all the time.
ReadingsFit ==
    readings # None =>
        /\ kept_up /\ voice_backend # "none" /\ Len(readings) >= 1 => readings[1] = "wired"
        /\ kept_failing => \A i \in 1 .. Len(readings) : i # 3 => readings[i] # "wired"

MonitorInv == MonitorTyped /\ HistoryIsTrue /\ ReadingsFit /\ Monitor!ShownAsItIs

\* What a list of readings holds when one was added.
LEMMA OneMoreReading ==
    ASSUME NEW q \in Seq(Monitor!States \cup {None}),
           NEW status \in Monitor!States \cup {None}
    PROVE  /\ Append(q, status) \in Seq(Monitor!States \cup {None})
           /\ Len(Append(q, status)) = Len(q) + 1 /\ Len(q) \in Nat
           /\ \A i \in 1 .. Len(q) : Append(q, status)[i] = q[i]
           /\ Append(q, status)[Len(q) + 1] = status
  BY AppendProperties

\* What the readings say of a voice that is up, or in error.
LEMMA ReadsFit ==
    ASSUME MonitorTyped, HistoryIsTrue, None \notin Monitor!States
    PROVE  /\ kept_up /\ voice_backend # "none" => Monitor!ReadStatus = {"wired"}
           /\ kept_failing => "wired" \notin Monitor!ReadStatus
           /\ kept_failing => "wired" \notin Monitor!ReadPanel
           /\ Monitor!ReadStatus \cup Monitor!ReadPanel \subseteq Monitor!States \cup {None}
<1>1. ASSUME NEW parts
      PROVE  /\ Monitor!Overall(parts) \in Monitor!States
             /\ "degraded" \in parts => Monitor!Overall(parts) # "wired"
             /\ "wired" \in parts /\ parts \cap {"degraded", "not_wired"} = {} =>
                    Monitor!Overall(parts) = "wired"
  BY DEF Monitor!Overall, Monitor!States
<1>2. kept_up /\ voice_backend # "none" => Monitor!ReadStatus = {"wired"}
  <2> SUFFICES ASSUME kept_up, voice_backend # "none" PROVE Monitor!ReadStatus = {"wired"}
    OBVIOUS
  <2>1. /\ Monitor!Ear = "wired" /\ Monitor!Mouth = "wired" /\ Monitor!Scheduler = "unknown"
        /\ Monitor!Classify(last_status) \in {"wired", "unknown"}
    BY DEF HistoryIsTrue, Monitor!Ear, Monitor!Mouth, Monitor!Scheduler, Monitor!Classify
  <2> DEFINE parts == {Monitor!Ear, Monitor!Mouth, Monitor!Classify(last_status),
                       Monitor!Scheduler}
  <2>2. "wired" \in parts /\ parts \cap {"degraded", "not_wired"} = {}
    BY <2>1
  <2> QED
    BY <1>1, <2>2 DEF Monitor!ReadStatus
<1>3. kept_failing => "wired" \notin Monitor!ReadStatus
  <2> SUFFICES ASSUME kept_failing PROVE "wired" \notin Monitor!ReadStatus
    OBVIOUS
  <2>1. voice_backend # "none" /\ Monitor!Classify(last_status) = "degraded"
    BY DEF HistoryIsTrue, Monitor!Classify
  <2> QED
    BY <1>1, <2>1 DEF Monitor!ReadStatus
<1>4. kept_failing => "wired" \notin Monitor!ReadPanel
  <2> SUFFICES ASSUME kept_failing PROVE "wired" \notin Monitor!ReadPanel
    OBVIOUS
  <2>1. voice_backend \in {"native", "openclaw"}
    BY DEF HistoryIsTrue, MonitorTyped
  <2>2. CASE voice_backend = "openclaw"
    <3>1. Monitor!PanelHealth = "degraded"
      BY <2>2 DEF Monitor!PanelHealth
    <3> QED
      BY <1>1, <2>1, <3>1 DEF Monitor!ReadPanel
  <2>3. CASE voice_backend = "native"
    <3>1. Monitor!Classify(loop_state) = "degraded"
      BY <2>3 DEF HistoryIsTrue, Monitor!Classify
    <3> QED
      BY <1>1, <2>1, <3>1 DEF Monitor!ReadPanel
  <2> QED
    BY <2>1, <2>2, <2>3
<1>5. Monitor!ReadStatus \cup Monitor!ReadPanel \subseteq Monitor!States \cup {None}
  BY <1>1 DEF Monitor!ReadStatus, Monitor!ReadPanel, Monitor!Configured, Monitor!States
<1> QED
  BY <1>2, <1>3, <1>4, <1>5

\* Each reading is one the voice can have given.
LEMMA ReadKeepsMonitorInv ==
    ASSUME MonitorInv, Monitor!Read, None \notin Monitor!States
    PROVE  MonitorInv'
<1>1. PICK status : /\ readings' = Append(readings, status)
                    /\ status \in CASE Monitor!Sources[Len(readings) + 1] = "snapshot"
                                       -> Monitor!ReadSnapshot
                                    [] Monitor!Sources[Len(readings) + 1] = "eivoice_runtime"
                                       -> Monitor!ReadPanel
                                    [] OTHER -> Monitor!ReadStatus
  BY DEF Monitor!Read
<1>2. /\ readings # None /\ Len(readings) < 4 /\ verdict = None
      /\ readings \in Seq(Monitor!States \cup {None}) /\ Len(readings) \in Nat
  BY LenProperties DEF Monitor!Read, Monitor!Sources, MonitorInv, MonitorTyped
<1>3. /\ Len(readings) + 1 \in 1 .. 4
      /\ Len(readings) + 1 = 1 => status \in Monitor!ReadStatus
      /\ Len(readings) + 1 = 2 => status \in Monitor!ReadStatus
      /\ Len(readings) + 1 = 3 => status \in Monitor!ReadSnapshot
      /\ Len(readings) + 1 = 4 => status \in Monitor!ReadPanel
  BY <1>1, <1>2 DEF Monitor!Sources
<1>4. /\ kept_up /\ voice_backend # "none" => Monitor!ReadStatus = {"wired"}
      /\ kept_failing => "wired" \notin Monitor!ReadStatus
      /\ kept_failing => "wired" \notin Monitor!ReadPanel
      /\ Monitor!ReadStatus \cup Monitor!ReadPanel \subseteq Monitor!States \cup {None}
  BY ReadsFit DEF MonitorInv
<1>5. status \in Monitor!States \cup {None}
  BY <1>2, <1>3, <1>4 DEF Monitor!ReadSnapshot
<1>6. /\ readings' \in Seq(Monitor!States \cup {None})
      /\ Len(readings') = Len(readings) + 1
      /\ \A i \in 1 .. Len(readings) : readings'[i] = readings[i]
      /\ readings'[Len(readings) + 1] = status
  BY <1>1, <1>2, <1>5, OneMoreReading
<1>7. UNCHANGED <<voice_backend, voice_up, loop_state, last_status, verdict, kept_up,
                  kept_failing>>
  BY DEF Monitor!Read, Monitor!voice, Monitor!history
<1>8. MonitorTyped' /\ HistoryIsTrue'
  BY <1>2, <1>3, <1>6, <1>7 DEF MonitorInv, MonitorTyped, HistoryIsTrue
<1>9. ReadingsFit'
  <2>1. ASSUME kept_up, voice_backend # "none" PROVE readings'[1] = "wired"
    <3>1. CASE Len(readings) = 0
      BY <1>2, <1>3, <1>4, <1>6, <2>1, <3>1
    <3>2. CASE Len(readings) # 0
      BY <1>2, <1>6, <2>1, <3>2 DEF MonitorInv, ReadingsFit
    <3> QED
      BY <3>1, <3>2
  <2>2. ASSUME kept_failing, NEW i \in 1 .. Len(readings'), i # 3
        PROVE  readings'[i] # "wired"
    <3>1. CASE i \in 1 .. Len(readings)
      BY <1>2, <1>6, <2>2, <3>1 DEF MonitorInv, ReadingsFit
    <3>2. CASE i = Len(readings) + 1
      BY <1>2, <1>3, <1>4, <1>6, <2>2, <3>2
    <3> QED
      BY <1>2, <1>6, <3>1, <3>2
  <2> QED
    BY <1>7, <2>1, <2>2 DEF ReadingsFit
<1>10. Monitor!ShownAsItIs'
  BY <1>2, <1>7 DEF Monitor!ShownAsItIs
<1> QED
  BY <1>8, <1>9, <1>10 DEF MonitorInv

\* The best of the readings is shown.
LEMMA ShowKeepsMonitorInv ==
    ASSUME MonitorInv, Monitor!Show, None \notin Monitor!States
    PROVE  MonitorInv'
<1>1. PICK best \in Monitor!ToSet(readings) :
         /\ \A other \in Monitor!ToSet(readings) : Monitor!Rank(other) <= Monitor!Rank(best)
         /\ verdict' = IF best = None THEN "not_wired" ELSE best
  BY DEF Monitor!Show
<1>2. /\ readings # None /\ Len(readings) = 4
      /\ readings \in Seq(Monitor!States \cup {None})
      /\ UNCHANGED <<voice_backend, voice_up, loop_state, last_status, readings, kept_up,
                     kept_failing>>
  BY DEF Monitor!Show, Monitor!Sources, Monitor!voice, Monitor!history, MonitorInv,
         MonitorTyped
<1>3. PICK i \in 1 .. 4 : best = readings[i]
  BY <1>1, <1>2 DEF Monitor!ToSet
<1>4. best \in Monitor!States \cup {None}
  BY <1>2, <1>3
<1>5. MonitorTyped' /\ HistoryIsTrue' /\ ReadingsFit'
  BY <1>2 DEF MonitorInv, MonitorTyped, HistoryIsTrue, ReadingsFit
<1>6. ASSUME kept_up, voice_backend # "none" PROVE verdict' = "wired"
  <2>1. readings[1] = "wired"
    BY <1>2, <1>6 DEF MonitorInv, ReadingsFit
  <2>2. "wired" \in Monitor!ToSet(readings)
    BY <1>2, <2>1 DEF Monitor!ToSet
  <2>3. Monitor!Rank("wired") <= Monitor!Rank(best)
    BY <1>1, <2>2
  <2>4. best = "wired"
    BY <1>4, <2>3 DEF Monitor!Rank, Monitor!States
  <2> QED
    BY <1>1, <2>4 DEF Monitor!States
<1>7. ASSUME kept_failing, ~Monitor!BodyIsWired PROVE verdict' # "wired"
  <2>1. readings[i] # "wired"
    BY <1>2, <1>3, <1>7 DEF MonitorInv, ReadingsFit, Monitor!BodyIsWired
  <2> QED
    BY <1>1, <1>3, <2>1
<1>8. Monitor!ShownAsItIs'
  BY <1>2, <1>6, <1>7 DEF Monitor!ShownAsItIs, Monitor!BodyIsWired
<1> QED
  BY <1>5, <1>8 DEF MonitorInv

\* The voice goes on, under a request or without one.
LEMMA VoiceKeepsMonitorInv ==
    ASSUME MonitorInv, None \notin Monitor!States,
           Monitor!NativeGoes \/ Monitor!LoopGoes \/ Monitor!SessionGoes
    PROVE  MonitorInv'
<1>1. PICK up, st, word :
         /\ Monitor!Becomes(up, st, word)
         /\ voice_backend # "none" /\ (up => word # "disabled")
         /\ voice_backend = "native" /\ word = "error" => st = "error"
         /\ up \in BOOLEAN
  <2>1. CASE Monitor!NativeGoes
    BY <2>1 DEF Monitor!NativeGoes
  <2>2. CASE Monitor!LoopGoes
    BY <2>2 DEF Monitor!LoopGoes
  <2>3. CASE Monitor!SessionGoes
    BY <2>3 DEF Monitor!SessionGoes, MonitorInv, HistoryIsTrue
  <2> QED
    BY <2>1, <2>2, <2>3
<1>2. /\ verdict = None /\ UNCHANGED <<voice_backend, readings, verdict>>
      /\ voice_up' = up /\ loop_state' = st /\ last_status' = word
      /\ kept_up' = (kept_up /\ up /\ word # "error")
      /\ kept_failing' = (kept_failing /\ word = "error")
  BY <1>1 DEF Monitor!Becomes
<1>3. MonitorTyped' /\ HistoryIsTrue'
  BY <1>1, <1>2 DEF MonitorInv, MonitorTyped, HistoryIsTrue
<1>4. (kept_up' => kept_up) /\ (kept_failing' => kept_failing)
  BY <1>2
<1>5. ReadingsFit' /\ Monitor!ShownAsItIs'
  BY <1>2, <1>4 DEF MonitorInv, ReadingsFit, Monitor!ShownAsItIs
<1> QED
  BY <1>3, <1>5 DEF MonitorInv

\* Every step keeps the invariant.
LEMMA NextKeepsMonitorInv == MonitorInv /\ [Monitor!Next]_(Monitor!vars) => MonitorInv'
<1> SUFFICES ASSUME MonitorInv, [Monitor!Next]_(Monitor!vars) PROVE MonitorInv'
  OBVIOUS
<1> None \notin Monitor!States
  BY VoiceAssumption DEF Monitor!MonitorAssumption
<1>1. CASE Monitor!NativeGoes \/ Monitor!LoopGoes \/ Monitor!SessionGoes
  BY <1>1, VoiceKeepsMonitorInv
<1>2. CASE Monitor!Ask
  <2>1. /\ readings' = <<>> /\ verdict' = None
        /\ UNCHANGED <<voice_backend, voice_up, loop_state, last_status>>
        /\ kept_up' = (voice_up /\ last_status # "error")
        /\ kept_failing' = (last_status = "error")
    BY <1>2 DEF Monitor!Ask, Monitor!voice
  <2>2. readings' \in Seq(Monitor!States \cup {None}) /\ Len(readings') = 0
    BY <2>1, EmptySeq
  <2>3. MonitorTyped'
    BY <2>1, <2>2 DEF MonitorInv, MonitorTyped
  <2>4. HistoryIsTrue'
    BY <2>1, Zenon DEF MonitorInv, HistoryIsTrue
  <2>5. ReadingsFit' /\ Monitor!ShownAsItIs'
    BY <2>1, <2>2 DEF ReadingsFit, Monitor!ShownAsItIs
  <2> QED
    BY <2>3, <2>4, <2>5 DEF MonitorInv
<1>3. CASE Monitor!Read
  BY <1>3, ReadKeepsMonitorInv
<1>4. CASE Monitor!Show
  BY <1>4, ShowKeepsMonitorInv
<1>5. CASE Monitor!Leave
  BY <1>5 DEF Monitor!Leave, Monitor!voice, Monitor!history, MonitorInv, MonitorTyped,
              HistoryIsTrue, ReadingsFit, Monitor!ShownAsItIs
<1>6. CASE UNCHANGED Monitor!vars
  BY <1>6 DEF Monitor!vars, Monitor!voice, Monitor!history, MonitorInv, MonitorTyped,
              HistoryIsTrue, ReadingsFit, Monitor!ShownAsItIs, Monitor!BodyIsWired
<1> QED
  BY <1>1, <1>2, <1>3, <1>4, <1>5, <1>6 DEF Monitor!Next

\* A voice that runs through a request is shown as wired, one in error through it is not,
\* whatever the body says and the voice does between the readings (voice.py,
\* build_voice_diagnostics_from_app and _voice_payload_rank).
THEOREM SpecShownAsItIs == VoiceSpec => []ShownAsItIs
<1>1. VoiceInit => MonitorInv
  <2> SUFFICES ASSUME VoiceInit PROVE MonitorInv
    OBVIOUS
  <2>1. Monitor!Init
    BY DEF VoiceInit
  <2> QED
    BY <2>1 DEF Monitor!Init, MonitorInv, MonitorTyped, HistoryIsTrue, ReadingsFit,
                Monitor!ShownAsItIs
<1>2. MonitorInv => ShownAsItIs
  BY DEF MonitorInv, ShownAsItIs
<1> QED
  BY <1>1, <1>2, StepOfMonitor, NextKeepsMonitorInv, PTL DEF VoiceSpec

-----------------------------------------------------------------------------
(* The gateway (VoiceGateway). *)

\* The word says whether the device plays, as far as the device was honest, and whether
\* a barge-in was told since it started.
WordIsTrue ==
    /\ barges \in {0, 1}
    /\ gateway_state = "playing" => barges = 0 /\ (~balked => speaker_runs)
    /\ gateway_state = "disconnected" => ~gateway_link

QueuesTyped == speaker \in Seq(Nat) /\ tts_queue \in Seq(Nat) /\ tts_chunk_index \in Nat

GatewayInv ==
    /\ WordIsTrue /\ QueuesTyped
    /\ Gateway!BargeInIsTold /\ Gateway!GatewayKeepsTrack

\* What holds a chunk holds it after another was put behind it, and that one too.
LEMMA AppendKeepsChunks ==
    ASSUME NEW q \in Seq(Nat), NEW n \in Nat
    PROVE  /\ Append(q, n) \in Seq(Nat)
           /\ Gateway!ToSet(Append(q, n)) = Gateway!ToSet(q) \cup {n}
<1> DEFINE longer == Append(q, n)
<1>1. /\ longer \in Seq(Nat) /\ Len(longer) = Len(q) + 1 /\ Len(q) \in Nat
      /\ \A i \in 1 .. Len(q) : longer[i] = q[i]
      /\ longer[Len(q) + 1] = n
  BY AppendProperties
<1>2. DOMAIN longer = 1 .. (Len(q) + 1) /\ DOMAIN q = 1 .. Len(q)
  BY <1>1
<1> HIDE DEF longer
<1>3. ASSUME NEW x \in Gateway!ToSet(longer) PROVE x \in Gateway!ToSet(q) \cup {n}
  <2>1. PICK i \in 1 .. (Len(q) + 1) : x = longer[i]
    BY <1>2, <1>3 DEF Gateway!ToSet
  <2>2. CASE i = Len(q) + 1
    BY <1>1, <2>1, <2>2
  <2>3. CASE i # Len(q) + 1
    <3>1. i \in 1 .. Len(q)
      BY <1>1, <2>3
    <3> QED
      BY <1>1, <1>2, <2>1, <3>1 DEF Gateway!ToSet
  <2> QED
    BY <2>2, <2>3
<1>4. ASSUME NEW x \in Gateway!ToSet(q) \cup {n} PROVE x \in Gateway!ToSet(longer)
  <2>1. CASE x = n
    <3>1. Len(q) + 1 \in DOMAIN longer
      BY <1>1, <1>2
    <3> QED
      BY <1>1, <2>1, <3>1 DEF Gateway!ToSet
  <2>2. CASE x # n
    <3>1. PICK i \in DOMAIN q : x = q[i]
      BY <1>4, <2>2 DEF Gateway!ToSet
    <3>2. i \in DOMAIN longer /\ longer[i] = x
      BY <1>1, <1>2, <3>1
    <3> QED
      BY <3>2 DEF Gateway!ToSet
  <2> QED
    BY <2>1, <2>2
<1>5. Gateway!ToSet(longer) = Gateway!ToSet(q) \cup {n}
  BY <1>3, <1>4
<1> QED
  BY <1>1, <1>5 DEF longer

\* The first one taken away leaves no new one.
LEMMA TailKeepsChunks ==
    ASSUME NEW q \in Seq(Nat), q # <<>>
    PROVE  Tail(q) \in Seq(Nat) /\ Gateway!ToSet(Tail(q)) \subseteq Gateway!ToSet(q)
<1>1. /\ Tail(q) \in Seq(Nat) /\ Len(Tail(q)) = Len(q) - 1 /\ Len(q) \in Nat
      /\ \A i \in 1 .. Len(Tail(q)) : Tail(q)[i] = q[i + 1]
  BY HeadTailProperties
<1>2. ASSUME NEW i \in DOMAIN Tail(q) PROVE Tail(q)[i] \in Gateway!ToSet(q)
  <2>1. i \in 1 .. Len(Tail(q)) /\ i + 1 \in DOMAIN q
    BY <1>1
  <2> QED
    BY <1>1, <2>1 DEF Gateway!ToSet
<1>3. Gateway!ToSet(Tail(q)) \subseteq Gateway!ToSet(q)
  BY <1>2 DEF Gateway!ToSet
<1> QED
  BY <1>1, <1>3

LEMMA NothingHasNoChunks == <<>> \in Seq(Nat) /\ Gateway!ToSet(<<>>) = {}
  BY EmptySeq DEF Gateway!ToSet

\* The calls that say a word and leave the player alone.
LEMMA WordsKeepGatewayInv ==
    ASSUME GatewayInv, None # "barge_in.detected",
           UNCHANGED <<speaker, speaker_runs, tts_queue, tts_chunk_index>>,
           \/ Gateway!CaptureAudioFrame \/ Gateway!AcceptAsr
           \/ Gateway!MarkDisconnected \/ Gateway!MarkConnected
    PROVE  GatewayInv'
<1> USE DEF GatewayInv, WordIsTrue, QueuesTyped, Gateway!BargeInIsTold,
            Gateway!GatewayKeepsTrack
<1>1. CASE Gateway!CaptureAudioFrame
  BY <1>1 DEF Gateway!CaptureAudioFrame, Gateway!Tells, Gateway!since_start
<1>2. CASE Gateway!AcceptAsr
  BY <1>2 DEF Gateway!AcceptAsr, Gateway!Tells
<1>3. CASE Gateway!MarkDisconnected
  BY <1>3 DEF Gateway!MarkDisconnected
<1>4. CASE Gateway!MarkConnected
  BY <1>4 DEF Gateway!MarkConnected, Gateway!since_start
<1> QED
  BY <1>1, <1>2, <1>3, <1>4

\* Starting and stopping the device, which may do it and yet raise.
LEMMA StartStopKeepsGatewayInv ==
    ASSUME GatewayInv, None # "barge_in.detected",
           Gateway!StartPlayback \/ Gateway!StopPlayback
    PROVE  GatewayInv'
<1> USE DEF GatewayInv, WordIsTrue, QueuesTyped, Gateway!BargeInIsTold,
            Gateway!GatewayKeepsTrack
<1>1. CASE Gateway!StartPlayback
  <2>1. UNCHANGED <<gateway_link, tts_queue, tts_chunk_index, speaker>>
    BY <1>1 DEF Gateway!StartPlayback, Gateway!queues
  <2>2. CASE /\ speaker_runs' = TRUE
             /\ gateway_state' = "playing" /\ gateway_told' = "playback.started"
             /\ barges' = 0 /\ overwritten' = FALSE /\ balked' = FALSE
    BY <2>1, <2>2
  <2>3. ASSUME NEW begun \in BOOLEAN,
               /\ speaker_runs' = (speaker_runs \/ begun)
               /\ balked' = (balked \/ begun) /\ gateway_told' = None
               /\ UNCHANGED <<gateway_state, barges, overwritten>>
        PROVE  GatewayInv'
    <3>1. WordIsTrue' /\ Gateway!BargeInIsTold'
      BY <2>1, <2>3, Zenon
    <3> QED
      BY <2>1, <2>3, <3>1
  <2> QED
    BY <1>1, <2>2, <2>3, Zenon DEF Gateway!StartPlayback
<1>2. CASE Gateway!StopPlayback
  <2>1. PICK stopped_, raised \in BOOLEAN :
           /\ stopped_ \/ raised
           /\ speaker_runs' = (speaker_runs /\ ~stopped_)
           /\ speaker' = IF stopped_ THEN <<>> ELSE speaker
           /\ tts_queue' = Gateway!QueueAfterStop(~raised)
           /\ IF raised
              THEN /\ gateway_told' = None /\ balked' = (balked \/ stopped_)
                   /\ UNCHANGED <<gateway_state, barges, overwritten>>
              ELSE Gateway!Tells("stopped", "playback.stopped")
    BY <1>2 DEF Gateway!StopPlayback
  <2>2. UNCHANGED <<gateway_link, tts_chunk_index>>
    BY <1>2 DEF Gateway!StopPlayback
  <2>3. QueuesTyped'
    BY <2>1, <2>2, NothingHasNoChunks DEF Gateway!QueueAfterStop
  <2>4. Gateway!ToSet(speaker') \subseteq Gateway!ToSet(tts_queue')
    BY <2>1, NothingHasNoChunks DEF Gateway!QueueAfterStop
  <2>5. WordIsTrue' /\ Gateway!BargeInIsTold'
    BY <2>1, <2>2, Zenon DEF Gateway!Tells
  <2>6. gateway_state' = "disconnected" => ~gateway_link'
    BY <2>5
  <2> QED
    BY <2>3, <2>4, <2>5, <2>6
<1> QED
  BY <1>1, <1>2

\* Every step keeps the invariant.
LEMMA NextKeepsGatewayInv ==
    GatewayInv /\ [Gateway!Next]_(Gateway!vars) => GatewayInv'
<1> SUFFICES ASSUME GatewayInv, [Gateway!Next]_(Gateway!vars) PROVE GatewayInv'
  OBVIOUS
<1> None # "barge_in.detected"
  BY VoiceAssumption DEF Gateway!GatewayAssumption, Gateway!Events
<1> USE DEF GatewayInv, WordIsTrue, QueuesTyped, Gateway!BargeInIsTold,
            Gateway!GatewayKeepsTrack
<1>1. CASE UNCHANGED <<gateway_state, gateway_link, tts_queue, tts_chunk_index, speaker,
                       speaker_runs, barges, overwritten, balked>>
           /\ gateway_told' \in {gateway_told, None, "session.heartbeat"}
  BY <1>1
<1>2. CASE \/ Gateway!Hear \/ Gateway!FlushCapture \/ Gateway!Heartbeat
           \/ \E count \in 1..2 : Gateway!AckCaptureFrame(count)
  BY <1>1, <1>2 DEF Gateway!Hear, Gateway!FlushCapture, Gateway!Heartbeat,
              Gateway!AckCaptureFrame, Gateway!queues, Gateway!player, Gateway!since_start
<1>3. CASE \/ Gateway!CaptureAudioFrame \/ Gateway!AcceptAsr
           \/ Gateway!MarkDisconnected \/ Gateway!MarkConnected
  <2>1. UNCHANGED <<speaker, speaker_runs, tts_queue, tts_chunk_index>>
    BY <1>3 DEF Gateway!CaptureAudioFrame, Gateway!AcceptAsr, Gateway!MarkDisconnected,
                Gateway!MarkConnected, Gateway!queues, Gateway!player
  <2> QED
    BY <1>3, <2>1, WordsKeepGatewayInv
<1>4. CASE Gateway!StartPlayback \/ Gateway!StopPlayback
  BY <1>4, StartStopKeepsGatewayInv
<1>5. CASE Gateway!Play
  <2>1. speaker' \in Seq(Nat) /\ Gateway!ToSet(speaker') \subseteq Gateway!ToSet(speaker)
    BY <1>5, TailKeepsChunks DEF Gateway!Play
  <2> QED
    BY <1>5, <2>1 DEF Gateway!Play, Gateway!queues, Gateway!since_start
<1>6. CASE Gateway!EnqueueTtsChunk
  <2>1. /\ tts_queue' = Append(tts_queue, tts_chunk_index)
        /\ speaker' \in {speaker, Append(speaker, tts_chunk_index)}
        /\ tts_chunk_index' = tts_chunk_index + 1
    BY <1>6 DEF Gateway!EnqueueTtsChunk
  <2>2. /\ tts_queue' \in Seq(Nat)
        /\ Gateway!ToSet(tts_queue') = Gateway!ToSet(tts_queue) \cup {tts_chunk_index}
    BY <2>1, AppendKeepsChunks
  <2>3. /\ speaker' \in Seq(Nat)
        /\ Gateway!ToSet(speaker') \subseteq Gateway!ToSet(speaker) \cup {tts_chunk_index}
    <3>1. CASE speaker' = speaker
      BY <3>1
    <3>2. CASE speaker' = Append(speaker, tts_chunk_index)
      BY <3>2, AppendKeepsChunks
    <3> QED
      BY <2>1, <3>1, <3>2
  <2>4. /\ UNCHANGED <<gateway_state, gateway_link, speaker_runs, barges, overwritten, balked>>
        /\ gateway_told' # "barge_in.detected"
    BY <1>6 DEF Gateway!EnqueueTtsChunk, Gateway!since_start
  <2> QED
    BY <2>1, <2>2, <2>3, <2>4
<1>7. CASE Gateway!ProbeBargeIn
  BY <1>7 DEF Gateway!ProbeBargeIn, Gateway!AfterBargeIn, Gateway!queues,
              Gateway!player, Gateway!since_start
<1>8. CASE UNCHANGED Gateway!vars
  BY <1>1, <1>8 DEF Gateway!vars, Gateway!queues, Gateway!player, Gateway!since_start
<1> QED
  BY <1>2, <1>3, <1>4, <1>5, <1>6, <1>7, <1>8 DEF Gateway!Next

\* A barge-in is told once for a start of playback, and the gateway has in its queue what
\* the device holds, whichever call of the device fails (gateway.py, probe_barge_in,
\* start_playback and stop_playback).
THEOREM SpecGatewayTellsTheDevice == VoiceSpec => []GatewayTellsTheDevice
<1>1. VoiceInit => GatewayInv
  BY VoiceAssumption, NothingHasNoChunks
  DEF Gateway!GatewayAssumption, Gateway!Events, VoiceInit, Gateway!Init, GatewayInv,
      WordIsTrue, QueuesTyped, Gateway!BargeInIsTold, Gateway!GatewayKeepsTrack
<1>2. GatewayInv => GatewayTellsTheDevice
  BY DEF GatewayInv, GatewayTellsTheDevice
<1> QED
  BY <1>1, <1>2, StepOfGateway, NextKeepsGatewayInv, PTL DEF VoiceSpec
-----------------------------------------------------------------------------
(* The queue of several users (BoundedAudioQueue).  What is proved of the  *)
(* queue on its own is proved of the instance of its proofs; the instance  *)
(* that MCVoice takes steps with is the same queue.                        *)

QueueProofs == INSTANCE BoundedAudioQueueProofs

LEMMA StepOfQueue == [VoiceNext]_voice_vars => [Queue!Next]_(Queue!vars)
  BY DEF VoiceNext, voice_vars, shared_queue, Queue!vars, Queue!counters

LEMMA SameQueue == [Queue!Next]_(Queue!vars) => [QueueProofs!Next]_(QueueProofs!vars)
<1>1. /\ Queue!vars = QueueProofs!vars /\ Queue!counters = QueueProofs!counters
      /\ Queue!Threads = QueueProofs!Threads /\ Queue!NoCall = QueueProofs!NoCall
  BY DEF Queue!vars, QueueProofs!vars, Queue!counters, QueueProofs!counters,
         Queue!Threads, QueueProofs!Threads, Queue!NoCall, QueueProofs!NoCall
<1>2. /\ \A w : Queue!Notify(w) = QueueProofs!Notify(w)
      /\ \A w, t : Queue!Leave(w, t) = QueueProofs!Leave(w, t)
      /\ \A op, timed : Queue!Blocked(op, timed) = QueueProofs!Blocked(op, timed)
      /\ \A t : Queue!Waiting(t) <=> QueueProofs!Waiting(t)
  BY DEF Queue!Notify, QueueProofs!Notify, Queue!Leave, QueueProofs!Leave,
         Queue!RemoveAt, QueueProofs!RemoveAt, Queue!Blocked, QueueProofs!Blocked,
         Queue!Waiting, QueueProofs!Waiting
<1>3. \A t, held, w : Queue!Accept(t, held, w) => QueueProofs!Accept(t, held, w)
  BY <1>1, <1>2 DEF Queue!Accept, QueueProofs!Accept
<1>4. \A t, w : Queue!Take(t, w) => QueueProofs!Take(t, w)
  BY <1>1, <1>2 DEF Queue!Take, QueueProofs!Take
<1>5. \A t, op, timed : Queue!Wait(t, op, timed) => QueueProofs!Wait(t, op, timed)
  BY <1>1, <1>2 DEF Queue!Wait, QueueProofs!Wait, Queue!counters, QueueProofs!counters
<1>6. \A t : Queue!GiveUp(t) => QueueProofs!GiveUp(t)
  BY <1>1, <1>2 DEF Queue!GiveUp, QueueProofs!GiveUp, Queue!counters,
                    QueueProofs!counters
<1>7. \A t : Queue!Expire(t) => QueueProofs!Expire(t)
  BY Zenon DEF Queue!Expire, QueueProofs!Expire, Queue!counters, QueueProofs!counters
<1>8. \A t : Queue!Offers(t) => QueueProofs!Offers(t)
  BY <1>1 DEF Queue!Offers, QueueProofs!Offers, Queue!Idle, QueueProofs!Idle
<1>9. Queue!Full <=> QueueProofs!Full
  BY DEF Queue!Full, QueueProofs!Full
<1>10. \A t, op : Queue!Resumes(t, op) => QueueProofs!Resumes(t, op)
  BY <1>2 DEF Queue!Resumes, QueueProofs!Resumes
<1>11. ASSUME NEW t, Queue!Push(t) PROVE QueueProofs!Push(t)
  BY <1>2, <1>3, <1>5, <1>6, <1>8, <1>9, <1>10, <1>11
  DEF Queue!Push, Queue!PushWithSpace, Queue!PushDroppingOldest,
      Queue!PushDroppingNewest, Queue!PushBlocking, Queue!ResumePush,
      QueueProofs!Push, QueueProofs!PushWithSpace, QueueProofs!PushDroppingOldest,
      QueueProofs!PushDroppingNewest, QueueProofs!PushBlocking, QueueProofs!ResumePush
<1>12. ASSUME NEW t, Queue!Pop(t) PROVE QueueProofs!Pop(t)
  BY <1>1, <1>2, <1>4, <1>5, <1>6, <1>10, <1>12
  DEF Queue!Pop, Queue!PopWithItem, Queue!PopBlocking, Queue!ResumePop, Queue!Idle,
      QueueProofs!Pop, QueueProofs!PopWithItem, QueueProofs!PopBlocking,
      QueueProofs!ResumePop, QueueProofs!Idle
<1> QED
  BY <1>1, <1>7, <1>11, <1>12 DEF Queue!Next, QueueProofs!Next, Queue!vars,
     QueueProofs!vars, Queue!counters, QueueProofs!counters

LEMMA SameAssumption == QueueProofs!BoundedAudioQueueAssumption
  BY VoiceAssumption DEF Queue!BoundedAudioQueueAssumption,
                         QueueProofs!BoundedAudioQueueAssumption

LEMMA SameQueueInit == Queue!Init => QueueProofs!Init
  BY DEF Queue!Init, QueueProofs!Init, Queue!Policies, QueueProofs!Policies,
         Queue!NoCall, QueueProofs!NoCall, Queue!Threads, QueueProofs!Threads

\* So is what it implements.
LEMMA SameAbstractQueue ==
    [QueueProofs!Abstract!Next]_(QueueProofs!Abstract!vars)
        => [Queue!Abstract!Next]_(Queue!Abstract!vars)
  BY Zenon DEF QueueProofs!Abstract!Next, QueueProofs!Abstract!vars,
     QueueProofs!Abstract!Accept, QueueProofs!Abstract!AcceptEvicting,
     QueueProofs!Abstract!Reject, QueueProofs!Abstract!Deliver,
     Queue!Abstract!Next, Queue!Abstract!vars, Queue!Abstract!Accept,
     Queue!Abstract!AcceptEvicting, Queue!Abstract!Reject, Queue!Abstract!Deliver

\* In every behaviour of the voice its frames are accounted for and in order.
LEMMA QueueAlways == VoiceSpec => []QueueProofs!FramesInv
<1>1. VoiceInit => QueueProofs!FramesInv
  BY SameAssumption, SameQueueInit, QueueProofs!FramesInit DEF VoiceInit
<1>2. QueueProofs!FramesInv /\ [VoiceNext]_voice_vars => QueueProofs!FramesInv'
  BY SameAssumption, StepOfQueue, SameQueue, QueueProofs!FramesStep
<1> QED
  BY <1>1, <1>2, PTL DEF VoiceSpec

\* Any number of producers and consumers on any number of slots, under every policy: the
\* queue is the FIFO that AudioQueue promises, and waiting, waking and timing out change
\* nothing that a caller sees (core.py, BoundedAudioQueue).
THEOREM SpecSharedQueueIsAFifo == VoiceSpec => SharedQueueIsAFifo
<1>1. VoiceInit => (focus = "queue" => Queue!Abstract!Init)
  BY DEF VoiceInit, Queue!Init, Queue!Policies, Queue!Abstract!Init
<1>2. /\ QueueProofs!FramesInv
      /\ [VoiceNext]_voice_vars
      => [focus = "queue" => [Queue!Abstract!Next]_(Queue!Abstract!vars)]_voice_vars
  BY SameAssumption, StepOfQueue, SameQueue, QueueProofs!AbstractStep,
     SameAbstractQueue
<1> QED
  BY <1>1, <1>2, QueueAlways, PTL DEF VoiceSpec, SharedQueueIsAFifo

-----------------------------------------------------------------------------
(* The types of the components. *)

\* What the heartbeat takes of two times is one of them.
LEMMA OfTwo ==
    ASSUME NEW a \in Nat, NEW b \in Nat
    PROVE  /\ Transport!Max({a, b}) \in {a, b}
           /\ Transport!Max({a, b}) >= a /\ Transport!Max({a, b}) >= b
           /\ Transport!Min({a, b}) \in {a, b}
           /\ Transport!Min({a, b}) <= a /\ Transport!Min({a, b}) <= b
<1>1. /\ \E x \in {a, b} : \A y \in {a, b} : x >= y
      /\ \E x \in {a, b} : \A y \in {a, b} : x <= y
  <2>1. CASE a <= b
    BY <2>1
  <2>2. CASE b <= a
    BY <2>2
  <2> QED
    BY <2>1, <2>2
<1> QED
  BY <1>1 DEF Transport!Max, Transport!Min

\* A queue of events.
Outbox(q) ==
    /\ q \in Seq(Transport!Events)
    /\ Len(q) <= outbound_capacity /\ Transport!Range(q) \subseteq Transport!Events

TransportTyped == Transport!TypeOK /\ Outbox(outbound)

\* An event that is sent makes room for itself.
LEMMA SentStaysOutbox ==
    ASSUME Transport!TransportAssumption, Outbox(outbound),
           NEW event \in Transport!Events, Transport!Sent(event)
    PROVE  Outbox(outbound')
<1> DEFINE held == IF Len(outbound) = outbound_capacity THEN Tail(outbound) ELSE outbound
<1>1. held \in Seq(Transport!Events) /\ Len(held) < outbound_capacity
  <2>1. outbound \in Seq(Transport!Events) /\ Len(outbound) \in Nat
        /\ outbound_capacity \in Nat \ {0} /\ Len(outbound) <= outbound_capacity
    BY LenProperties DEF Outbox, Transport!TransportAssumption
  <2>2. CASE Len(outbound) = outbound_capacity
    <3>1. outbound # <<>>
      BY <2>1, <2>2, EmptySeq
    <3> QED
      BY <2>1, <2>2, <3>1, HeadTailProperties
  <2> QED
    BY <2>1, <2>2
<1>2. outbound' = Append(held, event)
  BY DEF Transport!Sent
<1> HIDE DEF held
<1>3. outbound' \in Seq(Transport!Events) /\ Len(outbound') = Len(held) + 1
  BY <1>1, <1>2, AppendProperties
<1>4. Len(held) \in Nat /\ outbound_capacity \in Nat
  BY <1>1, LenProperties DEF Transport!TransportAssumption
<1>5. Transport!Range(outbound') \subseteq Transport!Events
  BY <1>3, ElementOfSeq DEF Transport!Range
<1> QED
  BY <1>1, <1>3, <1>4, <1>5 DEF Outbox

\* Nor does one that is taken out.
LEMMA TailStaysOutbox ==
    ASSUME Outbox(outbound), outbound # <<>>, outbound_capacity \in Nat
    PROVE  Outbox(Tail(outbound)) /\ Head(outbound) \in Transport!Events
<1>1. /\ Tail(outbound) \in Seq(Transport!Events) /\ Head(outbound) \in Transport!Events
      /\ Len(Tail(outbound)) = Len(outbound) - 1 /\ Len(outbound) \in Nat
      /\ Len(outbound) <= outbound_capacity
  BY HeadTailProperties, LenProperties DEF Outbox
<1>2. Transport!Range(Tail(outbound)) \subseteq Transport!Events
  BY <1>1, ElementOfSeq DEF Transport!Range
<1> QED
  BY <1>1, <1>2 DEF Outbox

\* Every step keeps the queue to the server, and the types.
LEMMA NextKeepsOutbox ==
    ASSUME Transport!TransportAssumption, Outbox(outbound), [Transport!Next]_(Transport!vars)
    PROVE  Outbox(outbound')
<1>1. CASE Transport!SendEvent \/ Transport!SendPing
  BY <1>1, SentStaysOutbox DEF Transport!SendEvent, Transport!SendPing, Transport!Events
<1>2. CASE Transport!PopOutbound
  BY <1>2, TailStaysOutbox DEF Transport!PopOutbound, Transport!TransportAssumption
<1>3. CASE UNCHANGED outbound
  BY <1>3
<1>4. CASE \/ Transport!MarkConnected \/ Transport!BeginReconnect
           \/ Transport!ScheduleReconnect \/ Transport!Close \/ Transport!PushInbound
           \/ Transport!Receive \/ Transport!RecordPong \/ Transport!NotePing
           \/ Transport!CheckHeartbeat \/ Transport!GiveUp \/ Transport!Tick
           \/ UNCHANGED Transport!vars
  BY <1>3, <1>4
  DEF Transport!MarkConnected, Transport!BeginReconnect, Transport!ScheduleReconnect,
      Transport!Close, Transport!PushInbound, Transport!Receive, Transport!RecordPong,
      Transport!NotePing, Transport!CheckHeartbeat, Transport!GiveUp, Transport!Tick,
      Transport!vars, Transport!queues
<1> QED
  BY <1>1, <1>2, <1>4 DEF Transport!Next

LEMMA NextKeepsTransportTyped ==
    TransportTyped /\ [Transport!Next]_(Transport!vars) => TransportTyped'
<1> SUFFICES ASSUME TransportTyped, [Transport!Next]_(Transport!vars)
             PROVE  TransportTyped'
  OBVIOUS
<1>1. /\ heartbeat_interval_s \in Nat /\ pong_timeout_s \in Nat
      /\ outbound_capacity \in Nat \ {0} /\ inbound_capacity \in Nat \ {0}
      /\ reconnect_base_delay_s \in Nat \ {0} /\ reconnect_max_delay_s \in Nat
      /\ reconnect_max_delay_s >= reconnect_base_delay_s /\ None \notin Nat
      /\ Transport!TransportAssumption
  BY VoiceAssumption DEF Transport!TransportAssumption
<1>2. Transport!LongestAgo \in Nat
  BY <1>1, OfTwo DEF Transport!LongestAgo
<1>3. Outbox(outbound')
  BY <1>1, NextKeepsOutbox DEF TransportTyped
<1> DEFINE reconnect_ok ==
             /\ backoff \in 0 .. reconnect_max_delay_s \cup {None}
             /\ retry_in \in 0 .. reconnect_max_delay_s \cup {None}
             /\ backoff = None <=> retry_in = None
           clock_ok ==
             /\ idle_for \in 0 .. heartbeat_interval_s
             /\ pinged_ago \in 0 .. Transport!LongestAgo \cup {None}
             /\ awaiting_pong \in BOOLEAN /\ (awaiting_pong => pinged_ago # None)
           rest_ok ==
             /\ connection_state \in Transport!States
             /\ inbound \in 0 .. inbound_capacity
             /\ keeper \in {"idle", "pinged", "failing"}
             /\ line \in 0 .. 1
           history_ok == {answered, wronged, line_meddled} \subseteq BOOLEAN
<1>4. reconnect_ok /\ clock_ok /\ rest_ok /\ history_ok
  BY DEF TransportTyped, Transport!TypeOK
<1> USE DEF Transport!vars, Transport!clock, Transport!reconnect, Transport!queues,
            Transport!history, Transport!Active
<1>5. reconnect_ok'
  <2>1. CASE Transport!MarkConnected
    BY <1>1, <2>1 DEF Transport!MarkConnected
  <2>2. CASE Transport!ScheduleReconnect \/ Transport!GiveUp
    <3>1. Transport!NextBackoff \in 0 .. reconnect_max_delay_s
      <4>1. CASE backoff = None
        BY <1>1, <4>1 DEF Transport!NextBackoff
      <4>2. CASE backoff # None
        BY <1>1, <1>4, <4>2, OfTwo DEF Transport!NextBackoff
      <4> QED
        BY <4>1, <4>2
    <3> QED
      BY <1>1, <2>2, <3>1 DEF Transport!ScheduleReconnect, Transport!GiveUp,
                              Transport!Reschedule
  <2>3. CASE Transport!Tick
    BY <1>1, <1>4, <2>3 DEF Transport!Tick
  <2>4. CASE UNCHANGED <<backoff, retry_in>>
    BY <1>4, <2>4
  <2> QED
    BY <2>1, <2>2, <2>3, <2>4
    DEF Transport!Next, Transport!BeginReconnect, Transport!Close, Transport!SendEvent,
        Transport!PopOutbound, Transport!PushInbound, Transport!Receive,
        Transport!RecordPong, Transport!SendPing, Transport!NotePing,
        Transport!CheckHeartbeat
<1>6. clock_ok'
  <2>1. CASE Transport!Tick
    BY <1>1, <1>2, <1>4, <2>1, OfTwo DEF Transport!Tick
  <2>2. CASE Transport!NotePing
    BY <1>1, <1>2, <2>2 DEF Transport!NotePing
  <2>3. CASE idle_for' = 0 /\ pinged_ago' = pinged_ago
             /\ (awaiting_pong' = FALSE \/ awaiting_pong' = awaiting_pong)
    <3>1. awaiting_pong' \in BOOLEAN /\ (awaiting_pong' => awaiting_pong)
      <4>1. CASE awaiting_pong' = FALSE
        BY <4>1
      <4>2. CASE awaiting_pong' = awaiting_pong
        BY <1>4, <4>2
      <4> QED
        BY <2>3, <4>1, <4>2
    <3>2. idle_for' \in 0 .. heartbeat_interval_s /\ pinged_ago' = pinged_ago
      BY <1>1, <2>3
    <3> QED
      BY <1>4, <3>1, <3>2
  <2>4. CASE UNCHANGED <<idle_for, pinged_ago, awaiting_pong>>
    BY <1>4, <2>4
  <2> QED
    BY <2>1, <2>2, <2>3, <2>4
    DEF Transport!Next, Transport!MarkConnected, Transport!BeginReconnect,
        Transport!ScheduleReconnect, Transport!Close, Transport!SendEvent,
        Transport!PopOutbound, Transport!PushInbound, Transport!Receive,
        Transport!RecordPong, Transport!SendPing, Transport!CheckHeartbeat,
        Transport!GiveUp, Transport!Reschedule
<1>7. rest_ok'
  <2>1. ASSUME NEW n \in {1, inbound}, inbound > 0 PROVE inbound - n \in 0 .. inbound_capacity
    BY <1>1, <1>4, <2>1
  <2> QED
    BY <1>1, <1>4, <2>1
    DEF Transport!Next, Transport!MarkConnected, Transport!BeginReconnect,
        Transport!ScheduleReconnect, Transport!Close, Transport!SendEvent,
        Transport!PopOutbound, Transport!PushInbound, Transport!Receive,
        Transport!RecordPong, Transport!SendPing, Transport!CheckHeartbeat,
        Transport!GiveUp, Transport!Reschedule, Transport!Tick, Transport!NotePing,
        Transport!States
<1>8. history_ok'
  BY <1>4, Zenon
  DEF Transport!Next, Transport!MarkConnected, Transport!BeginReconnect,
      Transport!ScheduleReconnect, Transport!Close, Transport!SendEvent,
      Transport!PopOutbound, Transport!PushInbound, Transport!Receive,
      Transport!RecordPong, Transport!SendPing, Transport!CheckHeartbeat,
      Transport!GiveUp, Transport!Reschedule, Transport!Tick, Transport!NotePing,
      Transport!Meddling
<1> QED
  BY <1>3, <1>5, <1>6, <1>7, <1>8 DEF TransportTyped, Transport!TypeOK, Outbox

LEMMA InitTransportTyped == Transport!Init => TransportTyped
<1> SUFFICES ASSUME Transport!Init PROVE TransportTyped
  OBVIOUS
<1>1. /\ heartbeat_interval_s \in Nat /\ pong_timeout_s \in Nat
      /\ outbound_capacity \in Nat \ {0} /\ inbound_capacity \in Nat \ {0}
  BY VoiceAssumption DEF Transport!TransportAssumption
<1>2. Outbox(outbound)
  BY <1>1, EmptySeq DEF Transport!Init, Outbox, Transport!Range
<1>3. {answered, wronged, line_meddled} \subseteq BOOLEAN /\ awaiting_pong \in BOOLEAN
  BY Zenon DEF Transport!Init
<1> QED
  BY <1>1, <1>2, <1>3 DEF Transport!Init, TransportTyped, Transport!TypeOK, Outbox,
                          Transport!States

\* The types of the recogniser beside its accounts.
RecogniserTyped ==
    /\ asr_pc \in {"idle", "flush", "take", "taken", "sending", "draining"}
    /\ canceller \in {"idle", "clearing"}
    /\ Len(pending) <= max_inflight_frames /\ received <= MaxFrames
    /\ events \in Nat /\ results \in Nat /\ events <= results /\ results <= MaxResults
    /\ state \in {"idle", "streaming", "finalized", "error", "cancelled", "closed"}
    /\ started \in BOOLEAN /\ asr_closed \in BOOLEAN
    /\ stopped \in BOOLEAN /\ in_hand \in BOOLEAN
    /\ socket \in {"none", "open", "broken", "shut"}

LEMMA NextKeepsRecogniserTyped ==
    FramesInv /\ RecogniserTyped /\ [Asr!Next]_(Asr!vars) => RecogniserTyped'
<1> SUFFICES ASSUME FramesInv, RecogniserTyped, [Asr!Next]_(Asr!vars)
             PROVE  RecogniserTyped'
  OBVIOUS
<1>1. max_inflight_frames \in Nat \ {0} /\ MaxFrames \in Nat /\ MaxResults \in Nat
  BY VoiceAssumption DEF Asr!AsrAssumption
<1>2. pending \in Seq(Nat) /\ Len(pending) \in Nat /\ received \in Nat
  BY LenProperties DEF FramesInv, FramesTyped
<1> USE DEF RecogniserTyped
<1>3. CASE Asr!AcceptFrame
  <2>1. Len(pending') <= max_inflight_frames
    <3>1. CASE Len(pending) >= max_inflight_frames
      <4>1. pending # <<>>
        BY <1>1, <3>1, EmptySeq
      <4>2. Tail(pending) \in Seq(Nat) /\ Len(Tail(pending)) = Len(pending) - 1
        BY <1>2, <4>1, HeadTailProperties
      <4>3. pending' = Append(Tail(pending), received + 1)
        BY <1>3, <3>1 DEF Asr!AcceptFrame, Asr!Enqueue
      <4>4. Len(Append(Tail(pending), received + 1)) = Len(Tail(pending)) + 1
        BY <1>2, <4>2, AppendProperties
      <4> QED
        BY <1>1, <1>2, <4>2, <4>3, <4>4
    <3>2. CASE ~(Len(pending) >= max_inflight_frames)
      <4>1. Len(Append(pending, received + 1)) = Len(pending) + 1
        BY <1>2, AppendProperties
      <4> QED
        BY <1>1, <1>2, <1>3, <3>2, <4>1 DEF Asr!AcceptFrame, Asr!Enqueue
    <3> QED
      BY <3>1, <3>2
  <2> QED
    BY <1>1, <1>2, <1>3, <2>1 DEF Asr!AcceptFrame, Asr!transport
<1>4. CASE Asr!Take
  <2>1. Len(pending') <= max_inflight_frames
    BY <1>1, <1>2, <1>4, HeadTailProperties DEF Asr!Take
  <2> QED
    BY <1>1, <1>4, <2>1 DEF Asr!Take, Asr!transport
<1>5. CASE Asr!CancelClears
  <2>1. Len(pending') <= max_inflight_frames
    BY <1>1, <1>5, EmptySeq DEF Asr!CancelClears
  <2> QED
    BY <1>5, <2>1 DEF Asr!CancelClears, Asr!transport
<1>6. CASE Asr!Flush \/ Asr!Offer
  BY <1>6 DEF Asr!Flush, Asr!Offer, Asr!session, Asr!transport
<1>7. CASE Asr!SendSucceeds \/ Asr!SendFails \/ Asr!ReceiveEnds
  <2>1. started' \in BOOLEAN
    BY <1>7, Zenon DEF Asr!SendSucceeds, Asr!SendFails, Asr!ReceiveEnds
  <2> QED
    BY <1>7, <2>1 DEF Asr!SendSucceeds, Asr!SendFails, Asr!ReceiveEnds, Asr!session
<1>8. CASE Asr!ReceiveMessage \/ Asr!DrainEvents
  BY <1>1, <1>8 DEF Asr!ReceiveMessage, Asr!DrainEvents, Asr!transport
<1>9. CASE Asr!CancelProvider \/ Asr!CloseSession
  <2>1. asr_closed' \in BOOLEAN /\ stopped' \in BOOLEAN /\ in_hand' \in BOOLEAN
    BY <1>9, Zenon DEF Asr!CancelProvider, Asr!CloseSession, Asr!Stop, Asr!CloseTransport
  <2> QED
    BY <1>9, <2>1 DEF Asr!CancelProvider, Asr!CloseSession, Asr!Stop, Asr!CloseTransport,
                      Asr!session
<1>10. CASE UNCHANGED Asr!vars
  BY <1>10 DEF Asr!vars, Asr!session, Asr!transport
<1> QED
  BY <1>3, <1>4, <1>5, <1>6, <1>7, <1>8, <1>9, <1>10 DEF Asr!Next

\* A sequence is one of whatever its elements are.
LEMMA ElementsAreOf ==
    ASSUME NEW S, NEW T, NEW s \in Seq(S), \A i \in 1 .. Len(s) : s[i] \in T
    PROVE  s \in Seq(T)
<1>1. Len(s) \in Nat /\ s \in [1 .. Len(s) -> S]
  BY LenProperties
<1>2. s \in [1 .. Len(s) -> T]
  BY <1>1
<1> QED
  BY <1>1, <1>2

LEMMA RecogniserTypes == FramesInv /\ RecogniserTyped => Asr!TypeOK
<1> SUFFICES ASSUME FramesInv, RecogniserTyped PROVE Asr!TypeOK
  OBVIOUS
<1>1. /\ pending \in Seq(Nat) /\ Len(pending) \in Nat /\ {received, processed, dropped, cleared} \subseteq Nat
      /\ received = processed + dropped + cleared + Len(pending)
      /\ Unbroken(pending, received)
  BY LenProperties DEF FramesInv, FramesTyped, Asr!FramesAccounted, Unbroken
<1>2. pending \in Seq(1 .. received)
  <2>1. \A i \in 1 .. Len(pending) : pending[i] \in 1 .. received
    BY <1>1 DEF Unbroken
  <2> QED
    BY <1>1, <2>1, ElementsAreOf, Zenon
<1>3. {processed, dropped, cleared} \subseteq 0 .. received
  BY <1>1
<1> QED
  BY <1>1, <1>2, <1>3, VoiceAssumption
  DEF RecogniserTyped, Asr!TypeOK, Asr!Working, Asr!AsrAssumption

LEMMA InitRecogniserTyped == Asr!Init => RecogniserTyped
<1> SUFFICES ASSUME Asr!Init PROVE RecogniserTyped
  OBVIOUS
<1>1. /\ started \in BOOLEAN /\ asr_closed \in BOOLEAN
      /\ stopped \in BOOLEAN /\ in_hand \in BOOLEAN
  BY Zenon DEF Asr!Init
<1> QED
  BY <1>1, EmptySeq, VoiceAssumption DEF Asr!Init, RecogniserTyped, Asr!AsrAssumption

\* What a stream has still to send and has sent too late.
ChunksTyped ==
    /\ left \in [Tts!Streams -> 0 .. MaxChunks]
    /\ late \in [Tts!Streams -> 0 .. MaxChunks]
    /\ served \subseteq Tts!Streams
    /\ closed \in BOOLEAN /\ meddled \in BOOLEAN

\* Whoever receives has a connection to receive from.
ReceivesFromOne ==
    \A s \in Tts!Streams :
        /\ pc[s] \in {"open", "receiving"} => ws \in Tts!Streams
        /\ pc[s] = "receiving" => source[s] \in Tts!Streams

LEMMA NextKeepsReceiving ==
    SpeechInv /\ ReceivesFromOne /\ [Tts!Next]_(Tts!vars) => ReceivesFromOne'
<1> SUFFICES ASSUME SpeechInv, ReceivesFromOne, [Tts!Next]_(Tts!vars)
             PROVE  ReceivesFromOne'
  OBVIOUS
<1>1. /\ pc \in [Tts!Streams -> Tts!Stages]
      /\ source \in [Tts!Streams -> Tts!Streams \cup {None}]
  BY DEF SpeechInv, SpeechTyped
<1> USE DEF ReceivesFromOne
<1>2. ASSUME NEW s \in Tts!Streams, NEW stage \in Tts!Stages \ {"open", "receiving"},
             Tts!Goto(s, stage), UNCHANGED ws, source' \in {source, [source EXCEPT ![s] = None]}
      PROVE  ReceivesFromOne'
  BY <1>1, <1>2 DEF Tts!Goto
<1>3. CASE UNCHANGED <<pc, ws, source>>
  BY <1>3
<1>4. ASSUME NEW s \in Tts!Streams, Tts!Connect(s) PROVE ReceivesFromOne'
  BY <1>1, <1>4 DEF Tts!Connect, Tts!Goto
<1>5. ASSUME NEW s \in Tts!Streams, Tts!PullChunk(s) PROVE ReceivesFromOne'
  BY <1>1, <1>5 DEF Tts!PullChunk, Tts!Goto, Tts!transport
<1>6. ASSUME NEW s \in Tts!Streams, Tts!ReceiveChunk(s) PROVE ReceivesFromOne'
  BY <1>1, <1>6 DEF Tts!ReceiveChunk, Tts!Goto, Tts!transport
<1>7. ASSUME NEW s \in Tts!Streams,
             \/ \E r \in Rounds : Tts!Synthesize(s, r)
             \/ Tts!SentenceStart(s) \/ Tts!PullStale(s) \/ Tts!ReceiveLast(s)
             \/ Tts!Complete(s)
      PROVE  ReceivesFromOne'
  BY <1>2, <1>7
  DEF Tts!Synthesize, Tts!SentenceStart, Tts!PullStale, Tts!ReceiveLast, Tts!Complete,
      Tts!MarkCancelled, Tts!Close, Tts!transport, Tts!network, Tts!Stages
<1>8. ASSUME NEW r \in Rounds, Tts!Cancel(r) PROVE ReceivesFromOne'
  BY <1>3, <1>8 DEF Tts!Cancel, Tts!MarkCancelled, Tts!Close, Tts!transport, Tts!network
<1>9. CASE UNCHANGED Tts!vars
  BY <1>3, <1>9 DEF Tts!vars
<1> QED
  BY <1>4, <1>5, <1>6, <1>7, <1>8, <1>9 DEF Tts!Next

\* Streams that were cancelled are counted, each once.
CountIsTrue ==
    cancelled_round_count = Cardinality({s \in Tts!Streams : cancelled[s]})

LEMMA NextKeepsChunks ==
    SpeechInv /\ ReceivesFromOne /\ ChunksTyped /\ [Tts!Next]_(Tts!vars) => ChunksTyped'
<1> SUFFICES ASSUME SpeechInv, ReceivesFromOne, ChunksTyped, [Tts!Next]_(Tts!vars)
             PROVE  ChunksTyped'
  OBVIOUS
<1>1. MaxChunks \in Nat
  BY VoiceAssumption DEF Tts!TtsAssumption
<1> USE DEF ChunksTyped
<1>2. closed' \in BOOLEAN /\ meddled' \in BOOLEAN
  BY Zenon
  DEF Tts!Next, Tts!Synthesize, Tts!Cancel, Tts!SentenceStart, Tts!PullStale,
      Tts!PullChunk, Tts!Connect, Tts!ReceiveChunk, Tts!ReceiveLast, Tts!Complete,
      Tts!MarkCancelled, Tts!Close, Tts!transport, Tts!vars
<1>3. CASE UNCHANGED <<left, late, served>>
  BY <1>2, <1>3
<1>4. ASSUME NEW s \in Tts!Streams, Tts!Connect(s) PROVE ChunksTyped'
  BY <1>2, <1>4 DEF Tts!Connect
<1>5. ASSUME NEW s \in Tts!Streams, Tts!ReceiveLast(s) PROVE ChunksTyped'
  BY <1>2, <1>5 DEF Tts!ReceiveLast
<1>6. ASSUME NEW s \in Tts!Streams, Tts!ReceiveChunk(s) PROVE ChunksTyped'
  <2> DEFINE c == source[s]
  <2>1. c \in Tts!Streams /\ left[c] \in 0 .. MaxChunks /\ left[c] > 0
    BY <1>6 DEF Tts!ReceiveChunk, ReceivesFromOne
  <2>2. left' \in [Tts!Streams -> 0 .. MaxChunks]
    BY <1>1, <1>6, <2>1 DEF Tts!ReceiveChunk
  <2>3. late' \in [Tts!Streams -> 0 .. MaxChunks]
    <3>1. cancelled[s] => late[s] = 0
      BY <1>6 DEF Tts!ReceiveChunk, SpeechInv, LateIsTheLast
    <3> QED
      BY <1>1, <1>6, <2>1, <3>1 DEF Tts!ReceiveChunk
  <2> QED
    BY <1>2, <1>6, <2>2, <2>3 DEF Tts!ReceiveChunk
<1> QED
  BY <1>3, <1>4, <1>5, <1>6
  DEF Tts!Next, Tts!Synthesize, Tts!Cancel, Tts!SentenceStart, Tts!PullStale,
      Tts!PullChunk, Tts!Complete, Tts!vars, Tts!network

\* Whoever is marked is counted.
LEMMA MarkCounts ==
    ASSUME SpeechTyped, CountIsTrue, NEW s \in Tts!Streams, Tts!MarkCancelled(s)
    PROVE  CountIsTrue'
<1> DEFINE marked == {t \in Tts!Streams : cancelled[t]}
<1>1. CASE cancelled[s]
  BY <1>1 DEF CountIsTrue, Tts!MarkCancelled
<1>2. CASE ~cancelled[s]
  <2>1. /\ cancelled' = [cancelled EXCEPT ![s] = TRUE]
        /\ cancelled_round_count' = cancelled_round_count + 1
    BY <1>2 DEF Tts!MarkCancelled
  <2>2. {t \in Tts!Streams : cancelled'[t]} = marked \cup {s}
    BY <2>1 DEF SpeechTyped
  <2>3. IsFiniteSet(marked) /\ s \notin marked
    <3>1. IsFiniteSet(Tts!Streams)
      BY VoiceAssumption, FS_Interval DEF Tts!Streams, Tts!TtsAssumption
    <3> QED
      BY <1>2, <3>1, FS_Subset
  <2> HIDE DEF marked
  <2>4. Cardinality(marked \cup {s}) = Cardinality(marked) + 1
    BY <2>3, FS_AddElement
  <2> QED
    BY <2>1, <2>2, <2>4 DEF CountIsTrue, marked
<1> QED
  BY <1>1, <1>2

LEMMA NextKeepsCount ==
    SpeechInv /\ CountIsTrue /\ [Tts!Next]_(Tts!vars) => CountIsTrue'
<1> SUFFICES ASSUME SpeechInv, CountIsTrue, [Tts!Next]_(Tts!vars) PROVE CountIsTrue'
  OBVIOUS
<1>1. CASE UNCHANGED <<cancelled, cancelled_round_count>>
  BY <1>1 DEF CountIsTrue
<1>2. ASSUME NEW s \in Tts!Streams, NEW r \in Rounds, Tts!Synthesize(s, r)
      PROVE  CountIsTrue'
  <2>1. CASE Tts!Superseded(r) = {}
    BY <1>1, <1>2, <2>1 DEF Tts!Synthesize
  <2>2. CASE Tts!Superseded(r) # {}
    <3>1. PICK t \in Tts!Superseded(r) : Tts!MarkCancelled(t)
      BY <1>2, <2>2 DEF Tts!Synthesize
    <3>2. t \in Tts!Streams
      BY <3>1 DEF SpeechInv, SpeechTyped, CallsKnown, Tts!Superseded
    <3> QED
      BY <3>1, <3>2, MarkCounts DEF SpeechInv
  <2> QED
    BY <2>1, <2>2
<1>3. ASSUME NEW r \in Rounds, Tts!Cancel(r) PROVE CountIsTrue'
  <2>1. rounds[r] \in Tts!Streams
    BY <1>3 DEF Tts!Cancel, SpeechInv, SpeechTyped
  <2> QED
    BY <1>3, <2>1, MarkCounts DEF Tts!Cancel, SpeechInv
<1>4. ASSUME NEW s \in Tts!Streams, Tts!PullStale(s) PROVE CountIsTrue'
  BY <1>4, MarkCounts DEF Tts!PullStale, SpeechInv
<1> QED
  BY <1>1, <1>2, <1>3, <1>4
  DEF Tts!Next, Tts!SentenceStart, Tts!PullChunk, Tts!Connect, Tts!ReceiveChunk,
      Tts!ReceiveLast, Tts!Complete, Tts!vars

LEMMA SpeechTypes == SpeechInv /\ ChunksTyped /\ CountIsTrue => Tts!TypeOK
<1> SUFFICES ASSUME SpeechInv, ChunksTyped, CountIsTrue PROVE Tts!TypeOK
  OBVIOUS
<1>1. cancelled_round_count \in 0 .. MaxCalls
  <2> DEFINE marked == {s \in Tts!Streams : cancelled[s]}
  <2>1. MaxCalls \in Nat /\ IsFiniteSet(Tts!Streams) /\ Cardinality(Tts!Streams) = MaxCalls
    <3>1. MaxCalls \in Nat
      BY VoiceAssumption DEF Tts!TtsAssumption
    <3> QED
      BY <3>1, FS_Interval DEF Tts!Streams
  <2>2. marked \subseteq Tts!Streams
    OBVIOUS
  <2> HIDE DEF marked
  <2>3. IsFiniteSet(marked) /\ Cardinality(marked) \in Nat /\ Cardinality(marked) <= MaxCalls
    BY <2>1, <2>2, FS_Subset, FS_CardinalityType
  <2> QED
    BY <2>1, <2>3 DEF CountIsTrue, marked
<1> QED
  BY <1>1 DEF SpeechInv, SpeechTyped, ChunksTyped, Tts!TypeOK

LEMMA InitSpeechTypes == Tts!Init => ReceivesFromOne /\ ChunksTyped /\ CountIsTrue
<1> SUFFICES ASSUME Tts!Init PROVE ReceivesFromOne /\ ChunksTyped /\ CountIsTrue
  OBVIOUS
<1>1. {s \in Tts!Streams : cancelled[s]} = {}
  BY DEF Tts!Init
<1>2. CountIsTrue
  BY <1>1, FS_EmptySet DEF Tts!Init, CountIsTrue
<1>3. closed \in BOOLEAN /\ meddled \in BOOLEAN
  BY Zenon DEF Tts!Init
<1> QED
  BY <1>2, <1>3, VoiceAssumption
  DEF Tts!Init, ChunksTyped, ReceivesFromOne, Tts!TtsAssumption

\* What was captured, and what was said about it.
CaptureTyped ==
    /\ \/ capture = None
       \/ capture \in [sequence : Numbers, age : 0 .. MaxDelay, explicit : BOOLEAN]
    /\ health = None \/ health.state \in Aec!States

LEMMA NextKeepsCapture == CaptureTyped /\ [Aec!Next]_(Aec!vars) => CaptureTyped'
<1> SUFFICES ASSUME CaptureTyped, [Aec!Next]_(Aec!vars) PROVE CaptureTyped'
  OBVIOUS
<1>1. CASE Aec!WritePlayback \/ Aec!Tick
  BY <1>1 DEF Aec!WritePlayback, Aec!Tick, CaptureTyped
<1>2. CASE Aec!ProcessCapture
  <2>1. PICK n \in Numbers, age \in 0 .. MaxDelay, explicit \in BOOLEAN,
             mode, loopback \in Aec!Switch :
          /\ capture' = [sequence |-> n, age |-> age, explicit |-> explicit]
          /\ \E match : health' = [state |-> Aec!Health(mode, loopback, match),
                                   match |-> match]
    BY <1>2 DEF Aec!ProcessCapture
  <2>2. PICK match : health' = [state |-> Aec!Health(mode, loopback, match), match |-> match]
    BY <2>1
  <2>3. Aec!Health(mode, loopback, match) \in Aec!States
    BY DEF Aec!Health, Aec!States
  <2> QED
    BY <2>1, <2>2, <2>3 DEF CaptureTyped
<1>3. CASE UNCHANGED Aec!vars
  BY <1>3 DEF Aec!vars, CaptureTyped
<1> QED
  BY <1>1, <1>2, <1>3 DEF Aec!Next

LEMMA CaptureTypes == AecInv /\ CaptureTyped => Aec!TypeOK
<1> SUFFICES ASSUME AecInv, CaptureTyped PROVE Aec!TypeOK
  OBVIOUS
<1>1. Aec!Range(frames) \subseteq Aec!Frames
  BY ElementOfSeq DEF AecInv, AecTyped, Aec!Range
<1> QED
  BY <1>1 DEF AecInv, AecTyped, CaptureTyped, Aec!TypeOK

\* Every step of the voice and of its reader keeps the types.
LEMMA NextKeepsGateTypes == Gate!TypeOK /\ [Gate!Next]_(Gate!vars) => Gate!TypeOK'
<1> SUFFICES ASSUME Gate!TypeOK, [Gate!Next]_(Gate!vars) PROVE Gate!TypeOK'
  OBVIOUS
<1> USE DEF Gate!vars, Gate!config, Gate!native, Gate!openclaw, Gate!reader,
            Gate!Looks, Gate!LoopGoes, Gate!TransportGoes, Gate!Look,
            Gate!Next, Gate!NativeStep, Gate!OpenClawStep,
            Gate!Start, Gate!Started, Gate!Stop, Gate!Stopped, Gate!Listens,
            Gate!NotUnderstood, Gate!Understood, Gate!WakeWord, Gate!EndPhrase,
            Gate!Answers, Gate!TurnDies, Gate!Connects, Gate!Fails, Gate!Message,
            Gate!SpeakerGoes, Gate!GateGoes, Gate!StartOpenClaw, Gate!StopOpenClaw,
            Gate!BeginRead, Gate!CopyState, Gate!ReadTransport, Gate!ReadPlayback,
            Gate!ReadStarted, Gate!Answer
<1>1. /\ backend' = backend /\ asks_wake_word' = asks_wake_word /\ has_voice' = has_voice
  OBVIOUS
<1>2. /\ phase' \in {"not_started", "disabled", "listening", "awaiting_wake",
                     "listening_voice", "asr_decoding", "thinking", "speaking", "error",
                     "stopped"}
      /\ turn' \in {"none", "idle", "voice", "asr", "understood", "local", "think", "speak",
                    "reset"}
      /\ owner' \in {"idle", "starting", "joining"}
  BY DEF Gate!TypeOK, Gate!IdlePhase, Gate!ResetPhase, Gate!AfterSpeech
<1>3. /\ session' \in {"idle", "ready", "listening", "speaking", "interrupted", "ended",
                       "error"}
      /\ look' \in Gate!Looks
  BY DEF Gate!TypeOK
<1>4. in_conversation' \in BOOLEAN /\ voice_running' \in BOOLEAN /\ told_to_stop' \in BOOLEAN
  BY Zenon DEF Gate!TypeOK
<1>5. connected' \in BOOLEAN /\ sounding' \in BOOLEAN /\ heard_lately' \in BOOLEAN
  BY Zenon DEF Gate!TypeOK
<1>6. awake' \in BOOLEAN /\ adrift' \in BOOLEAN /\ gate_open' \in BOOLEAN \cup {None}
  BY Zenon DEF Gate!TypeOK, Gate!Conversing, Gate!Allowed
<1> QED
  BY <1>1, <1>2, <1>3, <1>4, <1>5, <1>6 DEF Gate!TypeOK

LEMMA InitGateTypes == Gate!Init => Gate!TypeOK
<1> SUFFICES ASSUME Gate!Init PROVE Gate!TypeOK
  OBVIOUS
<1>1. /\ {asks_wake_word, has_voice} \subseteq BOOLEAN
      /\ {in_conversation, voice_running} \subseteq BOOLEAN /\ told_to_stop \in BOOLEAN
      /\ {connected, sounding, heard_lately} \subseteq BOOLEAN
      /\ {awake, adrift} \subseteq BOOLEAN
  BY Zenon DEF Gate!Init
<1> QED
  BY <1>1 DEF Gate!Init, Gate!TypeOK, Gate!Looks

\* What the monitor has and the words of the voice.
WordsTyped ==
    /\ voice_up \in BOOLEAN
    /\ loop_state \in {"created", "disabled", "running", "error", "stopped"}
    /\ last_status \in {"not_started", "disabled", "listening", "awaiting_wake", "stopped",
                        "error", "idle", "session_created", "ready", "speaking", "ended",
                        "interrupted"}
    /\ verdict \in Monitor!States \cup {None}
    /\ was_up \in BOOLEAN /\ kept_up \in BOOLEAN /\ kept_failing \in BOOLEAN

LEMMA NextKeepsWords ==
    MonitorInv /\ WordsTyped /\ [Monitor!Next]_(Monitor!vars) => WordsTyped'
<1> SUFFICES ASSUME MonitorInv, WordsTyped, [Monitor!Next]_(Monitor!vars)
             PROVE  WordsTyped'
  OBVIOUS
<1> USE DEF WordsTyped
<1>1. was_up' \in BOOLEAN /\ kept_up' \in BOOLEAN /\ kept_failing' \in BOOLEAN
      /\ voice_up' \in BOOLEAN
  BY Zenon
  DEF Monitor!Next, Monitor!NativeGoes, Monitor!LoopGoes, Monitor!SessionGoes,
      Monitor!Becomes, Monitor!Ask, Monitor!Read, Monitor!Show, Monitor!Leave,
      Monitor!vars, Monitor!voice, Monitor!history
<1>2. CASE Monitor!NativeGoes \/ Monitor!LoopGoes \/ Monitor!SessionGoes
  BY <1>1, <1>2 DEF Monitor!NativeGoes, Monitor!LoopGoes, Monitor!SessionGoes,
                    Monitor!Becomes
<1>3. CASE Monitor!Ask \/ Monitor!Read \/ Monitor!Leave
  BY <1>1, <1>3 DEF Monitor!Ask, Monitor!Read, Monitor!Leave, Monitor!voice
<1>4. CASE Monitor!Show
  <2>1. verdict' \in Monitor!States
    <3>1. \A best \in Monitor!ToSet(readings) : best \in Monitor!States \cup {None}
      BY <1>4, ElementOfSeq DEF Monitor!Show, Monitor!ToSet, MonitorInv, MonitorTyped
    <3> QED
      BY <1>4, <3>1 DEF Monitor!Show, Monitor!States
  <2> QED
    BY <1>1, <1>4, <2>1 DEF Monitor!Show, Monitor!voice
<1>5. CASE UNCHANGED Monitor!vars
  BY <1>5 DEF Monitor!vars, Monitor!voice, Monitor!history
<1> QED
  BY <1>2, <1>3, <1>4, <1>5 DEF Monitor!Next

\* A short sequence is one of the bounded sequences.
LEMMA ShortIsBounded ==
    ASSUME NEW S, NEW n \in Nat, NEW q \in Seq(S), Len(q) <= n
    PROVE  /\ q \in Monitor!BoundedSeq(S, n)
           /\ q \in Gateway!BoundedSeq(S, n)
<1>1. q \in [1 .. Len(q) -> S] /\ Len(q) \in 0 .. n
  BY LenProperties
<1> QED
  BY <1>1 DEF Monitor!BoundedSeq, Monitor!SeqOf, Gateway!BoundedSeq, Gateway!SeqOf

LEMMA MonitorTypes == MonitorInv /\ WordsTyped => Monitor!TypeOK
<1> SUFFICES ASSUME MonitorInv, WordsTyped PROVE Monitor!TypeOK
  OBVIOUS
<1>1. Len(Monitor!Sources) = 4
  BY DEF Monitor!Sources
<1>2. readings # None =>
          readings \in Monitor!BoundedSeq(Monitor!States \cup {None}, Len(Monitor!Sources))
  BY <1>1, ShortIsBounded DEF MonitorInv, MonitorTyped
<1> QED
  BY <1>2 DEF MonitorInv, MonitorTyped, WordsTyped, Monitor!TypeOK

LEMMA InitWordsTyped == Monitor!Init => WordsTyped
<1> SUFFICES ASSUME Monitor!Init PROVE WordsTyped
  OBVIOUS
<1>1. /\ was_up \in BOOLEAN /\ kept_up \in BOOLEAN /\ kept_failing \in BOOLEAN
      /\ voice_up \in BOOLEAN
  BY Zenon DEF Monitor!Init
<1> QED
  BY <1>1 DEF Monitor!Init, WordsTyped

\* The chunks that wait for the device or are with it were numbered before, each once.
ChunksAreNumbered ==
    /\ tts_chunk_index \in 0 .. MaxChunkIndex
    /\ speaker \in Seq(0 .. tts_chunk_index - 1) /\ Len(speaker) <= tts_chunk_index
    /\ tts_queue \in Seq(0 .. tts_chunk_index - 1) /\ Len(tts_queue) <= tts_chunk_index

\* The rest of the gateway.
DevicesTyped ==
    /\ gateway_state \in Gateway!Words /\ gateway_link \in BOOLEAN
    /\ mic_pending \in 0 .. MaxPending /\ mic_in_flight \in 0 .. MaxPending
    /\ near_speech \in BOOLEAN /\ speaker_runs \in BOOLEAN
    /\ overwritten \in BOOLEAN /\ balked \in BOOLEAN
    /\ gateway_told \in Gateway!Events \cup {None} /\ barges \in Nat

\* One more chunk is numbered.
LEMMA OneMoreChunk ==
    ASSUME NEW n \in Nat, NEW q \in Seq(0 .. n - 1), Len(q) <= n
    PROVE  /\ Append(q, n) \in Seq(0 .. n) /\ Len(Append(q, n)) <= n + 1
           /\ q \in Seq(0 .. n) /\ Len(q) <= n + 1
<1>1. q \in Seq(0 .. n) /\ Len(q) \in Nat
  BY SeqMonotonic, LenProperties
<1> QED
  BY <1>1, AppendProperties

\* One chunk less leaves chunks that were numbered.
LEMMA OneChunkLess ==
    ASSUME NEW n \in Nat, NEW q \in Seq(0 .. n - 1), Len(q) <= n
    PROVE  /\ q # <<>> => Tail(q) \in Seq(0 .. n - 1) /\ Len(Tail(q)) <= n
           /\ <<>> \in Seq(0 .. n - 1) /\ Len(<<>>) <= n
<1>1. q # <<>> => Tail(q) \in Seq(0 .. n - 1) /\ Len(Tail(q)) = Len(q) - 1
  BY HeadTailProperties
<1>2. <<>> \in Seq(0 .. n - 1) /\ Len(<<>>) = 0 /\ Len(q) \in Nat
  BY EmptySeq, LenProperties
<1> QED
  BY <1>1, <1>2

LEMMA NextKeepsNumbers ==
    ChunksAreNumbered /\ [Gateway!Next]_(Gateway!vars) => ChunksAreNumbered'
<1> SUFFICES ASSUME ChunksAreNumbered, [Gateway!Next]_(Gateway!vars)
             PROVE  ChunksAreNumbered'
  OBVIOUS
<1>1. /\ MaxChunkIndex \in Nat /\ tts_chunk_index \in Nat
      /\ speaker \in Seq(0 .. tts_chunk_index - 1) /\ Len(speaker) <= tts_chunk_index
      /\ tts_queue \in Seq(0 .. tts_chunk_index - 1) /\ Len(tts_queue) <= tts_chunk_index
  BY VoiceAssumption DEF Gateway!GatewayAssumption, ChunksAreNumbered
<1>2. CASE Gateway!EnqueueTtsChunk
  <2>1. /\ tts_chunk_index' = tts_chunk_index + 1 /\ tts_chunk_index' \in 0 .. MaxChunkIndex
        /\ tts_queue' = Append(tts_queue, tts_chunk_index)
        /\ speaker' \in {speaker, Append(speaker, tts_chunk_index)}
    BY <1>1, <1>2 DEF Gateway!EnqueueTtsChunk
  <2>2. tts_chunk_index' - 1 = tts_chunk_index
    BY <1>1, <2>1
  <2>3. tts_queue' \in Seq(0 .. tts_chunk_index) /\ Len(tts_queue') <= tts_chunk_index + 1
    BY <1>1, <2>1, OneMoreChunk
  <2>4. speaker' \in Seq(0 .. tts_chunk_index) /\ Len(speaker') <= tts_chunk_index + 1
    BY <1>1, <2>1, OneMoreChunk
  <2> QED
    BY <2>1, <2>2, <2>3, <2>4 DEF ChunksAreNumbered
<1>3. CASE Gateway!Play
  BY <1>1, <1>3, OneChunkLess DEF Gateway!Play, Gateway!queues, ChunksAreNumbered
<1>4. CASE Gateway!StopPlayback
  <2>1. /\ speaker' \in {speaker, <<>>} /\ tts_queue' \in {tts_queue, <<>>}
        /\ UNCHANGED tts_chunk_index
    BY <1>4, Zenon DEF Gateway!StopPlayback, Gateway!QueueAfterStop
  <2> QED
    BY <1>1, <2>1, OneChunkLess DEF ChunksAreNumbered
<1>5. CASE UNCHANGED <<speaker, tts_queue, tts_chunk_index>>
  BY <1>5 DEF ChunksAreNumbered
<1> QED
  BY <1>2, <1>3, <1>4, <1>5
  DEF Gateway!Next, Gateway!Hear, Gateway!CaptureAudioFrame, Gateway!FlushCapture,
      Gateway!AckCaptureFrame, Gateway!AcceptAsr, Gateway!StartPlayback,
      Gateway!ProbeBargeIn, Gateway!Heartbeat, Gateway!MarkDisconnected,
      Gateway!MarkConnected, Gateway!vars, Gateway!queues, Gateway!player

LEMMA NextKeepsDevices ==
    DevicesTyped /\ [Gateway!Next]_(Gateway!vars) => DevicesTyped'
<1> SUFFICES ASSUME DevicesTyped, [Gateway!Next]_(Gateway!vars) PROVE DevicesTyped'
  OBVIOUS
<1> USE DEF DevicesTyped, Gateway!Tells, Gateway!vars, Gateway!queues,
            Gateway!microphone, Gateway!player, Gateway!since_start
<1>1. /\ near_speech' \in BOOLEAN /\ speaker_runs' \in BOOLEAN /\ gateway_link' \in BOOLEAN
      /\ overwritten' \in BOOLEAN /\ balked' \in BOOLEAN
  BY Zenon
  DEF Gateway!Next, Gateway!Hear, Gateway!Play, Gateway!CaptureAudioFrame,
      Gateway!FlushCapture, Gateway!AckCaptureFrame, Gateway!AcceptAsr,
      Gateway!EnqueueTtsChunk, Gateway!StartPlayback, Gateway!StopPlayback,
      Gateway!ProbeBargeIn, Gateway!Heartbeat, Gateway!MarkDisconnected,
      Gateway!MarkConnected
<1>2. gateway_state' \in Gateway!Words
  BY DEF Gateway!Next, Gateway!Hear, Gateway!Play, Gateway!CaptureAudioFrame,
      Gateway!FlushCapture, Gateway!AckCaptureFrame, Gateway!AcceptAsr,
      Gateway!EnqueueTtsChunk, Gateway!StartPlayback, Gateway!StopPlayback,
      Gateway!ProbeBargeIn, Gateway!Heartbeat, Gateway!MarkDisconnected,
      Gateway!MarkConnected, Gateway!Words, Gateway!AfterBargeIn
<1>3. gateway_told' \in Gateway!Events \cup {None}
  BY DEF Gateway!Next, Gateway!Hear, Gateway!Play, Gateway!CaptureAudioFrame,
      Gateway!FlushCapture, Gateway!AckCaptureFrame, Gateway!AcceptAsr,
      Gateway!EnqueueTtsChunk, Gateway!StartPlayback, Gateway!StopPlayback,
      Gateway!ProbeBargeIn, Gateway!Heartbeat, Gateway!MarkDisconnected,
      Gateway!MarkConnected, Gateway!Events
<1>4. barges' \in Nat
  BY DEF Gateway!Next, Gateway!Hear, Gateway!Play, Gateway!CaptureAudioFrame,
      Gateway!FlushCapture, Gateway!AckCaptureFrame, Gateway!AcceptAsr,
      Gateway!EnqueueTtsChunk, Gateway!StartPlayback, Gateway!StopPlayback,
      Gateway!ProbeBargeIn, Gateway!Heartbeat, Gateway!MarkDisconnected,
      Gateway!MarkConnected
<1>5. mic_pending' \in 0 .. MaxPending /\ mic_in_flight' \in 0 .. MaxPending
  <2>1. MaxPending \in Nat
    BY VoiceAssumption DEF Gateway!GatewayAssumption
  <2>2. ASSUME NEW count \in 1 .. 2, Gateway!AckCaptureFrame(count)
        PROVE  mic_pending' \in 0 .. MaxPending /\ mic_in_flight' \in 0 .. MaxPending
    BY <2>1, <2>2 DEF Gateway!AckCaptureFrame
  <2>3. CASE Gateway!Hear \/ Gateway!CaptureAudioFrame \/ Gateway!FlushCapture
    BY <2>1, <2>3 DEF Gateway!Hear, Gateway!CaptureAudioFrame, Gateway!FlushCapture
  <2>4. CASE UNCHANGED <<mic_pending, mic_in_flight>>
    BY <2>4
  <2> QED
    BY <2>2, <2>3, <2>4
    DEF Gateway!Next, Gateway!Play, Gateway!AcceptAsr,
        Gateway!EnqueueTtsChunk, Gateway!StartPlayback, Gateway!StopPlayback,
        Gateway!ProbeBargeIn, Gateway!Heartbeat, Gateway!MarkDisconnected,
        Gateway!MarkConnected
<1> QED
  BY <1>1, <1>2, <1>3, <1>4, <1>5

LEMMA GatewayTypes == ChunksAreNumbered /\ DevicesTyped => Gateway!TypeOK
<1> SUFFICES ASSUME ChunksAreNumbered, DevicesTyped PROVE Gateway!TypeOK
  OBVIOUS
<1>1. MaxChunkIndex \in Nat /\ tts_chunk_index \in 0 .. MaxChunkIndex
  BY VoiceAssumption DEF Gateway!GatewayAssumption, ChunksAreNumbered
<1>2. ASSUME NEW q \in Seq(0 .. tts_chunk_index - 1), Len(q) <= tts_chunk_index
      PROVE  q \in Gateway!BoundedSeq(0 .. MaxChunkIndex - 1, MaxChunkIndex)
  <2>1. 0 .. tts_chunk_index - 1 \subseteq 0 .. MaxChunkIndex - 1
    BY <1>1
  <2>2. q \in Seq(0 .. MaxChunkIndex - 1) /\ Len(q) \in Nat
    BY <2>1, <1>2, SeqMonotonic, LenProperties
  <2>3. Len(q) <= MaxChunkIndex
    BY <1>1, <1>2, <2>2
  <2> QED
    BY <1>1, <2>2, <2>3, ShortIsBounded
<1> QED
  BY <1>1, <1>2 DEF ChunksAreNumbered, DevicesTyped, Gateway!TypeOK

LEMMA InitGatewayTypes == Gateway!Init => ChunksAreNumbered /\ DevicesTyped
<1> SUFFICES ASSUME Gateway!Init PROVE ChunksAreNumbered /\ DevicesTyped
  OBVIOUS
<1>1. MaxChunkIndex \in Nat /\ MaxPending \in Nat
  BY VoiceAssumption DEF Gateway!GatewayAssumption
<1>2. /\ near_speech \in BOOLEAN /\ speaker_runs \in BOOLEAN /\ gateway_link \in BOOLEAN
      /\ overwritten \in BOOLEAN /\ balked \in BOOLEAN
  BY Zenon DEF Gateway!Init
<1>3. ChunksAreNumbered
  BY <1>1, EmptySeq DEF Gateway!Init, ChunksAreNumbered
<1> QED
  BY <1>1, <1>2, <1>3 DEF Gateway!Init, DevicesTyped, Gateway!Words

\* The echo gate and the queue of several users have theirs from their own proofs.
LEMMA StepOfEcho == [VoiceNext]_voice_vars => [Next]_vars
  BY DEF VoiceNext, voice_vars

LEMMA QueueTypes == QueueProofs!FramesInv => Queue!TypeOK
  BY DEF QueueProofs!FramesInv, QueueProofs!TypeOK, Queue!TypeOK, QueueProofs!Policies,
         Queue!Policies, QueueProofs!Threads, Queue!Threads, QueueProofs!Calls, Queue!Calls

\* What types the components that send and hear speech, and those around them.
SpeechParts ==
    /\ SpeechInv /\ ReceivesFromOne /\ ChunksTyped /\ CountIsTrue
    /\ FramesInv /\ RecogniserTyped
    /\ AecInv /\ CaptureTyped
    /\ SinkInv

DeviceParts ==
    /\ GateInv /\ TransportTyped /\ Gate!TypeOK
    /\ MonitorInv /\ WordsTyped
    /\ ChunksAreNumbered /\ DevicesTyped

Focused ==
    focus \in {"echo", "tts", "asr", "transport", "aec", "queue", "sink", "gate",
               "monitor", "gateway"}

\* Every component of the voice keeps its state in its type, for every value of the
\* constants of all ten and in every behaviour of each.
THEOREM SpecVoiceTypeCorrect == VoiceSpec => []VoiceTypeOK
<1>1. VoiceInit => SpeechParts
  <2>1. VoiceInit => SpeechInv
    BY VoiceAssumption
    DEF Tts!TtsAssumption, VoiceInit, Tts!Init, Tts!Stages, SpeechInv, SpeechTyped,
        LateIsTheLast, CallsKnown, ConnectedOnce, OnlyTheActive, Live
  <2>2. VoiceInit => FramesInv
    BY EmptySeq DEF VoiceInit, Asr!Init, FramesInv, FramesTyped, Asr!FramesAccounted
  <2>3. VoiceInit => AecInv /\ CaptureTyped
    BY InitAecInv DEF VoiceInit, Aec!Init, CaptureTyped
  <2> QED
    BY <2>1, <2>2, <2>3, InitSpeechTypes, InitRecogniserTyped, InitSinkInv
    DEF VoiceInit, SpeechParts
<1>2. SpeechParts /\ [VoiceNext]_voice_vars => SpeechParts'
  BY StepOfTts, NextKeepsSpeechInv, NextKeepsReceiving, NextKeepsChunks, NextKeepsCount,
     StepOfAsr, NextKeepsFrames, NextKeepsRecogniserTyped,
     StepOfAec, NextKeepsAecInv, NextKeepsCapture, StepOfSink, NextKeepsSinkInv
  DEF SpeechParts
<1>3. VoiceInit => DeviceParts /\ Focused
  <2>1. VoiceInit => MonitorInv
    BY DEF VoiceInit, Monitor!Init, MonitorInv, MonitorTyped, HistoryIsTrue, ReadingsFit,
           Monitor!ShownAsItIs
  <2> QED
    BY <2>1, GateInit, InitTransportTyped, InitGateTypes, InitWordsTyped,
       InitGatewayTypes
    DEF VoiceInit, DeviceParts, Focused
<1>4. DeviceParts /\ [VoiceNext]_voice_vars => DeviceParts'
  BY StepOfEcho, GateStep, StepOfTransport, NextKeepsTransportTyped, StepOfGate,
     NextKeepsGateTypes, StepOfMonitor, NextKeepsMonitorInv, NextKeepsWords,
     StepOfGateway, NextKeepsNumbers, NextKeepsDevices
  DEF DeviceParts
<1>5. Focused /\ [VoiceNext]_voice_vars => Focused'
  BY DEF Focused, VoiceNext, voice_vars
<1>6. SpeechParts /\ DeviceParts /\ QueueProofs!FramesInv /\ Focused => VoiceTypeOK
  <2> SUFFICES ASSUME SpeechParts, DeviceParts, QueueProofs!FramesInv, Focused
               PROVE  VoiceTypeOK
    OBVIOUS
  <2>1. Tts!TypeOK /\ Asr!TypeOK /\ Aec!TypeOK /\ Sink!TypeOK
    BY SpeechTypes, RecogniserTypes, CaptureTypes DEF SpeechParts, SinkInv
  <2>2. /\ TypeOK /\ Transport!TypeOK /\ Gate!TypeOK
        /\ Monitor!TypeOK /\ Gateway!TypeOK /\ Queue!TypeOK
    BY MonitorTypes, GatewayTypes, QueueTypes DEF DeviceParts, GateInv, TransportTyped
  <2> QED
    BY <2>1, <2>2 DEF Focused, VoiceTypeOK
<1> QED
  BY <1>1, <1>2, <1>3, <1>4, <1>5, <1>6, QueueAlways, PTL DEF VoiceSpec
=============================================================================
