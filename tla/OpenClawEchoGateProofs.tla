----------------------- MODULE OpenClawEchoGateProofs -----------------------
(***************************************************************************)
(* What OpenClawEchoGate promises for every configuration, segment limit   *)
(* and number of frames: the safety properties that the runs check, and    *)
(* the inductive invariant that they rest on.                              *)
(***************************************************************************)
EXTENDS OpenClawEchoGate, SequenceTheorems, TLAPS

\* Every frame of `q` is later than frame `n`.
Later(q, n) == \A i \in DOMAIN q : q[i] > n

\* The frames of `q` are in the order they were captured.
Rising(q) == \A i, j \in DOMAIN q : i < j => q[i] < q[j]

\* What is held when: nothing is under way outside a segment, and no segment or
\* replay without a wake word.
Holding ==
    /\ ReplayHasTheGate /\ SegmentCounted
    /\ ~vad_active => silence_frames = 0 /\ segment_frames = 0
    /\ ~wake_word_required => segment = <<>> /\ replay = <<>>

\* What the gate still holds is in order and later than all it has sent on; and
\* not older than the wake word, once it is awake.
Order ==
    /\ Rising(segment) /\ Rising(replay)
    /\ ~(wake_word_required /\ barge_in_enabled) =>
           Later(segment, upstream) /\ Later(replay, upstream)
    /\ wake_word_required /\ conversation_active =>
           since # 0 /\ Later(segment, since - 1) /\ Later(replay, since - 1)

\* The inductive invariant.
GateInv == TypeOK /\ (capturing => captured < MaxCaptured) /\ Holding /\ Order

-----------------------------------------------------------------------------
(* Sequences of frames. *)

\* No frame at all.
LEMMA NoFrames ==
    ASSUME NEW n, NEW m
    PROVE  /\ <<>> \in Seq(1 .. n) /\ Rising(<<>>) /\ Later(<<>>, m)
           /\ Len(<<>>) = 0
BY DEF Rising, Later

\* Frames of a shorter recording are frames of the longer one.
LEMMA MoreCaptured ==
    ASSUME NEW n \in Nat, NEW q \in Seq(1 .. n)
    PROVE  q \in Seq(1 .. n + 1)
<1>1. q \in [1 .. Len(q) -> 1 .. n] /\ Len(q) \in Nat
    BY LenProperties
<1>2. q \in [1 .. Len(q) -> 1 .. n + 1]
    BY <1>1
<1> QED BY <1>1, <1>2

\* A segment grows by the frame just captured.
LEMMA Grows ==
    ASSUME NEW n \in Nat, NEW q \in Seq(1 .. n), Rising(q),
           NEW m \in Int, m <= n
    PROVE  /\ Append(q, n + 1) \in Seq(1 .. n + 1)
           /\ Append(q, n + 1) # <<>>
           /\ Len(Append(q, n + 1)) = Len(q) + 1
           /\ Rising(Append(q, n + 1))
           /\ Later(q, m) => Later(Append(q, n + 1), m)
<1> DEFINE p == Append(q, n + 1)
<1>0. Len(q) \in Nat
    BY LenProperties
<1>1. q \in Seq(1 .. n + 1) /\ Len(q) \in Nat /\ DOMAIN q = 1 .. Len(q)
    BY MoreCaptured, LenProperties
<1>2. /\ p \in Seq(1 .. n + 1) /\ Len(p) = Len(q) + 1
      /\ \A i \in 1 .. Len(q) : p[i] = q[i]
      /\ p[Len(q) + 1] = n + 1
    BY <1>1, AppendProperties
<1>3. DOMAIN p = 1 .. Len(q) + 1 /\ p # <<>>
    BY <1>1, <1>2, LenProperties
<1>4. \A i \in 1 .. Len(q) : q[i] \in 1 .. n
    BY <1>1, ElementOfSeq
<1> HIDE DEF p
<1>5. Rising(p)
    <2> SUFFICES ASSUME NEW i \in 1 .. Len(q) + 1, NEW j \in 1 .. Len(q) + 1, i < j
                 PROVE  p[i] < p[j]
        BY <1>3 DEF Rising
    <2>1. i \in 1 .. Len(q) /\ p[i] = q[i]
        BY <1>1, <1>2
    <2>2. CASE j = Len(q) + 1
        BY <2>1, <2>2, <1>2, <1>4
    <2>3. CASE j \in 1 .. Len(q)
        <3>1. q[i] < q[j] /\ p[j] = q[j]
            BY <2>1, <2>3, <1>1, <1>2 DEF Rising
        <3> QED BY <2>1, <3>1
    <2>4. j = Len(q) + 1 \/ j \in 1 .. Len(q)
        BY <1>0
    <2> QED BY <2>2, <2>3, <2>4
<1>6. ASSUME Later(q, m) PROVE Later(p, m)
    <2> SUFFICES ASSUME NEW i \in 1 .. Len(q) + 1 PROVE p[i] > m
        BY <1>3 DEF Later
    <2>1. CASE i = Len(q) + 1
        BY <2>1, <1>2
    <2>2. CASE i \in 1 .. Len(q)
        BY <2>2, <1>1, <1>2, <1>6 DEF Later
    <2>3. i = Len(q) + 1 \/ i \in 1 .. Len(q)
        BY <1>0
    <2> QED BY <2>1, <2>2, <2>3
<1> QED BY <1>2, <1>3, <1>5, <1>6 DEF p

\* The first frame is taken off: the rest is later than it.
LEMMA FirstTaken ==
    ASSUME NEW n \in Nat, NEW q \in Seq(1 .. n), q # <<>>, Rising(q)
    PROVE  /\ Head(q) \in 1 .. n
           /\ Tail(q) \in Seq(1 .. n)
           /\ Rising(Tail(q))
           /\ Later(Tail(q), Head(q)) /\ Later(Tail(q), Head(q) - 1)
           /\ \A m \in Int : Later(q, m) => Head(q) > m /\ Later(Tail(q), m)
<1>1. /\ Len(q) \in Nat \ {0} /\ DOMAIN q = 1 .. Len(q)
      /\ Head(q) = q[1] /\ Head(q) \in 1 .. n
    BY LenProperties, HeadTailProperties, EmptySeq, ElementOfSeq
<1>2. /\ Tail(q) \in Seq(1 .. n) /\ Len(Tail(q)) = Len(q) - 1
      /\ \A i \in 1 .. Len(Tail(q)) : Tail(q)[i] = q[i + 1]
    BY HeadTailProperties
<1>3. DOMAIN Tail(q) = 1 .. Len(q) - 1
    BY <1>2, LenProperties
<1>4. \A i \in 1 .. Len(q) : q[i] \in 1 .. n
    BY ElementOfSeq
<1>5. Rising(Tail(q))
    <2> SUFFICES ASSUME NEW i \in 1 .. Len(q) - 1, NEW j \in 1 .. Len(q) - 1, i < j
                 PROVE  Tail(q)[i] < Tail(q)[j]
        BY <1>3 DEF Rising
    <2>1. i + 1 \in DOMAIN q /\ j + 1 \in DOMAIN q /\ i + 1 < j + 1
        BY <1>1
    <2>2. Tail(q)[i] = q[i + 1] /\ Tail(q)[j] = q[j + 1]
        BY <1>1, <1>2
    <2> QED BY <2>1, <2>2 DEF Rising
<1>6. \A i \in 1 .. Len(q) - 1 : Tail(q)[i] > Head(q) /\ Tail(q)[i] > Head(q) - 1
    <2> TAKE i \in 1 .. Len(q) - 1
    <2>1. i + 1 \in 1 .. Len(q) /\ 1 \in 1 .. Len(q) /\ 1 < i + 1
        BY <1>1
    <2>2. q[1] < q[i + 1] /\ q[i + 1] \in 1 .. n
        BY <2>1, <1>1, <1>4 DEF Rising
    <2> QED BY <2>2, <1>1, <1>2
<1>7. ASSUME NEW m \in Int, Later(q, m) PROVE Head(q) > m /\ Later(Tail(q), m)
    BY <1>1, <1>2, <1>3, <1>7 DEF Later
<1> QED BY <1>1, <1>2, <1>3, <1>5, <1>6, <1>7 DEF Later

\* A text stands for a whole segment, up to its last frame.
LEMMA LastSent ==
    ASSUME NEW n \in Nat, NEW q \in Seq(1 .. n), q # <<>>
    PROVE  /\ q[Len(q)] \in 1 .. n
           /\ \A m \in Int : Later(q, m) => q[Len(q)] > m
<1>1. Len(q) \in Nat \ {0} /\ DOMAIN q = 1 .. Len(q)
    BY LenProperties, EmptySeq
<1> QED BY <1>1, ElementOfSeq DEF Later

-----------------------------------------------------------------------------
(* Every step keeps the invariant. *)

\* The facts about numbers and sequences that every step needs.
LEMMA GateFacts ==
    ASSUME GateInv
    PROVE  /\ captured \in Nat /\ upstream \in Nat /\ since \in Nat
           /\ upstream <= captured /\ since <= captured
           /\ segment \in Seq(1 .. captured) /\ replay \in Seq(1 .. captured)
           /\ segment \in Seq(1 .. captured + 1) /\ replay \in Seq(1 .. captured + 1)
           /\ Len(segment) \in Nat /\ (segment # <<>> => Len(segment) # 0)
BY MoreCaptured, EmptySeq, EchoGateAssumption DEF GateInv, TypeOK

\* The frame that makes or ends a segment, and what becomes of the segment.
Segmenting ==
    \/ \E speech \in BOOLEAN : GateCollects(speech)
    \/ Replay \/ SegmentDropped \/ ActiveUtterance \/ EndPhrase
    \/ \E remainder \in BOOLEAN : WakeWord(remainder)

\* Every other step: no frame enters or leaves the segment or the replay, but
\* they may be dropped.
Plain ==
    \/ BeginCapture \/ SuspendCapture \/ OutputChanges \/ SessionEnds
    \/ Mute \/ BargeIn \/ GateUnavailable \/ GateIgnores
    \/ \E loud \in BOOLEAN : SuppressEcho(loud)
    \/ \E speech \in BOOLEAN : VadPass(speech) \/ VadDrop(speech)

\* The steps of Plain, expanded as far as every proof about them needs.
LEMMA PlainCases ==
    ASSUME GateInv, Plain
    PROVE  /\ enabled' = enabled
           /\ \/ segment' = segment /\ replay' = replay
              \/ segment' = <<>> /\ replay' = <<>>
           /\ \/ upstream' = upstream /\ captured' \in {captured, captured + 1}
              \/ /\ upstream' = captured + 1 /\ captured' = captured + 1
                 /\ barge_in_enabled \/ ~wake_word_required
           /\ \/ since' = since /\ conversation_active' = conversation_active
              \/ since' = 0 /\ conversation_active' = ~wake_word_required
                 /\ segment' = <<>> /\ replay' = <<>>
BY DEF Plain, BeginCapture, SuspendCapture, OutputChanges, SessionEnds, Mute, BargeIn,
    GateUnavailable, GateIgnores, SuppressEcho, VadPass, VadDrop, Armed, AtGate, Listening,
    Captured, Forget, SendOn

\* The flags of the state, and its counters, as TypeOK has them.
Flags == {conversation_active, vad_active, suspended, capturing, output} \subseteq BOOLEAN

Counters ==
    /\ silence_frames \in 0 .. HangoverFrames
    /\ segment_frames \in 0 .. MaxSegment
    /\ speech_frames \in 0 .. ConsecutiveFrames - 1
    /\ captured \in 0 .. MaxCaptured
    /\ capturing => captured < MaxCaptured

\* The flags stay flags.
LEMMA FlagsStep ==
    ASSUME GateInv, Next
    PROVE  Flags'
<1> USE DEF Flags, GateInv, TypeOK, vad, ResetVad, Forget, Captured, Listening, AtGate, Armed
<1>1. CASE BeginCapture
    BY <1>1 DEF BeginCapture
<1>2. CASE SuspendCapture
    BY <1>2 DEF SuspendCapture
<1>3. CASE OutputChanges
    BY <1>3 DEF OutputChanges
<1>4. CASE SessionEnds
    BY <1>4 DEF SessionEnds
<1>5. CASE Mute
    BY <1>5 DEF Mute
<1>6. CASE BargeIn
    BY <1>6 DEF BargeIn
<1>7. CASE Replay
    BY <1>7 DEF Replay
<1>8. CASE GateUnavailable
    BY <1>8 DEF GateUnavailable
<1>9. CASE GateIgnores
    BY <1>9 DEF GateIgnores
<1>10. CASE SegmentDropped
    BY <1>10 DEF SegmentDropped, Finalize
<1>11. CASE ActiveUtterance
    BY <1>11 DEF ActiveUtterance, Finalize
<1>12. CASE EndPhrase
    BY <1>12 DEF EndPhrase, Finalize
<1>13. CASE \E remainder \in BOOLEAN : WakeWord(remainder)
    BY <1>13 DEF WakeWord, Finalize
<1>14. CASE \E speech \in BOOLEAN : VadPass(speech)
    BY <1>14 DEF VadPass, VadPasses
<1>15. CASE \E speech \in BOOLEAN : VadDrop(speech)
    BY <1>15 DEF VadDrop
<1>16. CASE \E speech \in BOOLEAN : GateCollects(speech)
    BY <1>16 DEF GateCollects, VadPasses
<1>17. CASE \E loud \in BOOLEAN : SuppressEcho(loud)
    BY <1>17 DEF SuppressEcho
<1> QED BY <1>1, <1>2, <1>3, <1>4, <1>5, <1>6, <1>7, <1>8, <1>9, <1>10, <1>11, <1>12, <1>13, <1>14, <1>15, <1>16, <1>17 DEF Next, ProcessCapture

\* Every counter stays within its limit: a segment that is full is ended, and a
\* silence that is too long, before either is counted on.
LEMMA CountersStep ==
    ASSUME GateInv, Next
    PROVE  Counters'
<1> USE EchoGateAssumption DEF Counters, GateInv, TypeOK, vad, ResetVad, Forget, Captured,
        Listening, AtGate, Armed
<1>1. CASE BeginCapture
    BY <1>1 DEF BeginCapture
<1>2. CASE SuspendCapture
    BY <1>2 DEF SuspendCapture
<1>3. CASE OutputChanges
    BY <1>3 DEF OutputChanges
<1>4. CASE SessionEnds
    BY <1>4 DEF SessionEnds
<1>5. CASE Mute
    BY <1>5 DEF Mute
<1>6. CASE BargeIn
    BY <1>6 DEF BargeIn
<1>7. CASE Replay
    BY <1>7 DEF Replay
<1>8. CASE GateUnavailable
    BY <1>8 DEF GateUnavailable
<1>9. CASE GateIgnores
    BY <1>9 DEF GateIgnores
<1>10. CASE SegmentDropped
    BY <1>10 DEF SegmentDropped, Finalize
<1>11. CASE ActiveUtterance
    BY <1>11 DEF ActiveUtterance, Finalize
<1>12. CASE EndPhrase
    BY <1>12 DEF EndPhrase, Finalize
<1>13. CASE \E remainder \in BOOLEAN : WakeWord(remainder)
    BY <1>13 DEF WakeWord, Finalize
<1>14. CASE \E speech \in BOOLEAN : VadPass(speech)
    <2> PICK speech \in BOOLEAN : VadPass(speech)
        BY <1>14
    <2>1. segment_frames' \in 0 .. MaxSegment
        BY DEF VadPass, SegmentFull, VadPasses, Holding
    <2>2. silence_frames' \in 0 .. HangoverFrames
        BY DEF VadPass, VadPasses
    <2> QED BY <2>1, <2>2 DEF VadPass
<1>15. CASE \E speech \in BOOLEAN : VadDrop(speech)
    BY <1>15 DEF VadDrop
<1>16. CASE \E speech \in BOOLEAN : GateCollects(speech)
    <2> PICK speech \in BOOLEAN : GateCollects(speech)
        BY <1>16
    <2>1. segment_frames' \in 0 .. MaxSegment
        BY DEF GateCollects, SegmentFull, VadPasses, Holding
    <2>2. silence_frames' \in 0 .. HangoverFrames
        BY DEF GateCollects, VadPasses
    <2> QED BY <2>1, <2>2 DEF GateCollects
<1>17. CASE \E loud \in BOOLEAN : SuppressEcho(loud)
    BY <1>17 DEF SuppressEcho
<1> QED BY <1>1, <1>2, <1>3, <1>4, <1>5, <1>6, <1>7, <1>8, <1>9, <1>10, <1>11, <1>12, <1>13, <1>14, <1>15, <1>16, <1>17 DEF Next, ProcessCapture

\* The replay, the segment and the counts of the detector stay in step.
LEMMA HoldingStep ==
    ASSUME GateInv, Next
    PROVE  Holding'
<1> USE GateFacts, NoFrames DEF Holding, ReplayHasTheGate, SegmentCounted, GateInv, TypeOK,
        vad, ResetVad, Forget, Captured, Listening, AtGate, Armed, wake_word_required
<1>1. CASE BeginCapture
    BY <1>1 DEF BeginCapture
<1>2. CASE SuspendCapture
    BY <1>2 DEF SuspendCapture
<1>3. CASE OutputChanges
    BY <1>3 DEF OutputChanges
<1>4. CASE SessionEnds
    BY <1>4 DEF SessionEnds
<1>5. CASE Mute
    BY <1>5 DEF Mute
<1>6. CASE BargeIn
    BY <1>6 DEF BargeIn
<1>7. CASE Replay
    BY <1>7 DEF Replay, ReplayFirst
<1>8. CASE GateUnavailable
    BY <1>8 DEF GateUnavailable
<1>9. CASE GateIgnores
    BY <1>9 DEF GateIgnores
<1>10. CASE SegmentDropped
    BY <1>10 DEF SegmentDropped, Finalize
<1>11. CASE ActiveUtterance
    BY <1>11 DEF ActiveUtterance, Finalize
<1>12. CASE EndPhrase
    BY <1>12 DEF EndPhrase, Finalize
<1>13. CASE \E remainder \in BOOLEAN : WakeWord(remainder)
    BY <1>13 DEF WakeWord, Finalize
<1>14. CASE \E speech \in BOOLEAN : VadPass(speech)
    BY <1>14 DEF VadPass, VadPasses
<1>15. CASE \E speech \in BOOLEAN : VadDrop(speech)
    BY <1>15 DEF VadDrop
<1>16. CASE \E speech \in BOOLEAN : GateCollects(speech)
    BY <1>16 DEF GateCollects, VadPasses
<1>17. CASE \E loud \in BOOLEAN : SuppressEcho(loud)
    BY <1>17 DEF SuppressEcho
<1> QED BY <1>1, <1>2, <1>3, <1>4, <1>5, <1>6, <1>7, <1>8, <1>9, <1>10, <1>11, <1>12, <1>13, <1>14, <1>15, <1>16, <1>17 DEF Next, ProcessCapture

\* What the gate holds is in order, of frames captured so far, and later than
\* all it has sent on; and what it has sent on was captured.
LEMMA OrderStep ==
    ASSUME GateInv, Next
    PROVE  /\ enabled' \in Configs
           /\ segment' \in Seq(1 .. captured') /\ replay' \in Seq(1 .. captured')
           /\ upstream' \in 0 .. captured' /\ since' \in 0 .. captured'
           /\ Order'
<1>0. Order /\ Holding /\ enabled \in Configs /\ conversation_active \in BOOLEAN
    BY DEF GateInv, TypeOK
<1> USE <1>0 DEF wake_word_required, barge_in_enabled
<1>1. CASE Plain
    <2>1. /\ enabled' = enabled /\ captured' \in Nat
          /\ upstream' \in 0 .. captured' /\ since' \in 0 .. captured'
        <3>1. enabled' = enabled /\ captured' \in Nat
            BY <1>1, PlainCases, GateFacts
        <3>2. upstream' \in 0 .. captured'
            BY <1>1, PlainCases, GateFacts
        <3>3. since' \in 0 .. captured'
            BY <1>1, PlainCases, GateFacts
        <3> QED BY <3>1, <3>2, <3>3
    <2>2. segment' \in Seq(1 .. captured') /\ replay' \in Seq(1 .. captured')
        BY <1>1, PlainCases, GateFacts, NoFrames
    <2>3. Rising(segment') /\ Rising(replay')
        BY <1>1, PlainCases, NoFrames DEF Order
    <2>4. ~(wake_word_required /\ barge_in_enabled)' =>
              Later(segment', upstream') /\ Later(replay', upstream')
        <3>1. CASE upstream' = upstream
            BY <1>1, <3>1, PlainCases, NoFrames DEF Order
        <3>2. CASE ~wake_word_required
            BY <1>1, <3>2, PlainCases, NoFrames DEF Holding
        <3> QED BY <1>1, <3>1, <3>2, PlainCases
    <2>5. (wake_word_required /\ conversation_active)' =>
              since' # 0 /\ Later(segment', since' - 1) /\ Later(replay', since' - 1)
        BY <1>1, PlainCases, NoFrames DEF Order
    <2> QED BY <2>1, <2>2, <2>3, <2>4, <2>5 DEF Order
<1>2. CASE \E speech \in BOOLEAN : GateCollects(speech)
    <2>1. /\ enabled' = enabled /\ captured' = captured + 1
          /\ segment' = Append(segment, captured + 1) /\ replay = <<>> /\ replay' = <<>>
          /\ upstream' = upstream /\ since' = since
          /\ conversation_active' = conversation_active
        BY <1>2 DEF GateCollects, Armed, AtGate, Listening, Captured
    <2>2. /\ segment' \in Seq(1 .. captured')
          /\ Rising(segment')
          /\ \A m \in {upstream, since - 1} : Later(segment, m) => Later(segment', m)
        BY <2>1, GateFacts, Grows DEF Order
    <2> QED BY <2>1, <2>2, GateFacts, NoFrames DEF Order
<1>3. CASE Replay
    <2>1. /\ enabled' = enabled /\ captured' = captured + 1
          /\ segment' = segment /\ replay # <<>>
          /\ upstream' = Head(replay) /\ replay' = Tail(replay)
          /\ since' = since /\ conversation_active' = conversation_active
          /\ segment = <<>>
        <3>1. replay # <<>> /\ Captured /\ ReplayFirst(replay)
              /\ UNCHANGED <<conversation_active, segment, since>>
            BY <1>3 DEF Replay, Listening
        <3>2. segment = <<>>
            BY <3>1 DEF Holding, ReplayHasTheGate
        <3>3. enabled' = enabled /\ captured' = captured + 1
            BY <3>1 DEF Captured
        <3>4. upstream' = Head(replay) /\ replay' = Tail(replay)
            BY <3>1 DEF ReplayFirst, SendOn
        <3>5. since' = since /\ conversation_active' = conversation_active
              /\ segment' = segment
            BY <3>1
        <3> QED BY <3>1, <3>2, <3>3, <3>4, <3>5
    <2>2. /\ upstream' \in 1 .. captured /\ replay' \in Seq(1 .. captured)
          /\ Rising(replay') /\ Later(replay', upstream')
          /\ \A m \in Int : Later(replay, m) => Later(replay', m)
        BY <2>1, GateFacts, FirstTaken DEF Order
    <2>3. /\ segment' \in Seq(1 .. captured') /\ replay' \in Seq(1 .. captured')
          /\ upstream' \in 0 .. captured' /\ since' \in 0 .. captured'
        <3>1. replay' \in Seq(1 .. captured + 1)
            BY <2>2, GateFacts, MoreCaptured
        <3>2. upstream' \in 0 .. captured + 1 /\ since \in 0 .. captured + 1
            BY <2>2, GateFacts
        <3> QED BY <3>1, <3>2, <2>1, NoFrames
    <2>4. Order'
        BY <2>1, <2>2, GateFacts, NoFrames DEF Order
    <2> QED BY <2>1, <2>3, <2>4
<1>4. CASE SegmentDropped \/ EndPhrase
    <2>1. /\ enabled' = enabled /\ captured' = captured + 1
          /\ segment' = <<>> /\ replay = <<>> /\ replay' = <<>>
          /\ upstream' = upstream /\ since' \in {since, 0}
          /\ conversation_active' => since' = since /\ conversation_active
        BY <1>4 DEF SegmentDropped, EndPhrase, Finalize, Armed, AtGate, Listening, Captured
    <2> QED BY <2>1, GateFacts, NoFrames DEF Order
<1>5. CASE ActiveUtterance \/ \E remainder \in BOOLEAN : WakeWord(remainder)
    <2>1. /\ enabled' = enabled /\ captured' = captured + 1
          /\ segment' = <<>> /\ segment # <<>> /\ replay = <<>>
          /\ SegmentGoesUpstream \/ (upstream' = upstream /\ replay' = <<>>)
          /\ wake_word_required /\ conversation_active'
          /\ \/ conversation_active /\ since' = since
             \/ since' = Head(segment)
        BY <1>5 DEF ActiveUtterance, WakeWord, Finalize, Armed, AtGate, Listening, Captured
    <2>2. /\ \/ upstream' = segment[Len(segment)] /\ replay' = <<>>
             \/ upstream' = upstream /\ replay' = <<>>
             \/ upstream' = Head(segment) /\ replay' = Tail(segment)
        BY <2>1, GateFacts, ConcatEmptySeq DEF SegmentGoesUpstream, ReplayFirst, SendOn
    <2> DEFINE first == Head(segment) rest == Tail(segment) last == segment[Len(segment)]
    <2>3. /\ first \in 1 .. captured /\ last \in 1 .. captured
          /\ rest \in Seq(1 .. captured) /\ rest \in Seq(1 .. captured + 1) /\ Rising(rest)
          /\ Later(rest, first - 1)
          /\ Later(segment, since - 1) => Later(rest, since - 1)
        <3>1. /\ first \in 1 .. captured /\ rest \in Seq(1 .. captured) /\ Rising(rest)
              /\ Later(rest, first - 1)
              /\ \A m \in Int : Later(segment, m) => Later(rest, m)
            BY <2>1, GateFacts, FirstTaken DEF Order
        <3>2. last \in 1 .. captured
            BY <2>1, GateFacts, LastSent
        <3> HIDE DEF first, rest, last
        <3>3. rest \in Seq(1 .. captured + 1) /\ since - 1 \in Int
            BY <3>1, GateFacts, MoreCaptured
        <3> QED BY <3>1, <3>2, <3>3
    <2>4. /\ upstream' \in 0 .. captured' /\ since' \in 0 .. captured' /\ since' # 0
          /\ replay' \in Seq(1 .. captured') /\ Rising(replay')
        <3> HIDE DEF first, rest, last
        <3>1. replay' = <<>> \/ replay' = rest
            BY <2>2 DEF rest
        <3>2. replay' \in Seq(1 .. captured') /\ Rising(replay')
            BY <3>1, <2>1, <2>3, NoFrames
        <3>3. upstream' \in {upstream, first, last}
            BY <2>2 DEF first, last
        <3>4. upstream' \in 0 .. captured'
            <4>1. \A u \in {upstream, first, last} : u \in 0 .. captured + 1
                BY <2>3, GateFacts
            <4> QED BY <4>1, <3>3, <2>1
        <3>5. since' = first \/ (since' = since /\ conversation_active)
            BY <2>1 DEF first
        <3>6. since \in 0 .. captured /\ (conversation_active => since # 0)
            BY <2>1, GateFacts DEF Order
        <3>7. since' \in 0 .. captured' /\ since' # 0
            <4>1. \A u \in 1 .. captured : u \in 0 .. captured + 1 /\ u # 0
                BY GateFacts
            <4>2. since \in 0 .. captured + 1
                BY <3>6, GateFacts
            <4> QED BY <4>1, <4>2, <3>5, <3>6, <2>1, <2>3
        <3> QED BY <3>2, <3>4, <3>7
    <2>5. ~(wake_word_required /\ barge_in_enabled) => Later(replay', upstream')
        BY <2>1, <2>2, GateFacts, NoFrames, FirstTaken DEF Order
    <2>6. Later(replay', since' - 1)
        <3>1. CASE conversation_active /\ since' = since
            BY <3>1, <2>1, <2>2, <2>3, NoFrames DEF Order
        <3>2. CASE since' = first
            BY <3>2, <2>1, <2>2, <2>3, NoFrames
        <3> QED BY <2>1, <3>1, <3>2
    <2> QED BY <2>1, <2>4, <2>5, <2>6, GateFacts, NoFrames DEF Order
<1> QED BY <1>1, <1>2, <1>3, <1>4, <1>5 DEF Next, ProcessCapture, Plain

\* A frame or text that is sent on is later than what was sent before, and was
\* said after the wake word that opened the conversation.
LEMMA SendsLater ==
    ASSUME GateInv, Next, upstream' # upstream
    PROVE  /\ ~(wake_word_required /\ barge_in_enabled) => upstream' > upstream
           /\ wake_word_required /\ ~barge_in_enabled =>
                  conversation_active' /\ since' # 0 /\ upstream' >= since'
<1> USE DEF GateInv, TypeOK
<1>1. CASE Plain
    BY <1>1, PlainCases, GateFacts
<1>2. CASE Replay
    <2>1. /\ wake_word_required /\ replay # <<>> /\ upstream' = Head(replay)
          /\ since' = since /\ conversation_active' = conversation_active
          /\ conversation_active
        BY <1>2 DEF Replay, ReplayFirst, SendOn, Holding, ReplayHasTheGate
    <2>2. /\ Head(replay) \in 1 .. captured
          /\ \A m \in {upstream, since - 1} : Later(replay, m) => Head(replay) > m
        BY <2>1, GateFacts, FirstTaken DEF Order
    <2> QED BY <2>1, <2>2, GateFacts DEF Order
<1>3. CASE ActiveUtterance \/ \E remainder \in BOOLEAN : WakeWord(remainder)
    <2> DEFINE first == Head(segment) last == segment[Len(segment)]
    <2>1. /\ segment # <<>> /\ replay = <<>>
          /\ SegmentGoesUpstream
          /\ wake_word_required /\ conversation_active'
          /\ \/ conversation_active /\ since' = since
             \/ since' = first
        BY <1>3 DEF ActiveUtterance, WakeWord, Finalize, Armed, AtGate
    <2>2. upstream' \in {first, last}
        BY <2>1, GateFacts, ConcatEmptySeq DEF SegmentGoesUpstream, ReplayFirst, SendOn
    <2>3. /\ first \in 1 .. captured /\ last \in 1 .. captured
          /\ Rising(segment) => last >= first
          /\ \A m \in {upstream, since - 1} : Later(segment, m) => first > m /\ last > m
        <3>1. /\ Len(segment) \in Nat \ {0} /\ DOMAIN segment = 1 .. Len(segment)
              /\ first = segment[1] /\ last = segment[Len(segment)]
              /\ {1, Len(segment)} \subseteq DOMAIN segment
            BY <2>1, GateFacts, LenProperties, HeadTailProperties
        <3> HIDE DEF first, last
        <3>2. first \in 1 .. captured /\ last \in 1 .. captured
            BY <2>1, <3>1, GateFacts, ElementOfSeq
        <3>3. Rising(segment) => last >= first
            <4>1. CASE Len(segment) = 1
                BY <4>1, <3>1, <3>2
            <4>2. CASE Len(segment) # 1
                <5>1. 1 < Len(segment)
                    BY <4>2, <3>1
                <5>2. Rising(segment) => segment[1] < segment[Len(segment)]
                    BY <5>1, <3>1 DEF Rising
                <5> QED BY <5>2, <3>1, <3>2
            <4> QED BY <4>1, <4>2
        <3>4. \A m \in {upstream, since - 1} : Later(segment, m) => first > m /\ last > m
            BY <3>1 DEF Later
        <3> QED BY <3>2, <3>3, <3>4
    <2> HIDE DEF first, last
    <2> QED BY <2>1, <2>2, <2>3, GateFacts DEF Order
<1>4. upstream' = upstream \/ Plain \/ Replay \/ ActiveUtterance
          \/ \E remainder \in BOOLEAN : WakeWord(remainder)
    BY DEF Next, ProcessCapture, Plain, GateCollects, SegmentDropped, EndPhrase
<1> QED BY <1>1, <1>2, <1>3, <1>4

-----------------------------------------------------------------------------
(* The theorems. *)

\* A gate just constructed satisfies the invariant.
LEMMA GateInit == Init => GateInv
<1> SUFFICES ASSUME Init PROVE GateInv
    OBVIOUS
<1>1. TypeOK
    <2>1. {conversation_active, vad_active, suspended, capturing, output} \subseteq BOOLEAN
        BY DEF Init
    <2>2. segment \in Seq(1 .. captured) /\ replay \in Seq(1 .. captured)
        BY NoFrames DEF Init
    <2> QED BY <2>1, <2>2, EchoGateAssumption DEF Init, TypeOK
<1>2. Holding
    BY NoFrames DEF Init, Holding, ReplayHasTheGate, SegmentCounted
<1>3. Order
    <2>1. Rising(segment) /\ Rising(replay)
        BY NoFrames DEF Init
    <2>2. \A m : Later(segment, m) /\ Later(replay, m)
        BY NoFrames DEF Init
    <2>3. ~(wake_word_required /\ conversation_active)
        BY DEF Init, wake_word_required
    <2> QED BY <2>1, <2>2, <2>3 DEF Order
<1> QED BY <1>1, <1>2, <1>3 DEF Init, GateInv

\* The invariant is inductive.
LEMMA GateStep == GateInv /\ [Next]_vars => GateInv'
<1>1. ASSUME GateInv, Next PROVE GateInv'
    BY <1>1, FlagsStep, CountersStep, HoldingStep, OrderStep
       DEF GateInv, TypeOK, Flags, Counters
<1>2. ASSUME GateInv, UNCHANGED vars PROVE GateInv'
    BY <1>2 DEF GateInv, TypeOK, Holding, ReplayHasTheGate, SegmentCounted, Order, Rising,
        Later, wake_word_required, barge_in_enabled, vars, vad
<1> QED BY <1>1, <1>2

\* In every behaviour of the gate the invariant holds throughout.
LEMMA GateAlways == Spec => []GateInv
<1> QED BY GateInit, GateStep, PTL DEF Spec

\* The gate's state has its type: no counter leaves its limits, whatever the
\* segment limit, the hangover and the barge-in threshold.
THEOREM GateTypeCorrect == Spec => []TypeOK
<1>1. GateInv => TypeOK
    BY DEF GateInv
<1> QED BY GateAlways, <1>1, PTL

\* A replay has the gate to itself (_process_local_wake_gate tests it first).
THEOREM ReplayAlone == Spec => []ReplayHasTheGate
<1>1. GateInv => ReplayHasTheGate
    BY DEF GateInv, Holding
<1> QED BY GateAlways, <1>1, PTL

\* _local_vad_segment_frames counts the frames the segment holds.
THEOREM SegmentAlwaysCounted == Spec => []SegmentCounted
<1>1. GateInv => SegmentCounted
    BY DEF GateInv, Holding
<1> QED BY GateAlways, <1>1, PTL

\* What process_capture returns or sends as text goes upstream in the order it
\* was said, each frame at most once.
THEOREM GateKeepsOrder == Spec => UpstreamInOrder
<1>1. GateInv /\ [Next]_vars =>
          [upstream' # upstream /\ ~(wake_word_required /\ barge_in_enabled) =>
               upstream' > upstream]_vars
    BY SendsLater DEF vars
<1> QED BY GateAlways, <1>1, PTL DEF Spec, UpstreamInOrder

\* Nothing said before the wake word, or after the conversation ended, goes
\* upstream.
THEOREM WakeWordComesFirst == Spec => NothingBeforeWakeWord
<1>1. GateInv /\ [Next]_vars =>
          [upstream' # upstream /\ wake_word_required /\ ~barge_in_enabled =>
               conversation_active' /\ since' # 0 /\ upstream' >= since']_vars
    BY SendsLater DEF vars
<1> QED BY GateAlways, <1>1, PTL DEF Spec, NothingBeforeWakeWord
=============================================================================
