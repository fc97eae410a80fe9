-------------------- MODULE EiVoiceRuntimePipelineProofs --------------------
(***************************************************************************)
(* What EiVoiceRuntimePipeline promises for every capacity, number of      *)
(* frames and number of interrupts, however the steps of the runtime and   *)
(* of the interrupts interleave.                                           *)
(***************************************************************************)
EXTENDS EiVoiceRuntimePipeline, Integers, FiniteSetTheorems, SequenceTheorems, TLAPS

\* The frames in a queue.
Members(q) == {q[i] : i \in DOMAIN q}

\* They are in the order they were numbered.
Rising(q) == \A i, j \in DOMAIN q : i < j => q[i] < q[j]

\* Every frame of S is older than every frame of T.
Before(S, T) == \A x \in S, y \in T : x < y

-----------------------------------------------------------------------------
(* Queues of frames. *)

\* No frame at all.
LEMMA EmptyQueue ==
    /\ <<>> \in Seq(Nat) /\ Len(<<>>) = 0
    /\ Members(<<>>) = {} /\ Rising(<<>>)
  BY EmptySeq DEF Members, Rising

\* The frame at the head of a queue is its oldest.
LEMMA TakeHead ==
    ASSUME NEW q \in Seq(Nat), q # <<>>
    PROVE  /\ Head(q) \in Nat /\ Head(q) \in Members(q)
           /\ Tail(q) \in Seq(Nat)
           /\ Len(q) \in Nat \ {0} /\ Len(Tail(q)) = Len(q) - 1
           /\ Members(Tail(q)) \subseteq Members(q)
           /\ Rising(q) => Rising(Tail(q)) /\ Before({Head(q)}, Members(Tail(q)))
<1>1. /\ Tail(q) \in Seq(Nat) /\ Len(Tail(q)) = Len(q) - 1 /\ Len(q) \in Nat \ {0}
      /\ \A i \in 1 .. Len(Tail(q)) : Tail(q)[i] = q[i + 1]
      /\ Head(q) = q[1] /\ q[1] \in Nat
  BY HeadTailProperties, EmptySeq
<1>2. DOMAIN q = 1 .. Len(q) /\ DOMAIN Tail(q) = 1 .. Len(Tail(q))
  BY <1>1, LenProperties
<1>3. Head(q) \in Members(q)
  BY <1>1, <1>2 DEF Members
<1>4. \A i \in DOMAIN Tail(q) : i + 1 \in DOMAIN q /\ Tail(q)[i] = q[i + 1]
  BY <1>1, <1>2
<1>5. Members(Tail(q)) \subseteq Members(q)
  BY <1>4 DEF Members
<1>6. ASSUME Rising(q) PROVE Rising(Tail(q))
  BY <1>2, <1>4, <1>6 DEF Rising
<1>7. ASSUME Rising(q) PROVE Before({Head(q)}, Members(Tail(q)))
  <2>1. \A i \in DOMAIN Tail(q) : Head(q) < Tail(q)[i]
    BY <1>1, <1>2, <1>4, <1>7 DEF Rising
  <2> QED
    BY <2>1 DEF Members, Before
<1> QED
  BY <1>1, <1>3, <1>5, <1>6, <1>7

\* A frame put into a queue is its newest, if it is newer than those in it.
LEMMA PutLast ==
    ASSUME NEW q \in Seq(Nat), NEW n \in Nat
    PROVE  /\ Append(q, n) \in Seq(Nat)
           /\ Len(q) \in Nat /\ Len(Append(q, n)) = Len(q) + 1
           /\ Members(Append(q, n)) = Members(q) \cup {n}
           /\ Rising(q) /\ Before(Members(q), {n}) => Rising(Append(q, n))
<1> DEFINE longer == Append(q, n)
<1>1. /\ longer \in Seq(Nat) /\ Len(longer) = Len(q) + 1 /\ Len(q) \in Nat
      /\ \A i \in 1 .. Len(q) : longer[i] = q[i]
      /\ longer[Len(q) + 1] = n
  BY AppendProperties, LenProperties
<1>2. DOMAIN q = 1 .. Len(q) /\ DOMAIN longer = 1 .. Len(q) + 1
  BY <1>1, LenProperties
<1> HIDE DEF longer
<1>3. Members(longer) = Members(q) \cup {n}
  <2>1. DOMAIN longer = DOMAIN q \cup {Len(q) + 1}
    BY <1>1, <1>2
  <2>2. \A i \in DOMAIN q : longer[i] = q[i]
    BY <1>1, <1>2
  <2>3. ASSUME NEW x \in Members(longer) PROVE x \in Members(q) \cup {n}
    BY <1>1, <2>1, <2>2, <2>3 DEF Members
  <2>4. ASSUME NEW i \in DOMAIN q PROVE q[i] \in Members(longer)
    BY <2>1, <2>2 DEF Members
  <2>5. n \in Members(longer)
    BY <1>1, <2>1 DEF Members
  <2> QED
    BY <2>3, <2>4, <2>5 DEF Members
<1>4. ASSUME Rising(q), Before(Members(q), {n}) PROVE Rising(longer)
  <2>1. \A i \in DOMAIN q : q[i] < n
    BY <1>4 DEF Before, Members
  <2>2. \A i, j \in DOMAIN q : i < j => q[i] < q[j]
    BY <1>4 DEF Rising
  <2>3. ASSUME NEW i \in DOMAIN longer, NEW j \in DOMAIN longer, i < j
        PROVE  longer[i] < longer[j]
    <3>1. i \in DOMAIN q /\ longer[i] = q[i]
      BY <1>1, <1>2, <2>3
    <3>2. CASE j = Len(q) + 1
      BY <1>1, <2>1, <3>1, <3>2
    <3>3. CASE j # Len(q) + 1
      <4>1. j \in DOMAIN q /\ longer[j] = q[j]
        BY <1>1, <1>2, <3>3
      <4> QED
        BY <2>2, <2>3, <3>1, <4>1
    <3> QED
      BY <3>2, <3>3
  <2> QED
    BY <2>3 DEF Rising
<1> QED
  BY <1>1, <1>3, <1>4 DEF longer

\* Nothing changes in a queue but that its oldest frame goes, when it is emptied.
LEMMA EmptiedQueue ==
    ASSUME NEW q \in Seq(Nat)
    PROVE  /\ Emptied(q) \in Seq(Nat) /\ Len(q) \in Nat
           /\ q = <<>> => Emptied(q) = <<>>
           /\ q # <<>> => Emptied(q) = Tail(q) /\ Len(q) >= 1 /\ Len(Emptied(q)) = Len(q) - 1
           /\ Members(Emptied(q)) \subseteq Members(q)
           /\ Rising(q) => Rising(Emptied(q))
<1>1. CASE q = <<>>
  BY <1>1, EmptyQueue DEF Emptied
<1>2. CASE q # <<>>
  <2>1. Emptied(q) = Tail(q)
    BY <1>2 DEF Emptied
  <2>2. /\ Tail(q) \in Seq(Nat) /\ Len(q) \in Nat \ {0} /\ Len(Tail(q)) = Len(q) - 1
        /\ Members(Tail(q)) \subseteq Members(q)
        /\ Rising(q) => Rising(Tail(q))
    BY <1>2, TakeHead
  <2> QED
    BY <1>2, <2>1, <2>2
<1> QED
  BY <1>1, <1>2

-----------------------------------------------------------------------------
(* The parts of the inductive invariant. *)

\* Frames in queues and hands are numbers, and so is what is counted.
LineTyped ==
    /\ inbound_queue \in Seq(Nat) /\ decode_queue \in Seq(Nat) /\ playback_queue \in Seq(Nat)
    /\ held \in [stage : Stages, frame : Nat]
    /\ delivered \in Nat /\ played \in Nat /\ lost \in Nat /\ cleared \in Nat
    /\ metrics \in [Counters -> Nat]

UpstreamTyped ==
    /\ encode_queue \in Seq(Nat) /\ send_queue \in Seq(Nat)
    /\ captured \in Nat /\ sent \in Nat

\* The frame in the hands of step method `s`.
HandOf(s) == {f \in {held.frame} : held.stage = s}

\* Downstream every frame is older than those behind it, and newer than the last played.
DownstreamOrdered ==
    LET I == Members(inbound_queue)
        R == HandOf("receive")
        D == Members(decode_queue)
        E == HandOf("decode")
        P == Members(playback_queue)
        Q == HandOf("playback")
    IN  /\ Rising(inbound_queue) /\ Rising(decode_queue) /\ Rising(playback_queue)
        /\ Before(R, I)
        /\ Before(D, R \cup I)
        /\ Before(E, D \cup R \cup I)
        /\ Before(P, E \cup D \cup R \cup I)
        /\ Before(Q, P \cup E \cup D \cup R \cup I)
        /\ Before({played}, Q \cup P \cup E \cup D \cup R \cup I)
        /\ \A x \in Q \cup P \cup E \cup D \cup R \cup I \cup {played} : x <= delivered

\* The same upstream.
UpstreamOrdered ==
    LET E == Members(encode_queue)
        S == Members(send_queue)
    IN  /\ Rising(encode_queue) /\ Rising(send_queue)
        /\ Before(S, E)
        /\ Before({sent}, S \cup E)
        /\ \A x \in S \cup E \cup {sent} : x <= captured

\* What the frames downstream, and the counts of what became of them, depend on.
line == <<downstream, held, delivered, played, lost, cleared>>
DownCounts == <<metrics["receive_queue_full"], metrics["decode_queue_full"],
                metrics["playback_frames"]>>

LineUnchanged ==
    UNCHANGED <<line, DownCounts>> /\ metrics' \in [Counters -> Nat]

-----------------------------------------------------------------------------
(* What the steps do to the frames downstream, one step at a time. *)

\* All the other steps leave them alone.
LEMMA OthersLeaveTheLine ==
    ASSUME LineTyped,
           \/ BeginPass \/ CaptureNothing \/ CaptureFrame \/ Encode \/ Send \/ ReceiveNothing
           \/ \E a \in Threads : InterruptStart(a) \/ InterruptRecord(a)
           \/ UNCHANGED vars
    PROVE  LineUnchanged
<1> USE DEF LineUnchanged, line, downstream, DownCounts
<1>0. metrics \in [Counters -> Nat]
  BY DEF LineTyped
<1>1. CASE BeginPass
  BY <1>0, <1>1 DEF BeginPass, stopping
<1>2. CASE CaptureNothing
  BY <1>0, <1>2 DEF CaptureNothing, AtStep, StepDone, stopping
<1>3. CASE CaptureFrame
  <2>1. UNCHANGED <<line, DownCounts>>
    BY <1>0, <1>3 DEF CaptureFrame, AtStep, StepDone, stopping, Count, Counters
  <2>2. metrics' \in [Counters -> Nat]
    BY <1>0, <1>3 DEF CaptureFrame, Count
  <2> QED
    BY <2>1, <2>2
<1>4. CASE Encode
  <2>1. UNCHANGED line
    BY <1>4 DEF Encode, AtStep, StepDone, stopping
  <2>2. CASE encode_queue = <<>>
    BY <1>0, <1>4, <2>1, <2>2 DEF Encode
  <2>3. CASE encode_queue # <<>>
    <3>1. PICK n \in {0, 1} :
            metrics' = [metrics EXCEPT !["encode_frames"] = @ + 1, !["dropped_oldest"] = @ + n]
      <4>1. metrics["dropped_oldest"] \in Nat
        BY <1>0 DEF Counters
      <4> QED
        BY <1>4, <2>3, <4>1 DEF Encode
    <3>2. UNCHANGED DownCounts /\ metrics' \in [Counters -> Nat]
      BY <1>0, <3>1 DEF Counters
    <3> QED
      BY <2>1, <3>2
  <2> QED
    BY <2>2, <2>3
<1>5. CASE Send
  <2>1. UNCHANGED line
    BY <1>5 DEF Send, AtStep, StepDone, stopping
  <2>2. CASE send_queue = <<>>
    BY <1>0, <1>5, <2>1, <2>2 DEF Send
  <2>3. CASE send_queue # <<>>
    <3>1. PICK c \in {"send_frames", "send_rejected"} : metrics' = [metrics EXCEPT ![c] = @ + 1]
      BY <1>5, <2>3 DEF Send, Count
    <3>2. UNCHANGED DownCounts /\ metrics' \in [Counters -> Nat]
      BY <1>0, <3>1 DEF Counters
    <3> QED
      BY <2>1, <3>2
  <2> QED
    BY <2>2, <2>3
<1>6. CASE ReceiveNothing
  BY <1>0, <1>6 DEF ReceiveNothing, AtStep, StepDone, stopping
<1>7. ASSUME NEW a \in Threads, InterruptStart(a) \/ InterruptRecord(a) PROVE LineUnchanged
  BY <1>0, <1>7 DEF InterruptStart, InterruptRecord
<1>8. CASE UNCHANGED vars
  BY <1>0, <1>8 DEF vars, stopping
<1> QED
  BY <1>1, <1>2, <1>3, <1>4, <1>5, <1>6, <1>7, <1>8

\* What a step does that takes the oldest frame of a queue into its hands.
TakesInto(s, queue) ==
    /\ held.stage = "none" /\ queue # <<>>
    /\ held' = [stage |-> s, frame |-> Head(queue)]
    /\ UNCHANGED <<delivered, played, lost, cleared, metrics>>

LEMMA ReceiveTakeEffect ==
    ASSUME ReceiveTake
    PROVE  /\ TakesInto("receive", inbound_queue) /\ inbound_queue' = Tail(inbound_queue)
           /\ UNCHANGED <<decode_queue, playback_queue>>
  BY DEF ReceiveTake, Hold, TakesInto, AtStep, Nothing, stopping

LEMMA DecodeTakeEffect ==
    ASSUME DecodeTake, decode_queue # <<>>
    PROVE  /\ TakesInto("decode", decode_queue) /\ decode_queue' = Tail(decode_queue)
           /\ UNCHANGED <<inbound_queue, playback_queue>>
  BY DEF DecodeTake, Hold, TakesInto, AtStep, Nothing, stopping

LEMMA PlaybackTakeEffect ==
    ASSUME PlaybackTake, playback_queue # <<>>
    PROVE  /\ TakesInto("playback", playback_queue) /\ playback_queue' = Tail(playback_queue)
           /\ UNCHANGED <<inbound_queue, decode_queue>>
  BY DEF PlaybackTake, Hold, TakesInto, AtStep, Nothing, stopping

\* A queue with nothing to take leaves the line alone.
LEMMA TakesNothing ==
    ASSUME LineTyped, \/ DecodeTake /\ decode_queue = <<>>
                      \/ PlaybackTake /\ playback_queue = <<>>
    PROVE  LineUnchanged
<1> metrics \in [Counters -> Nat]
  BY DEF LineTyped
<1>1. CASE DecodeTake /\ decode_queue = <<>>
  BY <1>1 DEF DecodeTake, StepDone, AtStep, LineUnchanged, line, downstream, DownCounts, stopping
<1>2. CASE PlaybackTake /\ playback_queue = <<>>
  BY <1>2 DEF PlaybackTake, StepDone, AtStep, LineUnchanged, line, downstream, DownCounts,
              stopping
<1> QED
  BY <1>1, <1>2

\* What a step does that puts the frame in its hands into the next queue, or counts it.
PutsDown(s) ==
    /\ held.stage = s /\ held' = Nothing
    /\ UNCHANGED <<delivered, lost, cleared>>
    /\ metrics' \in [Counters -> Nat]

LEMMA ReceivePutEffect ==
    ASSUME LineTyped, ReceivePut
    PROVE  /\ PutsDown("receive") /\ played' = played
           /\ UNCHANGED <<inbound_queue, playback_queue>>
           /\ \/ decode_queue' = Append(decode_queue, held.frame) /\ UNCHANGED DownCounts
              \/ /\ UNCHANGED decode_queue
                 /\ DownCounts' = <<metrics["receive_queue_full"] + 1,
                                     metrics["decode_queue_full"], metrics["playback_frames"]>>
<1>0. metrics \in [Counters -> Nat]
  BY DEF LineTyped
<1>1. CASE HasRoom(decode_queue, DecodeCapacity)
  BY <1>0, <1>1 DEF ReceivePut, PutsDown, Holds, Count, Counters, DownCounts, stopping
<1>2. CASE ~HasRoom(decode_queue, DecodeCapacity)
  BY <1>0, <1>2 DEF ReceivePut, PutsDown, Holds, Count, Counters, DownCounts, stopping
<1> QED
  BY <1>1, <1>2

LEMMA DecodePutEffect ==
    ASSUME LineTyped, DecodePut
    PROVE  /\ PutsDown("decode") /\ played' = played
           /\ UNCHANGED <<inbound_queue, decode_queue>>
           /\ \/ playback_queue' = Append(playback_queue, held.frame) /\ UNCHANGED DownCounts
              \/ /\ UNCHANGED playback_queue
                 /\ DownCounts' = <<metrics["receive_queue_full"],
                                     metrics["decode_queue_full"] + 1, metrics["playback_frames"]>>
<1>0. metrics \in [Counters -> Nat]
  BY DEF LineTyped
<1>1. CASE HasRoom(playback_queue, PlaybackCapacity)
  BY <1>0, <1>1 DEF DecodePut, StepDone, PutsDown, Holds, Count, Counters, DownCounts, stopping
<1>2. CASE ~HasRoom(playback_queue, PlaybackCapacity)
  BY <1>0, <1>2 DEF DecodePut, StepDone, PutsDown, Holds, Count, Counters, DownCounts, stopping
<1> QED
  BY <1>1, <1>2

LEMMA PlayEffect ==
    ASSUME LineTyped, Play
    PROVE  /\ PutsDown("playback") /\ played' = held.frame
           /\ UNCHANGED downstream
           /\ DownCounts' = <<metrics["receive_queue_full"], metrics["decode_queue_full"],
                               metrics["playback_frames"] + 1>>
<1>1. /\ held.stage = "playback" /\ held' = Nothing /\ played' = held.frame
      /\ UNCHANGED <<delivered, lost, cleared, downstream>>
  BY DEF Play, StepDone, Holds, stopping
<1>2. metrics \in [Counters -> Nat]
  BY DEF LineTyped
<1>3. metrics' = [metrics EXCEPT !["playback_frames"] = @ + 1]
  BY DEF Play, Count
<1>4. /\ metrics' \in [Counters -> Nat]
      /\ DownCounts' = <<metrics["receive_queue_full"], metrics["decode_queue_full"],
                          metrics["playback_frames"] + 1>>
  BY <1>2, <1>3 DEF Counters, DownCounts
<1> QED
  BY <1>1, <1>4 DEF PutsDown

LEMMA StepRaisesEffect ==
    ASSUME LineTyped, StepRaises
    PROVE  /\ held.stage \in {"decode", "playback"} /\ held' = Nothing
           /\ lost' = lost + 1
           /\ UNCHANGED <<downstream, delivered, played, cleared, metrics>>
  BY DEF StepRaises, Holds, stopping

LEMMA DeliverEffect ==
    ASSUME Deliver
    PROVE  /\ delivered' = delivered + 1
           /\ inbound_queue' = Append(inbound_queue, delivered + 1)
           /\ UNCHANGED <<decode_queue, playback_queue, held, played, lost, cleared, metrics>>
  BY DEF Deliver, stopping

\* One pop of an interrupt takes the oldest frame of one queue and counts it.
Clears(queue) ==
    \/ queue = <<>> /\ UNCHANGED <<queue, cleared>>
    \/ queue # <<>> /\ queue' = Tail(queue) /\ cleared' = cleared + 1

LEMMA DrainEffect ==
    ASSUME NEW a \in Threads,
           InterruptDrainPlayback(a) \/ InterruptDrainDecode(a) \/ InterruptDrainInbound(a)
    PROVE  /\ UNCHANGED <<held, delivered, played, lost, metrics>>
           /\ \/ Clears(playback_queue) /\ UNCHANGED <<inbound_queue, decode_queue>>
              \/ Clears(decode_queue) /\ UNCHANGED <<inbound_queue, playback_queue>>
              \/ Clears(inbound_queue) /\ UNCHANGED <<decode_queue, playback_queue>>
<1>1. CASE InterruptDrainPlayback(a)
  BY <1>1 DEF InterruptDrainPlayback, Drain, Emptied, Clears
<1>2. CASE InterruptDrainDecode(a)
  BY <1>2 DEF InterruptDrainDecode, Drain, Emptied, Clears
<1>3. CASE InterruptDrainInbound(a)
  BY <1>3 DEF InterruptDrainInbound, Drain, Emptied, Clears
<1> QED
  BY <1>1, <1>2, <1>3

-----------------------------------------------------------------------------
(* The frames downstream: in order, each accounted for. *)

LineInv == LineTyped /\ DownstreamOrdered /\ DownstreamAccounted

\* The accounts, each frame in one of them.
Balance(n, i, d, p, h, a, b, c, l, k) == n = i + d + p + h + a + b + c + l + k

LEMMA FramesMove ==
    ASSUME NEW n \in Nat, NEW i \in Nat, NEW d \in Nat, NEW p \in Nat, NEW h \in Nat,
           NEW a \in Nat, NEW b \in Nat, NEW c \in Nat, NEW l \in Nat, NEW k \in Nat,
           Balance(n, i, d, p, h, a, b, c, l, k)
    PROVE  /\ Balance(n + 1, i + 1, d, p, h, a, b, c, l, k)
           /\ h = 1 => /\ Balance(n, i, d + 1, p, 0, a, b, c, l, k)
                       /\ Balance(n, i, d, p + 1, 0, a, b, c, l, k)
                       /\ Balance(n, i, d, p, 0, a + 1, b, c, l, k)
                       /\ Balance(n, i, d, p, 0, a, b + 1, c, l, k)
                       /\ Balance(n, i, d, p, 0, a, b, c + 1, l, k)
                       /\ Balance(n, i, d, p, 0, a, b, c, l + 1, k)
           /\ Balance(n, i - 1, d, p, h, a, b, c, l, k + 1)
           /\ Balance(n, i, d - 1, p, h, a, b, c, l, k + 1)
           /\ Balance(n, i, d, p - 1, h, a, b, c, l, k + 1)
  BY DEF Balance

Held == IF HeldDownstream THEN 1 ELSE 0

Accounts ==
    Balance(delivered, Len(inbound_queue), Len(decode_queue), Len(playback_queue), Held,
            metrics["receive_queue_full"], metrics["decode_queue_full"],
            metrics["playback_frames"], lost, cleared)

LEMMA AccountsBalance ==
    (DownstreamAccounted <=> Accounts) /\ (DownstreamAccounted' <=> Accounts')
<1>1. DownstreamAccounted <=> Accounts
  BY DEF DownstreamAccounted, Accounts, Balance, Held
<1>2. DownstreamAccounted' <=> Accounts'
  BY DEF DownstreamAccounted, Accounts, Balance, Held
<1> QED
  BY <1>1, <1>2

\* What the accounts are made of.
LEMMA LineNumbers ==
    ASSUME LineTyped
    PROVE  /\ Len(inbound_queue) \in Nat /\ Len(decode_queue) \in Nat /\ Len(playback_queue) \in Nat
           /\ metrics["receive_queue_full"] \in Nat /\ metrics["decode_queue_full"] \in Nat
           /\ metrics["playback_frames"] \in Nat
           /\ lost \in Nat /\ cleared \in Nat /\ delivered \in Nat /\ held.frame \in Nat
  BY LenProperties DEF LineTyped, Counters

\* Taking a frame moves it one place on.
LEMMA ReceiveTakeKeepsLine ==
    ASSUME LineInv, TakesInto("receive", inbound_queue), inbound_queue' = Tail(inbound_queue), UNCHANGED <<decode_queue, playback_queue>>
    PROVE  LineInv'
<1>1. /\ Head(inbound_queue) \in Nat /\ Head(inbound_queue) \in Members(inbound_queue)
      /\ inbound_queue' \in Seq(Nat)
      /\ Len(inbound_queue) \in Nat \ {0} /\ Len(inbound_queue') = Len(inbound_queue) - 1
      /\ Members(inbound_queue') \subseteq Members(inbound_queue)
      /\ Rising(inbound_queue) => Rising(inbound_queue') /\ Before({Head(inbound_queue)}, Members(inbound_queue'))
  BY TakeHead DEF LineInv, LineTyped, TakesInto
<1>2. held' \in [stage : Stages, frame : Nat]
  BY <1>1 DEF TakesInto, Stages, Steps
<1>3. LineTyped'
  BY <1>1, <1>2 DEF LineInv, LineTyped, TakesInto
<1>4. /\ \A s \in Steps : HandOf(s) = {}
      /\ \A s \in Steps \ {"receive"} : HandOf(s)' = {}
      /\ HandOf("receive")' = {Head(inbound_queue)}
  BY DEF TakesInto, HandOf, Steps
<1>5. DownstreamOrdered'
  BY <1>1, <1>4 DEF LineInv, DownstreamOrdered, TakesInto, Before, Steps
<1>6. DownstreamAccounted'
  <2>1. ~HeldDownstream /\ HeldDownstream'
    BY DEF TakesInto, HeldDownstream
  <2> QED
    BY <1>1, <2>1, LineNumbers DEF LineInv, DownstreamAccounted, TakesInto
<1> QED
  BY <1>3, <1>5, <1>6 DEF LineInv

LEMMA DecodeTakeKeepsLine ==
    ASSUME LineInv, TakesInto("decode", decode_queue), decode_queue' = Tail(decode_queue), UNCHANGED <<inbound_queue, playback_queue>>
    PROVE  LineInv'
<1>1. /\ Head(decode_queue) \in Nat /\ Head(decode_queue) \in Members(decode_queue)
      /\ decode_queue' \in Seq(Nat)
      /\ Len(decode_queue) \in Nat \ {0} /\ Len(decode_queue') = Len(decode_queue) - 1
      /\ Members(decode_queue') \subseteq Members(decode_queue)
      /\ Rising(decode_queue) => Rising(decode_queue') /\ Before({Head(decode_queue)}, Members(decode_queue'))
  BY TakeHead DEF LineInv, LineTyped, TakesInto
<1>2. held' \in [stage : Stages, frame : Nat]
  BY <1>1 DEF TakesInto, Stages, Steps
<1>3. LineTyped'
  BY <1>1, <1>2 DEF LineInv, LineTyped, TakesInto
<1>4. /\ \A s \in Steps : HandOf(s) = {}
      /\ \A s \in Steps \ {"decode"} : HandOf(s)' = {}
      /\ HandOf("decode")' = {Head(decode_queue)}
  BY DEF TakesInto, HandOf, Steps
<1>5. DownstreamOrdered'
  BY <1>1, <1>4 DEF LineInv, DownstreamOrdered, TakesInto, Before, Steps
<1>6. DownstreamAccounted'
  <2>1. ~HeldDownstream /\ HeldDownstream'
    BY DEF TakesInto, HeldDownstream
  <2> QED
    BY <1>1, <2>1, LineNumbers DEF LineInv, DownstreamAccounted, TakesInto
<1> QED
  BY <1>3, <1>5, <1>6 DEF LineInv

LEMMA PlaybackTakeKeepsLine ==
    ASSUME LineInv, TakesInto("playback", playback_queue), playback_queue' = Tail(playback_queue), UNCHANGED <<inbound_queue, decode_queue>>
    PROVE  LineInv'
<1>1. /\ Head(playback_queue) \in Nat /\ Head(playback_queue) \in Members(playback_queue)
      /\ playback_queue' \in Seq(Nat)
      /\ Len(playback_queue) \in Nat \ {0} /\ Len(playback_queue') = Len(playback_queue) - 1
      /\ Members(playback_queue') \subseteq Members(playback_queue)
      /\ Rising(playback_queue) => Rising(playback_queue') /\ Before({Head(playback_queue)}, Members(playback_queue'))
  BY TakeHead DEF LineInv, LineTyped, TakesInto
<1>2. held' \in [stage : Stages, frame : Nat]
  BY <1>1 DEF TakesInto, Stages, Steps
<1>3. LineTyped'
  BY <1>1, <1>2 DEF LineInv, LineTyped, TakesInto
<1>4. /\ \A s \in Steps : HandOf(s) = {}
      /\ \A s \in Steps \ {"playback"} : HandOf(s)' = {}
      /\ HandOf("playback")' = {Head(playback_queue)}
  BY DEF TakesInto, HandOf, Steps
<1>5. DownstreamOrdered'
  BY <1>1, <1>4 DEF LineInv, DownstreamOrdered, TakesInto, Before, Steps
<1>6. DownstreamAccounted'
  <2>1. ~HeldDownstream /\ HeldDownstream'
    BY DEF TakesInto, HeldDownstream
  <2> QED
    BY <1>1, <2>1, LineNumbers DEF LineInv, DownstreamAccounted, TakesInto
<1> QED
  BY <1>3, <1>5, <1>6 DEF LineInv

\* Putting a frame down moves it one place on, or counts it as dropped.
LEMMA ReceivePutKeepsLine ==
    ASSUME LineInv, ReceivePut
    PROVE  LineInv'
<1> DEFINE n == held.frame
<1>1. LineTyped /\ n \in Nat /\ decode_queue \in Seq(Nat)
  BY DEF LineInv, LineTyped
<1>2. /\ PutsDown("receive") /\ played' = played
      /\ UNCHANGED <<inbound_queue, playback_queue>>
      /\ \/ decode_queue' = Append(decode_queue, n) /\ UNCHANGED DownCounts
         \/ UNCHANGED decode_queue /\ DownCounts' = <<metrics["receive_queue_full"] + 1,
                                     metrics["decode_queue_full"], metrics["playback_frames"]>>
  BY <1>1, ReceivePutEffect
<1>3. /\ Append(decode_queue, n) \in Seq(Nat)
      /\ Len(decode_queue) \in Nat /\ Len(Append(decode_queue, n)) = Len(decode_queue) + 1
      /\ Members(Append(decode_queue, n)) = Members(decode_queue) \cup {n}
      /\ Rising(decode_queue) /\ Before(Members(decode_queue), {n}) => Rising(Append(decode_queue, n))
  BY <1>1, PutLast
<1>4. LineTyped'
  BY <1>1, <1>2, <1>3 DEF LineTyped, PutsDown, Nothing, Stages
<1>5. /\ \A s \in Steps \ {"receive"} : HandOf(s) = {}
      /\ \A s \in Steps : HandOf(s)' = {}
      /\ HandOf("receive") = {n}
  BY <1>2 DEF PutsDown, HandOf, Steps, Nothing
<1>6. DownstreamOrdered'
  <2> HIDE DEF n
  <2>1. CASE decode_queue' = Append(decode_queue, n)
    <3>1. DownstreamOrdered
      BY DEF LineInv
    <3>2. Before(Members(decode_queue), {n})
      BY <1>5, <3>1 DEF DownstreamOrdered, Before
    <3>3. /\ Members(decode_queue)' = Members(decode_queue) \cup {n} /\ Rising(decode_queue)'
          /\ Members(inbound_queue)' = Members(inbound_queue) /\ Members(playback_queue)' = Members(playback_queue)
          /\ Rising(inbound_queue)' /\ Rising(playback_queue)'
      BY <1>2, <1>3, <2>1, <3>1, <3>2 DEF DownstreamOrdered
    <3>4. delivered' = delivered /\ played' = played
      BY <1>2 DEF PutsDown
    <3>5. /\ HandOf("receive")' = {} /\ HandOf("decode")' = {} /\ HandOf("playback")' = {}
          /\ HandOf("receive") = {n}
      BY <1>5 DEF Steps
    <3> QED
      BY <3>1, <3>3, <3>4, <3>5 DEF DownstreamOrdered, Before
  <2>2. CASE decode_queue' = decode_queue
    BY <1>2, <1>5, <2>2 DEF LineInv, DownstreamOrdered, PutsDown, Before, Steps
  <2> QED
    BY <1>2, <2>1, <2>2
<1>7. DownstreamAccounted'
  <2>1. HeldDownstream /\ ~HeldDownstream'
    BY <1>2 DEF PutsDown, HeldDownstream, Nothing
  <2>2. Balance(delivered, Len(inbound_queue), Len(decode_queue), Len(playback_queue), Held,
                  metrics["receive_queue_full"], metrics["decode_queue_full"],
                  metrics["playback_frames"], lost, cleared)
    BY AccountsBalance DEF LineInv, Accounts
  <2>3. Held = 1 /\ Held' = 0
    BY <2>1 DEF Held
  <2>4. /\ Balance(delivered, Len(inbound_queue), Len(decode_queue) + 1, Len(playback_queue), 0,
                  metrics["receive_queue_full"], metrics["decode_queue_full"],
                  metrics["playback_frames"], lost, cleared)
        /\ Balance(delivered, Len(inbound_queue), Len(decode_queue), Len(playback_queue), 0,
                  metrics["receive_queue_full"] + 1, metrics["decode_queue_full"],
                  metrics["playback_frames"], lost, cleared)
    BY <1>1, <2>2, <2>3, LineNumbers, FramesMove
  <2>5. CASE decode_queue' = Append(decode_queue, n) /\ UNCHANGED DownCounts
    BY <1>2, <1>3, <2>3, <2>4, <2>5, AccountsBalance DEF Accounts, PutsDown, DownCounts
  <2>6. CASE /\ UNCHANGED decode_queue
             /\ DownCounts' = <<metrics["receive_queue_full"] + 1,
                  metrics["decode_queue_full"], metrics["playback_frames"]>>
    BY <1>2, <2>3, <2>4, <2>6, AccountsBalance DEF Accounts, PutsDown, DownCounts
  <2> QED
    BY <1>2, <2>5, <2>6
<1> QED
  BY <1>4, <1>6, <1>7 DEF LineInv

LEMMA DecodePutKeepsLine ==
    ASSUME LineInv, DecodePut
    PROVE  LineInv'
<1> DEFINE n == held.frame
<1>1. LineTyped /\ n \in Nat /\ playback_queue \in Seq(Nat)
  BY DEF LineInv, LineTyped
<1>2. /\ PutsDown("decode") /\ played' = played
      /\ UNCHANGED <<inbound_queue, decode_queue>>
      /\ \/ playback_queue' = Append(playback_queue, n) /\ UNCHANGED DownCounts
         \/ UNCHANGED playback_queue /\ DownCounts' = <<metrics["receive_queue_full"],
                                     metrics["decode_queue_full"] + 1, metrics["playback_frames"]>>
  BY <1>1, DecodePutEffect
<1>3. /\ Append(playback_queue, n) \in Seq(Nat)
      /\ Len(playback_queue) \in Nat /\ Len(Append(playback_queue, n)) = Len(playback_queue) + 1
      /\ Members(Append(playback_queue, n)) = Members(playback_queue) \cup {n}
      /\ Rising(playback_queue) /\ Before(Members(playback_queue), {n}) => Rising(Append(playback_queue, n))
  BY <1>1, PutLast
<1>4. LineTyped'
  BY <1>1, <1>2, <1>3 DEF LineTyped, PutsDown, Nothing, Stages
<1>5. /\ \A s \in Steps \ {"decode"} : HandOf(s) = {}
      /\ \A s \in Steps : HandOf(s)' = {}
      /\ HandOf("decode") = {n}
  BY <1>2 DEF PutsDown, HandOf, Steps, Nothing
<1>6. DownstreamOrdered'
  <2> HIDE DEF n
  <2>1. CASE playback_queue' = Append(playback_queue, n)
    <3>1. DownstreamOrdered
      BY DEF LineInv
    <3>2. Before(Members(playback_queue), {n})
      BY <1>5, <3>1 DEF DownstreamOrdered, Before
    <3>3. /\ Members(playback_queue)' = Members(playback_queue) \cup {n} /\ Rising(playback_queue)'
          /\ Members(inbound_queue)' = Members(inbound_queue) /\ Members(decode_queue)' = Members(decode_queue)
          /\ Rising(inbound_queue)' /\ Rising(decode_queue)'
      BY <1>2, <1>3, <2>1, <3>1, <3>2 DEF DownstreamOrdered
    <3>4. delivered' = delivered /\ played' = played
      BY <1>2 DEF PutsDown
    <3>5. /\ HandOf("receive")' = {} /\ HandOf("decode")' = {} /\ HandOf("playback")' = {}
          /\ HandOf("decode") = {n}
      BY <1>5 DEF Steps
    <3> QED
      BY <3>1, <3>3, <3>4, <3>5 DEF DownstreamOrdered, Before
  <2>2. CASE playback_queue' = playback_queue
    BY <1>2, <1>5, <2>2 DEF LineInv, DownstreamOrdered, PutsDown, Before, Steps
  <2> QED
    BY <1>2, <2>1, <2>2
<1>7. DownstreamAccounted'
  <2>1. HeldDownstream /\ ~HeldDownstream'
    BY <1>2 DEF PutsDown, HeldDownstream, Nothing
  <2>2. Balance(delivered, Len(inbound_queue), Len(decode_queue), Len(playback_queue), Held,
                  metrics["receive_queue_full"], metrics["decode_queue_full"],
                  metrics["playback_frames"], lost, cleared)
    BY AccountsBalance DEF LineInv, Accounts
  <2>3. Held = 1 /\ Held' = 0
    BY <2>1 DEF Held
  <2>4. /\ Balance(delivered, Len(inbound_queue), Len(decode_queue), Len(playback_queue) + 1, 0,
                  metrics["receive_queue_full"], metrics["decode_queue_full"],
                  metrics["playback_frames"], lost, cleared)
        /\ Balance(delivered, Len(inbound_queue), Len(decode_queue), Len(playback_queue), 0,
                  metrics["receive_queue_full"], metrics["decode_queue_full"] + 1,
                  metrics["playback_frames"], lost, cleared)
    BY <1>1, <2>2, <2>3, LineNumbers, FramesMove
  <2>5. CASE playback_queue' = Append(playback_queue, n) /\ UNCHANGED DownCounts
    BY <1>2, <1>3, <2>3, <2>4, <2>5, AccountsBalance DEF Accounts, PutsDown, DownCounts
  <2>6. CASE /\ UNCHANGED playback_queue
             /\ DownCounts' = <<metrics["receive_queue_full"],
                  metrics["decode_queue_full"] + 1, metrics["playback_frames"]>>
    BY <1>2, <2>3, <2>4, <2>6, AccountsBalance DEF Accounts, PutsDown, DownCounts
  <2> QED
    BY <1>2, <2>5, <2>6
<1> QED
  BY <1>4, <1>6, <1>7 DEF LineInv

LEMMA PlayKeepsLine ==
    ASSUME LineInv, Play
    PROVE  LineInv'
<1> DEFINE n == held.frame
<1>1. LineTyped /\ n \in Nat
  BY DEF LineInv, LineTyped
<1>2. /\ PutsDown("playback") /\ played' = n
      /\ UNCHANGED downstream
      /\ DownCounts' = <<metrics["receive_queue_full"], metrics["decode_queue_full"],
                         metrics["playback_frames"] + 1>>
  BY <1>1, PlayEffect
<1>3. LineTyped'
  BY <1>1, <1>2 DEF LineTyped, PutsDown, Nothing, Stages, downstream
<1>4. /\ \A s \in Steps \ {"playback"} : HandOf(s) = {}
      /\ \A s \in Steps : HandOf(s)' = {}
      /\ HandOf("playback") = {n}
  BY <1>2 DEF PutsDown, HandOf, Steps, Nothing
<1>5. DownstreamOrdered'
  <2> HIDE DEF n
  <2> QED
    BY <1>2, <1>4 DEF LineInv, DownstreamOrdered, PutsDown, Before, Steps, downstream
<1>6. DownstreamAccounted'
  <2>1. HeldDownstream /\ ~HeldDownstream'
    BY <1>2 DEF PutsDown, HeldDownstream, Nothing
  <2>2. Balance(delivered, Len(inbound_queue), Len(decode_queue), Len(playback_queue), Held,
                  metrics["receive_queue_full"], metrics["decode_queue_full"],
                  metrics["playback_frames"], lost, cleared)
    BY AccountsBalance DEF LineInv, Accounts
  <2>3. Held = 1 /\ Held' = 0
    BY <2>1 DEF Held
  <2>4. Balance(delivered, Len(inbound_queue), Len(decode_queue), Len(playback_queue), 0,
                  metrics["receive_queue_full"], metrics["decode_queue_full"],
                  metrics["playback_frames"] + 1, lost, cleared)
    BY <1>1, <2>2, <2>3, LineNumbers, FramesMove
  <2> QED
    BY <1>2, <2>3, <2>4, AccountsBalance DEF Accounts, PutsDown, DownCounts, downstream
<1> QED
  BY <1>3, <1>5, <1>6 DEF LineInv

\* A step that raises counts the frame it held as lost.
LEMMA StepRaisesKeepsLine ==
    ASSUME LineInv, StepRaises
    PROVE  LineInv'
<1>1. LineTyped
  BY DEF LineInv
<1>2. /\ held.stage \in {"decode", "playback"} /\ held' = Nothing
      /\ lost' = lost + 1
      /\ UNCHANGED <<downstream, delivered, played, cleared, metrics>>
  BY <1>1, StepRaisesEffect
<1>3. LineTyped'
  BY <1>1, <1>2 DEF LineTyped, Nothing, Stages, downstream
<1>4. \A s \in Steps : HandOf(s)' = {}
  BY <1>2 DEF HandOf, Steps, Nothing
<1>5. DownstreamOrdered'
  BY <1>2, <1>4 DEF LineInv, DownstreamOrdered, Before, Steps, downstream
<1>6. DownstreamAccounted'
  <2>1. HeldDownstream /\ ~HeldDownstream'
    BY <1>2 DEF HeldDownstream, Nothing
  <2>2. Balance(delivered, Len(inbound_queue), Len(decode_queue), Len(playback_queue), Held,
                  metrics["receive_queue_full"], metrics["decode_queue_full"],
                  metrics["playback_frames"], lost, cleared)
    BY AccountsBalance DEF LineInv, Accounts
  <2>3. Held = 1 /\ Held' = 0
    BY <2>1 DEF Held
  <2>4. Balance(delivered, Len(inbound_queue), Len(decode_queue), Len(playback_queue), 0,
                  metrics["receive_queue_full"], metrics["decode_queue_full"],
                  metrics["playback_frames"], lost + 1, cleared)
    BY <1>1, <2>2, <2>3, LineNumbers, FramesMove
  <2> QED
    BY <1>2, <2>3, <2>4, AccountsBalance DEF Accounts, downstream
<1> QED
  BY <1>3, <1>5, <1>6 DEF LineInv

\* A frame that arrives is newer than all that arrived before it.
LEMMA DeliverKeepsLine ==
    ASSUME LineInv, Deliver
    PROVE  LineInv'
<1> DEFINE n == delivered + 1
<1>1. LineTyped /\ delivered \in Nat /\ n \in Nat /\ inbound_queue \in Seq(Nat)
  BY DEF LineInv, LineTyped
<1>2. /\ delivered' = n /\ inbound_queue' = Append(inbound_queue, n)
      /\ UNCHANGED <<decode_queue, playback_queue, held, played, lost, cleared, metrics>>
  BY DeliverEffect
<1>3. /\ inbound_queue' \in Seq(Nat)
      /\ Len(inbound_queue) \in Nat /\ Len(inbound_queue') = Len(inbound_queue) + 1
      /\ Members(inbound_queue') = Members(inbound_queue) \cup {n}
      /\ Rising(inbound_queue) /\ Before(Members(inbound_queue), {n}) => Rising(inbound_queue')
  BY <1>1, <1>2, PutLast
<1>4. LineTyped'
  BY <1>1, <1>2, <1>3 DEF LineTyped
<1>5. \A s \in Steps : HandOf(s)' = HandOf(s)
  BY <1>2 DEF HandOf
<1>6. DownstreamOrdered'
  <2>0. /\ Members(inbound_queue) \subseteq Nat /\ Members(decode_queue) \subseteq Nat
        /\ Members(playback_queue) \subseteq Nat /\ played \in Nat
        /\ \A s \in Steps : HandOf(s) \subseteq Nat
    BY ElementOfSeq, LenProperties, <1>1 DEF LineTyped, Members, HandOf
  <2>1. \A x \in Nat : x <= delivered => x < n /\ x <= n
    BY <1>1
  <2>2. n <= n /\ delivered' = n
    BY <1>1, <1>2
  <2> HIDE DEF n
  <2> QED
    BY <1>2, <1>3, <1>5, <2>0, <2>1, <2>2 DEF LineInv, DownstreamOrdered, Before, Steps
<1>7. DownstreamAccounted'
  <2>1. Held \in Nat /\ Held' = Held
    BY <1>2 DEF HeldDownstream, Held
  <2>2. Balance(delivered, Len(inbound_queue), Len(decode_queue), Len(playback_queue), Held,
                  metrics["receive_queue_full"], metrics["decode_queue_full"],
                  metrics["playback_frames"], lost, cleared)
    BY AccountsBalance DEF LineInv, Accounts
  <2>3. Balance(n, Len(inbound_queue) + 1, Len(decode_queue), Len(playback_queue), Held,
                  metrics["receive_queue_full"], metrics["decode_queue_full"],
                  metrics["playback_frames"], lost, cleared)
    BY <1>1, <2>1, <2>2, LineNumbers, FramesMove
  <2> QED
    BY <1>2, <1>3, <2>1, <2>3, AccountsBalance DEF Accounts
<1> QED
  BY <1>4, <1>6, <1>7 DEF LineInv

\* An interrupt only takes frames out, and counts them.
LEMMA DrainKeepsLine ==
    ASSUME LineInv, NEW a \in Threads,
           InterruptDrainPlayback(a) \/ InterruptDrainDecode(a) \/ InterruptDrainInbound(a)
    PROVE  LineInv'
<1>1. /\ UNCHANGED <<held, delivered, played, lost, metrics>>
      /\ \/ Clears(playback_queue) /\ UNCHANGED <<inbound_queue, decode_queue>>
         \/ Clears(decode_queue) /\ UNCHANGED <<inbound_queue, playback_queue>>
         \/ Clears(inbound_queue) /\ UNCHANGED <<decode_queue, playback_queue>>
  BY DrainEffect
<1>2. LineTyped
  BY DEF LineInv
<1>3. ASSUME NEW q \in Seq(Nat), NEW r,
             \/ q = <<>> /\ r = q /\ cleared' = cleared
             \/ q # <<>> /\ r = Tail(q) /\ cleared' = cleared + 1
      PROVE  /\ r \in Seq(Nat) /\ cleared' \in Nat
             /\ \/ r = q /\ cleared' = cleared
                \/ Len(r) = Len(q) - 1 /\ cleared' = cleared + 1
             /\ Members(r) \subseteq Members(q)
             /\ Rising(q) => Rising(r)
  <2>0. cleared \in Nat
    BY <1>2 DEF LineTyped
  <2>1. CASE q = <<>>
    BY <1>3, <2>0, <2>1, EmptyQueue
  <2>2. CASE q # <<>>
    <3>1. Tail(q) \in Seq(Nat) /\ Len(q) \in Nat \ {0} /\ Len(Tail(q)) = Len(q) - 1
          /\ Members(Tail(q)) \subseteq Members(q) /\ (Rising(q) => Rising(Tail(q)))
      BY <2>2, TakeHead
    <3>2. r = Tail(q) /\ cleared' = cleared + 1
      BY <1>3, <2>2
    <3>3. q # <<>> /\ cleared + 1 \in Nat
      BY <2>0, <2>2
    <3>4. r \in Seq(Nat) /\ cleared' \in Nat /\ Len(r) = Len(q) - 1
          /\ Members(r) \subseteq Members(q) /\ (Rising(q) => Rising(r))
      BY <3>1, <3>2, <3>3
    <3> QED
      BY <3>2, <3>4
  <2> QED
    BY <2>1, <2>2
<1>4. /\ inbound_queue' \in Seq(Nat) /\ decode_queue' \in Seq(Nat)
      /\ playback_queue' \in Seq(Nat) /\ cleared' \in Nat
      /\ Balance(delivered, Len(inbound_queue'), Len(decode_queue'), Len(playback_queue'), Held,
                  metrics["receive_queue_full"], metrics["decode_queue_full"],
                  metrics["playback_frames"], lost, cleared')
      /\ Members(inbound_queue') \subseteq Members(inbound_queue)
      /\ Members(decode_queue') \subseteq Members(decode_queue)
      /\ Members(playback_queue') \subseteq Members(playback_queue)
      /\ Rising(inbound_queue) => Rising(inbound_queue')
      /\ Rising(decode_queue) => Rising(decode_queue')
      /\ Rising(playback_queue) => Rising(playback_queue')
  <2>0. /\ inbound_queue \in Seq(Nat) /\ decode_queue \in Seq(Nat)
        /\ playback_queue \in Seq(Nat) /\ cleared \in Nat
    BY <1>2 DEF LineTyped
  <2>10. Balance(delivered, Len(inbound_queue), Len(decode_queue), Len(playback_queue), Held,
                  metrics["receive_queue_full"], metrics["decode_queue_full"],
                  metrics["playback_frames"], lost, cleared)
    BY AccountsBalance DEF LineInv, Accounts
  <2>11. /\ Balance(delivered, Len(inbound_queue) - 1, Len(decode_queue), Len(playback_queue), Held,
                  metrics["receive_queue_full"], metrics["decode_queue_full"],
                  metrics["playback_frames"], lost, cleared + 1)
         /\ Balance(delivered, Len(inbound_queue), Len(decode_queue) - 1, Len(playback_queue), Held,
                  metrics["receive_queue_full"], metrics["decode_queue_full"],
                  metrics["playback_frames"], lost, cleared + 1)
         /\ Balance(delivered, Len(inbound_queue), Len(decode_queue), Len(playback_queue) - 1, Held,
                  metrics["receive_queue_full"], metrics["decode_queue_full"],
                  metrics["playback_frames"], lost, cleared + 1)
    <3> Held \in Nat
      BY DEF Held
    <3> QED
      BY <1>2, <2>10, LineNumbers, FramesMove
  <2>1. CASE Clears(playback_queue) /\ UNCHANGED <<inbound_queue, decode_queue>>
    <3>1. /\ playback_queue' \in Seq(Nat) /\ cleared' \in Nat
          /\ \/ playback_queue' = playback_queue /\ cleared' = cleared
             \/ Len(playback_queue') = Len(playback_queue) - 1 /\ cleared' = cleared + 1
          /\ Members(playback_queue') \subseteq Members(playback_queue)
          /\ Rising(playback_queue) => Rising(playback_queue')
      BY <1>3, <2>0, <2>1 DEF Clears
    <3>2. UNCHANGED <<inbound_queue, decode_queue>>
      BY <2>1
    <3> QED
      BY <2>0, <2>10, <2>11, <3>1, <3>2
  <2>2. CASE Clears(decode_queue) /\ UNCHANGED <<inbound_queue, playback_queue>>
    <3>1. /\ decode_queue' \in Seq(Nat) /\ cleared' \in Nat
          /\ \/ decode_queue' = decode_queue /\ cleared' = cleared
             \/ Len(decode_queue') = Len(decode_queue) - 1 /\ cleared' = cleared + 1
          /\ Members(decode_queue') \subseteq Members(decode_queue)
          /\ Rising(decode_queue) => Rising(decode_queue')
      BY <1>3, <2>0, <2>2 DEF Clears
    <3>2. UNCHANGED <<inbound_queue, playback_queue>>
      BY <2>2
    <3> QED
      BY <2>0, <2>10, <2>11, <3>1, <3>2
  <2>3. CASE Clears(inbound_queue) /\ UNCHANGED <<decode_queue, playback_queue>>
    <3>1. /\ inbound_queue' \in Seq(Nat) /\ cleared' \in Nat
          /\ \/ inbound_queue' = inbound_queue /\ cleared' = cleared
             \/ Len(inbound_queue') = Len(inbound_queue) - 1 /\ cleared' = cleared + 1
          /\ Members(inbound_queue') \subseteq Members(inbound_queue)
          /\ Rising(inbound_queue) => Rising(inbound_queue')
      BY <1>3, <2>0, <2>3 DEF Clears
    <3>2. UNCHANGED <<decode_queue, playback_queue>>
      BY <2>3
    <3> QED
      BY <2>0, <2>10, <2>11, <3>1, <3>2
  <2> QED
    BY <1>1, <2>1, <2>2, <2>3
<1>5. LineTyped'
  BY <1>1, <1>2, <1>4 DEF LineTyped
<1>6. DownstreamOrdered'
  <2>1. \A s \in Steps : HandOf(s)' = HandOf(s)
    BY <1>1 DEF HandOf
  <2> QED
    BY <1>1, <1>4, <2>1 DEF LineInv, DownstreamOrdered, Before, Steps
<1>7. DownstreamAccounted'
  <2>1. Held' = Held
    BY <1>1 DEF HeldDownstream, Held
  <2> QED
    BY <1>1, <1>4, <2>1, AccountsBalance DEF Accounts
<1> QED
  BY <1>5, <1>6, <1>7 DEF LineInv

LEMMA LineUnchangedKeepsLine ==
    ASSUME LineInv, LineUnchanged
    PROVE  LineInv'
<1>1. LineTyped'
  BY DEF LineInv, LineTyped, LineUnchanged, line, downstream
<1>2. \A s \in Steps : HandOf(s)' = HandOf(s)
  BY DEF HandOf, LineUnchanged, line
<1>3. DownstreamOrdered'
  BY <1>2 DEF LineInv, DownstreamOrdered, LineUnchanged, line, downstream, Steps
<1>4. DownstreamAccounted'
  BY DEF LineInv, DownstreamAccounted, LineUnchanged, line, downstream, DownCounts, HeldDownstream
<1> QED
  BY <1>1, <1>3, <1>4 DEF LineInv

LEMMA InitLine ==
    ASSUME Init
    PROVE  LineInv
<1> USE DEF Init, Nothing
<1>1. LineTyped
  BY EmptyQueue DEF LineTyped, Stages
<1>2. \A s \in Steps : HandOf(s) = {}
  BY DEF HandOf, Steps
<1>3. DownstreamOrdered
  BY <1>2, EmptyQueue DEF DownstreamOrdered, Before, Steps
<1>4. DownstreamAccounted
  BY EmptyQueue DEF DownstreamAccounted, HeldDownstream, Counters
<1> QED
  BY <1>1, <1>3, <1>4 DEF LineInv

LEMMA NextKeepsLine ==
    ASSUME LineInv, [Next]_vars
    PROVE  LineInv'
<1>0. LineTyped
  BY DEF LineInv
<1>1. CASE \/ BeginPass \/ CaptureNothing \/ CaptureFrame \/ Encode \/ Send \/ ReceiveNothing
           \/ \E a \in Threads : InterruptStart(a) \/ InterruptRecord(a)
           \/ UNCHANGED vars
  BY <1>0, <1>1, OthersLeaveTheLine, LineUnchangedKeepsLine
<1>2. CASE ReceiveTake
  BY <1>2, ReceiveTakeEffect, ReceiveTakeKeepsLine
<1>3. CASE DecodeTake
  BY <1>0, <1>3, DecodeTakeEffect, DecodeTakeKeepsLine, TakesNothing, LineUnchangedKeepsLine
<1>4. CASE PlaybackTake
  BY <1>0, <1>4, PlaybackTakeEffect, PlaybackTakeKeepsLine, TakesNothing, LineUnchangedKeepsLine
<1>5. CASE ReceivePut \/ DecodePut \/ Play \/ StepRaises \/ Deliver
  BY <1>5, ReceivePutKeepsLine, DecodePutKeepsLine, PlayKeepsLine, StepRaisesKeepsLine,
     DeliverKeepsLine
<1>6. ASSUME NEW a \in Threads,
             InterruptDrainPlayback(a) \/ InterruptDrainDecode(a) \/ InterruptDrainInbound(a)
      PROVE  LineInv'
  BY <1>6, DrainKeepsLine
<1> QED
  BY <1>1, <1>2, <1>3, <1>4, <1>5, <1>6 DEF Next, RunStep, Interrupt


\* At every moment each frame delivered is in one place or in one count, and
\* downstream the frames are in the order in which they arrived.
THEOREM LineAlways == Spec => []LineInv
<1>1. Init => LineInv
  BY InitLine
<1>2. LineInv /\ [Next]_vars => LineInv'
  BY NextKeepsLine
<1> QED
  BY <1>1, <1>2, PTL DEF Spec

-----------------------------------------------------------------------------
(* The frames upstream: in order. *)

UpstreamInv == UpstreamTyped /\ UpstreamOrdered

LEMMA InitUpstream ==
    ASSUME Init
    PROVE  UpstreamInv
  BY EmptyQueue DEF Init, UpstreamInv, UpstreamTyped, UpstreamOrdered, Before

\* A frame captured is newer than all captured before it.
LEMMA CaptureFrameKeepsUpstream ==
    ASSUME UpstreamInv, CaptureFrame
    PROVE  UpstreamInv'
<1> DEFINE n == captured + 1
<1>1. encode_queue \in Seq(Nat) /\ captured \in Nat /\ n \in Nat
  BY DEF UpstreamInv, UpstreamTyped
<1>2. /\ captured' = n /\ UNCHANGED <<send_queue, sent>>
      /\ \/ encode_queue' = Append(encode_queue, n)
         \/ UNCHANGED encode_queue
  BY DEF CaptureFrame
<1>3. /\ Append(encode_queue, n) \in Seq(Nat)
      /\ Members(Append(encode_queue, n)) = Members(encode_queue) \cup {n}
      /\ Rising(encode_queue) /\ Before(Members(encode_queue), {n})
         => Rising(Append(encode_queue, n))
  BY <1>1, PutLast
<1>4. /\ Members(encode_queue) \subseteq Nat /\ Members(send_queue) \subseteq Nat /\ sent \in Nat
  BY ElementOfSeq, LenProperties DEF UpstreamInv, UpstreamTyped, Members
<1>5. (\A x \in Nat : x <= captured => x < n /\ x <= n) /\ n <= n
  BY <1>1
<1> HIDE DEF n
<1>6. UpstreamTyped'
  BY <1>1, <1>2, <1>3 DEF UpstreamInv, UpstreamTyped
<1>7. CASE encode_queue' = Append(encode_queue, n)
  <2>1. UpstreamOrdered'
    BY <1>2, <1>3, <1>4, <1>5, <1>7 DEF UpstreamInv, UpstreamOrdered, Before
  <2> QED
    BY <1>6, <2>1 DEF UpstreamInv
<1>8. CASE encode_queue' = encode_queue
  <2>1. UpstreamOrdered'
    BY <1>2, <1>4, <1>5, <1>8 DEF UpstreamInv, UpstreamOrdered, Before
  <2> QED
    BY <1>6, <2>1 DEF UpstreamInv
<1> QED
  BY <1>2, <1>7, <1>8

\* The frame encoded is the oldest of its queue and newer than all that wait to
\* be sent, the oldest of which makes room for it.
LEMMA EncodeKeepsUpstream ==
    ASSUME UpstreamInv, Encode
    PROVE  UpstreamInv'
<1>1. CASE encode_queue = <<>>
  BY <1>1 DEF Encode, upstream, UpstreamInv, UpstreamTyped, UpstreamOrdered
<1>2. CASE encode_queue # <<>>
  <2> DEFINE n == Head(encode_queue)
             room == IF Len(send_queue) = SendCapacity THEN Tail(send_queue) ELSE send_queue
  <2>1. /\ encode_queue' = Tail(encode_queue) /\ send_queue' = Append(room, n)
        /\ UNCHANGED <<captured, sent>>
    BY <1>2 DEF Encode
  <2>2. encode_queue \in Seq(Nat) /\ send_queue \in Seq(Nat) /\ captured \in Nat /\ sent \in Nat
    BY DEF UpstreamInv, UpstreamTyped
  <2>3. /\ n \in Nat /\ n \in Members(encode_queue)
        /\ encode_queue' \in Seq(Nat)
        /\ Members(encode_queue') \subseteq Members(encode_queue)
        /\ Rising(encode_queue) => Rising(encode_queue') /\ Before({n}, Members(encode_queue'))
    BY <1>2, <2>1, <2>2, TakeHead
  <2>4. /\ room \in Seq(Nat) /\ Members(room) \subseteq Members(send_queue)
        /\ Rising(send_queue) => Rising(room)
    <3>1. CASE Len(send_queue) = SendCapacity
      <4>1. send_queue # <<>>
        <5> SendCapacity \in Nat \ {0}
          BY PipelineAssumption
        <5> QED
          BY <3>1, EmptyQueue
      <4> QED
        BY <2>2, <3>1, <4>1, TakeHead
    <3>2. CASE Len(send_queue) # SendCapacity
      BY <2>2, <3>2
    <3> QED
      BY <3>1, <3>2
  <2> HIDE DEF room, n
  <2>5. /\ send_queue' \in Seq(Nat)
        /\ Members(send_queue') = Members(room) \cup {n}
        /\ Rising(room) /\ Before(Members(room), {n}) => Rising(send_queue')
    BY <2>1, <2>3, <2>4, PutLast
  <2>6. UpstreamTyped'
    BY <2>1, <2>2, <2>3, <2>5 DEF UpstreamTyped
  <2>7. UpstreamOrdered'
    BY <2>1, <2>3, <2>4, <2>5 DEF UpstreamInv, UpstreamOrdered, Before
  <2> QED
    BY <2>6, <2>7 DEF UpstreamInv
<1> QED
  BY <1>1, <1>2

\* The frame sent is the oldest upstream.
LEMMA SendKeepsUpstream ==
    ASSUME UpstreamInv, Send
    PROVE  UpstreamInv' /\ (sent' # sent => sent' > sent)
<1>1. CASE send_queue = <<>>
  BY <1>1 DEF Send, upstream, UpstreamInv, UpstreamTyped, UpstreamOrdered
<1>2. CASE send_queue # <<>>
  <2>1. /\ send_queue' = Tail(send_queue) /\ sent' \in {sent, Head(send_queue)}
        /\ UNCHANGED <<encode_queue, captured>>
    BY <1>2 DEF Send
  <2>2. encode_queue \in Seq(Nat) /\ send_queue \in Seq(Nat) /\ captured \in Nat /\ sent \in Nat
    BY DEF UpstreamInv, UpstreamTyped
  <2>3. /\ Head(send_queue) \in Nat /\ Head(send_queue) \in Members(send_queue)
        /\ send_queue' \in Seq(Nat)
        /\ Members(send_queue') \subseteq Members(send_queue)
        /\ Rising(send_queue)
           => Rising(send_queue') /\ Before({Head(send_queue)}, Members(send_queue'))
    BY <1>2, <2>1, <2>2, TakeHead
  <2>4. UpstreamTyped'
    BY <2>1, <2>2, <2>3 DEF UpstreamTyped
  <2>5. UpstreamOrdered'
    BY <2>1, <2>3 DEF UpstreamInv, UpstreamOrdered, Before
  <2>6. sent < Head(send_queue)
    BY <2>3 DEF UpstreamInv, UpstreamOrdered, Before
  <2> QED
    BY <2>1, <2>2, <2>3, <2>4, <2>5, <2>6 DEF UpstreamInv
<1> QED
  BY <1>1, <1>2

\* Nothing else touches them.
LEMMA OthersLeaveUpstream ==
    ASSUME [Next]_vars, ~CaptureFrame, ~Encode, ~Send
    PROVE  UNCHANGED upstream
<1> USE DEF upstream
<1>1. CASE BeginPass \/ CaptureNothing \/ ReceiveNothing \/ Deliver \/ ReceiveTake \/ ReceivePut
  BY <1>1 DEF BeginPass, CaptureNothing, ReceiveNothing, Deliver, ReceiveTake, ReceivePut
<1>2. CASE DecodeTake \/ DecodePut \/ PlaybackTake \/ Play \/ StepRaises
  BY <1>2 DEF DecodeTake, DecodePut, PlaybackTake, Play, StepRaises
<1>3. ASSUME NEW a \in Threads, InterruptStart(a) \/ Interrupt(a)
      PROVE  UNCHANGED upstream
  BY <1>3 DEF InterruptStart, Interrupt, InterruptDrainPlayback, InterruptDrainDecode,
              InterruptDrainInbound, InterruptRecord, Drain
<1>4. CASE UNCHANGED vars
  BY <1>4 DEF vars
<1> QED
  BY <1>1, <1>2, <1>3, <1>4 DEF Next, RunStep

LEMMA NextKeepsUpstream ==
    ASSUME UpstreamInv, [Next]_vars
    PROVE  UpstreamInv' /\ (sent' # sent => sent' > sent)
<1>1. CASE CaptureFrame
  BY <1>1, CaptureFrameKeepsUpstream DEF CaptureFrame
<1>2. CASE Encode
  <2> UNCHANGED sent
    BY <1>2 DEF Encode, upstream
  <2> QED
    BY <1>2, EncodeKeepsUpstream
<1>3. CASE Send
  BY <1>3, SendKeepsUpstream
<1>4. CASE UNCHANGED upstream
  BY <1>4 DEF upstream, UpstreamInv, UpstreamTyped, UpstreamOrdered
<1> QED
  BY <1>1, <1>2, <1>3, <1>4, OthersLeaveUpstream

\* Only the player changes what was played last, and to a later frame.
LEMMA PlayedRises ==
    ASSUME LineInv, [Next]_vars
    PROVE  played' # played => played' > played
<1>1. CASE Play
  <2>1. LineTyped /\ held.frame \in Nat /\ played \in Nat
    BY DEF LineInv, LineTyped
  <2>2. played' = held.frame /\ HandOf("playback") = {held.frame}
    BY <1>1, <2>1, PlayEffect DEF PutsDown, HandOf
  <2>3. played < held.frame
    BY <2>2 DEF LineInv, DownstreamOrdered, Before
  <2> QED
    BY <2>1, <2>2, <2>3
<1>2. CASE ~Play
  <2>1. CASE \/ BeginPass \/ CaptureNothing \/ ReceiveNothing \/ Deliver \/ ReceiveTake
             \/ ReceivePut \/ CaptureFrame \/ Encode \/ Send
    BY <2>1 DEF BeginPass, CaptureNothing, ReceiveNothing, Deliver, ReceiveTake, ReceivePut,
                CaptureFrame, Encode, Send
  <2>2. CASE DecodeTake \/ DecodePut \/ PlaybackTake \/ StepRaises
    BY <2>2 DEF DecodeTake, DecodePut, PlaybackTake, StepRaises
  <2>3. ASSUME NEW a \in Threads, InterruptStart(a) \/ Interrupt(a)
        PROVE  UNCHANGED played
    BY <2>3 DEF InterruptStart, Interrupt, InterruptDrainPlayback, InterruptDrainDecode,
                InterruptDrainInbound, InterruptRecord, Drain
  <2>4. CASE UNCHANGED vars
    BY <2>4 DEF vars
  <2> QED
    BY <1>2, <2>1, <2>2, <2>3, <2>4 DEF Next, RunStep
<1> QED
  BY <1>1, <1>2

\* The frames that come out, at the player and at the transport, come out in the
\* order in which they went in, and none of them twice.
THEOREM SpecInOrder == Spec => InOrder
<1>1. Init => LineInv /\ UpstreamInv
  BY InitLine, InitUpstream
<1>2. LineInv /\ UpstreamInv /\ [Next]_vars => (LineInv /\ UpstreamInv)'
  BY NextKeepsLine, NextKeepsUpstream
<1>3. LineInv /\ UpstreamInv /\ [Next]_vars
      => [/\ played' # played => played' > played
          /\ sent' # sent => sent' > sent]_vars
  BY PlayedRises, NextKeepsUpstream
<1> QED
  BY <1>1, <1>2, <1>3, PTL DEF Spec, InOrder

-----------------------------------------------------------------------------
(* The passes of the runtime's own loop. *)

FromEncode == <<"encode", "send", "receive", "decode", "playback">>
FromSend == <<"send", "receive", "decode", "playback">>
FromReceive == <<"receive", "decode", "playback">>
FromDecode == <<"decode", "playback">>
FromPlayback == <<"playback">>
DecodeThenReceive == <<"decode", "receive_and_play">>
ThenReceive == <<"receive_and_play">>

\* What may be left of a pass.
Rests == {<<>>, StepOnce, FromEncode, FromSend, FromReceive, FromDecode, FromPlayback,
          OutputPass, DecodeThenReceive, ThenReceive}

\* The queue is empty unless the step method that empties it is next, for the one frame.
OnlyBefore(rest, queue) == queue = <<>> \/ (todo = rest /\ Len(queue) = 1)

\* In the runtime's loop a frame is in the queue in front of the step method
\* that comes next, or in its hands, and no other frame is between the stages.
OneFrameAtATime ==
    /\ todo \in Rests
    /\ OnlyBefore(FromEncode, encode_queue)
    /\ OnlyBefore(FromSend, send_queue)
    /\ OnlyBefore(FromDecode, decode_queue)
    /\ OnlyBefore(FromPlayback, playback_queue)
    /\ \/ held = Nothing
       \/ /\ decode_queue = <<>> /\ playback_queue = <<>>
          /\ \/ held.stage = "receive" /\ todo \in {FromReceive, ThenReceive}
             \/ held.stage = "decode" /\ todo = FromDecode
             \/ held.stage = "playback" /\ todo = FromPlayback

PassInv == driver = "runtime" => OneFrameAtATime

\* Which step method is next, and what is left after it.
LEMMA RestsInTurn ==
    /\ Head(StepOnce) = "capture" /\ Tail(StepOnce) = FromEncode
    /\ Head(FromEncode) = "encode" /\ Tail(FromEncode) = FromSend
    /\ Head(FromSend) = "send" /\ Tail(FromSend) = FromReceive
    /\ Head(FromReceive) = "receive" /\ Tail(FromReceive) = FromDecode
    /\ Head(FromDecode) = "decode" /\ Tail(FromDecode) = FromPlayback
    /\ Head(FromPlayback) = "playback" /\ Tail(FromPlayback) = <<>>
    /\ Head(OutputPass) = "playback" /\ Tail(OutputPass) = DecodeThenReceive
    /\ Head(DecodeThenReceive) = "decode" /\ Tail(DecodeThenReceive) = ThenReceive
    /\ Head(ThenReceive) = "receive_and_play" /\ Tail(ThenReceive) = <<>>
  BY DEF StepOnce, FromEncode, FromSend, FromReceive, FromDecode, FromPlayback,
         OutputPass, DecodeThenReceive, ThenReceive

LEMMA RestsDiffer ==
    /\ FromPlayback # OutputPass /\ FromDecode # DecodeThenReceive
    /\ <<>> \notin {StepOnce, FromEncode, FromSend, FromReceive, FromDecode, FromPlayback,
                    OutputPass, DecodeThenReceive, ThenReceive}
  BY DEF StepOnce, FromEncode, FromSend, FromReceive, FromDecode, FromPlayback,
         OutputPass, DecodeThenReceive, ThenReceive

\* Where the loop is when a step method is about to run.
LEMMA AtStepTells ==
    ASSUME todo \in Rests, NEW s, AtStep(s)
    PROVE  /\ held = Nothing
           /\ s = "capture" => todo = StepOnce
           /\ s = "encode" => todo = FromEncode
           /\ s = "send" => todo = FromSend
           /\ s = "receive" => todo = FromReceive
           /\ s = "receive_and_play" => todo = ThenReceive
           /\ s = "decode" => todo \in {FromDecode, DecodeThenReceive}
           /\ s = "playback" => todo \in {FromPlayback, OutputPass}
           /\ Tail(todo) \in Rests
<1>1. todo # <<>> /\ Head(todo) = s /\ held = Nothing
  BY DEF AtStep
<1>2. Tail(todo) \in Rests
  BY <1>1, RestsInTurn DEF Rests
<1> QED
  BY <1>1, <1>2, RestsInTurn DEF Rests

LEMMA InitPass ==
    ASSUME Init
    PROVE  PassInv
  BY DEF Init, PassInv, OneFrameAtATime, OnlyBefore, Rests

\* A pass begins with nothing between the stages.
LEMMA BeginPassKeepsPass ==
    ASSUME OneFrameAtATime, driver = "runtime", BeginPass
    PROVE  OneFrameAtATime'
<1>1. /\ held = Nothing /\ todo = <<>> /\ todo' \in {StepOnce, OutputPass}
      /\ UNCHANGED <<held, upstream, downstream>>
  BY DEF BeginPass, Passes
<1>2. /\ encode_queue = <<>> /\ send_queue = <<>> /\ decode_queue = <<>> /\ playback_queue = <<>>
  BY <1>1, RestsDiffer DEF OneFrameAtATime, OnlyBefore
<1> QED
  BY <1>1, <1>2 DEF OneFrameAtATime, OnlyBefore, Rests, upstream, downstream

\* A step method with nothing to do goes on to the next.
LEMMA StepDoneKeepsPass ==
    ASSUME OneFrameAtATime, StepDone, UNCHANGED <<upstream, downstream>>,
           \/ AtStep("capture")
           \/ AtStep("encode") /\ encode_queue = <<>>
           \/ AtStep("send") /\ send_queue = <<>>
           \/ AtStep("receive") \/ AtStep("receive_and_play")
           \/ AtStep("decode") /\ decode_queue = <<>>
           \/ AtStep("playback") /\ playback_queue = <<>>
    PROVE  OneFrameAtATime'
<1>1. todo \in Rests
  BY DEF OneFrameAtATime
<1>2. /\ todo' = Tail(todo) /\ held' = Nothing /\ todo' \in Rests
      /\ UNCHANGED <<encode_queue, send_queue, decode_queue, playback_queue>>
  BY <1>1, AtStepTells DEF StepDone, upstream, downstream
<1>3. /\ encode_queue = <<>> /\ send_queue = <<>> /\ decode_queue = <<>> /\ playback_queue = <<>>
  <2>1. /\ todo = FromEncode => encode_queue = <<>>
        /\ todo = FromSend => send_queue = <<>>
        /\ todo = FromDecode => decode_queue = <<>>
        /\ todo = FromPlayback => playback_queue = <<>>
    BY <1>1, AtStepTells, RestsInTurn DEF AtStep
  <2> QED
    BY <2>1 DEF OneFrameAtATime, OnlyBefore
<1> QED
  BY <1>2, <1>3 DEF OneFrameAtATime, OnlyBefore

LEMMA CaptureFrameKeepsPass ==
    ASSUME OneFrameAtATime, UpstreamTyped, CaptureFrame
    PROVE  OneFrameAtATime'
<1>1. todo = StepOnce /\ held = Nothing /\ todo' = FromEncode /\ held' = Nothing
  BY AtStepTells, RestsInTurn DEF OneFrameAtATime, CaptureFrame, StepDone
<1>2. /\ encode_queue = <<>> /\ send_queue = <<>> /\ decode_queue = <<>> /\ playback_queue = <<>>
  BY <1>1, RestsInTurn DEF OneFrameAtATime, OnlyBefore
<1>3. UNCHANGED <<send_queue, decode_queue, playback_queue>>
  BY DEF CaptureFrame, downstream
<1>4. encode_queue' = <<>> \/ Len(encode_queue') = 1
  <2>1. captured + 1 \in Nat
    BY DEF UpstreamTyped
  <2>2. encode_queue' \in {encode_queue, Append(<<>>, captured + 1)}
    BY <1>2 DEF CaptureFrame
  <2> QED
    BY <1>2, <2>1, <2>2, EmptyQueue, PutLast
<1> QED
  BY <1>1, <1>2, <1>3, <1>4 DEF OneFrameAtATime, OnlyBefore, Rests

\* Taking the only frame of a queue leaves it empty.
LEMMA OnlyFrame ==
    ASSUME NEW q \in Seq(Nat), q # <<>>, Len(q) = 1
    PROVE  Tail(q) = <<>>
<1>1. Tail(q) \in Seq(Nat) /\ Len(Tail(q)) = 0
  BY TakeHead
<1> QED
  BY <1>1, EmptySeq

LEMMA EncodeKeepsPass ==
    ASSUME OneFrameAtATime, UpstreamTyped, Encode, encode_queue # <<>>
    PROVE  OneFrameAtATime'
<1>1. todo = FromEncode /\ held = Nothing /\ todo' = FromSend /\ held' = Nothing
  BY AtStepTells, RestsInTurn DEF OneFrameAtATime, Encode, StepDone
<1>2. /\ Len(encode_queue) = 1 /\ send_queue = <<>> /\ decode_queue = <<>> /\ playback_queue = <<>>
  BY <1>1, RestsInTurn DEF OneFrameAtATime, OnlyBefore
<1>3. UNCHANGED <<decode_queue, playback_queue>>
  BY DEF Encode, downstream
<1>4. encode_queue' = <<>>
  BY <1>2, OnlyFrame DEF Encode, UpstreamTyped
<1>5. Len(send_queue') = 1
  <2>1. Len(send_queue) # SendCapacity
    <3> SendCapacity \in Nat \ {0}
      BY PipelineAssumption
    <3> QED
      BY <1>2, EmptyQueue
  <2>2. send_queue' = Append(<<>>, Head(encode_queue))
    BY <1>2, <2>1 DEF Encode
  <2> QED
    BY <2>2, EmptyQueue, PutLast, TakeHead DEF UpstreamTyped
<1> QED
  BY <1>1, <1>2, <1>3, <1>4, <1>5 DEF OneFrameAtATime, OnlyBefore, Rests

LEMMA SendKeepsPass ==
    ASSUME OneFrameAtATime, UpstreamTyped, Send, send_queue # <<>>
    PROVE  OneFrameAtATime'
<1>1. todo = FromSend /\ held = Nothing /\ todo' = FromReceive /\ held' = Nothing
  BY AtStepTells, RestsInTurn DEF OneFrameAtATime, Send, StepDone
<1>2. /\ encode_queue = <<>> /\ Len(send_queue) = 1 /\ decode_queue = <<>> /\ playback_queue = <<>>
  BY <1>1, RestsInTurn DEF OneFrameAtATime, OnlyBefore
<1>3. UNCHANGED <<encode_queue, decode_queue, playback_queue>>
  BY DEF Send, downstream
<1>4. send_queue' = <<>>
  BY <1>2, OnlyFrame DEF Send, UpstreamTyped
<1> QED
  BY <1>1, <1>2, <1>3, <1>4 DEF OneFrameAtATime, OnlyBefore, Rests

LEMMA ReceiveTakeKeepsPass ==
    ASSUME OneFrameAtATime, ReceiveTake
    PROVE  OneFrameAtATime'
<1>1. /\ todo \in {FromReceive, ThenReceive} /\ held = Nothing
      /\ UNCHANGED todo /\ held'.stage = "receive"
  BY AtStepTells DEF OneFrameAtATime, ReceiveTake, Hold, Receives
<1>2. /\ encode_queue = <<>> /\ send_queue = <<>> /\ decode_queue = <<>> /\ playback_queue = <<>>
  BY <1>1, RestsInTurn DEF OneFrameAtATime, OnlyBefore
<1>3. UNCHANGED <<encode_queue, send_queue, decode_queue, playback_queue>>
  BY DEF ReceiveTake, upstream
<1> QED
  BY <1>1, <1>2, <1>3 DEF OneFrameAtATime, OnlyBefore

\* The frame received is the only one, and the step method that decodes it is next.
LEMMA ReceivePutKeepsPass ==
    ASSUME OneFrameAtATime, LineTyped, ReceivePut
    PROVE  OneFrameAtATime'
<1>1. /\ todo \in {FromReceive, ThenReceive} /\ decode_queue = <<>> /\ playback_queue = <<>>
      /\ encode_queue = <<>> /\ send_queue = <<>>
  <2>1. held.stage = "receive" /\ held # Nothing
    BY DEF ReceivePut, Holds, Nothing
  <2>2. todo \in {FromReceive, ThenReceive} /\ decode_queue = <<>> /\ playback_queue = <<>>
    BY <2>1 DEF OneFrameAtATime
  <2> QED
    BY <2>2, RestsInTurn DEF OneFrameAtATime, OnlyBefore
<1>2. held' = Nothing /\ UNCHANGED <<encode_queue, send_queue, playback_queue>>
  BY DEF ReceivePut, upstream
<1>3. CASE HasRoom(decode_queue, DecodeCapacity)
  <2>1. Len(decode_queue') = 1
    BY <1>1, <1>3, EmptyQueue, PutLast DEF ReceivePut, LineTyped
  <2>2. todo' = FromDecode
    <3>1. \/ Head(todo) = "receive" /\ Tail(todo) = FromDecode
          \/ Head(todo) = "receive_and_play" /\ Tail(todo) = <<>>
      BY <1>1, RestsInTurn
    <3>2. <<>> \o FromDecode = FromDecode /\ <<"decode", "playback">> \o <<>> = FromDecode
      BY DEF FromDecode
    <3>3. todo' = (IF Head(todo) = "receive_and_play"
                   THEN <<"decode", "playback">> ELSE <<>>) \o Tail(todo)
      BY <1>3 DEF ReceivePut
    <3> QED
      BY <3>1, <3>2, <3>3
  <2> QED
    BY <1>1, <1>2, <2>1, <2>2 DEF OneFrameAtATime, OnlyBefore, Rests
<1>4. CASE ~HasRoom(decode_queue, DecodeCapacity)
  <2>1. UNCHANGED decode_queue /\ todo' = Tail(todo)
    BY <1>4 DEF ReceivePut
  <2>2. todo' \in Rests
    <3>1. Tail(FromReceive) = FromDecode /\ Tail(ThenReceive) = <<>>
      BY RestsInTurn
    <3>2. FromDecode \in Rests /\ <<>> \in Rests
      BY Zenon DEF Rests
    <3> QED
      BY <1>1, <2>1, <3>1, <3>2
  <2> QED
    BY <1>1, <1>2, <2>1, <2>2 DEF OneFrameAtATime, OnlyBefore
<1> QED
  BY <1>3, <1>4

LEMMA DecodeTakeKeepsPass ==
    ASSUME OneFrameAtATime, LineTyped, DecodeTake, decode_queue # <<>>
    PROVE  OneFrameAtATime'
<1>1. todo = FromDecode /\ Len(decode_queue) = 1 /\ UNCHANGED todo /\ held'.stage = "decode"
  BY DEF OneFrameAtATime, OnlyBefore, DecodeTake, Hold
<1>2. encode_queue = <<>> /\ send_queue = <<>> /\ playback_queue = <<>>
  BY <1>1, RestsInTurn DEF OneFrameAtATime, OnlyBefore
<1>3. UNCHANGED <<encode_queue, send_queue, playback_queue>>
  BY DEF DecodeTake, upstream
<1>4. decode_queue' = <<>>
  BY <1>1, OnlyFrame DEF DecodeTake, LineTyped
<1> QED
  BY <1>1, <1>2, <1>3, <1>4 DEF OneFrameAtATime, OnlyBefore

LEMMA DecodePutKeepsPass ==
    ASSUME OneFrameAtATime, LineTyped, DecodePut
    PROVE  OneFrameAtATime'
<1>1. /\ todo = FromDecode /\ decode_queue = <<>> /\ playback_queue = <<>>
      /\ encode_queue = <<>> /\ send_queue = <<>>
  <2>1. held.stage = "decode" /\ held # Nothing
    BY DEF DecodePut, Holds, Nothing
  <2>2. todo = FromDecode /\ decode_queue = <<>> /\ playback_queue = <<>>
    BY <2>1 DEF OneFrameAtATime
  <2> QED
    BY <2>2, RestsInTurn DEF OneFrameAtATime, OnlyBefore
<1>2. /\ todo' = FromPlayback /\ held' = Nothing
      /\ UNCHANGED <<encode_queue, send_queue, decode_queue>>
  BY <1>1, RestsInTurn DEF DecodePut, StepDone, upstream
<1>3. playback_queue' = <<>> \/ Len(playback_queue') = 1
  BY <1>1, EmptyQueue, PutLast DEF DecodePut, LineTyped
<1> QED
  BY <1>1, <1>2, <1>3 DEF OneFrameAtATime, OnlyBefore, Rests

LEMMA PlaybackTakeKeepsPass ==
    ASSUME OneFrameAtATime, LineTyped, PlaybackTake, playback_queue # <<>>
    PROVE  OneFrameAtATime'
<1>1. todo = FromPlayback /\ Len(playback_queue) = 1 /\ UNCHANGED todo /\ held'.stage = "playback"
  BY DEF OneFrameAtATime, OnlyBefore, PlaybackTake, Hold
<1>2. encode_queue = <<>> /\ send_queue = <<>> /\ decode_queue = <<>>
  BY <1>1, RestsInTurn DEF OneFrameAtATime, OnlyBefore
<1>3. UNCHANGED <<encode_queue, send_queue, decode_queue>>
  BY DEF PlaybackTake, upstream
<1>4. playback_queue' = <<>>
  BY <1>1, OnlyFrame DEF PlaybackTake, LineTyped
<1> QED
  BY <1>1, <1>2, <1>3, <1>4 DEF OneFrameAtATime, OnlyBefore

\* The frame played, or given up by a step that raises, was the only one.
LEMMA LastFrameKeepsPass ==
    ASSUME OneFrameAtATime, Play \/ StepRaises
    PROVE  OneFrameAtATime'
<1>1. held.stage \in {"decode", "playback"} /\ held' = Nothing
  BY DEF Play, StepRaises, Holds, StepDone
<1>2. /\ decode_queue = <<>> /\ playback_queue = <<>>
      /\ todo \in {FromDecode, FromPlayback}
  BY <1>1 DEF OneFrameAtATime, Nothing
<1>3. encode_queue = <<>> /\ send_queue = <<>>
  BY <1>2, RestsInTurn DEF OneFrameAtATime, OnlyBefore
<1>4. UNCHANGED <<encode_queue, send_queue, decode_queue, playback_queue>>
  BY DEF Play, StepRaises, upstream, downstream
<1>5. todo' \in Rests
  <2>1. todo' \in {Tail(todo), <<>>}
    BY DEF Play, StepDone, StepRaises
  <2>2. Tail(todo) \in Rests /\ <<>> \in Rests
    <3>1. Tail(FromDecode) = FromPlayback /\ Tail(FromPlayback) = <<>>
      BY RestsInTurn
    <3>2. FromPlayback \in Rests /\ <<>> \in Rests
      BY Zenon DEF Rests
    <3> QED
      BY <1>2, <3>1, <3>2
  <2> QED
    BY <2>1, <2>2
<1> QED
  BY <1>1, <1>2, <1>3, <1>4, <1>5 DEF OneFrameAtATime, OnlyBefore

\* Who is not the runtime's loop only takes frames out of the queues behind the transport.
LEMMA OutsideKeepsPass ==
    ASSUME OneFrameAtATime, UpstreamTyped, LineTyped,
           UNCHANGED <<todo, held, encode_queue, send_queue>>,
           decode_queue' \in {decode_queue, Emptied(decode_queue)},
           playback_queue' \in {playback_queue, Emptied(playback_queue)}
    PROVE  OneFrameAtATime'
<1>1. ASSUME NEW q \in Seq(Nat), q = <<>> \/ Len(q) = 1
      PROVE  Emptied(q) = <<>>
  BY <1>1, OnlyFrame DEF Emptied
<1>2. decode_queue' \in {decode_queue, <<>>} /\ playback_queue' \in {playback_queue, <<>>}
  BY <1>1 DEF LineTyped, OneFrameAtATime, OnlyBefore
<1> QED
  BY <1>2 DEF OneFrameAtATime, OnlyBefore

LEMMA NextKeepsPass ==
    ASSUME PassInv, UpstreamTyped, LineTyped, [Next]_vars
    PROVE  PassInv'
<1>0. driver' = driver
  <2>1. CASE RunStep
    BY <2>1 DEF RunStep, BeginPass, CaptureNothing, CaptureFrame, Encode, Send, ReceiveNothing,
        ReceiveTake, ReceivePut, DecodeTake, DecodePut, PlaybackTake, Play, StepRaises, setup
  <2>2. CASE Deliver
    BY <2>2 DEF Deliver, setup
  <2>3. ASSUME NEW a \in Threads, InterruptStart(a) \/ Interrupt(a)
        PROVE  driver' = driver
    BY <2>3 DEF InterruptStart, Interrupt, InterruptDrainPlayback, InterruptDrainDecode,
                InterruptDrainInbound, InterruptRecord, Drain, setup
  <2>4. CASE UNCHANGED vars
    BY <2>4 DEF vars, setup
  <2> QED
    BY <2>1, <2>2, <2>3, <2>4 DEF Next
<1> SUFFICES ASSUME driver = "runtime", OneFrameAtATime
             PROVE  OneFrameAtATime'
  BY <1>0 DEF PassInv
<1>1. CASE BeginPass
  BY <1>1, BeginPassKeepsPass
<1>2. CASE CaptureNothing
  BY <1>2, StepDoneKeepsPass DEF CaptureNothing
<1>3. CASE CaptureFrame
  BY <1>3, CaptureFrameKeepsPass
<1>4. CASE Encode
  <2>1. CASE encode_queue = <<>>
    BY <1>4, <2>1, StepDoneKeepsPass DEF Encode
  <2> QED
    BY <1>4, <2>1, EncodeKeepsPass
<1>5. CASE Send
  <2>1. CASE send_queue = <<>>
    BY <1>5, <2>1, StepDoneKeepsPass DEF Send
  <2> QED
    BY <1>5, <2>1, SendKeepsPass
<1>6. CASE ReceiveNothing
  BY <1>6, StepDoneKeepsPass DEF ReceiveNothing, Receives
<1>7. CASE ReceiveTake \/ ReceivePut
  BY <1>7, ReceiveTakeKeepsPass, ReceivePutKeepsPass
<1>8. CASE DecodeTake
  <2>1. CASE decode_queue = <<>>
    BY <1>8, <2>1, StepDoneKeepsPass DEF DecodeTake, downstream
  <2> QED
    BY <1>8, <2>1, DecodeTakeKeepsPass
<1>9. CASE DecodePut
  BY <1>9, DecodePutKeepsPass
<1>10. CASE PlaybackTake
  <2>1. CASE playback_queue = <<>>
    BY <1>10, <2>1, StepDoneKeepsPass DEF PlaybackTake, downstream
  <2> QED
    BY <1>10, <2>1, PlaybackTakeKeepsPass
<1>11. CASE Play \/ StepRaises
  BY <1>11, LastFrameKeepsPass
<1>12. CASE Deliver
  BY <1>12, OutsideKeepsPass DEF Deliver, upstream
<1>13. ASSUME NEW a \in Threads, InterruptStart(a) \/ Interrupt(a)
       PROVE  OneFrameAtATime'
  <2>1. UNCHANGED <<todo, held, encode_queue, send_queue>>
    BY <1>13 DEF InterruptStart, Interrupt, InterruptDrainPlayback, InterruptDrainDecode,
                 InterruptDrainInbound, InterruptRecord, Drain, upstream
  <2>2. /\ decode_queue' \in {decode_queue, Emptied(decode_queue)}
        /\ playback_queue' \in {playback_queue, Emptied(playback_queue)}
    BY <1>13 DEF InterruptStart, Interrupt, InterruptDrainPlayback, InterruptDrainDecode,
                 InterruptDrainInbound, InterruptRecord, downstream
  <2> QED
    BY <2>1, <2>2, OutsideKeepsPass
<1>14. CASE UNCHANGED vars
  BY <1>14, OutsideKeepsPass DEF vars, upstream, downstream
<1> QED
  BY <1>1, <1>2, <1>3, <1>4, <1>5, <1>6, <1>7, <1>8, <1>9, <1>10, <1>11, <1>12, <1>13, <1>14
  DEF Next, RunStep

\* Between two passes of the runtime's loop nothing is left between the stages.
LEMMA PassLeavesNothing ==
    ASSUME PassInv
    PROVE  NothingLeftBetweenPasses
<1> SUFFICES ASSUME driver = "runtime", todo = <<>>
             PROVE  /\ held = Nothing
                    /\ encode_queue = <<>> /\ send_queue = <<>>
                    /\ decode_queue = <<>> /\ playback_queue = <<>>
  BY DEF NothingLeftBetweenPasses
<1> QED
  BY RestsDiffer DEF PassInv, OneFrameAtATime, OnlyBefore

\* Every frame the server delivered is in one queue, in the hands of a step or
\* in one count, and between the runtime's passes none is left behind.
THEOREM SpecFramesAccounted == Spec => []FramesAccounted
<1>1. Init => LineInv /\ UpstreamInv /\ PassInv
  BY InitLine, InitUpstream, InitPass
<1>2. LineInv /\ UpstreamInv /\ PassInv /\ [Next]_vars => (LineInv /\ UpstreamInv /\ PassInv)'
  BY NextKeepsLine, NextKeepsUpstream, NextKeepsPass DEF LineInv, UpstreamInv
<1>3. LineInv /\ UpstreamInv /\ PassInv => FramesAccounted
  BY PassLeavesNothing DEF LineInv, FramesAccounted
<1> QED
  BY <1>1, <1>2, <1>3, PTL DEF Spec

-----------------------------------------------------------------------------
(* What an interrupt leaves behind. *)

\* Frames between the transport's queue and the player.
Between == Members(decode_queue) \cup Members(playback_queue)
           \cup HandOf("receive") \cup HandOf("decode") \cup HandOf("playback")

\* An interrupt that has come to its end, or has returned, has emptied the
\* transport's queue of all that was there when it began.
SilenceInv ==
    /\ interrupters \subseteq Threads
    /\ interrupt \in [Threads -> {"no", "playback", "decode", "inbound", "record"}]
    /\ asked \in [Threads -> Nat] /\ silenced \in Nat
    /\ silenced <= delivered /\ \A a \in Threads : asked[a] <= delivered
    /\ \A a \in Threads \ interrupters : interrupt[a] = "no"
    /\ \A x \in Members(inbound_queue) :
           /\ silenced < x
           /\ \A a \in Threads : interrupt[a] = "record" => asked[a] < x

\* An interrupt on the runtime thread has nothing in anyone's hands, and finds
\* empty each queue it has left.
BargeInInv ==
    interrupters = {"run"} =>
        /\ interrupt["run"] # "no" => held = Nothing
        /\ interrupt["run"] \in {"decode", "inbound", "record"} => playback_queue = <<>>
        /\ interrupt["run"] \in {"inbound", "record"} => decode_queue = <<>>
        /\ \A x \in Between : silenced < x

\* A frame moves on from the transport's queue, or out; only the server adds one.
LEMMA FramesMoveOn ==
    ASSUME LineTyped, [Next]_vars
    PROVE  /\ Between' \subseteq Between \cup Members(inbound_queue)
           /\ \/ Members(inbound_queue)' \subseteq Members(inbound_queue) /\ delivered' = delivered
              \/ /\ Members(inbound_queue)' = Members(inbound_queue) \cup {delivered + 1}
                 /\ delivered' = delivered + 1
<1>0. /\ inbound_queue \in Seq(Nat) /\ decode_queue \in Seq(Nat) /\ playback_queue \in Seq(Nat)
      /\ held.frame \in Nat /\ delivered \in Nat
  BY DEF LineTyped
<1>1. CASE LineUnchanged
  BY <1>1 DEF LineUnchanged, line, downstream, Between, HandOf
<1>2. ASSUME NEW s, NEW q \in Seq(Nat), TakesInto(s, q)
      PROVE  /\ \A r : HandOf(r) = {} \/ r = "none"
             /\ \A r : HandOf(r)' \subseteq Members(q)
             /\ Members(Tail(q)) \subseteq Members(q) /\ delivered' = delivered
  <2>1. Head(q) \in Members(q) /\ Members(Tail(q)) \subseteq Members(q)
    BY <1>2, TakeHead DEF TakesInto
  <2> QED
    BY <1>2, <2>1 DEF TakesInto, HandOf
<1>3. CASE ReceiveTake
  BY <1>0, <1>2, <1>3, ReceiveTakeEffect DEF Between
<1>4. CASE DecodeTake /\ decode_queue # <<>>
  BY <1>0, <1>2, <1>4, DecodeTakeEffect DEF Between
<1>5. CASE PlaybackTake /\ playback_queue # <<>>
  BY <1>0, <1>2, <1>5, PlaybackTakeEffect DEF Between
<1>6. ASSUME NEW s \in Steps, PutsDown(s)
      PROVE  (\A r \in Steps : HandOf(r)' = {}) /\ HandOf(s) = {held.frame} /\ delivered' = delivered
  BY <1>6 DEF PutsDown, HandOf, Nothing, Steps
<1>7. CASE ReceivePut
  <2>1. Members(Append(decode_queue, held.frame)) = Members(decode_queue) \cup {held.frame}
    BY <1>0, PutLast
  <2>2. /\ PutsDown("receive") /\ UNCHANGED <<inbound_queue, playback_queue>>
        /\ decode_queue' \in {decode_queue, Append(decode_queue, held.frame)}
    BY <1>7, ReceivePutEffect
  <2>3. /\ \A r \in Steps : HandOf(r)' = {}
        /\ HandOf("receive") = {held.frame} /\ delivered' = delivered
    BY <1>6, <2>2 DEF Steps
  <2> QED
    BY <2>1, <2>2, <2>3 DEF Between, Steps
<1>8. CASE DecodePut
  <2>1. Members(Append(playback_queue, held.frame)) = Members(playback_queue) \cup {held.frame}
    BY <1>0, PutLast
  <2>2. /\ PutsDown("decode") /\ UNCHANGED <<inbound_queue, decode_queue>>
        /\ playback_queue' \in {playback_queue, Append(playback_queue, held.frame)}
    BY <1>8, DecodePutEffect
  <2>3. /\ \A r \in Steps : HandOf(r)' = {}
        /\ HandOf("decode") = {held.frame} /\ delivered' = delivered
    BY <1>6, <2>2 DEF Steps
  <2> QED
    BY <2>1, <2>2, <2>3 DEF Between, Steps
<1>9. CASE Play
  <2>1. PutsDown("playback") /\ UNCHANGED downstream
    BY <1>9, PlayEffect
  <2>2. (\A r \in Steps : HandOf(r)' = {}) /\ delivered' = delivered
    BY <1>6, <2>1 DEF Steps
  <2> QED
    BY <2>1, <2>2 DEF Between, Steps, downstream
<1>10. CASE StepRaises
  <2>1. held' = Nothing /\ UNCHANGED <<downstream, delivered>>
    BY <1>10, StepRaisesEffect
  <2>2. \A r \in Steps : HandOf(r)' = {}
    BY <2>1 DEF HandOf, Nothing, Steps
  <2> QED
    BY <2>1, <2>2 DEF Between, Steps, downstream
<1>11. CASE Deliver
  <2>0. delivered + 1 \in Nat
    BY <1>0
  <2>1. Members(Append(inbound_queue, delivered + 1)) = Members(inbound_queue) \cup {delivered + 1}
    BY <1>0, <2>0, PutLast
  <2> QED
    BY <1>11, <2>1, DeliverEffect DEF Between, HandOf
<1>12. ASSUME NEW a \in Threads,
              InterruptDrainPlayback(a) \/ InterruptDrainDecode(a) \/ InterruptDrainInbound(a)
       PROVE  /\ Between' \subseteq Between /\ delivered' = delivered
              /\ Members(inbound_queue)' \subseteq Members(inbound_queue)
  <2>1. /\ UNCHANGED <<held, delivered>>
        /\ playback_queue' \in {playback_queue, Emptied(playback_queue)}
        /\ decode_queue' \in {decode_queue, Emptied(decode_queue)}
        /\ inbound_queue' \in {inbound_queue, Emptied(inbound_queue)}
    BY <1>12 DEF InterruptDrainPlayback, InterruptDrainDecode, InterruptDrainInbound, Drain
  <2>2. /\ Members(playback_queue)' \subseteq Members(playback_queue)
        /\ Members(decode_queue)' \subseteq Members(decode_queue)
        /\ Members(inbound_queue)' \subseteq Members(inbound_queue)
    BY <1>0, <2>1, EmptiedQueue
  <2> QED
    BY <2>1, <2>2 DEF Between, HandOf
<1>13. CASE \/ BeginPass \/ CaptureNothing \/ CaptureFrame \/ Encode \/ Send \/ ReceiveNothing
            \/ \E a \in Threads : InterruptStart(a) \/ InterruptRecord(a)
            \/ UNCHANGED vars
            \/ DecodeTake /\ decode_queue = <<>>
            \/ PlaybackTake /\ playback_queue = <<>>
  BY <1>1, <1>13, OthersLeaveTheLine, TakesNothing
<1> QED
  BY <1>3, <1>4, <1>5, <1>7, <1>8, <1>9, <1>10, <1>11, <1>12, <1>13
  DEF Next, RunStep, Interrupt

\* Only an interrupt changes where the interrupts are.
LEMMA OthersLeaveInterrupts ==
    ASSUME RunStep \/ Deliver \/ UNCHANGED vars
    PROVE  UNCHANGED <<interrupters, interrupt, asked, silenced>>
<1> USE DEF setup, stopping
<1>1. CASE BeginPass \/ CaptureNothing \/ ReceiveNothing \/ Deliver \/ ReceiveTake \/ ReceivePut
  BY <1>1 DEF BeginPass, CaptureNothing, ReceiveNothing, Deliver, ReceiveTake, ReceivePut
<1>2. CASE DecodeTake \/ DecodePut \/ PlaybackTake \/ Play \/ StepRaises
  BY <1>2 DEF DecodeTake, DecodePut, PlaybackTake, Play, StepRaises
<1>3. CASE CaptureFrame \/ Encode \/ Send
  BY <1>3 DEF CaptureFrame, Encode, Send
<1>4. CASE UNCHANGED vars
  BY <1>4 DEF vars
<1> QED
  BY <1>1, <1>2, <1>3, <1>4 DEF RunStep

LEMMA InitSilence ==
    ASSUME Init
    PROVE  SilenceInv /\ BargeInInv
<1>1. /\ Members(inbound_queue) = {} /\ Members(decode_queue) = {} /\ Members(playback_queue) = {}
      /\ \A s \in Steps : HandOf(s) = {}
  BY EmptyQueue DEF Init, HandOf, Nothing, Steps
<1>2. interrupters \subseteq Threads
  BY PipelineAssumption DEF Init, Threads
<1>3. SilenceInv
  BY <1>1, <1>2 DEF Init, SilenceInv
<1>4. BargeInInv
  BY <1>1 DEF Init, BargeInInv, Between, Threads, Steps
<1> QED
  BY <1>3, <1>4

\* What every step but an interrupt's does to these promises: a frame that
\* arrives is newer than every interrupt that began.
LEMMA OthersKeepSilence ==
    ASSUME LineInv, SilenceInv, [Next]_vars, UNCHANGED <<interrupters, interrupt, asked, silenced>>
    PROVE  SilenceInv'
<1>1. \/ Members(inbound_queue)' \subseteq Members(inbound_queue) /\ delivered' = delivered
      \/ /\ Members(inbound_queue)' = Members(inbound_queue) \cup {delivered + 1}
         /\ delivered' = delivered + 1
  BY FramesMoveOn DEF LineInv
<1>2. delivered \in Nat
  BY DEF LineInv, LineTyped
<1>3. /\ silenced <= delivered /\ silenced \in Nat
      /\ \A a \in Threads : asked[a] <= delivered /\ asked[a] \in Nat
  BY DEF SilenceInv
<1>4. /\ silenced <= delivered' /\ silenced < delivered + 1
      /\ \A a \in Threads : asked[a] <= delivered' /\ asked[a] < delivered + 1
  BY <1>1, <1>2, <1>3
<1> QED
  BY <1>1, <1>4 DEF SilenceInv

LEMMA InterruptKeepsSilence ==
    ASSUME LineInv, SilenceInv, NEW a \in Threads, InterruptStart(a) \/ Interrupt(a)
    PROVE  SilenceInv'
<1>1. delivered \in Nat /\ UNCHANGED <<interrupters, delivered>>
  BY DEF LineInv, LineTyped, InterruptStart, Interrupt, InterruptDrainPlayback, setup,
         InterruptDrainDecode, InterruptDrainInbound, InterruptRecord, Drain
<1>2. Members(inbound_queue)' \subseteq Members(inbound_queue)
  <2>1. inbound_queue \in Seq(Nat)
    BY DEF LineInv, LineTyped
  <2>2. inbound_queue' \in {inbound_queue, Emptied(inbound_queue)}
    BY DEF InterruptStart, Interrupt, InterruptDrainPlayback, downstream,
           InterruptDrainDecode, InterruptDrainInbound, InterruptRecord
  <2> QED
    BY <2>1, <2>2, EmptiedQueue
<1>3. CASE InterruptStart(a)
  <2>1. /\ a \in interrupters
        /\ interrupt' = [interrupt EXCEPT ![a] = "playback"]
        /\ asked' = [asked EXCEPT ![a] = delivered] /\ UNCHANGED silenced
    BY <1>3 DEF InterruptStart
  <2> QED
    BY <1>1, <1>2, <2>1 DEF SilenceInv
<1>4. CASE InterruptDrainPlayback(a) \/ InterruptDrainDecode(a) \/ InterruptDrainInbound(a)
  <2>1. /\ interrupt[a] # "no" /\ UNCHANGED <<asked, silenced>>
        /\ \/ UNCHANGED interrupt
           \/ \E next \in {"decode", "inbound"} : interrupt' = [interrupt EXCEPT ![a] = next]
           \/ interrupt' = [interrupt EXCEPT ![a] = "record"] /\ inbound_queue = <<>>
    BY <1>4 DEF InterruptDrainPlayback, InterruptDrainDecode, InterruptDrainInbound, Drain
  <2>2. a \in interrupters
    BY <2>1 DEF SilenceInv
  <2>3. interrupt' \in [Threads -> {"no", "playback", "decode", "inbound", "record"}]
    BY <2>1 DEF SilenceInv
  <2>4. \A b \in Threads \ interrupters : interrupt'[b] = "no"
    BY <2>1, <2>2 DEF SilenceInv
  <2>5. \A x \in Members(inbound_queue)' :
            \A b \in Threads : interrupt'[b] = "record" => asked[b] < x
    <3>1. CASE inbound_queue = <<>>
      BY <1>2, <3>1, EmptyQueue
    <3>2. CASE inbound_queue # <<>>
      BY <1>2, <2>1, <3>2 DEF SilenceInv
    <3> QED
      BY <3>1, <3>2
  <2> QED
    BY <1>1, <1>2, <2>1, <2>3, <2>4, <2>5 DEF SilenceInv
<1>5. CASE InterruptRecord(a)
  <2>1. /\ interrupt[a] = "record"
        /\ interrupt' = [interrupt EXCEPT ![a] = "no"]
        /\ silenced' \in {asked[a], silenced}
        /\ asked' = [asked EXCEPT ![a] = 0]
    BY <1>5 DEF InterruptRecord
  <2>2. \A x \in Members(inbound_queue) : silenced' < x
    BY <2>1 DEF SilenceInv
  <2>3. silenced' \in Nat /\ silenced' <= delivered
    BY <2>1 DEF SilenceInv
  <2> QED
    BY <1>1, <1>2, <2>1, <2>2, <2>3 DEF SilenceInv
<1> QED
  BY <1>3, <1>4, <1>5 DEF Interrupt

LEMMA NextKeepsSilence ==
    ASSUME LineInv, SilenceInv, [Next]_vars
    PROVE  SilenceInv'
  BY OthersKeepSilence, OthersLeaveInterrupts, InterruptKeepsSilence DEF Next

\* While the runtime thread interrupts it runs no step, and only the server adds frames.
LEMMA OthersKeepBargeIn ==
    ASSUME LineInv, SilenceInv, BargeInInv, [Next]_vars,
           RunStep \/ Deliver \/ UNCHANGED vars
    PROVE  BargeInInv'
<1>1. UNCHANGED <<interrupters, interrupt, asked, silenced>>
  BY OthersLeaveInterrupts
<1>2. Between' \subseteq Between \cup Members(inbound_queue)
  BY FramesMoveOn DEF LineInv
<1>3. \A x \in Members(inbound_queue) : silenced < x
  BY DEF SilenceInv
<1>4. CASE interrupt["run"] = "no"
  BY <1>1, <1>2, <1>3, <1>4 DEF BargeInInv
<1>5. CASE interrupt["run"] # "no"
  <2>1. ~RunStep
    BY <1>5 DEF RunStep, BeginPass, CaptureNothing, CaptureFrame, Encode, Send, ReceiveNothing,
        ReceiveTake, ReceivePut, DecodeTake, DecodePut, PlaybackTake, Play, StepRaises,
        AtStep, Holds, Running
  <2>2. UNCHANGED <<held, decode_queue, playback_queue>>
    BY <2>1 DEF Deliver, vars, downstream
  <2> QED
    BY <1>1, <1>2, <1>3, <2>2 DEF BargeInInv
<1> QED
  BY <1>4, <1>5

LEMMA InterruptKeepsBargeIn ==
    ASSUME LineInv, SilenceInv, BargeInInv, NEW a \in Threads, InterruptStart(a) \/ Interrupt(a)
    PROVE  BargeInInv'
<1> SUFFICES ASSUME interrupters = {"run"}, interrupters' = interrupters
             PROVE  BargeInInv'
  BY DEF BargeInInv, InterruptStart, Interrupt, InterruptDrainPlayback, setup,
         InterruptDrainDecode, InterruptDrainInbound, InterruptRecord, Drain
<1>0. a = "run" /\ "run" \in Threads /\ interrupt \in [Threads -> {"no", "playback", "decode", "inbound", "record"}]
  <2>1. a \notin interrupters => interrupt[a] = "no"
    BY DEF SilenceInv
  <2>2. interrupt[a] = "no" => a \in interrupters
    BY DEF InterruptStart, Interrupt, InterruptDrainPlayback, InterruptDrainDecode,
           InterruptDrainInbound, InterruptRecord, Drain
  <2> QED
    BY <2>1, <2>2 DEF Threads, SilenceInv
<1>1. CASE InterruptStart(a)
  <2>1. held = Nothing /\ UNCHANGED <<held, downstream, silenced>>
        /\ interrupt' = [interrupt EXCEPT !["run"] = "playback"]
    BY <1>0, <1>1 DEF InterruptStart, AtStep
  <2> QED
    BY <1>0, <2>1 DEF BargeInInv, Between, HandOf, downstream
<1>2. CASE InterruptDrainPlayback(a) \/ InterruptDrainDecode(a) \/ InterruptDrainInbound(a)
  <2>1. /\ UNCHANGED <<held, silenced>> /\ interrupt["run"] # "no"
        /\ playback_queue' \in {playback_queue, Emptied(playback_queue)}
        /\ decode_queue' \in {decode_queue, Emptied(decode_queue)}
        /\ \/ UNCHANGED interrupt
           \/ /\ interrupt' = [interrupt EXCEPT !["run"] = "decode"]
              /\ playback_queue = <<>>
           \/ /\ interrupt["run"] = "decode" /\ decode_queue = <<>>
              /\ interrupt' = [interrupt EXCEPT !["run"] = "inbound"]
           \/ /\ interrupt["run"] = "inbound"
              /\ interrupt' = [interrupt EXCEPT !["run"] = "record"]
    BY <1>0, <1>2 DEF InterruptDrainPlayback, InterruptDrainDecode, InterruptDrainInbound, Drain
  <2>2. /\ playback_queue = <<>> => playback_queue' = <<>>
        /\ decode_queue = <<>> => decode_queue' = <<>>
    BY <2>1 DEF Emptied
  <2>3. Between' \subseteq Between
    <3>1. playback_queue \in Seq(Nat) /\ decode_queue \in Seq(Nat)
      BY DEF LineInv, LineTyped
    <3>2. /\ Members(playback_queue)' \subseteq Members(playback_queue)
          /\ Members(decode_queue)' \subseteq Members(decode_queue)
      BY <2>1, <3>1, EmptiedQueue
    <3> QED
      BY <2>1, <3>2 DEF Between, HandOf
  <2> QED
    BY <1>0, <2>1, <2>2, <2>3 DEF BargeInInv
<1>3. CASE InterruptRecord(a)
  <2>1. /\ interrupt["run"] = "record" /\ interrupt' = [interrupt EXCEPT !["run"] = "no"]
        /\ UNCHANGED <<held, downstream>>
    BY <1>0, <1>3 DEF InterruptRecord
  <2>2. held = Nothing /\ playback_queue = <<>> /\ decode_queue = <<>>
    BY <2>1 DEF BargeInInv
  <2>3. Between' = {}
    BY <2>1, <2>2, EmptyQueue DEF Between, HandOf, Nothing, downstream
  <2> QED
    BY <1>0, <2>1, <2>3 DEF BargeInInv
<1> QED
  BY <1>1, <1>2, <1>3 DEF Interrupt

LEMMA NextKeepsBargeIn ==
    ASSUME LineInv, SilenceInv, BargeInInv, [Next]_vars
    PROVE  BargeInInv'
  BY OthersKeepBargeIn, InterruptKeepsBargeIn DEF Next

\* What an interrupt can leave is between the transport's queue and the player.
LEMMA StaleIsBetween ==
    ASSUME SilenceInv
    PROVE  Stale \subseteq Between \cap 1 .. silenced
<1> SUFFICES ASSUME NEW f \in 1 .. silenced, Underway(f)
             PROVE  f \in Between
  BY DEF Stale
<1>1. f \notin Members(inbound_queue)
  BY DEF SilenceInv
<1>2. CASE HeldDownstream /\ held.frame = f
  BY <1>2 DEF HeldDownstream, Between, HandOf
<1>3. CASE \E queue \in {inbound_queue, decode_queue, playback_queue} :
              \E i \in DOMAIN queue : queue[i] = f
  BY <1>1, <1>3 DEF Between, Members
<1> QED
  BY <1>2, <1>3 DEF Underway

\* In the runtime's loop there is at most one frame there.
LEMMA OneBetween ==
    ASSUME OneFrameAtATime, LineTyped
    PROVE  \E x : Between \subseteq {x}
<1>1. ASSUME NEW q \in Seq(Nat), Len(q) = 1
      PROVE  Members(q) \subseteq {q[1]}
  BY <1>1, LenProperties DEF Members
<1>2. decode_queue \in Seq(Nat) /\ playback_queue \in Seq(Nat)
  BY DEF LineTyped
<1>3. CASE held # Nothing
  <2>1. Members(decode_queue) = {} /\ Members(playback_queue) = {}
    BY <1>3, EmptyQueue DEF OneFrameAtATime
  <2>2. Between \subseteq {held.frame}
    BY <2>1 DEF Between, HandOf
  <2> QED
    BY <2>2
<1>4. CASE held = Nothing
  <2>1. HandOf("receive") = {} /\ HandOf("decode") = {} /\ HandOf("playback") = {}
    BY <1>4 DEF HandOf, Nothing
  <2>2. CASE decode_queue = <<>>
    BY <1>1, <1>2, <2>1, <2>2, EmptyQueue DEF OneFrameAtATime, OnlyBefore, Between
  <2>3. CASE decode_queue # <<>>
    <3>1. Len(decode_queue) = 1 /\ playback_queue = <<>>
      BY <2>3, RestsInTurn DEF OneFrameAtATime, OnlyBefore
    <3> QED
      BY <1>1, <1>2, <2>1, <3>1, EmptyQueue DEF Between
  <2> QED
    BY <2>2, <2>3
<1> QED
  BY <1>3, <1>4

LEMMA AtMostOneIsStale ==
    ASSUME LineTyped, PassInv, SilenceInv, BargeInInv
    PROVE  AtMostOneStaleFrame
<1>1. ASSUME driver = "runtime" PROVE Cardinality(Stale) <= 1
  <2>1. PICK x : Between \subseteq {x}
    BY <1>1, OneBetween DEF PassInv
  <2>2. Stale = {} \/ Stale = {x}
    BY <2>1, StaleIsBetween
  <2>3. Cardinality({x}) = 1
    BY FS_Singleton
  <2>4. Cardinality({}) = 0
    BY FS_EmptySet
  <2> QED
    BY <2>2, <2>3, <2>4
<1>2. ASSUME interrupters = {"run"} PROVE Stale = {}
  <2>1. \A x \in Between : silenced < x
    BY <1>2 DEF BargeInInv
  <2>2. \A f \in 1 .. silenced : ~(silenced < f)
    BY DEF SilenceInv
  <2> QED
    BY <2>1, <2>2, StaleIsBetween
<1> QED
  BY <1>1, <1>2 DEF AtMostOneStaleFrame

\* However interrupts and the runtime's steps interleave, an interrupt that has
\* returned leaves at most one frame that came before it, the one in the
\* runtime thread's hands, and a barge-in, which runs on that thread, none.
THEOREM SpecAtMostOneStaleFrame == Spec => []AtMostOneStaleFrame
<1> DEFINE IInv == LineInv /\ UpstreamInv /\ PassInv /\ SilenceInv /\ BargeInInv
<1>1. Init => IInv
  BY InitLine, InitUpstream, InitPass, InitSilence
<1>2. IInv /\ [Next]_vars => IInv'
  BY NextKeepsLine, NextKeepsUpstream, NextKeepsPass, NextKeepsSilence, NextKeepsBargeIn
  DEF LineInv, UpstreamInv
<1>3. IInv => AtMostOneStaleFrame
  BY AtMostOneIsStale DEF LineInv
<1> QED
  BY <1>1, <1>2, <1>3, PTL DEF Spec

============
