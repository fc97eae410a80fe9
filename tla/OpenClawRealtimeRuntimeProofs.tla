------------------- MODULE OpenClawRealtimeRuntimeProofs -------------------
(***************************************************************************)
(* What OpenClawRealtimeRuntime promises for every number of threads and   *)
(* websockets, however the threads' calls interleave with the network.     *)
(***************************************************************************)
EXTENDS OpenClawRealtimeRuntime, SequenceTheorems, TLAPS

\* The calls of every thread, the websockets they use and what is under way on them.
CallsTyped ==
    /\ ops \in [Threads -> Seq(Ops)]
    /\ handle \in [Threads -> Sockets \cup {None}]
    /\ inbox \in [Sockets -> Seq(Messages)]
    /\ ws \in Sockets \cup {None}
    /\ open \subseteq Sockets /\ heard \subseteq Sockets
    /\ running \subseteq Loops /\ thread \in Loops \cup {None}
    /\ speech_stops \in Nat

\* The end of a session is the last message on its websocket.
EndComesLast ==
    \A s \in Sockets :
        /\ \A i \in DOMAIN inbox[s] : inbox[s][i] = "ended" => i = Len(inbox[s])
        /\ s \in heard => inbox[s] = <<>>

\* A thread that makes no call uses no websocket.
IdleHoldsNothing == \A t \in Threads : ops[t] = <<>> => handle[t] = None

\* There is one loop, the one that was started last, until a stop() gives up on it.
OneLoop ==
    ~abandoned =>
        /\ running \subseteq {thread}
        /\ \A l \in Loops \ running : ops[l] = <<>> /\ handle[l] = None
        /\ owner = "close" => thread = None

\* The loop shakes hands on a websocket only when there is no other.
Dials(l) == Inside(l, "handshake")

SocketsKnown ==
    ~abandoned =>
        /\ open \subseteq {ws} \cup {handle[l] : l \in {k \in Loops : Dials(k)}}
        /\ \A l \in Loops : Dials(l) => ws = None
        /\ thread = None /\ owner = "idle" => open = {} /\ conn # "connected"

\* What a loop that has the transport to itself may have left to do.
AtCapture == <<"capture">>
AtReceive == <<"receive">>
AtPlay == <<"play">>
AtMark == <<"mark_connected">>
AtRedial == <<"redial">>
AtDial == <<"dial">>
AtHandshake == <<"handshake">>
AtCancel == <<"cancel", "drain", "receive">>
AtRecord == <<"interrupted", "drain", "receive">>
AtDrain == <<"drain", "receive">>
AtSend == <<"send", "receive">>

LoopCalls == {<<>>, AtCapture, AtReceive, AtPlay, AtMark, AtRedial, AtDial, AtHandshake,
              AtCancel, AtRecord, AtDrain, AtSend}

Armed == conversation = ~wake_word_required

\* What is true where the loop is in its pass, when no other thread has made a call.
LoopAlone(l) ==
    /\ ops[l] \in LoopCalls
    /\ ops[l] \in {AtCapture, AtCancel, AtRecord, AtSend} => session \notin Terminal
    /\ ops[l] = AtCapture => ~RemoteOutputActive
    /\ ops[l] \in {AtCancel, AtRecord, AtDrain} => Armed
    /\ ops[l] \in {AtRedial, AtDial, AtHandshake} => conn # "connected"
    /\ ops[l] = AtMark => ws # None /\ session = "ready" /\ ~lapsed
    /\ ops[l] = AtHandshake => handle[l] \notin heard
    /\ ops[l] # AtHandshake /\ handle[l] # None => handle[l] = ws

\* What the transport's state and the conversation's say of each other then, where
\* `marking` is that a loop is about to mark its connection and `resting` that none
\* makes a call: the end of a session shows in the session's state until the next
\* handshake, and the loop sees it there before it does anything else.
TransportAlone(marking, resting) ==
    /\ conn = "connected" => ws # None
    /\ ws # None => conn = "connected" \/ marking
    /\ ws \in heard => session \in Terminal
    /\ lapsed /\ ws # None => ws \in heard
    /\ lapsed => session \in Terminal /\ (Armed \/ (conn = "connected" /\ resting))
    /\ ~misdirected

QuietInv ==
    Quiet =>
        /\ \A u \in Users : ops[u] = <<>> /\ handle[u] = None
        /\ \A l \in Loops : LoopAlone(l)
        /\ TransportAlone(\E l \in Loops : ops[l] = AtMark, \A l \in Loops : ops[l] = <<>>)

-----------------------------------------------------------------------------
(* Types *)

LEMMA ContinueTyped ==
    ASSUME CallsTyped, NEW t \in Threads, ops[t] # <<>>, NEW next \in Seq(Ops),
           Continue(t, next)
    PROVE  ops' \in [Threads -> Seq(Ops)] /\ handle' \in [Threads -> Sockets \cup {None}]
<1>1. ops[t] \in Seq(Ops)
  BY DEF CallsTyped
<1>2. Tail(ops[t]) \in Seq(Ops)
  BY <1>1, HeadTailProperties
<1>3. next \o Tail(ops[t]) \in Seq(Ops)
  BY <1>2, ConcatProperties
<1> QED
  BY <1>3 DEF CallsTyped, Continue

LEMMA BackToTopTyped ==
    ASSUME CallsTyped, NEW t \in Threads, BackToTop(t)
    PROVE  ops' \in [Threads -> Seq(Ops)] /\ handle' \in [Threads -> Sockets \cup {None}]
<1>1. <<>> \in Seq(Ops)
  BY EmptySeq
<1> QED
  BY <1>1 DEF CallsTyped, BackToTop

LEMMA CloseTyped ==
    ASSUME CallsTyped, NEW closing, Close(closing)
    PROVE  open' \subseteq Sockets /\ inbox' \in [Sockets -> Seq(Messages)]
<1>1. <<>> \in Seq(Messages)
  BY EmptySeq
<1> QED
  BY <1>1 DEF CallsTyped, Close

\* The calls of the steps are calls.
LEMMA NextCalls ==
    /\ {<<>>, <<"receive">>, <<"capture">>, <<"redial">>, <<"dial">>, <<"handshake">>,
        <<"mark_connected">>, <<"send", "receive">>, <<"cancel", "drain", "receive">>,
        <<"cancel", "drain", "send", "receive">>, <<"drain">>, <<"play">>, <<"interrupted">>,
        <<"drain", "cancel">>} \subseteq Seq(Ops)
<1>1. {"redial", "dial", "handshake", "mark_connected", "capture", "send",
        "receive", "play", "cancel", "interrupted", "drain"} \subseteq Ops
  BY DEF Ops
<1> QED
  BY <1>1

LEMMA InitTyped ==
    ASSUME Init
    PROVE  CallsTyped
<1>1. <<>> \in Seq(Ops) /\ <<>> \in Seq(Messages)
  BY EmptySeq
<1> QED
  BY <1>1 DEF Init, CallsTyped

LEMMA LoopStepTyped ==
    ASSUME CallsTyped, NEW l \in Loops, LoopStep(l)
    PROVE  CallsTyped'
<1> l \in Threads
  BY DEF Threads
<1> USE DEF transport, network, gate, runtime, calls, history
<1>1. CASE LoopExit(l)
  BY <1>1 DEF CallsTyped, LoopExit
<1>2. CASE LoopSteps(l)
  BY <1>2, NextCalls DEF CallsTyped, LoopSteps, AtTop, Proceed
<1>3. CASE LoopRetiresSession(l)
  BY <1>3, CloseTyped DEF CallsTyped, LoopRetiresSession, CloseAndRetry
<1>4. CASE LoopConnects(l)
  BY <1>4, NextCalls DEF CallsTyped, LoopConnects, AtTop, Proceed
<1>5. CASE Redial(l)
  BY <1>5, CloseTyped, NextCalls, ContinueTyped DEF CallsTyped, Redial, At
<1>6. CASE Dial(l)
  BY <1>6, NextCalls DEF CallsTyped, Dial
<1>7. CASE HandshakeSucceeds(l)
  BY <1>7, NextCalls, ContinueTyped DEF CallsTyped, HandshakeSucceeds, Inside
<1>8. CASE MarkConnected(l)
  BY <1>8, NextCalls, ContinueTyped DEF CallsTyped, MarkConnected, At
<1>9. CASE HandshakeFails(l)
  BY <1>9, CloseTyped, BackToTopTyped DEF CallsTyped, HandshakeFails
<1>10. CASE CaptureNothing(l)
  BY <1>10, NextCalls, ContinueTyped DEF CallsTyped, CaptureNothing, At
<1>11. CASE CaptureUtterance(l)
  BY <1>11, NextCalls, ContinueTyped DEF CallsTyped, CaptureUtterance, At
<1>12. CASE CaptureWakeWord(l)
  BY <1>12, NextCalls, ContinueTyped DEF CallsTyped, CaptureWakeWord, At
<1>13. CASE CaptureEndPhrase(l)
  BY <1>13, NextCalls, ContinueTyped DEF CallsTyped, CaptureEndPhrase, At
<1>14. CASE CaptureBargeIn(l)
  BY <1>14, NextCalls, ContinueTyped DEF CallsTyped, CaptureBargeIn, At
<1>15. CASE LoopRaises(l)
  BY <1>15, CloseTyped, BackToTopTyped DEF CallsTyped, LoopRaises, CloseAndRetry
<1>16. CASE Play(l)
  BY <1>16, NextCalls, ContinueTyped DEF CallsTyped, Play, At
<1> QED
  BY <1>1, <1>2, <1>3, <1>4, <1>5, <1>6, <1>7, <1>8, <1>9, <1>10, <1>11, <1>12, <1>13, <1>14, <1>15, <1>16 DEF LoopStep

LEMMA TransportCallTyped ==
    ASSUME CallsTyped, NEW t \in Threads, TransportCall(t)
    PROVE  CallsTyped'
<1> USE DEF transport, network, gate, runtime, calls, history
<1>1. CASE SendBegins(t)
  BY <1>1, CloseTyped, NextCalls, ContinueTyped DEF CallsTyped, SendBegins, NoSocket, UseSocket, CloseAndRetry, At
<1>2. CASE Send(t)
  BY <1>2, NextCalls, ContinueTyped DEF CallsTyped, Send, Inside
<1>3. CASE SendFails(t)
  BY <1>3, CloseTyped, NextCalls, ContinueTyped DEF CallsTyped, SendFails, CallFails, CloseAndRetry, Inside
<1>4. CASE SendRefused(t)
  BY <1>4, NextCalls, ContinueTyped DEF CallsTyped, SendRefused, Inside
<1>5. CASE ReceiveBegins(t)
  BY <1>5, NextCalls, ContinueTyped DEF CallsTyped, ReceiveBegins, NoSocket, UseSocket, At
<1>6. CASE Receive(t)
  BY <1>6, NextCalls, ContinueTyped, HeadTailProperties DEF CallsTyped, Receive, Inside
<1>7. CASE ReceiveTimesOut(t)
  BY <1>7, NextCalls, ContinueTyped DEF CallsTyped, ReceiveTimesOut, Inside
<1>8. CASE ReceiveFails(t)
  BY <1>8, CloseTyped, NextCalls, ContinueTyped DEF CallsTyped, ReceiveFails, CallFails, CloseAndRetry, Inside
<1>9. CASE CancelBegins(t)
  BY <1>9, NextCalls, ContinueTyped DEF CallsTyped, CancelBegins, NoSocket, UseSocket, At
<1>10. CASE CancelSent(t)
  BY <1>10, NextCalls, ContinueTyped DEF CallsTyped, CancelSent, Inside
<1>11. CASE CancelFails(t)
  BY <1>11, NextCalls, ContinueTyped DEF CallsTyped, CancelFails, Inside
<1>12. CASE CancelRecorded(t)
  BY <1>12, NextCalls, ContinueTyped DEF CallsTyped, CancelRecorded, At
<1> QED
  BY <1>1, <1>2, <1>3, <1>4, <1>5, <1>6, <1>7, <1>8, <1>9, <1>10, <1>11, <1>12 DEF TransportCall

LEMMA NextTyped ==
    ASSUME CallsTyped, [Next]_vars
    PROVE  CallsTyped'
<1> USE DEF transport, network, gate, runtime, calls, history
<1>1. ASSUME NEW l \in Loops, LoopStep(l) PROVE CallsTyped'
  BY <1>1, LoopStepTyped
<1>2. ASSUME NEW t \in Threads, TransportCall(t) PROVE CallsTyped'
  BY <1>2, TransportCallTyped
<1>3. ASSUME NEW u \in Users, StopSpeech(u) PROVE CallsTyped'
  <2>1. speech_stops + 1 \in Nat
    BY DEF CallsTyped
  <2>2. ops' \in [Threads -> Seq(Ops)]
    BY <1>3, NextCalls DEF CallsTyped, StopSpeech
  <2> QED
    BY <1>3, <2>1, <2>2 DEF CallsTyped, StopSpeech
<1>4. CASE Start \/ Stop \/ StopJoins
  BY <1>4 DEF CallsTyped, Start, Stop, StopJoins
<1>5. CASE StopCloses
  BY <1>5, CloseTyped DEF CallsTyped, StopCloses
<1>6. ASSUME NEW s \in Sockets, NEW m \in Messages, GatewaySends(s, m) PROVE CallsTyped'
  <2>1. Append(inbox[s], m) \in Seq(Messages)
    BY AppendProperties DEF CallsTyped
  <2> QED
    BY <1>6, <2>1 DEF CallsTyped, GatewaySends
<1>7. ASSUME NEW s \in Sockets, ConnectionBreaks(s) PROVE CallsTyped'
  BY <1>7 DEF CallsTyped, ConnectionBreaks
<1>8. CASE BackoffElapses \/ AudioGraceElapses
  BY <1>8 DEF CallsTyped, BackoffElapses, AudioGraceElapses
<1>9. CASE UNCHANGED vars
  BY <1>9 DEF CallsTyped, vars
<1> QED
  BY <1>1, <1>2, <1>3, <1>4, <1>5, <1>6, <1>7, <1>8, <1>9 DEF Next, Environment

-----------------------------------------------------------------------------
(* The end of a session is the last that is heard of it. *)

\* What every step but a receiving one does to the messages: none, or it closes
\* a websocket, or it dials.
QuietNetwork ==
    /\ \/ inbox' = inbox \/ \E closing : Close(closing)
    /\ heard' \subseteq heard

LEMMA QuietNetworkKeepsEnd ==
    ASSUME EndComesLast, QuietNetwork
    PROVE  EndComesLast'
<1>1. CASE inbox' = inbox
  BY <1>1 DEF EndComesLast, QuietNetwork
<1>2. ASSUME NEW closing, Close(closing) PROVE EndComesLast'
  <2>1. \A s \in Sockets : inbox'[s] = <<>> \/ inbox'[s] = inbox[s]
    BY <1>2 DEF Close
  <2> QED
    BY <2>1 DEF EndComesLast, QuietNetwork
<1> QED
  BY <1>1, <1>2 DEF QuietNetwork

LEMMA LoopStepIsQuiet ==
    ASSUME NEW l \in Loops, LoopStep(l)
    PROVE  QuietNetwork
<1> USE DEF QuietNetwork, network, history
<1>1. CASE LoopExit(l) \/ LoopSteps(l) \/ LoopConnects(l)
  BY <1>1 DEF LoopExit, LoopSteps, LoopConnects, Proceed
<1>2. CASE LoopRetiresSession(l) \/ Redial(l) \/ HandshakeFails(l)
  BY <1>2 DEF LoopRetiresSession, Redial, HandshakeFails, CloseAndRetry
<1>3. CASE Dial(l) \/ HandshakeSucceeds(l) \/ MarkConnected(l) \/ Play(l)
  BY <1>3 DEF Dial, HandshakeSucceeds, MarkConnected, Play
<1>4. CASE CaptureNothing(l) \/ CaptureUtterance(l) \/ CaptureWakeWord(l)
           \/ CaptureEndPhrase(l) \/ CaptureBargeIn(l)
  BY <1>4 DEF CaptureNothing, CaptureUtterance, CaptureWakeWord, CaptureEndPhrase, CaptureBargeIn
<1>5. CASE LoopRaises(l)
  BY <1>5 DEF LoopRaises, CloseAndRetry
<1> QED
  BY <1>1, <1>2, <1>3, <1>4, <1>5 DEF LoopStep

LEMMA TransportCallIsQuiet ==
    ASSUME NEW t \in Threads, TransportCall(t), ~Receive(t)
    PROVE  QuietNetwork
<1> USE DEF QuietNetwork, network, history
<1>1. CASE SendBegins(t)
  BY <1>1 DEF SendBegins, NoSocket, UseSocket, CloseAndRetry
<1>2. CASE Send(t) \/ SendRefused(t) \/ ReceiveTimesOut(t)
  BY <1>2 DEF Send, SendRefused, ReceiveTimesOut
<1>3. CASE SendFails(t) \/ ReceiveFails(t)
  BY <1>3 DEF SendFails, ReceiveFails, CallFails, CloseAndRetry
<1>4. CASE ReceiveBegins(t) \/ CancelBegins(t)
  BY <1>4 DEF ReceiveBegins, CancelBegins, NoSocket, UseSocket
<1>5. CASE CancelSent(t) \/ CancelFails(t) \/ CancelRecorded(t)
  BY <1>5 DEF CancelSent, CancelFails, CancelRecorded
<1> QED
  BY <1>1, <1>2, <1>3, <1>4, <1>5 DEF TransportCall

\* A message leaves the queue from the front, and the end leaves it empty.
LEMMA ReceiveKeepsEnd ==
    ASSUME CallsTyped, EndComesLast, NEW t \in Threads, Receive(t)
    PROVE  EndComesLast'
<1> DEFINE s == handle[t]
           q == inbox[s]
<1>1. /\ q # <<>> /\ inbox' = [inbox EXCEPT ![s] = Tail(q)]
      /\ heard' = IF Head(q) = "ended" THEN heard \cup {s} ELSE heard
  BY DEF Receive
<1>2. s \in Sockets /\ q \in Seq(Messages)
  <2>1. s \in Sockets \cup {None} /\ s # None
    BY DEF CallsTyped, Receive, Inside
  <2> QED
    BY <2>1 DEF CallsTyped
<1>3. /\ Tail(q) \in Seq(Messages) /\ Head(q) = q[1]
      /\ Len(q) \in Nat \ {0} /\ Len(Tail(q)) = Len(q) - 1
      /\ \A i \in 1 .. Len(Tail(q)) : Tail(q)[i] = q[i + 1]
  BY <1>1, <1>2, HeadTailProperties, EmptySeq
<1>4. DOMAIN q = 1 .. Len(q) /\ DOMAIN Tail(q) = 1 .. Len(q) - 1
  BY <1>2, <1>3, LenProperties
<1>5. \A i \in DOMAIN q : q[i] = "ended" => i = Len(q)
  BY <1>2 DEF EndComesLast
<1>6. \A i \in DOMAIN Tail(q) : Tail(q)[i] = "ended" => i = Len(Tail(q))
  BY <1>3, <1>4, <1>5
<1>7. Head(q) = "ended" => Tail(q) = <<>>
  <2>1. Head(q) = "ended" => Len(Tail(q)) = 0
    <3>1. 1 \in DOMAIN q
      BY <1>3, <1>4
    <3>2. Head(q) = "ended" => 1 = Len(q)
      BY <1>3, <1>5, <3>1
    <3> QED
      BY <1>3, <3>2
  <2> QED
    BY <1>3, <2>1, EmptySeq
<1>8. s \notin heard
  BY <1>1, <1>2 DEF EndComesLast
<1>9. inbox'[s] = Tail(q) /\ \A z \in Sockets \ {s} : inbox'[z] = inbox[z]
  BY <1>1, <1>2 DEF CallsTyped
<1> HIDE DEF s, q
<1> QED
  BY <1>1, <1>6, <1>7, <1>8, <1>9 DEF EndComesLast

\* After the end of its session the gateway says no more.
LEMMA GatewaySendsKeepsEnd ==
    ASSUME CallsTyped, EndComesLast, NEW s \in Sockets, NEW m \in Messages, GatewaySends(s, m)
    PROVE  EndComesLast'
<1> DEFINE q == inbox[s]
<1>1. /\ s \notin heard /\ \A i \in DOMAIN q : q[i] # "ended"
      /\ inbox' = [inbox EXCEPT ![s] = Append(q, m)] /\ heard' = heard
  BY DEF GatewaySends, history
<1>2. q \in Seq(Messages)
  BY DEF CallsTyped
<1>3. /\ Len(Append(q, m)) = Len(q) + 1 /\ Append(q, m) \in Seq(Messages)
      /\ \A i \in 1 .. Len(q) : Append(q, m)[i] = q[i]
  BY <1>2, AppendProperties
<1>4. DOMAIN q = 1 .. Len(q) /\ DOMAIN Append(q, m) = 1 .. Len(q) + 1 /\ Len(q) \in Nat
  BY <1>2, <1>3, LenProperties
<1>5. \A i \in DOMAIN Append(q, m) : Append(q, m)[i] = "ended" => i = Len(Append(q, m))
  BY <1>1, <1>3, <1>4
<1>6. inbox'[s] = Append(q, m) /\ \A z \in Sockets \ {s} : inbox'[z] = inbox[z]
  BY <1>1 DEF CallsTyped
<1> HIDE DEF q
<1> QED
  BY <1>1, <1>5, <1>6 DEF EndComesLast

LEMMA NextKeepsEnd ==
    ASSUME CallsTyped, EndComesLast, [Next]_vars
    PROVE  EndComesLast'
<1> USE DEF network, history
<1>1. ASSUME NEW l \in Loops, LoopStep(l) PROVE EndComesLast'
  BY <1>1, LoopStepIsQuiet, QuietNetworkKeepsEnd
<1>2. ASSUME NEW t \in Threads, TransportCall(t) PROVE EndComesLast'
  BY <1>2, TransportCallIsQuiet, QuietNetworkKeepsEnd, ReceiveKeepsEnd
<1>3. ASSUME NEW u \in Users, StopSpeech(u) PROVE EndComesLast'
  BY <1>3, QuietNetworkKeepsEnd DEF QuietNetwork, StopSpeech
<1>4. CASE Start \/ Stop \/ StopJoins \/ StopCloses
  <2>1. QuietNetwork
    BY <1>4 DEF QuietNetwork, Start, Stop, StopJoins, StopCloses
  <2> QED
    BY <2>1, QuietNetworkKeepsEnd
<1>5. ASSUME NEW s \in Sockets, NEW m \in Messages, GatewaySends(s, m) PROVE EndComesLast'
  BY <1>5, GatewaySendsKeepsEnd
<1>6. CASE (\E s \in Sockets : ConnectionBreaks(s)) \/ BackoffElapses \/ AudioGraceElapses
  <2>1. QuietNetwork
    BY <1>6 DEF QuietNetwork, ConnectionBreaks, BackoffElapses, AudioGraceElapses
  <2> QED
    BY <2>1, QuietNetworkKeepsEnd
<1>7. CASE UNCHANGED vars
  <2>1. QuietNetwork
    BY <1>7 DEF QuietNetwork, vars
  <2> QED
    BY <2>1, QuietNetworkKeepsEnd
<1> QED
  BY <1>1, <1>2, <1>3, <1>4, <1>5, <1>6, <1>7 DEF Next, Environment

LEMMA InitEnd ==
    ASSUME Init
    PROVE  EndComesLast
  BY EmptySeq DEF Init, EndComesLast

-----------------------------------------------------------------------------
(* One loop, and the websockets it knows of. *)

\* What a step of thread `t` leaves to the others.
Minds(t) ==
    /\ \A k \in Threads \ {t} : ops'[k] = ops[k] /\ handle'[k] = handle[k]
    /\ ops'[t] = <<>> => handle'[t] = None
    /\ UNCHANGED <<thread, owner, abandoned>>

LEMMA ContinueMinds ==
    ASSUME CallsTyped, NEW t \in Threads, NEW next, Continue(t, next) \/ BackToTop(t)
    PROVE  /\ \A k \in Threads \ {t} : ops'[k] = ops[k] /\ handle'[k] = handle[k]
           /\ handle'[t] = None
  BY DEF CallsTyped, Continue, BackToTop

LEMMA LoopStepMinds ==
    ASSUME CallsTyped, IdleHoldsNothing, NEW l \in Loops, LoopStep(l)
    PROVE  /\ Minds(l) /\ UNCHANGED speech_stops
           /\ l \in running \/ ops[l] # <<>>
           /\ \/ UNCHANGED running
              \/ running' = running \ {l} /\ ops'[l] = <<>> /\ handle'[l] = None
<1> l \in Threads
  BY DEF Threads
<1> USE DEF Minds, runtime, calls, history, At, Inside, AtTop
<1>1. CASE LoopExit(l)
  BY <1>1 DEF LoopExit, CallsTyped, IdleHoldsNothing
<1>2. CASE LoopSteps(l) \/ LoopConnects(l)
  BY <1>2 DEF LoopSteps, LoopConnects, Proceed, CallsTyped, IdleHoldsNothing
<1>3. CASE LoopRetiresSession(l)
  BY <1>3 DEF LoopRetiresSession, CallsTyped, IdleHoldsNothing
<1>4. CASE Dial(l)
  BY <1>4 DEF Dial, CallsTyped
<1>5. CASE Redial(l) \/ HandshakeSucceeds(l) \/ MarkConnected(l) \/ HandshakeFails(l)
  BY <1>5, ContinueMinds DEF Redial, HandshakeSucceeds, MarkConnected, HandshakeFails
<1>6. CASE CaptureNothing(l) \/ CaptureUtterance(l) \/ CaptureWakeWord(l)
  BY <1>6, ContinueMinds DEF CaptureNothing, CaptureUtterance, CaptureWakeWord
<1>7. CASE CaptureEndPhrase(l) \/ CaptureBargeIn(l) \/ LoopRaises(l) \/ Play(l)
  BY <1>7, ContinueMinds DEF CaptureEndPhrase, CaptureBargeIn, LoopRaises, Play
<1> QED
  BY <1>1, <1>2, <1>3, <1>4, <1>5, <1>6, <1>7 DEF LoopStep

LEMMA TransportCallMinds ==
    ASSUME CallsTyped, NEW t \in Threads, TransportCall(t)
    PROVE  Minds(t) /\ UNCHANGED <<running, speech_stops>> /\ ops[t] # <<>>
<1> USE DEF Minds, runtime, calls, history, At, Inside
<1>1. CASE SendBegins(t)
  BY <1>1, ContinueMinds DEF SendBegins, NoSocket, UseSocket, CallsTyped
<1>2. CASE ReceiveBegins(t) \/ CancelBegins(t)
  BY <1>2, ContinueMinds DEF ReceiveBegins, CancelBegins, NoSocket, UseSocket, CallsTyped
<1>3. CASE Send(t) \/ SendFails(t) \/ SendRefused(t)
  BY <1>3, ContinueMinds DEF Send, SendFails, CallFails, SendRefused
<1>4. CASE Receive(t) \/ ReceiveTimesOut(t) \/ ReceiveFails(t)
  BY <1>4, ContinueMinds DEF Receive, ReceiveTimesOut, ReceiveFails, CallFails
<1>5. CASE CancelSent(t) \/ CancelFails(t) \/ CancelRecorded(t)
  BY <1>5, ContinueMinds DEF CancelSent, CancelFails, CancelRecorded
<1> QED
  BY <1>1, <1>2, <1>3, <1>4, <1>5 DEF TransportCall

LEMMA StopSpeechMinds ==
    ASSUME CallsTyped, NEW u \in Users, StopSpeech(u)
    PROVE  Minds(u) /\ UNCHANGED running
<1> u \in Threads /\ <<"drain", "cancel">> # <<>>
  BY DEF Threads
<1> QED
  BY DEF StopSpeech, Minds, runtime, CallsTyped

LoopsInv == IdleHoldsNothing /\ OneLoop

LEMMA NextKeepsLoops ==
    ASSUME CallsTyped, LoopsInv, [Next]_vars
    PROVE  LoopsInv'
<1> USE DEF LoopsInv, IdleHoldsNothing, OneLoop
<1>0. /\ Loops \cap Users = {} /\ None \notin Loops /\ Loops \subseteq Threads /\ Users \subseteq Threads
      /\ running \subseteq Loops
  BY RuntimeAssumption DEF Threads, CallsTyped
<1>1. ASSUME NEW l \in Loops, LoopStep(l) PROVE LoopsInv'
  <2>1. /\ Minds(l)
        /\ l \in running \/ ops[l] # <<>>
        /\ \/ UNCHANGED running
           \/ running' = running \ {l} /\ ops'[l] = <<>> /\ handle'[l] = None
    BY <1>1, LoopStepMinds
  <2> QED
    BY <1>0, <2>1 DEF Minds
<1>2. ASSUME NEW t \in Threads, TransportCall(t) PROVE LoopsInv'
  <2>1. Minds(t) /\ UNCHANGED running /\ ops[t] # <<>>
    BY <1>2, TransportCallMinds
  <2> QED
    BY <1>0, <2>1 DEF Minds
<1>3. ASSUME NEW u \in Users, StopSpeech(u) PROVE LoopsInv'
  <2>1. Minds(u) /\ UNCHANGED running
    BY <1>3, StopSpeechMinds
  <2> QED
    BY <1>0, <2>1 DEF Minds
<1>4. CASE Start
  BY <1>0, <1>4 DEF Start, calls, history
<1>5. CASE Stop
  BY <1>0, <1>5 DEF Stop, calls, history
<1>6. CASE StopJoins
  BY <1>0, <1>6 DEF StopJoins, calls
<1>7. CASE StopCloses
  BY <1>0, <1>7 DEF StopCloses, calls
<1>8. CASE Environment
  BY <1>0, <1>8 DEF Environment, GatewaySends, ConnectionBreaks, BackoffElapses, AudioGraceElapses,
                    calls, runtime, history
<1>9. CASE UNCHANGED vars
  BY <1>0, <1>9 DEF vars, calls, runtime, history
<1> QED
  BY <1>1, <1>2, <1>3, <1>4, <1>5, <1>6, <1>7, <1>8, <1>9 DEF Next

LEMMA InitLoops ==
    ASSUME Init
    PROVE  LoopsInv
  BY DEF Init, LoopsInv, IdleHoldsNothing, OneLoop, Threads

\* What a step does to the websockets that is no handshake.
KeepsOrCloses(t) ==
    /\ ~Dials(t) /\ ~Dials(t)'
    /\ \/ UNCHANGED <<ws, open>>
       \/ ws' = None /\ open' = open \ {ws}

LEMMA ContinueDialsNot ==
    ASSUME CallsTyped, NEW t \in Threads, NEW next, Continue(t, next) \/ BackToTop(t)
    PROVE  ~Dials(t)'
  BY ContinueMinds DEF Dials, Inside

LEMMA LoopStepSockets ==
    ASSUME CallsTyped, IdleHoldsNothing, NEW l \in Loops, LoopStep(l),
           ~Dial(l), ~HandshakeSucceeds(l), ~HandshakeFails(l)
    PROVE  KeepsOrCloses(l)
<1> l \in Threads
  BY DEF Threads
<1> USE DEF KeepsOrCloses, transport, network, calls
<1>1. CASE LoopExit(l) \/ LoopRetiresSession(l)
  BY <1>1 DEF LoopExit, LoopRetiresSession, AtTop, CloseAndRetry, Close, IdleHoldsNothing, Dials, Inside
<1>2. CASE LoopSteps(l) \/ LoopConnects(l)
  BY <1>2 DEF LoopSteps, LoopConnects, AtTop, Proceed, IdleHoldsNothing, Dials, Inside
<1>3. CASE Redial(l) \/ MarkConnected(l)
  BY <1>3, ContinueDialsNot DEF Redial, MarkConnected, Close, At, Dials, Inside
<1>4. CASE CaptureNothing(l) \/ CaptureUtterance(l) \/ CaptureWakeWord(l)
  BY <1>4, ContinueDialsNot DEF CaptureNothing, CaptureUtterance, CaptureWakeWord, At, Dials, Inside
<1>5. CASE CaptureEndPhrase(l) \/ CaptureBargeIn(l) \/ Play(l)
  BY <1>5, ContinueDialsNot DEF CaptureEndPhrase, CaptureBargeIn, Play, At, Dials, Inside
<1>6. CASE LoopRaises(l)
  BY <1>6, ContinueDialsNot DEF LoopRaises, CloseAndRetry, Close, At, Dials, Inside
<1> QED
  BY <1>1, <1>2, <1>3, <1>4, <1>5, <1>6 DEF LoopStep

LEMMA TransportCallSockets ==
    ASSUME CallsTyped, NEW t \in Threads, TransportCall(t)
    PROVE  KeepsOrCloses(t) /\ conn' \in {conn, "reconnect_wait"}
<1> USE DEF KeepsOrCloses, transport, network, calls, At, Inside
<1>1. CASE SendBegins(t)
  <2>1. CASE NoSocket(t)
    BY <1>1, <2>1, ContinueDialsNot DEF SendBegins, NoSocket, Dials
  <2>2. CASE UseSocket(t)
    BY <1>1, <2>2 DEF SendBegins, UseSocket, Dials
  <2>3. CASE CloseAndRetry /\ Continue(t, <<>>)
    BY <1>1, <2>3, ContinueDialsNot DEF SendBegins, CloseAndRetry, Close, Dials
  <2> QED
    BY <1>1, <2>1, <2>2, <2>3 DEF SendBegins
<1>2. CASE ReceiveBegins(t) \/ CancelBegins(t)
  <2>1. Head(ops[t]) # "handshake"
    BY <1>2 DEF ReceiveBegins, CancelBegins, Receiving
  <2>2. CASE NoSocket(t)
    BY <2>1, <2>2, ContinueDialsNot DEF NoSocket, Dials
  <2>3. CASE UseSocket(t)
    BY <2>1, <2>3 DEF UseSocket, Dials
  <2> QED
    BY <1>2, <2>2, <2>3 DEF ReceiveBegins, CancelBegins
<1>3. CASE Send(t) \/ SendRefused(t) \/ CancelSent(t) \/ CancelFails(t) \/ CancelRecorded(t)
  BY <1>3, ContinueDialsNot
  DEF Send, SendRefused, CancelSent, CancelFails, CancelRecorded, Dials
<1>4. CASE Receive(t)
  <2>1. Head(ops[t]) # "handshake" /\ UNCHANGED <<ws, open, conn>>
    BY <1>4 DEF Receive, Receiving
  <2>2. ~Dials(t)'
    BY <1>4, ContinueDialsNot DEF Receive
  <2> QED
    BY <2>1, <2>2 DEF Dials
<1>5. CASE ReceiveTimesOut(t)
  <2>1. Head(ops[t]) # "handshake" /\ UNCHANGED <<ws, open, conn>>
    BY <1>5 DEF ReceiveTimesOut, Receiving
  <2> QED
    BY <1>5, <2>1, ContinueDialsNot DEF ReceiveTimesOut, Dials
<1>6. CASE SendFails(t) \/ ReceiveFails(t)
  <2>1. Head(ops[t]) # "handshake" /\ CallFails /\ Continue(t, <<>>)
    BY <1>6 DEF SendFails, ReceiveFails, Receiving
  <2> QED
    BY <2>1, ContinueDialsNot DEF CallFails, CloseAndRetry, Close, Dials
<1> QED
  BY <1>1, <1>2, <1>3, <1>4, <1>5, <1>6 DEF TransportCall

\* A step that is no handshake leaves every open websocket known.
LEMMA KeepsOrClosesKnown ==
    ASSUME CallsTyped, SocketsKnown, NEW t \in Threads, KeepsOrCloses(t), Minds(t),
           thread = None => conn' \in {conn, "reconnect_wait"}
    PROVE  SocketsKnown'
<1>1. \A k \in Loops : /\ Dials(k)' <=> Dials(k)
                       /\ Dials(k) => handle'[k] = handle[k]
  BY DEF KeepsOrCloses, Minds, Dials, Inside, Threads
<1>2. UNCHANGED <<thread, owner, abandoned>>
  BY DEF Minds
<1>3. ws' \in {ws, None} /\ open' \subseteq open /\ ((open' = open /\ ws' = ws) \/ open' = open \ {ws})
  BY DEF KeepsOrCloses
<1> SUFFICES ASSUME ~abandoned PROVE SocketsKnown'
  BY <1>2 DEF SocketsKnown
<1>4. open \subseteq {ws} \cup {handle'[l] : l \in {k \in Loops : Dials(k)'}}
  <2>1. ASSUME NEW s \in open, s # ws
        PROVE  s \in {handle'[l] : l \in {k \in Loops : Dials(k)'}}
    <3>1. PICK k \in Loops : Dials(k) /\ s = handle[k]
      BY <2>1 DEF SocketsKnown
    <3>2. Dials(k)' /\ handle'[k] = s
      BY <1>1, <3>1 DEF Dials, Inside
    <3> QED
      BY <3>2
  <2> QED
    BY <2>1
<1>5. open' \subseteq {ws'} \cup {handle'[l] : l \in {k \in Loops : Dials(k)'}}
  BY <1>3, <1>4
<1>6. ASSUME NEW l \in Loops, Dials(l)' PROVE ws' = None
  <2>1. Dials(l)
    BY <1>1, <1>6 DEF Dials, Inside
  <2> QED
    BY <1>3, <2>1 DEF SocketsKnown
<1>7. thread' = None /\ owner' = "idle" => open' = {} /\ conn' # "connected"
  BY <1>2, <1>3 DEF SocketsKnown
<1> QED
  BY <1>5, <1>6, <1>7 DEF SocketsKnown

LEMMA NextKeepsSockets ==
    ASSUME CallsTyped, LoopsInv, SocketsKnown, [Next]_vars
    PROVE  SocketsKnown'
<1>0. /\ None \notin Loops /\ Loops \subseteq Threads /\ Users \subseteq Threads
      /\ running \subseteq Loops /\ IdleHoldsNothing /\ OneLoop
  BY RuntimeAssumption DEF Threads, CallsTyped, LoopsInv
<1>1. ASSUME NEW l \in Loops, LoopStep(l) PROVE SocketsKnown'
  <2> SUFFICES ASSUME ~abandoned PROVE SocketsKnown'
    BY <1>0, <1>1, LoopStepMinds DEF SocketsKnown, Minds
  <2>1. /\ Minds(l) /\ (l \in running \/ ops[l] # <<>>)
    BY <1>0, <1>1, LoopStepMinds
  <2>2. l \in running /\ thread = l /\ thread # None /\ thread' # None
    BY <1>0, <2>1 DEF OneLoop, Minds
  <2>3. \A k \in Loops \ {l} : ~Dials(k) /\ ~Dials(k)'
    BY <1>0, <2>1, <2>2 DEF OneLoop, Dials, Inside, Minds
  <2>4. CASE Dial(l)
    <3>1. /\ ws = None /\ ws' = ws /\ open' = open \cup {handle'[l]} /\ ~Dials(l)
      BY <1>0, <2>4 DEF Dial, At, Dials, Inside, CallsTyped
    <3>2. Dials(l)'
      <4>1. handle'[l] \in Sockets /\ ops'[l] = <<"handshake">>
        BY <1>0, <2>4 DEF Dial, CallsTyped
      <4>2. None \notin Sockets /\ <<"handshake">> # <<>> /\ Head(<<"handshake">>) = "handshake"
        BY RuntimeAssumption
      <4>3. ops'[l] # <<>> /\ Head(ops'[l]) = "handshake" /\ handle'[l] # None
        BY <4>1, <4>2
      <4> QED
        BY <4>3 DEF Dials, Inside
    <3>3. open \subseteq {ws}
      BY <2>3, <3>1 DEF SocketsKnown
    <3> QED
      BY <2>2, <2>3, <3>1, <3>2, <3>3 DEF SocketsKnown
  <2>5. CASE HandshakeSucceeds(l)
    <3>1. /\ ws' = handle[l] /\ open' = open /\ ~Dials(l)'
      BY <1>0, <2>5, ContinueDialsNot DEF HandshakeSucceeds, network
    <3>2. Dials(l) /\ ws = None
      BY <2>5 DEF HandshakeSucceeds, SocketsKnown, Dials
    <3>3. open \subseteq {None, handle[l]} /\ None \notin open
      BY <2>3, <3>2, RuntimeAssumption DEF SocketsKnown, CallsTyped
    <3> QED
      BY <2>2, <2>3, <3>1, <3>3 DEF SocketsKnown
  <2>6. CASE HandshakeFails(l)
    <3>1. /\ ws' = ws /\ open' = open \ {handle[l]} /\ ~Dials(l)'
      BY <1>0, <2>6, ContinueDialsNot DEF HandshakeFails, Close
    <3>2. open \subseteq {ws, handle[l]}
      BY <2>3 DEF SocketsKnown
    <3> QED
      BY <2>2, <2>3, <3>1, <3>2 DEF SocketsKnown
  <2>7. CASE ~Dial(l) /\ ~HandshakeSucceeds(l) /\ ~HandshakeFails(l)
    BY <1>0, <1>1, <2>1, <2>2, <2>7, LoopStepSockets, KeepsOrClosesKnown
  <2> QED
    BY <2>4, <2>5, <2>6, <2>7
<1>2. ASSUME NEW t \in Threads, TransportCall(t) PROVE SocketsKnown'
  BY <1>2, TransportCallMinds, TransportCallSockets, KeepsOrClosesKnown
<1>3. ASSUME NEW u \in Users, StopSpeech(u) PROVE SocketsKnown'
  <2>1. ~Dials(u) /\ ~Dials(u)'
    <3>1. ops[u] = <<>> /\ handle[u] = None /\ handle' = handle
      BY <1>0, <1>3 DEF StopSpeech, IdleHoldsNothing
    <3> QED
      BY <3>1 DEF Dials, Inside
  <2>2. UNCHANGED <<ws, open, conn>>
    BY <1>3 DEF StopSpeech, transport, network
  <2> QED
    BY <1>0, <1>3, <2>1, <2>2, StopSpeechMinds, KeepsOrClosesKnown DEF KeepsOrCloses
<1>4. CASE Start \/ Stop
  <2>1. /\ UNCHANGED <<ws, open, ops, handle, abandoned, conn>>
        /\ thread' # None \/ owner' # "idle"
    BY <1>0, <1>4 DEF Start, Stop, transport, network, calls, history
  <2> QED
    BY <2>1 DEF SocketsKnown, Dials, Inside
<1>5. CASE StopJoins
  BY <1>5 DEF StopJoins, SocketsKnown, Dials, Inside, transport, network, calls
<1>6. CASE StopCloses
  <2>1. /\ owner = "close" /\ ws' = None /\ open' = open \ {ws} /\ conn' = "closed"
        /\ UNCHANGED <<ops, handle, abandoned>>
    BY <1>6 DEF StopCloses, Close, calls
  <2>2. ASSUME ~abandoned PROVE \A l \in Loops : ~Dials(l)
    <3>1. running = {}
      BY <1>0, <2>1, <2>2 DEF OneLoop
    <3> QED
      BY <1>0, <2>2, <3>1 DEF OneLoop, Dials, Inside
  <2> QED
    BY <2>1, <2>2 DEF SocketsKnown, Dials, Inside
<1>7. CASE Environment \/ UNCHANGED vars
  <2>1. UNCHANGED <<ws, open, ops, handle, abandoned, conn, thread, owner>>
    BY <1>7 DEF Environment, GatewaySends, ConnectionBreaks, BackoffElapses, AudioGraceElapses,
                transport, network, calls, runtime, history, vars
  <2> QED
    BY <2>1 DEF SocketsKnown, Dials, Inside
<1> QED
  BY <1>1, <1>2, <1>3, <1>4, <1>5, <1>6, <1>7 DEF Next

LEMMA InitSockets ==
    ASSUME Init
    PROVE  SocketsKnown
  BY DEF Init, SocketsKnown, Dials, Inside, Threads

-----------------------------------------------------------------------------
(* A loop that has the transport to itself. *)

LEMMA CallsInTurn ==
    /\ Head(AtCapture) = "capture" /\ Tail(AtCapture) = <<>>
    /\ Head(AtReceive) = "receive" /\ Tail(AtReceive) = <<>>
    /\ Head(AtPlay) = "play" /\ Tail(AtPlay) = <<>>
    /\ Head(AtMark) = "mark_connected" /\ Tail(AtMark) = <<>>
    /\ Head(AtRedial) = "redial" /\ Tail(AtRedial) = <<>>
    /\ Head(AtDial) = "dial" /\ Tail(AtDial) = <<>>
    /\ Head(AtHandshake) = "handshake" /\ Tail(AtHandshake) = <<>>
    /\ Head(AtCancel) = "cancel" /\ Tail(AtCancel) = AtDrain
    /\ Head(AtRecord) = "interrupted" /\ Tail(AtRecord) = AtDrain
    /\ Head(AtDrain) = "drain" /\ Tail(AtDrain) = AtReceive
    /\ Head(AtSend) = "send" /\ Tail(AtSend) = AtReceive
    /\ <<>> \notin {AtCapture, AtReceive, AtPlay, AtMark, AtRedial, AtDial, AtHandshake,
                   AtCancel, AtRecord, AtDrain, AtSend}
  BY DEF AtCapture, AtReceive, AtPlay, AtMark, AtRedial, AtDial, AtHandshake,
         AtCancel, AtRecord, AtDrain, AtSend

\* What follows a call that is over, in front of what was left to do.
LEMMA CallsContinue ==
    /\ <<>> \o <<>> = <<>> /\ <<>> \o AtReceive = AtReceive /\ <<>> \o AtDrain = AtDrain
    /\ <<"dial">> \o <<>> = AtDial /\ <<"mark_connected">> \o <<>> = AtMark
    /\ <<"capture">> \o <<>> = AtCapture /\ <<"receive">> \o <<>> = AtReceive
    /\ <<"play">> \o <<>> = AtPlay /\ <<"drain">> \o AtReceive = AtDrain
    /\ <<"send", "receive">> \o <<>> = AtSend
    /\ <<"cancel", "drain", "receive">> \o <<>> = AtCancel
    /\ <<"interrupted">> \o AtDrain = AtRecord
<1>1. <<>> \o <<>> = <<>> /\ <<>> \o AtReceive = AtReceive /\ <<>> \o AtDrain = AtDrain
  BY DEF AtReceive, AtDrain
<1>2. <<"dial">> \o <<>> = AtDial /\ <<"mark_connected">> \o <<>> = AtMark
  BY DEF AtDial, AtMark
<1>3. <<"capture">> \o <<>> = AtCapture /\ <<"receive">> \o <<>> = AtReceive
  BY DEF AtCapture, AtReceive
<1>4. <<"play">> \o <<>> = AtPlay
  BY DEF AtPlay
<1>5. <<"drain">> \o AtReceive = AtDrain
  <2> DEFINE c == <<"drain">> \o AtReceive
  <2>1. <<"drain">> \in Seq(Ops) /\ AtReceive \in Seq(Ops) /\ AtDrain \in Seq(Ops)
    BY DEF AtReceive, AtDrain, Ops
  <2>2. /\ c \in Seq(Ops) /\ Len(c) = 2 /\ Len(AtDrain) = 2
        /\ c[1] = AtDrain[1] /\ c[2] = AtDrain[2]
    BY <2>1, ConcatProperties DEF AtReceive, AtDrain
  <2> HIDE DEF c
  <2>3. \A i \in 1 .. 2 : c[i] = AtDrain[i]
    BY <2>2
  <2> QED
    BY <2>1, <2>2, <2>3, SeqEqual DEF c
<1>6. <<"send", "receive">> \o <<>> = AtSend
  BY DEF AtSend
<1>7. <<"cancel", "drain", "receive">> \o <<>> = AtCancel
  BY DEF AtCancel
<1>8. <<"interrupted">> \o AtDrain = AtRecord
  <2> DEFINE c == <<"interrupted">> \o AtDrain
  <2>1. <<"interrupted">> \in Seq(Ops) /\ AtDrain \in Seq(Ops) /\ AtRecord \in Seq(Ops)
    BY DEF AtRecord, AtDrain, Ops
  <2>2. /\ c \in Seq(Ops) /\ Len(c) = 3 /\ Len(AtRecord) = 3
        /\ c[1] = AtRecord[1] /\ c[2] = AtRecord[2] /\ c[3] = AtRecord[3]
    BY <2>1, ConcatProperties DEF AtRecord, AtDrain
  <2> HIDE DEF c
  <2>3. \A i \in 1 .. 3 : c[i] = AtRecord[i]
    BY <2>2
  <2> QED
    BY <2>1, <2>2, <2>3, SeqEqual DEF c
<1> QED
  BY <1>1, <1>2, <1>3, <1>4, <1>5, <1>6, <1>7, <1>8

\* Where the loop is when it is about to make a call, or inside it.
LEMMA CallTells ==
    ASSUME NEW l \in Loops, ops[l] \in LoopCalls, ops[l] # <<>>
    PROVE  /\ Head(ops[l]) = "capture" => ops[l] = AtCapture
           /\ Head(ops[l]) = "receive" => ops[l] = AtReceive
           /\ Head(ops[l]) = "play" => ops[l] = AtPlay
           /\ Head(ops[l]) = "mark_connected" => ops[l] = AtMark
           /\ Head(ops[l]) = "redial" => ops[l] = AtRedial
           /\ Head(ops[l]) = "dial" => ops[l] = AtDial
           /\ Head(ops[l]) = "handshake" => ops[l] = AtHandshake
           /\ Head(ops[l]) = "cancel" => ops[l] = AtCancel
           /\ Head(ops[l]) = "interrupted" => ops[l] = AtRecord
           /\ Head(ops[l]) = "drain" => ops[l] = AtDrain
           /\ Head(ops[l]) = "send" => ops[l] = AtSend
  BY CallsInTurn DEF LoopCalls

LEMMA ContinueGoes ==
    ASSUME CallsTyped, NEW l \in Threads, NEW next, Continue(l, next)
    PROVE  ops'[l] = next \o Tail(ops[l]) /\ handle'[l] = None
  BY DEF CallsTyped, Continue

\* What is true of the one loop there is.
Solo(l) == LoopAlone(l) /\ TransportAlone(ops[l] = AtMark, ops[l] = <<>>)

\* The part of the state that Solo is about, but for the calls.
Session == <<conn, ws, session, recent, heard, lapsed, misdirected, conversation, wake_word_required>>

\* At its top the loop goes on with a live session, retires a dead one or connects.
LEMMA TopAlone ==
    ASSUME CallsTyped, IdleHoldsNothing, EndComesLast, NEW l \in Loops, Solo(l),
           LoopExit(l) \/ LoopSteps(l) \/ LoopRetiresSession(l) \/ LoopConnects(l)
    PROVE  Solo(l)'
<1> USE DEF Solo, transport, network, gate, history
<1>0. /\ l \in Threads /\ ops[l] \in LoopCalls /\ None \notin heard
      /\ ops[l] = <<>> => handle[l] = None
  BY RuntimeAssumption DEF Threads, LoopAlone, CallsTyped, IdleHoldsNothing
<1>1. CASE LoopExit(l)
  <2>1. ops[l] = <<>> /\ ops' = ops /\ handle' = handle
    BY <1>0, <1>1, CallTells, ContinueGoes, CallsInTurn, CallsContinue
    DEF LoopExit, calls
  <2>2. UNCHANGED Session
    BY <1>1 DEF LoopExit, Session
  <2> QED
    BY <1>0, <2>1, <2>2, CallsInTurn DEF LoopAlone, TransportAlone, LoopCalls, Armed, RemoteOutputActive, Terminal, Session
<1>2. CASE LoopSteps(l)
  <2>1. /\ ops[l] = <<>> /\ conn = "connected" /\ session \notin Terminal /\ handle' = handle
        /\ ops'[l] = AtReceive \/ (ops'[l] = AtCapture /\ ~RemoteOutputActive)
    BY <1>0, <1>2 DEF LoopSteps, AtTop, Proceed, CallsTyped, AtReceive, AtCapture
  <2>2. UNCHANGED Session
    BY <1>2 DEF LoopSteps, Proceed, Session
  <2> QED
    BY <1>0, <2>1, <2>2, CallsInTurn DEF LoopAlone, TransportAlone, LoopCalls, Armed, RemoteOutputActive, Terminal, Session
<1>3. CASE LoopRetiresSession(l)
  <2>1. ops[l] = <<>> /\ ops' = ops /\ handle' = handle
    BY <1>0, <1>3, CallTells, ContinueGoes, CallsInTurn, CallsContinue
    DEF LoopRetiresSession, AtTop, calls
  <2>2. /\ ws' = None /\ conn' = "reconnect_wait" /\ conversation' = ~wake_word_required
        /\ UNCHANGED <<session, recent, heard, lapsed, misdirected, wake_word_required>>
    BY <1>3 DEF LoopRetiresSession, CloseAndRetry, ResetConversation
  <2> QED
    BY <1>0, <2>1, <2>2, CallsInTurn DEF LoopAlone, TransportAlone, LoopCalls, Armed, RemoteOutputActive, Terminal, Session
<1>4. CASE LoopConnects(l)
  <2>1. ops[l] = <<>> /\ conn # "connected" /\ ops'[l] \in {AtRedial, AtDial} /\ handle' = handle
    BY <1>0, <1>4 DEF LoopConnects, AtTop, Proceed, CallsTyped, AtRedial, AtDial
  <2>2. UNCHANGED Session
    BY <1>4 DEF LoopConnects, Proceed, Session
  <2> QED
    BY <1>0, <2>1, <2>2, CallsInTurn DEF LoopAlone, TransportAlone, LoopCalls, Armed, RemoteOutputActive, Terminal, Session
<1> QED
  BY <1>1, <1>2, <1>3, <1>4


\* A new session has not ended, and its websocket has not been heard from.
LEMMA ConnectAlone ==
    ASSUME CallsTyped, IdleHoldsNothing, EndComesLast, NEW l \in Loops, Solo(l),
           \/ Redial(l) \/ Dial(l) \/ HandshakeSucceeds(l)
           \/ MarkConnected(l) \/ HandshakeFails(l)
    PROVE  Solo(l)'
<1> USE DEF Solo, transport, network, gate, history
<1>0. /\ l \in Threads /\ ops[l] \in LoopCalls /\ None \notin heard
      /\ ops[l] = <<>> => handle[l] = None
  BY RuntimeAssumption DEF Threads, LoopAlone, CallsTyped, IdleHoldsNothing
<1>1. CASE Redial(l)
  <2>1. ops[l] = AtRedial /\ ops'[l] = AtDial /\ handle'[l] = None
    BY <1>0, <1>1, CallTells, ContinueGoes, CallsInTurn, CallsContinue
    DEF Redial, At
  <2>2. /\ ws' = None
        /\ UNCHANGED <<conn, session, recent, heard, lapsed, misdirected, conversation, wake_word_required>>
    BY <1>1 DEF Redial
  <2> QED
    BY <1>0, <2>1, <2>2, CallsInTurn DEF LoopAlone, TransportAlone, LoopCalls, Armed, RemoteOutputActive, Terminal, Session
<1>2. CASE Dial(l)
  <2>1. ops[l] = AtDial /\ ops'[l] = AtHandshake /\ handle'[l] \notin heard'
    BY <1>0, <1>2, CallTells, ContinueGoes, CallsInTurn, CallsContinue
    DEF Dial, At, CallsTyped, AtHandshake
  <2>2. /\ ws = None /\ conn' = "connecting" /\ heard' \subseteq heard
        /\ UNCHANGED <<ws, session, recent, lapsed, misdirected, conversation, wake_word_required>>
    BY <1>2 DEF Dial
  <2> QED
    BY <1>0, <2>1, <2>2, CallsInTurn DEF LoopAlone, TransportAlone, LoopCalls, Armed, RemoteOutputActive, Terminal, Session
<1>3. CASE HandshakeSucceeds(l)
  <2>1. ops[l] = AtHandshake /\ handle[l] # None /\ ops'[l] = AtMark /\ handle'[l] = None
    BY <1>0, <1>3, CallTells, ContinueGoes, CallsInTurn, CallsContinue
    DEF HandshakeSucceeds, Inside
  <2>2. /\ ws' = handle[l] /\ session' = "ready" /\ lapsed' = FALSE
        /\ UNCHANGED <<conn, recent, heard, misdirected, conversation, wake_word_required>>
    BY <1>3 DEF HandshakeSucceeds
  <2> QED
    BY <1>0, <2>1, <2>2, CallsInTurn DEF LoopAlone, TransportAlone, LoopCalls, Armed, RemoteOutputActive, Terminal, Session
<1>4. CASE MarkConnected(l)
  <2>1. ops[l] = AtMark /\ ops'[l] = AtCapture /\ handle'[l] = None
    BY <1>0, <1>4, CallTells, ContinueGoes, CallsInTurn, CallsContinue
    DEF MarkConnected, At
  <2>2. /\ conn' = "connected"
        /\ UNCHANGED <<ws, session, recent, heard, lapsed, misdirected, conversation, wake_word_required>>
    BY <1>4 DEF MarkConnected
  <2> QED
    BY <1>0, <2>1, <2>2, CallsInTurn DEF LoopAlone, TransportAlone, LoopCalls, Armed, RemoteOutputActive, Terminal, Session
<1>5. CASE HandshakeFails(l)
  <2>1. ops[l] = AtHandshake /\ ops'[l] = <<>> /\ handle'[l] = None
    BY <1>0, <1>5, CallTells, ContinueGoes, CallsInTurn, CallsContinue
    DEF HandshakeFails, Inside, BackToTop, CallsTyped
  <2>2. /\ session' = "error" /\ conn' = "reconnect_wait"
        /\ UNCHANGED <<ws, recent, heard, lapsed, misdirected, conversation, wake_word_required>>
    BY <1>5 DEF HandshakeFails
  <2> QED
    BY <1>0, <2>1, <2>2, CallsInTurn DEF LoopAlone, TransportAlone, LoopCalls, Armed, RemoteOutputActive, Terminal, Session
<1> QED
  BY <1>1, <1>2, <1>3, <1>4, <1>5


\* What was captured is sent on a session that has not ended: nothing happened since the loop looked.
LEMMA CaptureAlone ==
    ASSUME CallsTyped, IdleHoldsNothing, EndComesLast, NEW l \in Loops, Solo(l),
           \/ CaptureNothing(l) \/ CaptureUtterance(l) \/ CaptureWakeWord(l)
           \/ CaptureEndPhrase(l) \/ CaptureBargeIn(l) \/ Play(l) \/ LoopRaises(l)
    PROVE  Solo(l)'
<1> USE DEF Solo, transport, network, gate, history
<1>0. /\ l \in Threads /\ ops[l] \in LoopCalls /\ None \notin heard
      /\ ops[l] = <<>> => handle[l] = None
  BY RuntimeAssumption DEF Threads, LoopAlone, CallsTyped, IdleHoldsNothing
<1>1. CASE CaptureNothing(l)
  <2>1. ops[l] = AtCapture /\ ops'[l] = AtReceive /\ handle'[l] = None
    <3>1. ops[l] = AtCapture
      BY <1>0, <1>1, CallTells DEF CaptureNothing, At
    <3>2. Tail(ops[l]) = <<>>
      BY <3>1, CallsInTurn
    <3> QED
      BY <1>0, <1>1, <3>1, <3>2, ContinueGoes, CallsContinue DEF CaptureNothing
  <2>2. UNCHANGED Session
    BY <1>1 DEF CaptureNothing, Session
  <2> QED
    BY <1>0, <2>1, <2>2, CallsInTurn DEF LoopAlone, TransportAlone, LoopCalls, Armed, RemoteOutputActive, Terminal, Session
<1>2. CASE CaptureUtterance(l)
  <2>1. ops[l] = AtCapture /\ ops'[l] = AtSend /\ handle'[l] = None
    <3>1. ops[l] = AtCapture
      BY <1>0, <1>2, CallTells DEF CaptureUtterance, At
    <3>2. Tail(ops[l]) = <<>>
      BY <3>1, CallsInTurn
    <3> QED
      BY <1>0, <1>2, <3>1, <3>2, ContinueGoes, CallsContinue DEF CaptureUtterance
  <2>2. UNCHANGED Session
    BY <1>2 DEF CaptureUtterance, Session
  <2> QED
    BY <1>0, <2>1, <2>2, CallsInTurn DEF LoopAlone, TransportAlone, LoopCalls, Armed, RemoteOutputActive, Terminal, Session
<1>3. CASE CaptureWakeWord(l)
  <2>1. ops[l] = AtCapture /\ ops'[l] \in {AtReceive, AtSend} /\ handle'[l] = None
    <3>1. ops[l] = AtCapture
      BY <1>0, <1>3, CallTells DEF CaptureWakeWord, At
    <3>2. Tail(ops[l]) = <<>>
      BY <3>1, CallsInTurn
    <3> QED
      BY <1>0, <1>3, <3>1, <3>2, ContinueGoes, CallsContinue DEF CaptureWakeWord
  <2>2. UNCHANGED <<conn, ws, session, recent, heard, lapsed, misdirected, wake_word_required>>
    BY <1>3 DEF CaptureWakeWord
  <2> QED
    BY <1>0, <2>1, <2>2, CallsInTurn DEF LoopAlone, TransportAlone, LoopCalls, Armed, RemoteOutputActive, Terminal, Session
<1>4. CASE CaptureEndPhrase(l)
  <2>1. ops[l] = AtCapture /\ ops'[l] = AtCancel /\ handle'[l] = None
    <3>1. ops[l] = AtCapture
      BY <1>0, <1>4, CallTells DEF CaptureEndPhrase, At
    <3>2. Tail(ops[l]) = <<>>
      BY <3>1, CallsInTurn
    <3> QED
      BY <1>0, <1>4, <3>1, <3>2, ContinueGoes, CallsContinue DEF CaptureEndPhrase
  <2>2. /\ wake_word_required /\ conversation' = FALSE
        /\ UNCHANGED <<conn, ws, session, recent, heard, lapsed, misdirected, wake_word_required>>
    BY <1>4 DEF CaptureEndPhrase
  <2> QED
    BY <1>0, <2>1, <2>2, CallsInTurn DEF LoopAlone, TransportAlone, LoopCalls, Armed, RemoteOutputActive, Terminal, Session
<1>5. CASE CaptureBargeIn(l)
  BY <1>0, <1>5, CallTells DEF CaptureBargeIn, At, LoopAlone
<1>6. CASE Play(l)
  <2>1. ops[l] = AtPlay /\ ops'[l] = <<>> /\ handle'[l] = None
    <3>1. ops[l] = AtPlay
      BY <1>0, <1>6, CallTells DEF Play, At
    <3>2. Tail(ops[l]) = <<>>
      BY <3>1, CallsInTurn
    <3> QED
      BY <1>0, <1>6, <3>1, <3>2, ContinueGoes, CallsContinue DEF Play
  <2>2. UNCHANGED Session
    BY <1>6 DEF Play, Session
  <2> QED
    BY <1>0, <2>1, <2>2, CallsInTurn DEF LoopAlone, TransportAlone, LoopCalls, Armed, RemoteOutputActive, Terminal, Session
<1>7. CASE LoopRaises(l)
  <2>1. ops[l] \in {AtCapture, AtPlay} /\ ops'[l] = <<>> /\ handle'[l] = None
    BY <1>0, <1>7, CallTells, ContinueGoes, CallsInTurn, CallsContinue
    DEF LoopRaises, At, BackToTop, CallsTyped
  <2>2. /\ \/ conn = "reconnect_wait" /\ UNCHANGED <<conn, ws>>
           \/ conn' = "reconnect_wait" /\ ws' = None
        /\ UNCHANGED <<session, recent, heard, lapsed, misdirected, conversation, wake_word_required>>
    BY <1>7 DEF LoopRaises, CloseAndRetry
  <2> QED
    BY <1>0, <2>1, <2>2, CallsInTurn DEF LoopAlone, TransportAlone, LoopCalls, Armed, RemoteOutputActive, Terminal, Session
<1> QED
  BY <1>1, <1>2, <1>3, <1>4, <1>5, <1>6, <1>7


\* The loop sends on the current websocket, whose session has not ended.
LEMMA SendAlone ==
    ASSUME CallsTyped, IdleHoldsNothing, EndComesLast, NEW l \in Loops, Solo(l),
           SendBegins(l) \/ Send(l) \/ SendFails(l) \/ SendRefused(l)
    PROVE  Solo(l)'
<1> USE DEF Solo, transport, network, gate, history
<1>0. /\ l \in Threads /\ ops[l] \in LoopCalls /\ None \notin heard
      /\ ops[l] = <<>> => handle[l] = None
  BY RuntimeAssumption DEF Threads, LoopAlone, CallsTyped, IdleHoldsNothing
<1>1. CASE SendBegins(l)
  <2>1. ops[l] = AtSend /\ session \notin Terminal
    BY <1>0, <1>1, CallTells DEF SendBegins, At, LoopAlone
  <2>2. CASE NoSocket(l)
    <3>1. ops'[l] = AtReceive /\ handle'[l] = None
      BY <1>0, <2>1, <2>2, ContinueGoes, CallsInTurn, CallsContinue DEF NoSocket
    <3>2. UNCHANGED Session
      BY <2>2 DEF NoSocket, Session
    <3> QED
      BY <2>1, <3>1, <3>2, CallsInTurn DEF LoopAlone, TransportAlone, LoopCalls, Armed, RemoteOutputActive, Terminal, Session
  <2>3. CASE UseSocket(l)
    <3>1. ops' = ops /\ handle'[l] = ws
      BY <1>0, <2>3 DEF UseSocket, CallsTyped
    <3>2. UNCHANGED Session
      BY <2>3 DEF UseSocket, Session
    <3> QED
      BY <2>1, <3>1, <3>2, CallsInTurn DEF LoopAlone, TransportAlone, LoopCalls, Armed, RemoteOutputActive, Terminal, Session
  <2> QED
    BY <1>1, <2>1, <2>2, <2>3 DEF SendBegins
<1>2. CASE Send(l)
  <2>1. ops[l] = AtSend /\ handle[l] # None /\ ops'[l] = AtReceive /\ handle'[l] = None
    BY <1>0, <1>2, CallTells, ContinueGoes, CallsInTurn, CallsContinue
    DEF Send, Inside
  <2>2. /\ misdirected' = (misdirected \/ handle[l] \in heard)
        /\ UNCHANGED <<conn, ws, session, recent, heard, lapsed, conversation, wake_word_required>>
    BY <1>2 DEF Send
  <2> QED
    BY <1>0, <2>1, <2>2, CallsInTurn DEF LoopAlone, TransportAlone, LoopCalls, Armed, RemoteOutputActive, Terminal, Session
<1>3. CASE SendFails(l)
  <2>1. ops[l] = AtSend /\ ops'[l] = AtReceive /\ handle'[l] = None
    <3>1. ops[l] = AtSend
      BY <1>0, <1>3, CallTells DEF SendFails, Inside
    <3>2. Tail(ops[l]) = AtReceive
      BY <3>1, CallsInTurn
    <3> QED
      BY <1>0, <1>3, <3>1, <3>2, ContinueGoes, CallsContinue DEF SendFails
  <2>2. /\ ws' = None /\ conn' = "reconnect_wait" /\ session' = "error"
        /\ UNCHANGED <<recent, heard, lapsed, misdirected, conversation, wake_word_required>>
    BY <1>3 DEF SendFails, CallFails, CloseAndRetry
  <2> QED
    BY <1>0, <2>1, <2>2, CallsInTurn DEF LoopAlone, TransportAlone, LoopCalls, Armed, RemoteOutputActive, Terminal, Session
<1>4. CASE SendRefused(l)
  <2>1. ops[l] = AtSend /\ ops'[l] = AtReceive /\ handle'[l] = None
    <3>1. ops[l] = AtSend
      BY <1>0, <1>4, CallTells DEF SendRefused, Inside
    <3>2. Tail(ops[l]) = AtReceive
      BY <3>1, CallsInTurn
    <3> QED
      BY <1>0, <1>4, <3>1, <3>2, ContinueGoes, CallsContinue DEF SendRefused
  <2>2. UNCHANGED Session
    BY <1>4 DEF SendRefused, Session
  <2> QED
    BY <1>0, <2>1, <2>2, CallsInTurn DEF LoopAlone, TransportAlone, LoopCalls, Armed, RemoteOutputActive, Terminal, Session
<1> QED
  BY <1>1, <1>2, <1>3, <1>4


\* A session that ended while the loop received or drained is terminal when the loop looks again.
LEMMA ReceiveAlone ==
    ASSUME CallsTyped, IdleHoldsNothing, EndComesLast, NEW l \in Loops, Solo(l),
           \/ ReceiveBegins(l) \/ Receive(l)
           \/ ReceiveTimesOut(l) \/ ReceiveFails(l)
    PROVE  Solo(l)'
<1> USE DEF Solo, transport, network, gate, history
<1>0. /\ l \in Threads /\ ops[l] \in LoopCalls /\ None \notin heard
      /\ ops[l] = <<>> => handle[l] = None
  BY RuntimeAssumption DEF Threads, LoopAlone, CallsTyped, IdleHoldsNothing
<1>1. CASE ReceiveBegins(l)
  <2>1. ops[l] \in {AtReceive, AtDrain}
    BY <1>0, <1>1, CallTells DEF ReceiveBegins, Receiving, At
  <2>2. CASE NoSocket(l)
    <3>1. /\ ws = None /\ handle'[l] = None
          /\ \/ ops[l] = AtReceive /\ ops'[l] = <<>>
             \/ ops[l] = AtDrain /\ ops'[l] = AtReceive
      <4>1. ws = None /\ ops'[l] = <<>> \o Tail(ops[l]) /\ handle'[l] = None
        BY <1>0, <2>2, ContinueGoes DEF NoSocket
      <4>2. Tail(AtReceive) = <<>> /\ Tail(AtDrain) = AtReceive
        BY CallsInTurn
      <4> QED
        BY <2>1, <4>1, <4>2, CallsContinue
    <3>2. UNCHANGED Session
      BY <2>2 DEF NoSocket, Session
    <3> QED
      BY <3>1, <3>2, CallsInTurn DEF LoopAlone, TransportAlone, LoopCalls, Armed, RemoteOutputActive, Terminal, Session
  <2>3. CASE UseSocket(l)
    <3>1. ops' = ops /\ handle'[l] = ws
      BY <1>0, <2>3 DEF UseSocket, CallsTyped
    <3>2. UNCHANGED Session
      BY <2>3 DEF UseSocket, Session
    <3> QED
      BY <2>1, <3>1, <3>2, CallsInTurn DEF LoopAlone, TransportAlone, LoopCalls, Armed, RemoteOutputActive, Terminal, Session
  <2> QED
    BY <1>1, <2>2, <2>3 DEF ReceiveBegins
<1>2. CASE Receive(l)
  <2> DEFINE m == Head(inbox[handle[l]])
  <2>1. /\ inbox[handle[l]] # <<>> /\ handle[l] # None
        /\ session' = IF m = "audio" THEN "speaking" ELSE "ended"
        /\ heard' = IF m = "ended" THEN heard \cup {handle[l]} ELSE heard
        /\ lapsed' = (lapsed \/ m = "ended")
        /\ UNCHANGED <<conn, ws, misdirected, conversation, wake_word_required>>
    BY <1>2 DEF Receive, Inside
  <2>2. m \in Messages
    <3>1. handle[l] \in Sockets
      BY <1>0, <2>1 DEF CallsTyped
    <3>2. inbox[handle[l]] \in Seq(Messages)
      BY <3>1 DEF CallsTyped
    <3> QED
      BY <2>1, <3>2, HeadTailProperties
  <2>3. ops[l] \in {AtReceive, AtDrain}
    BY <1>0, <1>2, CallTells DEF Receive, Receiving, Inside
  <2>4. handle[l] = ws /\ ws # None /\ ws \notin heard /\ ~lapsed
    <3>1. handle[l] = ws
      BY <2>1, <2>3, CallsInTurn DEF LoopAlone
    <3>2. handle[l] \notin heard
      BY <1>0, <2>1 DEF EndComesLast, CallsTyped
    <3> QED
      BY <2>1, <3>1, <3>2 DEF TransportAlone
  <2>5. /\ handle'[l] = None
        /\ \/ ops[l] = AtDrain /\ ops'[l] = AtDrain
           \/ ops[l] = AtReceive /\ ops'[l] = IF m = "audio" THEN AtPlay ELSE <<>>
    <3>1. CASE ops[l] = AtDrain
      BY <1>0, <1>2, <3>1, ContinueGoes, CallsInTurn, CallsContinue DEF Receive
    <3>2. CASE ops[l] = AtReceive
      BY <1>0, <1>2, <3>2, ContinueGoes, CallsInTurn, CallsContinue DEF Receive
    <3> QED
      BY <2>3, <3>1, <3>2
  <2> HIDE DEF m
  <2>6. CASE m = "audio"
    BY <2>1, <2>3, <2>4, <2>5, <2>6, CallsInTurn DEF LoopAlone, TransportAlone, LoopCalls, Armed, RemoteOutputActive, Terminal, Session
  <2>7. CASE m = "ended"
    BY <2>1, <2>3, <2>4, <2>5, <2>7, CallsInTurn DEF LoopAlone, TransportAlone, LoopCalls, Armed, RemoteOutputActive, Terminal, Session
  <2> QED
    BY <2>2, <2>6, <2>7 DEF Messages
<1>3. CASE ReceiveTimesOut(l)
  <2>0. ops[l] \in {AtReceive, AtDrain} /\ handle[l] # None
    BY <1>0, <1>3, CallTells DEF ReceiveTimesOut, Receiving, Inside
  <2>1. /\ \/ ops[l] = AtReceive /\ ops'[l] = <<>>
           \/ ops[l] = AtDrain /\ ops'[l] = AtReceive
        /\ handle[l] # None /\ handle'[l] = None
    <3>1. ops'[l] = <<>> \o Tail(ops[l]) /\ handle'[l] = None
      BY <1>0, <1>3, ContinueGoes DEF ReceiveTimesOut
    <3>2. Tail(AtReceive) = <<>> /\ Tail(AtDrain) = AtReceive
      BY CallsInTurn
    <3> QED
      BY <2>0, <3>1, <3>2, CallsContinue
  <2>2. UNCHANGED Session
    BY <1>3 DEF ReceiveTimesOut, Session
  <2> QED
    BY <1>0, <2>1, <2>2, CallsInTurn DEF LoopAlone, TransportAlone, LoopCalls, Armed, RemoteOutputActive, Terminal, Session
<1>4. CASE ReceiveFails(l)
  <2>0. ops[l] \in {AtReceive, AtDrain} /\ handle[l] # None
    BY <1>0, <1>4, CallTells DEF ReceiveFails, Receiving, Inside
  <2>1. /\ \/ ops[l] = AtReceive /\ ops'[l] = <<>>
           \/ ops[l] = AtDrain /\ ops'[l] = AtReceive
        /\ handle'[l] = None
    BY <1>0, <1>4, <2>0, ContinueGoes, CallsInTurn, CallsContinue DEF ReceiveFails
  <2>2. /\ ws' = None /\ conn' = "reconnect_wait" /\ session' = "error"
        /\ UNCHANGED <<recent, heard, lapsed, misdirected, conversation, wake_word_required>>
    BY <1>4 DEF ReceiveFails, CallFails, CloseAndRetry
  <2> QED
    BY <1>0, <2>1, <2>2, CallsInTurn DEF LoopAlone, TransportAlone, LoopCalls, Armed, RemoteOutputActive, Terminal, Session
<1> QED
  BY <1>1, <1>2, <1>3, <1>4


\* A cancel that is recorded replaces no end: the session had not ended, and none was received since.
LEMMA CancelAlone ==
    ASSUME CallsTyped, IdleHoldsNothing, EndComesLast, NEW l \in Loops, Solo(l),
           \/ CancelBegins(l) \/ CancelSent(l)
           \/ CancelFails(l) \/ CancelRecorded(l)
    PROVE  Solo(l)'
<1> USE DEF Solo, transport, network, gate, history
<1>0. /\ l \in Threads /\ ops[l] \in LoopCalls /\ None \notin heard
      /\ ops[l] = <<>> => handle[l] = None
  BY RuntimeAssumption DEF Threads, LoopAlone, CallsTyped, IdleHoldsNothing
<1>1. CASE CancelBegins(l)
  <2>1. ops[l] = AtCancel
    BY <1>0, <1>1, CallTells DEF CancelBegins, At
  <2>2. CASE NoSocket(l)
    <3>1. ops'[l] = AtDrain /\ handle'[l] = None
      BY <1>0, <2>1, <2>2, ContinueGoes, CallsInTurn, CallsContinue DEF NoSocket
    <3>2. UNCHANGED Session
      BY <2>2 DEF NoSocket, Session
    <3> QED
      BY <2>1, <3>1, <3>2, CallsInTurn DEF LoopAlone, TransportAlone, LoopCalls, Armed, RemoteOutputActive, Terminal, Session
  <2>3. CASE UseSocket(l)
    <3>1. ops' = ops /\ handle'[l] = ws
      BY <1>0, <2>3 DEF UseSocket, CallsTyped
    <3>2. UNCHANGED Session
      BY <2>3 DEF UseSocket, Session
    <3> QED
      BY <2>1, <3>1, <3>2, CallsInTurn DEF LoopAlone, TransportAlone, LoopCalls, Armed, RemoteOutputActive, Terminal, Session
  <2> QED
    BY <1>1, <2>2, <2>3 DEF CancelBegins
<1>2. CASE CancelSent(l)
  <2>1. ops[l] = AtCancel /\ ops'[l] = AtRecord /\ handle'[l] = None
    BY <1>0, <1>2, CallTells, ContinueGoes, CallsInTurn, CallsContinue
    DEF CancelSent, Inside
  <2>2. UNCHANGED Session
    BY <1>2 DEF CancelSent, Session
  <2> QED
    BY <1>0, <2>1, <2>2, CallsInTurn DEF LoopAlone, TransportAlone, LoopCalls, Armed, RemoteOutputActive, Terminal, Session
<1>3. CASE CancelFails(l)
  <2>1. ops[l] = AtCancel /\ ops'[l] = AtDrain /\ handle'[l] = None
    BY <1>0, <1>3, CallTells, ContinueGoes, CallsInTurn, CallsContinue
    DEF CancelFails, Inside
  <2>2. UNCHANGED Session
    BY <1>3 DEF CancelFails, Session
  <2> QED
    BY <1>0, <2>1, <2>2, CallsInTurn DEF LoopAlone, TransportAlone, LoopCalls, Armed, RemoteOutputActive, Terminal, Session
<1>4. CASE CancelRecorded(l)
  <2>1. ops[l] = AtRecord /\ ops'[l] = AtDrain /\ handle'[l] = None
    <3>1. ops[l] = AtRecord
      BY <1>0, <1>4, CallTells DEF CancelRecorded, At
    <3>2. Tail(ops[l]) = AtDrain
      BY <3>1, CallsInTurn
    <3> QED
      BY <1>0, <1>4, <3>1, <3>2, ContinueGoes, CallsContinue DEF CancelRecorded
  <2>2. /\ session' = "interrupted"
        /\ UNCHANGED <<conn, ws, recent, heard, lapsed, misdirected, conversation, wake_word_required>>
    BY <1>4 DEF CancelRecorded
  <2> QED
    BY <1>0, <2>1, <2>2, CallsInTurn DEF LoopAlone, TransportAlone, LoopCalls, Armed, RemoteOutputActive, Terminal, Session
<1> QED
  BY <1>1, <1>2, <1>3, <1>4


-----------------------------------------------------------------------------
(* The loop has the transport to itself until a stop_speech or a stop() that    *)
(* gives up.                                                                  *)

LEMMA LoopStepAlone ==
    ASSUME CallsTyped, IdleHoldsNothing, EndComesLast, NEW l \in Loops, Solo(l),
           LoopStep(l) \/ TransportCall(l)
    PROVE  Solo(l)'
  BY TopAlone, ConnectAlone, CaptureAlone, SendAlone, ReceiveAlone, CancelAlone
  DEF LoopStep, TransportCall

LEMMA QuietIsSolo ==
    ASSUME QuietInv, Quiet, NEW l \in Loops, \A k \in Loops \ {l} : ops[k] = <<>>
    PROVE  Solo(l)
<1>1. (\E k \in Loops : ops[k] = AtMark) <=> ops[l] = AtMark
  BY CallsInTurn
<1>2. (\A k \in Loops : ops[k] = <<>>) <=> ops[l] = <<>>
  OBVIOUS
<1> QED
  BY <1>1, <1>2 DEF QuietInv, Solo, TransportAlone

LEMMA SoloIsQuiet ==
    ASSUME NEW l \in Loops, Solo(l)',
           \A u \in Users : ops'[u] = <<>> /\ handle'[u] = None,
           \A k \in Loops \ {l} : ops'[k] = <<>> /\ handle'[k] = None
    PROVE  QuietInv'
<1>1. (\E k \in Loops : ops'[k] = AtMark) <=> ops'[l] = AtMark
  BY CallsInTurn
<1>2. (\A k \in Loops : ops'[k] = <<>>) <=> ops'[l] = <<>>
  OBVIOUS
<1>3. \A k \in Loops \ {l} : LoopAlone(k)'
  BY CallsInTurn DEF LoopAlone, LoopCalls
<1>4. LoopAlone(l)' /\ TransportAlone(\E k \in Loops : ops[k] = AtMark, \A k \in Loops : ops[k] = <<>>)'
  BY <1>1, <1>2 DEF Solo, TransportAlone
<1> QED
  BY <1>3, <1>4 DEF QuietInv

LEMMA NextKeepsQuiet ==
    ASSUME CallsTyped, EndComesLast, LoopsInv, QuietInv, [Next]_vars
    PROVE  QuietInv'
<1>0. /\ Loops \cap Users = {} /\ None \notin Loops /\ Threads = Loops \cup Users
      /\ running \subseteq Loops /\ IdleHoldsNothing /\ OneLoop /\ None \notin heard
  BY RuntimeAssumption DEF Threads, CallsTyped, LoopsInv
<1>1. ASSUME NEW l \in Loops, LoopStep(l) \/ TransportCall(l) PROVE QuietInv'
  <2>1. /\ Minds(l) /\ UNCHANGED speech_stops
        /\ l \in running \/ ops[l] # <<>>
    BY <1>0, <1>1, LoopStepMinds, TransportCallMinds
  <2> SUFFICES ASSUME Quiet PROVE QuietInv'
    BY <2>1 DEF QuietInv, Quiet, Minds
  <2>2. l \in running /\ running \subseteq {l}
    BY <1>0, <2>1 DEF OneLoop, Quiet
  <2>3. \A k \in Loops \ {l} : ops[k] = <<>> /\ handle[k] = None
    BY <1>0, <2>2 DEF OneLoop, Quiet
  <2>4. \A u \in Users : ops[u] = <<>> /\ handle[u] = None
    BY DEF QuietInv
  <2>5. Solo(l)'
    BY <1>0, <1>1, <2>3, QuietIsSolo, LoopStepAlone
  <2>6. /\ \A u \in Users : ops'[u] = <<>> /\ handle'[u] = None
        /\ \A k \in Loops \ {l} : ops'[k] = <<>> /\ handle'[k] = None
    BY <1>0, <2>1, <2>3, <2>4 DEF Minds
  <2> QED
    BY <2>5, <2>6, SoloIsQuiet
<1>2. ASSUME NEW u \in Users, TransportCall(u) PROVE QuietInv'
  <2>1. UNCHANGED <<abandoned, speech_stops>> /\ ops[u] # <<>>
    BY <1>0, <1>2, TransportCallMinds DEF Minds
  <2> QED
    BY <2>1 DEF QuietInv, Quiet
<1>3. ASSUME NEW u \in Users, StopSpeech(u) PROVE QuietInv'
  <2>1. speech_stops' # 0
    BY <1>3 DEF StopSpeech, CallsTyped
  <2> QED
    BY <2>1 DEF QuietInv, Quiet
<1>4. CASE StopCloses
  <2>1. /\ owner = "close" /\ ws' = None /\ conn' = "closed" /\ lapsed' = FALSE
        /\ UNCHANGED <<ops, handle, heard, misdirected, speech_stops, abandoned>>
    BY <1>4 DEF StopCloses, calls
  <2> SUFFICES ASSUME Quiet PROVE QuietInv'
    BY <2>1 DEF QuietInv, Quiet
  <2>2. \A l \in Loops : ops[l] = <<>> /\ handle[l] = None
    BY <1>0, <2>1 DEF OneLoop, Quiet
  <2>3. \A l \in Loops : LoopAlone(l)'
    BY <2>1, <2>2, CallsInTurn DEF LoopAlone, LoopCalls
  <2>4. TransportAlone(\E l \in Loops : ops[l] = AtMark, \A l \in Loops : ops[l] = <<>>)'
    BY <1>0, <2>1 DEF TransportAlone, QuietInv
  <2> QED
    BY <2>1, <2>3, <2>4 DEF QuietInv
<1>5. CASE Start \/ Stop \/ StopJoins \/ Environment \/ UNCHANGED vars
  <2>1. /\ UNCHANGED <<conn, ws, session, heard, lapsed, misdirected, conversation,
                      wake_word_required, ops, handle, speech_stops>>
        /\ recent' => recent
        /\ abandoned => abandoned'
    <3>1. CASE Start \/ Stop
      BY <3>1 DEF Start, Stop, transport, gate, calls, history
    <3>2. CASE StopJoins
      BY <3>2 DEF StopJoins, transport, gate, calls
    <3>3. CASE UNCHANGED vars
      BY <3>3 DEF transport, gate, calls, history, vars
    <3>4. CASE Environment
      BY <3>4 DEF Environment, GatewaySends, ConnectionBreaks, BackoffElapses, AudioGraceElapses,
                  transport, gate, calls, history
    <3> QED
      BY <1>5, <3>1, <3>2, <3>3, <3>4
  <2> SUFFICES ASSUME Quiet PROVE QuietInv'
    BY <2>1 DEF QuietInv, Quiet
  <2>2. \A l \in Loops : LoopAlone(l)'
    BY <2>1 DEF QuietInv, LoopAlone, Armed, RemoteOutputActive
  <2>3. TransportAlone(\E l \in Loops : ops[l] = AtMark, \A l \in Loops : ops[l] = <<>>)'
    BY <2>1 DEF TransportAlone, QuietInv, Armed
  <2> QED
    BY <2>1, <2>2, <2>3 DEF QuietInv
<1> QED
  BY <1>0, <1>1, <1>2, <1>3, <1>4, <1>5 DEF Next

LEMMA InitQuiet ==
    ASSUME Init
    PROVE  QuietInv
<1>1. /\ conn = "idle" /\ session = "idle" /\ ws = None /\ heard = {}
      /\ ~lapsed /\ ~misdirected
      /\ \A t \in Threads : ops[t] = <<>> /\ handle[t] = None
  BY DEF Init
<1>2. \A l \in Loops : LoopAlone(l)
  BY <1>1, CallsInTurn DEF LoopAlone, LoopCalls, Threads
<1>3. TransportAlone(\E l \in Loops : ops[l] = AtMark, \A l \in Loops : ops[l] = <<>>)
  BY <1>1 DEF TransportAlone
<1> QED
  BY <1>1, <1>2, <1>3 DEF QuietInv, Threads

-----------------------------------------------------------------------------
(* The theorems *)

IInv == CallsTyped /\ EndComesLast /\ LoopsInv /\ SocketsKnown /\ QuietInv

\* From the start and after every step: the calls are calls, a session's end is the
\* last of it, there is one loop, the websockets are known, and a loop alone with the
\* transport is where its pass has it.
THEOREM RuntimeAlways == Spec => []IInv
<1>1. Init => IInv
  BY InitTyped, InitEnd, InitLoops, InitSockets, InitQuiet DEF IInv
<1>2. IInv /\ [Next]_vars => IInv'
  BY NextTyped, NextKeepsEnd, NextKeepsLoops, NextKeepsSockets, NextKeepsQuiet DEF IInv
<1> QED
  BY <1>1, <1>2, PTL DEF Spec

\* No failure, reconnect, stop_speech or stop(), in whatever order, leaves an open
\* websocket that the runtime does not know of, or one that is open after stop().
THEOREM SpecSocketsAccounted == Spec => []SocketsAccounted
<1>1. IInv => SocketsAccounted
  <2> SUFFICES ASSUME IInv PROVE SocketsAccounted
    OBVIOUS
  <2>1. NoLeakedSocket
    BY DEF IInv, SocketsKnown, NoLeakedSocket, Dials
  <2>2. ConnectedHasSocket
    BY DEF IInv, QuietInv, TransportAlone, ConnectedHasSocket
  <2>3. StoppedIsClosed
    BY DEF IInv, SocketsKnown, StoppedIsClosed
  <2> QED
    BY <2>1, <2>2, <2>3 DEF SocketsAccounted
<1> QED
  BY <1>1, RuntimeAlways, PTL

\* When a relay session's end was received, nothing more is sent to it, and where a
\* wake word is required the next session waits for it.
THEOREM SpecEndedIsOver == Spec => []EndedIsOver
<1>1. IInv => EndedIsOver
  <2> SUFFICES ASSUME IInv PROVE EndedIsOver
    OBVIOUS
  <2>1. NoSendToEndedSession
    BY DEF IInv, QuietInv, TransportAlone, NoSendToEndedSession
  <2>2. WakeGateRearmed
    <3> SUFFICES ASSUME Quiet, lapsed, NEW l \in Loops, Inside(l, "handshake")
                 PROVE  Armed
      BY DEF WakeGateRearmed, Armed
    <3>1. ops[l] = AtHandshake
      BY CallTells DEF IInv, QuietInv, LoopAlone, Inside
    <3>2. conn # "connected"
      BY <3>1 DEF IInv, QuietInv, LoopAlone
    <3> QED
      BY <3>2 DEF IInv, QuietInv, TransportAlone
  <2> QED
    BY <2>1, <2>2 DEF EndedIsOver
<1> QED
  BY <1>1, RuntimeAlways, PTL
=============================================================================
