----------------------- MODULE NativeVoiceLoopProofs -----------------------
(***************************************************************************)
(* What NativeVoiceLoop promises for every number of threads, recorders    *)
(* and frames.                                                             *)
(***************************************************************************)
EXTENDS NativeVoiceLoop, FiniteSetTheorems, SequenceTheorems, TLAPS

Typed ==
    /\ step \in [Threads -> Steps]
    /\ handle \in [Threads -> Recorders \cup {None}]
    /\ process \in Recorders \cup {None} /\ recording \subseteq Recorders
    /\ pipe \in [Recorders -> Seq(Nat)] /\ frames \in Seq(Nat)
    /\ vad_triggered \in BOOLEAN
    /\ voice \in Nat /\ silence \in Nat /\ captured \in Nat
    /\ recorded \in Nat /\ heard \in Nat /\ spoke_at \in Nat /\ speaks \in Nat
    /\ thread \in Loops \cup {None} /\ alive \subseteq Loops /\ raised \subseteq Loops
    /\ \A l \in Loops : step[l] = "read" => handle[l] \in Recorders

\* There is one loop, the one that was started last, until a stop() gives up on it.
OneLoop ==
    ~abandoned =>
        /\ alive \subseteq {thread}
        /\ \A l \in Loops \ alive : step[l] = "idle"
        /\ step[Owner] \in {"close", "closing"} => thread = None

\* Nobody but the loop starts a recorder: what it reads or is about to end is the
\* current one, unless that was forgotten under it, and it plays while there is none.
OnlyTheLoopOpens ==
    ~abandoned =>
        /\ \A l \in Loops :
               step[l] \in {"read", "muting", "closing"} => process \in {handle[l], None}
        /\ step[Owner] = "closing" => process \in {handle[Owner], None}
        /\ \A l \in Loops : step[l] \in {"play", "clear"} => process = None

Increasing(q) == \A i, j \in DOMAIN q : i < j => q[i] < q[j]
Above(n, q) == \A i \in DOMAIN q : q[i] > n
AtMost(n, q) == \A i \in DOMAIN q : q[i] <= n
AllBelow(q, p) == \A i \in DOMAIN q : Above(q[i], p)

\* Frames are numbered as they are recorded.
RecordedInOrder ==
    /\ \A r \in Recorders : Increasing(pipe[r]) /\ AtMost(recorded, pipe[r])
    /\ AtMost(recorded, frames) /\ heard <= recorded /\ spoke_at <= recorded

\* The recorders whose frames the loop reads, or will read next.
Live == Recorders \cap ({process} \cup {handle[l] : l \in {k \in Loops : step[k] = "read"}})

\* What is still to be read was recorded after all that was read, after the last
\* utterance and after the loop's last word; so was what was read since.
FramesFresh ==
    ~abandoned =>
        /\ \A r \in Live : /\ AllBelow(frames, pipe[r])
                           /\ Above(heard, pipe[r]) /\ Above(spoke_at, pipe[r])
        /\ Increasing(frames) /\ Above(heard, frames) /\ Above(spoke_at, frames)

\* The steps of a turn, from the utterance that was taken to the next check.
Turn == {"asr", "think", "mute", "muting", "play", "clear", "turn_over"}

CountsAgree ==
    /\ captured = Len(frames)
    /\ vad_triggered <=> voice >= MinVoice
    /\ frames = <<>> <=> voice = 0

\* The counts are those of the frames, except within a turn, and that leaves no
\* frames to be counted.
CountsKept ==
    ~abandoned =>
        /\ (\A l \in Loops : step[l] \notin Turn) => CountsAgree
        /\ (\E l \in Loops : step[l] \in Turn) => frames = <<>>

\* The recorders that are neither current nor about to be ended, and the speakers
\* that can still make one of the current one.
Ends(t) == step[t] \in {"muting", "closing"}
Lost == recording \ ({process} \cup {handle[t] : t \in {k \in Threads : Ends(k)}})
Muting == {u \in Users : step[u] \in {"mute", "muting"}}

Room(lost, muting, n) ==
    /\ IsFiniteSet(lost) /\ IsFiniteSet(muting)
    /\ Cardinality(lost) + Cardinality(muting) <= n

FewLost == ~abandoned => Room(Lost, Muting, speaks)

IInv == Typed /\ OneLoop /\ OnlyTheLoopOpens /\ RecordedInOrder /\ FramesFresh /\ CountsKept /\ FewLost

-----------------------------------------------------------------------------
(* Types *)

\* What a step of thread `t` leaves to the others.
Minds(t) ==
    /\ step' \in [Threads -> Steps] /\ handle' \in [Threads -> Recorders \cup {None}]
    /\ \A k \in Threads \ {t} : step'[k] = step[k] /\ handle'[k] = handle[k]

LEMMA ReadFrameTyped ==
    ASSUME Typed, NEW l \in Loops, ReadFrame(l)
    PROVE  /\ frames' \in Seq(Nat) /\ pipe' \in [Recorders -> Seq(Nat)]
           /\ vad_triggered' \in BOOLEAN /\ voice' \in Nat /\ silence' \in Nat /\ captured' \in Nat
<1>1. /\ handle[l] \in Recorders /\ pipe[handle[l]] \in Seq(Nat)
      /\ Head(pipe[handle[l]]) \in Nat /\ Tail(pipe[handle[l]]) \in Seq(Nat)
  BY HeadTailProperties DEF Typed, ReadFrame
<1> DEFINE f == Head(pipe[handle[l]])
<1>2. <<>> \in Seq(Nat) /\ <<f>> \in Seq(Nat) /\ Append(frames, f) \in Seq(Nat)
  BY <1>1, AppendProperties DEF Typed
<1>3. pipe' \in [Recorders -> Seq(Nat)]
  BY <1>1 DEF ReadFrame, Typed
<1> HIDE DEF f
<1>4. CASE ObserveVoice(f)
  <2>1. voice + 1 \in Nat /\ captured + 1 \in Nat /\ MinVoice \in Nat
    BY NativeVoiceAssumption DEF Typed
  <2> QED
    BY <1>2, <1>3, <1>4, <2>1 DEF ObserveVoice, Smaller, Typed
<1>5. CASE ObservePause(f)
  <2>1. silence + 1 \in Nat /\ captured + 1 \in Nat
    BY DEF Typed
  <2> QED
    BY <1>2, <1>3, <1>5, <2>1 DEF ObservePause, Typed
<1>6. CASE ObserveSilence
  <2>1. CASE frames' = <<>> /\ ResetCounters
    BY <1>2, <1>3, <2>1 DEF ResetCounters
  <2>2. CASE UNCHANGED <<frames, vad>>
    BY <1>3, <2>2 DEF vad, Typed
  <2> QED
    BY <1>6, <2>1, <2>2 DEF ObserveSilence
<1> QED
  BY <1>4, <1>5, <1>6 DEF ReadFrame, f

\* A recorder that is started or found running.
LEMMA OpenRecorderTyped ==
    ASSUME Typed, NEW l \in Loops, OpenRecorder(l)
    PROVE  /\ process' \in Recorders /\ recording' \subseteq Recorders
           /\ pipe' \in [Recorders -> Seq(Nat)] /\ recorded' = recorded
           /\ handle' = [handle EXCEPT ![l] = process']
<1>1. CASE Running
  BY <1>1, NativeVoiceAssumption DEF OpenRecorder, Running, source, Typed
<1>2. CASE ~Running
  <2>1. FreeRecorders # {}
    BY <1>2 DEF OpenRecorder
  <2> DEFINE r == CHOOSE k \in FreeRecorders : TRUE
  <2>2. r \in Recorders
    BY <2>1 DEF FreeRecorders
  <2>3. /\ process' = r /\ recording' = recording \cup {r}
        /\ pipe' = [pipe EXCEPT ![r] = <<>>] /\ handle' = [handle EXCEPT ![l] = r]
        /\ recorded' = recorded
    BY <1>2 DEF OpenRecorder
  <2>4. <<>> \in Seq(Nat)
    BY EmptySeq
  <2> HIDE DEF r
  <2> QED
    BY <2>2, <2>3, <2>4 DEF Typed
<1> QED
  BY <1>1, <1>2

LEMMA LoopStepTyped ==
    ASSUME Typed, NEW l \in Loops, LoopStep(l)
    PROVE  Typed' /\ Minds(l)
<1> l \in Threads /\ Loops \subseteq Threads
  BY DEF Threads
<1> USE DEF Goto, vad, source, lifecycle, gate
<1>1. CASE RunChecks(l)
  <2>1. /\ process' \in Recorders /\ recording' \subseteq Recorders
        /\ pipe' \in [Recorders -> Seq(Nat)] /\ recorded' = recorded
        /\ handle' = [handle EXCEPT ![l] = process']
        /\ step' = [step EXCEPT ![l] = "read"]
        /\ UNCHANGED <<frames, vad, lifecycle, gate, raised, heard, spoke_at, speaks>>
    BY <1>1, OpenRecorderTyped DEF RunChecks
  <2> QED
    BY <2>1 DEF Typed, Steps, Minds
<1>2. CASE RunLeaves(l) \/ ReadEnds(l)
  BY <1>2 DEF RunLeaves, ReadEnds, Typed, Steps, Minds
<1>3. CASE ReadFrame(l)
  <2>1. /\ step' = [step EXCEPT ![l] = IF UtteranceOver THEN "finalize" ELSE "check"]
        /\ handle' = [handle EXCEPT ![l] = None]
        /\ UNCHANGED <<process, recording, recorded, lifecycle, gate, raised,
                       heard, spoke_at, speaks>>
    BY <1>3 DEF ReadFrame
  <2>2. Minds(l) /\ step'[l] \in {"finalize", "check"}
    BY <2>1 DEF Typed, Steps, Minds
  <2>3. \A k \in Loops : step'[k] = "read" => handle'[k] \in Recorders
    BY <2>2 DEF Typed, Minds
  <2> QED
    BY <1>3, <2>1, <2>2, <2>3, ReadFrameTyped DEF Typed, Minds
<1>4. CASE Finalize(l)
  <2>1. CASE Takes(l)
    <3>1. frames[Len(frames)] \in Nat
      BY <2>1, EmptySeq DEF Takes, Typed
    <3> QED
      BY <1>4, <2>1, <3>1, EmptySeq DEF Finalize, Takes, Typed, Steps, Minds
  <2>2. CASE TakesNothing(l)
    BY <1>4, <2>2 DEF Finalize, TakesNothing, ResetCounters, Typed, Steps, Minds
  <2> QED
    BY <1>4, <2>1, <2>2 DEF Finalize
<1>5. CASE Transcribe(l)
  <2>1. step'= [step EXCEPT ![l] = step'[l]] /\ step'[l] \in {"check", "mute", "think"}
    BY <1>5 DEF Transcribe, Dismiss, Acknowledge, Ask, Typed
  <2>2. vad_triggered' \in BOOLEAN /\ voice' \in Nat /\ silence' \in Nat /\ captured' \in Nat
    <3>1. CASE Dismiss(l)
      BY <3>1 DEF Dismiss, ResetCounters, Typed
    <3>2. CASE Acknowledge(l) \/ Ask(l)
      BY <3>2 DEF Acknowledge, Ask, Typed
    <3> QED
      BY <1>5, <3>1, <3>2 DEF Transcribe
  <2>3. UNCHANGED <<source, frames, lifecycle, handle, raised, heard, spoke_at, speaks>>
    BY <1>5 DEF Transcribe
  <2>4. Minds(l)
    BY <2>1, <2>3 DEF Minds, Typed, Steps
  <2> QED
    BY <2>1, <2>2, <2>3, <2>4 DEF Typed, Minds
<1>6. CASE Reply(l)
  BY <1>6 DEF Reply, Typed, Steps, Minds
<1>7. CASE TurnOver(l)
  BY <1>7 DEF TurnOver, ResetCounters, Typed, Steps, Minds
<1> QED
  BY <1>1, <1>2, <1>3, <1>4, <1>5, <1>6, <1>7 DEF LoopStep

LEMMA SpeechStepTyped ==
    ASSUME Typed, NEW t \in Loops \cup Users, SpeechStep(t)
    PROVE  Typed' /\ Minds(t)
<1> t \in Threads /\ Loops \subseteq Threads
  BY DEF Threads
<1> USE DEF Goto, vad, source, lifecycle, gate
<1>1. CASE Mute(t)
  BY <1>1 DEF Mute, StopReads, StopTerminates, Typed, Steps, Minds
<1>2. CASE Played(t)
  BY <1>2 DEF Played, Typed, Steps, Minds
<1>3. CASE Clear(t)
  BY <1>3, EmptySeq DEF Clear, Cleared, ResetCounters, Typed, Steps, Minds
<1> QED
  BY <1>1, <1>2, <1>3 DEF SpeechStep

LEMMA CloseTyped ==
    ASSUME Typed, NEW t \in Loops \cup {Owner}, Close(t)
    PROVE  Typed' /\ Minds(t)
<1> t \in Threads /\ Loops \subseteq Threads
  BY DEF Threads
<1> USE DEF Goto, vad, source, gate
<1>1. CASE step[t] = "close" /\ StopReads(t) /\ Goto(t, "closing") /\ UNCHANGED alive
  BY <1>1 DEF Close, StopReads, Typed, Steps, Minds
<1>2. CASE StopTerminates(t) /\ alive' = alive \ {t} /\ Goto(t, "idle")
  BY <1>2 DEF Close, StopTerminates, Typed, Steps, Minds
<1> QED
  BY <1>1, <1>2 DEF Close

LEMMA NextTyped ==
    ASSUME Typed, [Next]_vars
    PROVE  Typed'
<1> Loops \subseteq Threads /\ Users \subseteq Threads /\ Owner \in Threads
  BY DEF Threads
<1> USE DEF Goto, vad, source, lifecycle, gate
<1>1. ASSUME NEW l \in Loops, LoopStep(l) PROVE Typed'
  BY <1>1, LoopStepTyped
<1>2. ASSUME NEW t \in Loops \cup Users, SpeechStep(t) PROVE Typed'
  BY <1>2, SpeechStepTyped
<1>3. ASSUME NEW t \in Loops \cup {Owner}, Close(t) PROVE Typed'
  BY <1>3, CloseTyped
<1>4. ASSUME NEW u \in Users, Speak(u) PROVE Typed'
  <2>1. speaks + 1 \in Nat
    BY DEF Typed
  <2> QED
    BY <1>4, <2>1 DEF Speak, Typed, Steps
<1>5. CASE Start
  BY <1>5 DEF Start, Typed, Steps
<1>6. CASE Stop \/ Joined
  BY <1>6 DEF Stop, Joined, Typed, Steps
<1>7. ASSUME NEW r \in Recorders, Record(r) PROVE Typed'
  <2>1. recorded + 1 \in Nat
    BY DEF Typed
  <2>2. pipe' \in [Recorders -> Seq(Nat)]
    BY <1>7, <2>1, AppendProperties DEF Record, Typed
  <2> QED
    BY <1>7, <2>1, <2>2 DEF Record, Typed
<1>8. ASSUME NEW r \in Recorders, RecorderFails(r) PROVE Typed'
  BY <1>8 DEF RecorderFails, Typed
<1>9. CASE UNCHANGED vars
  BY <1>9 DEF vars, Typed
<1> QED
  BY <1>1, <1>2, <1>3, <1>4, <1>5, <1>6, <1>7, <1>8, <1>9 DEF Next

LEMMA InitTyped ==
    ASSUME Init
    PROVE  Typed
  BY EmptySeq DEF Init, Typed, Steps, Threads

-----------------------------------------------------------------------------
(* One loop, and the recorder it opens. *)

\* The loop that does something is the only one, and the owner is not closing.
LEMMA BusyLoopIsAlone ==
    ASSUME Typed, OneLoop, ~abandoned, NEW l \in Loops, step[l] # "idle"
    PROVE  /\ l \in alive /\ alive = {l} /\ \A k \in Loops \ {l} : step[k] = "idle"
           /\ step[Owner] \notin {"close", "closing"}
<1>1. l \in alive /\ alive \subseteq {thread} /\ None \notin Loops
  BY NativeVoiceAssumption DEF OneLoop
<1> QED
  BY <1>1 DEF OneLoop

\* A step of a loop starts from where the loop is, and goes on to a step of it.
LEMMA LoopStepGoes ==
    ASSUME Typed, NEW l \in Loops, LoopStep(l)
    PROVE  /\ step[l] \notin {"idle", "muting", "closing"}
           /\ step'[l] \notin {"idle", "muting", "closing", "play", "clear"}
           /\ UNCHANGED lifecycle
<1> l \in Threads
  BY DEF Threads
<1> USE DEF Goto, Typed
<1>1. CASE RunChecks(l) \/ RunLeaves(l)
  BY <1>1 DEF RunChecks, RunLeaves
<1>2. CASE ReadEnds(l) \/ ReadFrame(l)
  BY <1>2 DEF ReadEnds, ReadFrame
<1>3. CASE Finalize(l)
  BY <1>3 DEF Finalize, Takes, TakesNothing
<1>4. CASE Transcribe(l)
  BY <1>4 DEF Transcribe, Dismiss, Acknowledge, Ask
<1>5. CASE Reply(l) \/ TurnOver(l)
  BY <1>5 DEF Reply, TurnOver
<1> QED
  BY <1>1, <1>2, <1>3, <1>4, <1>5 DEF LoopStep

\* A step of _play_text, and where it is the last one.
LEMMA SpeechStepGoes ==
    ASSUME Typed, NEW t \in Loops \cup Users, SpeechStep(t)
    PROVE  /\ step[t] # "idle" /\ step'[t] \notin {"check", "read", "close", "closing"}
           /\ UNCHANGED <<thread, abandoned>>
           /\ \/ UNCHANGED alive /\ (step'[t] = "idle" => t \notin Loops)
              \/ alive' = alive \ {t} /\ step'[t] = "idle"
<1> t \in Threads
  BY DEF Threads
<1> USE DEF Goto, Typed, lifecycle
<1>1. CASE Mute(t)
  BY <1>1 DEF Mute
<1>2. CASE Played(t)
  BY <1>2 DEF Played
<1>3. CASE Clear(t)
  BY <1>3 DEF Clear, Cleared
<1> QED
  BY <1>1, <1>2, <1>3 DEF SpeechStep

LEMMA CloseGoes ==
    ASSUME Typed, NEW t \in Loops \cup {Owner}, Close(t)
    PROVE  /\ UNCHANGED <<thread, abandoned>>
           /\ \/ step[t] = "close" /\ step'[t] = "closing" /\ StopReads(t) /\ UNCHANGED alive
              \/ step[t] = "closing" /\ step'[t] = "idle" /\ StopTerminates(t) /\ alive' = alive \ {t}
<1> t \in Threads
  BY DEF Threads
<1> QED
  BY DEF Close, Goto, Typed

LEMMA NextKeepsOneLoop ==
    ASSUME Typed, OneLoop, [Next]_vars
    PROVE  OneLoop'
<1>0. /\ Loops \subseteq Threads /\ Users \subseteq Threads /\ Owner \in Threads
      /\ Owner \notin Loops \cup Users /\ Loops \cap Users = {} /\ None \notin Loops
      /\ step \in [Threads -> Steps] /\ alive \subseteq Loops
  BY NativeVoiceAssumption DEF Threads, Typed
<1>1. ASSUME NEW l \in Loops, LoopStep(l) PROVE OneLoop'
  <2>1. Minds(l) /\ UNCHANGED lifecycle /\ step[l] # "idle"
    BY <1>1, LoopStepTyped, LoopStepGoes
  <2> QED
    BY <1>0, <2>1 DEF OneLoop, Minds, lifecycle
<1>2. ASSUME NEW t \in Loops \cup Users, SpeechStep(t) PROVE OneLoop'
  <2>1. /\ Minds(t) /\ step[t] # "idle" /\ UNCHANGED <<thread, abandoned>>
        /\ \/ UNCHANGED alive
           \/ alive' = alive \ {t} /\ step'[t] = "idle"
    BY <1>2, SpeechStepTyped, SpeechStepGoes
  <2> QED
    BY <1>0, <2>1 DEF OneLoop, Minds
<1>3. ASSUME NEW t \in Loops \cup {Owner}, Close(t) PROVE OneLoop'
  <2>1. Minds(t)
    BY <1>3, CloseTyped
  <2>2. /\ UNCHANGED <<thread, abandoned>> /\ step[t] \in {"close", "closing"}
        /\ UNCHANGED alive \/ (alive' = alive \ {t} /\ step'[t] = "idle")
    BY <1>3, CloseGoes
  <2> QED
    BY <1>0, <2>1, <2>2 DEF OneLoop, Minds
<1>4. ASSUME NEW u \in Users, Speak(u) PROVE OneLoop'
  BY <1>0, <1>4 DEF OneLoop, Speak, Goto, lifecycle
<1>5. CASE Start
  <2>1. PICK l \in Loops \ alive :
            thread' = l /\ alive' = alive \cup {l} /\ step' = [step EXCEPT ![l] = "check"]
    BY <1>5 DEF Start
  <2>2. thread \notin alive /\ step[Owner] = "idle" /\ UNCHANGED abandoned
    BY <1>5 DEF Start
  <2> QED
    BY <1>0, <2>1, <2>2 DEF OneLoop
<1>6. CASE Stop
  BY <1>0, <1>6 DEF OneLoop, Stop, Goto
<1>7. CASE Joined
  BY <1>0, <1>7 DEF OneLoop, Joined, Goto
<1>8. CASE \E r \in Recorders : Record(r) \/ RecorderFails(r)
  BY <1>8 DEF OneLoop, Record, RecorderFails, lifecycle
<1>9. CASE UNCHANGED vars
  BY <1>9 DEF OneLoop, vars, lifecycle
<1> QED
  BY <1>1, <1>2, <1>3, <1>4, <1>5, <1>6, <1>7, <1>8, <1>9 DEF Next

LEMMA InitOneLoop ==
    ASSUME Init
    PROVE  OneLoop
  BY DEF Init, OneLoop, Threads

\* What a step that opens no recorder may do to the current one.
ForgetsAtMost == process' \in {process, None}

LEMMA NextKeepsOpener ==
    ASSUME Typed, OneLoop, OnlyTheLoopOpens, [Next]_vars
    PROVE  OnlyTheLoopOpens'
<1>0. /\ Loops \subseteq Threads /\ Users \subseteq Threads /\ Owner \in Threads
      /\ Owner \notin Loops \cup Users /\ Loops \cap Users = {} /\ None \notin Loops
      /\ step \in [Threads -> Steps] /\ alive \subseteq Loops
      /\ handle \in [Threads -> Recorders \cup {None}]
  BY NativeVoiceAssumption DEF Threads, Typed
<1>1. ASSUME NEW l \in Loops, LoopStep(l) PROVE OnlyTheLoopOpens'
  <2>1. /\ Minds(l) /\ UNCHANGED lifecycle /\ step[l] # "idle"
        /\ step'[l] \notin {"muting", "closing", "play", "clear"}
    BY <1>1, LoopStepTyped, LoopStepGoes
  <2> SUFFICES ASSUME ~abandoned PROVE OnlyTheLoopOpens'
    BY <2>1 DEF OnlyTheLoopOpens, lifecycle
  <2>2. /\ \A k \in Loops \ {l} : step'[k] = "idle"
        /\ step'[Owner] \notin {"close", "closing"}
    BY <1>0, <2>1, BusyLoopIsAlone DEF Minds
  <2>3. step'[l] = "read" => process' \in {handle'[l], None}
    <3>1. CASE RunChecks(l)
      BY <1>0, <3>1, OpenRecorderTyped DEF RunChecks
    <3>2. CASE ~RunChecks(l)
      <4>1. step'[l] # "read"
        BY <1>0, <1>1, <3>2
        DEF LoopStep, RunLeaves, ReadEnds, ReadFrame, Finalize, Takes, TakesNothing,
            Transcribe, Dismiss, Acknowledge, Ask, Reply, TurnOver, Goto
      <4> QED
        BY <4>1
    <3> QED
      BY <3>1, <3>2
  <2> QED
    BY <1>0, <2>1, <2>2, <2>3 DEF OnlyTheLoopOpens
<1>2. ASSUME NEW t \in Loops \cup Users, SpeechStep(t) PROVE OnlyTheLoopOpens'
  <2>1. Minds(t) /\ UNCHANGED abandoned /\ step'[t] \notin {"read", "closing"}
    BY <1>2, SpeechStepTyped, SpeechStepGoes
  <2> SUFFICES ASSUME ~abandoned PROVE OnlyTheLoopOpens'
    BY <2>1 DEF OnlyTheLoopOpens
  <2>2. /\ process' \in {process, None}
        /\ step'[t] = "muting" => process' = handle'[t]
        /\ step'[t] \in {"play", "clear"} => process' = None \/ (step[t] = "play" /\ process' = process)
    <3>1. CASE Mute(t)
      BY <1>0, <3>1 DEF Mute, StopReads, StopTerminates, Goto, source
    <3>2. CASE Played(t)
      BY <1>0, <3>2 DEF Played, Goto, source
    <3>3. CASE Clear(t)
      BY <1>0, <3>3 DEF Clear, Cleared, Goto, source
    <3> QED
      BY <1>2, <3>1, <3>2, <3>3 DEF SpeechStep
  <2> QED
    BY <1>0, <2>1, <2>2 DEF OnlyTheLoopOpens, Minds
<1>3. ASSUME NEW t \in Loops \cup {Owner}, Close(t) PROVE OnlyTheLoopOpens'
  <2>1. Minds(t) /\ UNCHANGED abandoned
    BY <1>3, CloseTyped, CloseGoes
  <2>2. \/ step'[t] = "closing" /\ process' = process /\ handle'[t] = process
        \/ step'[t] = "idle" /\ process' = None
    BY <1>0, <1>3, CloseGoes DEF StopReads, StopTerminates, source
  <2> QED
    BY <1>0, <2>1, <2>2 DEF OnlyTheLoopOpens, Minds
<1>4. ASSUME NEW u \in Users, Speak(u) PROVE OnlyTheLoopOpens'
  BY <1>0, <1>4 DEF OnlyTheLoopOpens, Speak, Goto, source, lifecycle
<1>5. CASE Start \/ Stop
  BY <1>0, <1>5 DEF OnlyTheLoopOpens, Start, Stop, Goto, source
<1>6. CASE Joined
  BY <1>0, <1>6 DEF OnlyTheLoopOpens, Joined, Goto, source
<1>7. CASE \E r \in Recorders : Record(r) \/ RecorderFails(r)
  BY <1>7 DEF OnlyTheLoopOpens, Record, RecorderFails, lifecycle
<1>8. CASE UNCHANGED vars
  BY <1>8 DEF OnlyTheLoopOpens, vars, lifecycle, source
<1> QED
  BY <1>1, <1>2, <1>3, <1>4, <1>5, <1>6, <1>7, <1>8 DEF Next

LEMMA InitOpener ==
    ASSUME Init
    PROVE  OnlyTheLoopOpens
  BY DEF Init, OnlyTheLoopOpens, Threads

-----------------------------------------------------------------------------
(* Frames are numbered as they are recorded. *)

LEMMA TailIsLater ==
    ASSUME NEW q \in Seq(Nat), q # <<>>
    PROVE  /\ Tail(q) \in Seq(Nat) /\ Head(q) \in Nat
           /\ \A n : Above(n, q) => Above(n, Tail(q)) /\ Head(q) > n
           /\ \A n : AtMost(n, q) => AtMost(n, Tail(q)) /\ Head(q) <= n
           /\ Increasing(q) => Increasing(Tail(q)) /\ Above(Head(q), Tail(q))
<1>1. /\ Tail(q) \in Seq(Nat) /\ Head(q) = q[1] /\ q[1] \in Nat /\ Len(q) \in Nat \ {0}
      /\ Len(Tail(q)) = Len(q) - 1
      /\ \A i \in 1 .. Len(Tail(q)) : Tail(q)[i] = q[i + 1]
  BY HeadTailProperties, EmptySeq, ElementOfSeq
<1>2. DOMAIN q = 1 .. Len(q) /\ DOMAIN Tail(q) = 1 .. Len(q) - 1
  BY <1>1, LenProperties
<1>3. \A i \in DOMAIN Tail(q) : i + 1 \in DOMAIN q /\ Tail(q)[i] = q[i + 1] /\ i + 1 > 1
  BY <1>1, <1>2
<1>4. 1 \in DOMAIN q
  BY <1>1, <1>2
<1>5. \A n : Above(n, q) => Above(n, Tail(q)) /\ Head(q) > n
  BY <1>1, <1>3, <1>4 DEF Above
<1>6. \A n : AtMost(n, q) => AtMost(n, Tail(q)) /\ Head(q) <= n
  BY <1>1, <1>3, <1>4 DEF AtMost
<1>7. Increasing(q) => Above(Head(q), Tail(q))
  BY <1>1, <1>3, <1>4 DEF Increasing, Above
<1>8. Increasing(q) => Increasing(Tail(q))
  <2> SUFFICES ASSUME Increasing(q), NEW i \in DOMAIN Tail(q), NEW j \in DOMAIN Tail(q), i < j
               PROVE  Tail(q)[i] < Tail(q)[j]
    BY DEF Increasing
  <2>1. i + 1 < j + 1
    BY <1>2
  <2> QED
    BY <1>3, <2>1 DEF Increasing
<1> QED
  BY <1>1, <1>5, <1>6, <1>7, <1>8

LEMMA AppendIsLast ==
    ASSUME NEW q \in Seq(Nat), NEW x \in Nat
    PROVE  /\ Append(q, x) \in Seq(Nat) /\ Len(Append(q, x)) = Len(q) + 1
           /\ \A n : Above(n, q) /\ x > n => Above(n, Append(q, x))
           /\ \A n : AtMost(n, q) /\ x <= n => AtMost(n, Append(q, x))
           /\ Increasing(q) /\ (\A i \in DOMAIN q : q[i] < x) => Increasing(Append(q, x))
           /\ \A p : AllBelow(q, p) /\ Above(x, p) => AllBelow(Append(q, x), p)
<1>1. /\ Append(q, x) \in Seq(Nat) /\ Len(Append(q, x)) = Len(q) + 1 /\ Len(q) \in Nat
      /\ \A i \in 1 .. Len(q) : Append(q, x)[i] = q[i]
      /\ Append(q, x)[Len(q) + 1] = x
  BY AppendProperties, LenProperties
<1>2. DOMAIN q = 1 .. Len(q) /\ DOMAIN Append(q, x) = 1 .. Len(q) + 1
  BY <1>1, LenProperties
<1>3. \A i \in DOMAIN Append(q, x) :
          \/ i \in DOMAIN q /\ Append(q, x)[i] = q[i]
          \/ i = Len(q) + 1 /\ Append(q, x)[i] = x
  BY <1>1, <1>2
<1>4. \A n : Above(n, q) /\ x > n => Above(n, Append(q, x))
  BY <1>3 DEF Above
<1>5. \A n : AtMost(n, q) /\ x <= n => AtMost(n, Append(q, x))
  BY <1>3 DEF AtMost
<1>6. Increasing(q) /\ (\A i \in DOMAIN q : q[i] < x) => Increasing(Append(q, x))
  <2> SUFFICES ASSUME Increasing(q), \A k \in DOMAIN q : q[k] < x,
                      NEW i \in DOMAIN Append(q, x), NEW j \in DOMAIN Append(q, x), i < j
               PROVE  Append(q, x)[i] < Append(q, x)[j]
    BY DEF Increasing
  <2>1. i \in DOMAIN q /\ Append(q, x)[i] = q[i]
    BY <1>1, <1>2
  <2> QED
    BY <1>3, <2>1 DEF Increasing
<1>7. \A p : AllBelow(q, p) /\ Above(x, p) => AllBelow(Append(q, x), p)
  BY <1>3 DEF AllBelow
<1> QED
  BY <1>1, <1>4, <1>5, <1>6, <1>7

LEMMA EmptyIsAll ==
    /\ Increasing(<<>>) /\ \A n : Above(n, <<>>) /\ AtMost(n, <<>>)
    /\ \A q : AllBelow(<<>>, q) /\ AllBelow(q, <<>>)
  BY DEF Increasing, Above, AtMost, AllBelow

LEMMA SingletonIsFirst ==
    ASSUME NEW x \in Nat
    PROVE  /\ Increasing(<<x>>) /\ \A p : Above(x, p) => AllBelow(<<x>>, p)
           /\ \A n : x > n => Above(n, <<x>>)
           /\ \A n : x <= n => AtMost(n, <<x>>)
<1>1. \A i \in DOMAIN <<x>> : i = 1 /\ <<x>>[i] = x
  OBVIOUS
<1>2. Increasing(<<x>>)
  BY <1>1 DEF Increasing
<1> QED
  BY <1>1, <1>2 DEF Above, AtMost, AllBelow

\* What reading a frame does to the pipe it is read from and to the utterance.
LEMMA ReadFrameEffect ==
    ASSUME Typed, NEW l \in Loops, ReadFrame(l)
    PROVE  LET r == handle[l]
               f == Head(pipe[r])
           IN  /\ step[l] = "read" /\ r \in Recorders /\ pipe[r] # <<>> /\ pipe[r] \in Seq(Nat)
               /\ frames' \in {<<f>>, Append(frames, f), frames, <<>>}
               /\ pipe' = [pipe EXCEPT ![r] = Tail(pipe[r])]
               /\ step'[l] \in {"check", "finalize"} /\ handle'[l] = None
               /\ UNCHANGED <<process, recording, recorded, lifecycle, heard, spoke_at, speaks>>
<1> l \in Threads
  BY DEF Threads
<1>1. frames' \in {<<Head(pipe[handle[l]])>>, Append(frames, Head(pipe[handle[l]])), frames, <<>>}
  BY DEF ReadFrame, ObserveVoice, ObservePause, ObserveSilence
<1>2. step[l] = "read" /\ handle[l] \in Recorders /\ pipe[handle[l]] # <<>> /\ pipe[handle[l]] \in Seq(Nat)
  BY DEF ReadFrame, Typed
<1>3. step'[l] \in {"check", "finalize"} /\ handle'[l] = None
  BY DEF ReadFrame, Goto, Typed
<1> QED
  BY <1>1, <1>2, <1>3 DEF ReadFrame

\* The recorder that a check opens, if it opens one, has an empty pipe.
LEMMA RunChecksEffect ==
    ASSUME Typed, NEW l \in Loops, RunChecks(l)
    PROVE  /\ process' \in Recorders /\ handle'[l] = process' /\ step'[l] = "read"
           /\ \/ Running /\ UNCHANGED <<process, recording, pipe>>
              \/ /\ ~Running /\ process' \in FreeRecorders
                 /\ recording' = recording \cup {process'}
                 /\ pipe' = [pipe EXCEPT ![process'] = <<>>]
           /\ UNCHANGED <<recorded, frames, vad, lifecycle, heard, spoke_at, speaks>>
<1> l \in Threads
  BY DEF Threads
<1>1. process' \in Recorders /\ handle'[l] = process' /\ step'[l] = "read"
  BY OpenRecorderTyped DEF RunChecks, Goto, Typed
<1>2. CASE Running
  BY <1>1, <1>2 DEF RunChecks, OpenRecorder, source
<1>3. CASE ~Running
  <2> DEFINE r == CHOOSE k \in FreeRecorders : TRUE
  <2>1. r \in FreeRecorders
    BY <1>3 DEF RunChecks, OpenRecorder
  <2>2. /\ process' = r /\ recording' = recording \cup {r}
        /\ pipe' = [pipe EXCEPT ![r] = <<>>] /\ recorded' = recorded
    BY <1>3 DEF RunChecks, OpenRecorder
  <2> HIDE DEF r
  <2> QED
    BY <1>1, <1>3, <2>1, <2>2 DEF RunChecks
<1> QED
  BY <1>2, <1>3

\* What the steps of the loop that neither read nor check do to the frames.
LEMMA OtherLoopStep ==
    ASSUME Typed, NEW l \in Loops, LoopStep(l), ~RunChecks(l), ~ReadFrame(l)
    PROVE  /\ UNCHANGED <<pipe, recording, recorded, spoke_at, speaks>> /\ step'[l] # "read"
           /\ \/ process' = process
              \/ process' = None /\ step[l] = "read" /\ handle[l] \notin recording
           /\ \/ UNCHANGED <<frames, heard>>
              \/ frames # <<>> /\ frames' = <<>> /\ heard' = frames[Len(frames)]
<1> l \in Threads
  BY DEF Threads
<1> USE DEF source, Goto, Typed
<1>1. CASE RunLeaves(l) \/ ReadEnds(l)
  BY <1>1 DEF RunLeaves, ReadEnds
<1>2. CASE Finalize(l)
  BY <1>2 DEF Finalize, Takes, TakesNothing
<1>3. CASE Transcribe(l)
  BY <1>3 DEF Transcribe, Dismiss, Acknowledge, Ask
<1>4. CASE Reply(l) \/ TurnOver(l)
  BY <1>4 DEF Reply, TurnOver
<1> QED
  BY <1>1, <1>2, <1>3, <1>4 DEF LoopStep

\* Speech and the end of a loop open no recorder and read nothing.
LEMMA SpeechEffect ==
    ASSUME Typed, NEW t \in Loops \cup Users, SpeechStep(t)
    PROVE  /\ UNCHANGED <<pipe, recorded, heard, speaks>> /\ process' \in {process, None}
           /\ \/ UNCHANGED <<frames, spoke_at>>
              \/ /\ frames' = <<>> /\ step[t] = "clear"
                 /\ spoke_at' = IF t \in Loops THEN recorded ELSE spoke_at
<1> USE DEF source
<1>1. CASE Mute(t)
  BY <1>1 DEF Mute, StopReads, StopTerminates
<1>2. CASE Played(t)
  BY <1>2 DEF Played
<1>3. CASE Clear(t)
  BY <1>3 DEF Clear, Cleared
<1> QED
  BY <1>1, <1>2, <1>3 DEF SpeechStep

LEMMA CloseEffect ==
    ASSUME Typed, NEW t \in Loops \cup {Owner}, Close(t)
    PROVE  UNCHANGED <<pipe, recorded, heard, speaks, frames, spoke_at>> /\ process' \in {process, None}
  BY DEF Close, StopReads, StopTerminates, source

\* The owner and a speak() change nothing of it.
LEMMA OwnerEffect ==
    ASSUME Typed, Start \/ Stop \/ Joined \/ \E u \in Users : Speak(u)
    PROVE  /\ UNCHANGED <<pipe, process, recording, recorded, handle, heard, frames, spoke_at>>
           /\ \A l \in Loops : step'[l] = "read" => step[l] = "read"
           /\ abandoned => abandoned'
<1> Loops \subseteq Threads /\ Users \subseteq Threads /\ Owner \in Threads
  BY DEF Threads
<1>1. UNCHANGED <<pipe, process, recording, recorded, handle, heard, frames, spoke_at>>
  BY DEF Start, Stop, Joined, Speak, source
<1>3. abandoned => abandoned'
  BY DEF Start, Stop, Joined, Speak, lifecycle
<1>2. \A l \in Loops : step'[l] = "read" => step[l] = "read"
  BY DEF Start, Stop, Joined, Speak, Goto, Typed
<1> QED
  BY <1>1, <1>2, <1>3

LEMMA NextKeepsOrder ==
    ASSUME Typed, RecordedInOrder, [Next]_vars
    PROVE  RecordedInOrder'
<1>0. /\ \A r \in Recorders : pipe[r] \in Seq(Nat) /\ Increasing(pipe[r]) /\ AtMost(recorded, pipe[r])
      /\ frames \in Seq(Nat) /\ AtMost(recorded, frames) /\ heard <= recorded /\ spoke_at <= recorded
      /\ recorded \in Nat /\ heard \in Nat /\ spoke_at \in Nat
  BY DEF Typed, RecordedInOrder
<1>1. ASSUME NEW l \in Loops, LoopStep(l) PROVE RecordedInOrder'
  <2>1. CASE RunChecks(l)
    <3>1. UNCHANGED <<recorded, frames, heard, spoke_at>>
      BY <2>1, RunChecksEffect
    <3>2. \A r \in Recorders : pipe'[r] \in {pipe[r], <<>>}
      BY <2>1, RunChecksEffect DEF Typed
    <3> QED
      BY <1>0, <3>1, <3>2, EmptyIsAll DEF RecordedInOrder
  <2>2. CASE ReadFrame(l)
    <3> DEFINE r == handle[l]
               f == Head(pipe[r])
    <3>1. /\ r \in Recorders /\ pipe[r] # <<>> /\ pipe[r] \in Seq(Nat)
          /\ frames' \in {<<f>>, Append(frames, f), frames, <<>>}
          /\ pipe' = [pipe EXCEPT ![r] = Tail(pipe[r])]
          /\ UNCHANGED <<recorded, heard, spoke_at>>
      BY <2>2, ReadFrameEffect
    <3>2. f \in Nat /\ f <= recorded /\ Increasing(Tail(pipe[r])) /\ AtMost(recorded, Tail(pipe[r]))
      BY <1>0, <3>1, TailIsLater
    <3>3. \A k \in Recorders : Increasing(pipe'[k]) /\ AtMost(recorded, pipe'[k])
      <4>1. \A k \in Recorders : pipe'[k] \in {pipe[k], Tail(pipe[r])}
        BY <3>1 DEF Typed
      <4> HIDE DEF r, f
      <4> QED
        BY <1>0, <3>2, <4>1
    <3>4. AtMost(recorded, frames')
      <4> HIDE DEF f
      <4> QED
        BY <1>0, <3>1, <3>2, AppendIsLast, SingletonIsFirst, EmptyIsAll
    <3> QED
      BY <1>0, <3>1, <3>3, <3>4 DEF RecordedInOrder
  <2>3. CASE ~RunChecks(l) /\ ~ReadFrame(l)
    <3>1. /\ UNCHANGED <<pipe, recorded, spoke_at>>
          /\ \/ UNCHANGED <<frames, heard>>
             \/ frames # <<>> /\ frames' = <<>> /\ heard' = frames[Len(frames)]
      BY <1>1, <2>3, OtherLoopStep
    <3>2. frames # <<>> => Len(frames) \in DOMAIN frames
      BY <1>0, EmptySeq, LenProperties
    <3>3. frames # <<>> => frames[Len(frames)] <= recorded
      BY <1>0, <3>2 DEF AtMost
    <3> QED
      BY <1>0, <3>1, <3>3, EmptyIsAll DEF RecordedInOrder
  <2> QED
    BY <2>1, <2>2, <2>3
<1>2. ASSUME NEW t \in Loops \cup Users, SpeechStep(t) PROVE RecordedInOrder'
  <2>1. /\ UNCHANGED <<pipe, recorded, heard>>
        /\ frames' \in {frames, <<>>} /\ spoke_at' \in {spoke_at, recorded}
    BY <1>2, SpeechEffect
  <2> QED
    BY <1>0, <2>1, EmptyIsAll DEF RecordedInOrder
<1>3. ASSUME NEW t \in Loops \cup {Owner}, Close(t) PROVE RecordedInOrder'
  BY <1>3, CloseEffect DEF RecordedInOrder
<1>4. CASE Start \/ Stop \/ Joined \/ \E u \in Users : Speak(u)
  BY <1>4, OwnerEffect DEF RecordedInOrder
<1>5. ASSUME NEW r \in Recorders, Record(r) PROVE RecordedInOrder'
  <2> DEFINE n == recorded + 1
  <2>1. /\ n \in Nat /\ recorded' = n /\ UNCHANGED <<frames, heard, spoke_at>>
        /\ \A k \in Recorders : pipe'[k] \in {pipe[k], Append(pipe[k], n)}
    BY <1>0, <1>5 DEF Record, Typed
  <2>2. n > recorded
    BY <1>0
  <2> HIDE DEF n
  <2>3. \A q \in Seq(Nat) : AtMost(recorded, q) => AtMost(n, q) /\ \A i \in DOMAIN q : q[i] < n
    <3>1. \A q \in Seq(Nat) : \A i \in DOMAIN q : q[i] \in Nat
      BY ElementOfSeq, LenProperties
    <3> QED
      BY <1>0, <2>1, <2>2, <3>1 DEF AtMost
  <2>4. \A q \in Seq(Nat) : Increasing(q) /\ AtMost(recorded, q)
                              => Increasing(Append(q, n)) /\ AtMost(n, Append(q, n))
    BY <2>1, <2>3, AppendIsLast
  <2>5. heard <= n /\ spoke_at <= n
    BY <1>0, <2>1, <2>2
  <2> QED
    BY <1>0, <2>1, <2>3, <2>4, <2>5 DEF RecordedInOrder
<1>6. ASSUME NEW r \in Recorders, RecorderFails(r) PROVE RecordedInOrder'
  BY <1>6 DEF RecordedInOrder, RecorderFails
<1>7. CASE UNCHANGED vars
  BY <1>7 DEF RecordedInOrder, vars, source
<1> QED
  BY <1>1, <1>2, <1>3, <1>4, <1>5, <1>6, <1>7 DEF Next

LEMMA InitOrder ==
    ASSUME Init
    PROVE  RecordedInOrder
  BY EmptyIsAll DEF Init, RecordedInOrder

-----------------------------------------------------------------------------
(* What the loop has and what it will read next is new. *)

FreshPipe(r) ==
    AllBelow(frames, pipe[r]) /\ Above(heard, pipe[r]) /\ Above(spoke_at, pipe[r])

FreshFrames == Increasing(frames) /\ Above(heard, frames) /\ Above(spoke_at, frames)

\* A step that opens no recorder and takes no frame keeps what there is new.
LEMMA FreshKept ==
    ASSUME FramesFresh, UNCHANGED <<pipe, frames, heard, spoke_at>>, abandoned => abandoned',
           process' \in {process, None},
           \A l \in Loops : step'[l] = "read" => step[l] = "read" /\ handle'[l] = handle[l]
    PROVE  FramesFresh'
<1>1. Live' \subseteq Live
  BY NativeVoiceAssumption DEF Live
<1> QED
  BY <1>1 DEF FramesFresh

LEMMA NextKeepsFresh ==
    ASSUME Typed, OneLoop, OnlyTheLoopOpens, RecordedInOrder, FramesFresh, [Next]_vars
    PROVE  FramesFresh'
<1>0. /\ Loops \subseteq Threads /\ Users \subseteq Threads /\ Loops \cap Users = {}
      /\ Owner \notin Loops /\ None \notin Recorders
      /\ \A r \in Recorders : pipe[r] \in Seq(Nat) /\ Increasing(pipe[r]) /\ AtMost(recorded, pipe[r])
      /\ frames \in Seq(Nat) /\ AtMost(recorded, frames) /\ heard <= recorded /\ spoke_at <= recorded
      /\ recorded \in Nat /\ heard \in Nat /\ spoke_at \in Nat
  BY NativeVoiceAssumption DEF Threads, Typed, RecordedInOrder
<1>1. ASSUME NEW l \in Loops, LoopStep(l) PROVE FramesFresh'
  <2>1. Minds(l) /\ UNCHANGED lifecycle /\ step[l] # "idle"
    BY <1>1, LoopStepTyped, LoopStepGoes
  <2> SUFFICES ASSUME ~abandoned PROVE FramesFresh'
    BY <2>1 DEF FramesFresh, lifecycle
  <2>2. \A k \in Loops \ {l} : step[k] = "idle" /\ step'[k] = "idle"
    BY <1>0, <2>1, BusyLoopIsAlone DEF Minds
  <2>3. FreshFrames /\ \A r \in Live : FreshPipe(r)
    BY DEF FramesFresh, FreshFrames, FreshPipe
  <2>4. CASE RunChecks(l)
    <3>1. /\ UNCHANGED <<frames, heard, spoke_at>>
          /\ process' \in Recorders /\ handle'[l] = process'
          /\ (process' = process /\ pipe' = pipe) \/ pipe'[process'] = <<>>
      BY <2>4, RunChecksEffect DEF Typed
    <3>2. Live' \subseteq {process'}
      BY <2>2, <3>1 DEF Live
    <3>3. /\ AllBelow(frames', pipe'[process'])
          /\ Above(heard', pipe'[process']) /\ Above(spoke_at', pipe'[process'])
      <4>1. CASE process' = process /\ pipe' = pipe
        <5>1. process \in Live
          BY <3>1, <4>1 DEF Live
        <5> QED
          BY <2>3, <3>1, <4>1, <5>1 DEF FreshPipe
      <4>2. CASE pipe'[process'] = <<>>
        BY <4>2, EmptyIsAll
      <4> QED
        BY <3>1, <4>1, <4>2
    <3>4. FreshFrames'
      BY <2>3, <3>1 DEF FreshFrames
    <3> QED
      BY <3>2, <3>3, <3>4 DEF FramesFresh, FreshFrames
  <2>5. CASE ReadFrame(l)
    <3> DEFINE r == handle[l]
               q == pipe[r]
               f == Head(q)
    <3>1. /\ step[l] = "read" /\ r \in Recorders /\ q # <<>> /\ q \in Seq(Nat)
          /\ frames' \in {<<f>>, Append(frames, f), frames, <<>>}
          /\ pipe' = [pipe EXCEPT ![r] = Tail(q)]
          /\ step'[l] \in {"check", "finalize"}
          /\ UNCHANGED <<process, heard, spoke_at>>
      BY <2>5, ReadFrameEffect
    <3>2. process \in {r, None} /\ r \in Live
      BY <3>1 DEF OnlyTheLoopOpens, Live
    <3>3. Live' \subseteq {r} /\ pipe'[r] = Tail(q)
      BY <1>0, <2>2, <3>1, <3>2 DEF Live, Typed
    <3>4. AllBelow(frames, q) /\ Above(heard, q) /\ Above(spoke_at, q) /\ Increasing(q)
      BY <1>0, <2>3, <3>1, <3>2 DEF FreshPipe
    <3> HIDE DEF r, q, f
    <3>5. /\ f \in Nat /\ f > heard /\ f > spoke_at
          /\ Above(heard, Tail(q)) /\ Above(spoke_at, Tail(q)) /\ Above(f, Tail(q))
      BY <3>1, <3>4, TailIsLater DEF f
    <3>6. AllBelow(frames, Tail(q)) /\ \A i \in DOMAIN frames : frames[i] < f
      <4> SUFFICES ASSUME NEW i \in DOMAIN frames PROVE Above(frames[i], Tail(q)) /\ frames[i] < f
        BY DEF AllBelow
      <4>1. Above(frames[i], q)
        BY <3>4 DEF AllBelow
      <4>2. Above(frames[i], Tail(q)) /\ f > frames[i]
        BY <3>1, <4>1, TailIsLater DEF f
      <4>3. frames[i] \in Nat
        BY <1>0, ElementOfSeq, LenProperties
      <4> QED
        BY <3>5, <4>2, <4>3
    <3>7. AllBelow(frames', Tail(q))
      BY <1>0, <3>1, <3>5, <3>6, AppendIsLast, SingletonIsFirst, EmptyIsAll
    <3>8. Increasing(frames') /\ Above(heard, frames') /\ Above(spoke_at, frames')
      BY <1>0, <2>3, <3>1, <3>5, <3>6, AppendIsLast, SingletonIsFirst, EmptyIsAll DEF FreshFrames
    <3> QED
      BY <3>1, <3>3, <3>5, <3>7, <3>8 DEF FramesFresh
  <2>6. CASE ~RunChecks(l) /\ ~ReadFrame(l)
    <3>1. /\ UNCHANGED <<pipe, spoke_at>> /\ process' \in {process, None} /\ step'[l] # "read"
          /\ \/ UNCHANGED <<frames, heard>>
             \/ frames # <<>> /\ frames' = <<>> /\ heard' = frames[Len(frames)]
      BY <1>1, <2>6, OtherLoopStep
    <3>2. CASE UNCHANGED <<frames, heard>>
      BY <2>1, <2>2, <3>1, <3>2, FreshKept DEF lifecycle
    <3>3. CASE frames # <<>> /\ frames' = <<>> /\ heard' = frames[Len(frames)]
      <4>1. Len(frames) \in DOMAIN frames
        BY <1>0, <3>3, EmptySeq, LenProperties
      <4>2. \A r \in Live : Above(heard', pipe[r])
        BY <2>3, <3>3, <4>1 DEF FreshPipe, AllBelow
      <4>3. Live' \subseteq Live
        BY <1>0, <2>2, <3>1 DEF Live
      <4> QED
        BY <2>3, <3>1, <3>3, <4>2, <4>3, EmptyIsAll DEF FramesFresh, FreshPipe
    <3> QED
      BY <3>1, <3>2, <3>3
  <2> QED
    BY <2>4, <2>5, <2>6
<1>2. ASSUME NEW t \in Loops \cup Users, SpeechStep(t) PROVE FramesFresh'
  <2>1. /\ Minds(t) /\ UNCHANGED abandoned /\ step[t] # "idle" /\ step'[t] # "read"
        /\ UNCHANGED <<pipe, heard>> /\ process' \in {process, None}
        /\ \/ UNCHANGED <<frames, spoke_at>>
           \/ /\ frames' = <<>> /\ step[t] = "clear"
              /\ spoke_at' = IF t \in Loops THEN recorded ELSE spoke_at
    BY <1>2, SpeechStepTyped, SpeechStepGoes, SpeechEffect
  <2>2. \A l \in Loops : step'[l] = "read" => step[l] = "read" /\ handle'[l] = handle[l]
    BY <1>0, <2>1 DEF Minds
  <2>3. CASE UNCHANGED <<frames, spoke_at>>
    BY <2>1, <2>2, <2>3, FreshKept
  <2>4. CASE frames' = <<>> /\ t \notin Loops /\ spoke_at' = spoke_at
    <3>1. Live' \subseteq Live
      BY <1>0, <2>1, <2>2 DEF Live
    <3> QED
      BY <2>1, <2>4, <3>1, EmptyIsAll DEF FramesFresh
  <2>5. CASE frames' = <<>> /\ t \in Loops /\ step[t] = "clear"
    <3> SUFFICES ASSUME ~abandoned PROVE FramesFresh'
      BY <2>1 DEF FramesFresh
    <3>1. process = None /\ \A k \in Loops \ {t} : step[k] = "idle"
      BY <2>1, <2>5, BusyLoopIsAlone DEF OnlyTheLoopOpens
    <3>2. Live' = {}
      BY <1>0, <2>1, <2>2, <3>1 DEF Live
    <3> QED
      BY <2>5, <3>2, EmptyIsAll DEF FramesFresh
  <2> QED
    BY <2>1, <2>3, <2>4, <2>5
<1>3. ASSUME NEW t \in Loops \cup {Owner}, Close(t) PROVE FramesFresh'
  <2>1. /\ Minds(t) /\ UNCHANGED abandoned /\ step'[t] # "read"
        /\ UNCHANGED <<pipe, heard, frames, spoke_at>> /\ process' \in {process, None}
    BY <1>3, CloseTyped, CloseGoes, CloseEffect
  <2>2. \A l \in Loops : step'[l] = "read" => step[l] = "read" /\ handle'[l] = handle[l]
    BY <1>0, <2>1 DEF Minds
  <2> QED
    BY <2>1, <2>2, FreshKept
<1>4. CASE Start \/ Stop \/ Joined \/ \E u \in Users : Speak(u)
  BY <1>4, OwnerEffect, FreshKept
<1>5. ASSUME NEW s \in Recorders, Record(s) PROVE FramesFresh'
  <2> DEFINE n == recorded + 1
  <2>1. /\ n \in Nat /\ UNCHANGED <<process, frames, heard, spoke_at, step, handle, abandoned>>
        /\ \A k \in Recorders : pipe'[k] \in {pipe[k], Append(pipe[k], n)}
    BY <1>0, <1>5 DEF Record, Typed, lifecycle
  <2>2. n > heard /\ n > spoke_at /\ n > recorded
    BY <1>0
  <2> HIDE DEF n
  <2>3. \A i \in DOMAIN frames : frames[i] < n
    <3>1. \A i \in DOMAIN frames : frames[i] \in Nat
      BY <1>0, ElementOfSeq, LenProperties
    <3> QED
      BY <1>0, <2>1, <2>2, <3>1 DEF AtMost
  <2> SUFFICES ASSUME ~abandoned, NEW r \in Live PROVE FreshPipe(r)'
    <3>1. Live' = Live
      BY <2>1 DEF Live
    <3> QED
      BY <2>1, <3>1 DEF FramesFresh, FreshPipe
  <2>4. r \in Recorders /\ FreshPipe(r)
    BY DEF Live, FramesFresh, FreshPipe
  <2>5. CASE pipe'[r] = pipe[r]
    BY <2>1, <2>4, <2>5 DEF FreshPipe
  <2>6. CASE pipe'[r] = Append(pipe[r], n)
    <3>1. Above(heard, pipe'[r]) /\ Above(spoke_at, pipe'[r])
      BY <1>0, <2>1, <2>2, <2>4, <2>6, AppendIsLast DEF FreshPipe
    <3>2. \A i \in DOMAIN frames : Above(frames[i], pipe'[r])
      BY <1>0, <2>1, <2>3, <2>4, <2>6, AppendIsLast DEF FreshPipe, AllBelow
    <3> QED
      BY <2>1, <3>1, <3>2 DEF FreshPipe, AllBelow
  <2> QED
    BY <2>1, <2>4, <2>5, <2>6
<1>6. ASSUME NEW r \in Recorders, RecorderFails(r) PROVE FramesFresh'
  BY <1>6, FreshKept DEF RecorderFails, lifecycle
<1>7. CASE UNCHANGED vars
  BY <1>7, FreshKept DEF vars, source, lifecycle
<1> QED
  BY <1>1, <1>2, <1>3, <1>4, <1>5, <1>6, <1>7 DEF Next

LEMMA InitFresh ==
    ASSUME Init
    PROVE  FramesFresh
<1>1. frames = <<>> /\ \A r \in Recorders : pipe[r] = <<>>
  BY DEF Init
<1>2. \A r \in Live : pipe[r] = <<>>
  BY <1>1 DEF Live
<1> QED
  BY <1>1, <1>2, EmptyIsAll DEF FramesFresh

-----------------------------------------------------------------------------
(* The counts are those of the frames. *)

LEMMA ReadFrameCounts ==
    ASSUME Typed, CountsAgree, NEW l \in Loops, ReadFrame(l)
    PROVE  CountsAgree'
<1> DEFINE f == Head(pipe[handle[l]])
<1>1. f \in Nat
  BY HeadTailProperties DEF ReadFrame, Typed
<1> HIDE DEF f
<1>2. /\ Len(Append(frames, f)) = Len(frames) + 1 /\ Append(frames, f) # <<>>
      /\ Len(<<f>>) = 1 /\ <<f>> # <<>> /\ Len(<<>>) = 0 /\ Len(frames) \in Nat
  <2>1. frames \in Seq(Nat) /\ Len(frames) \in Nat
    BY LenProperties DEF Typed
  <2>2. Len(Append(frames, f)) = Len(frames) + 1
    BY <1>1, <2>1, AppendProperties
  <2>3. Append(frames, f) # <<>>
    BY <2>1, <2>2, EmptySeq
  <2> QED
    BY <2>1, <2>2, <2>3
<1>3. MinVoice \in Nat \ {0} /\ voice \in Nat /\ captured \in Nat /\ vad_triggered \in BOOLEAN
  BY NativeVoiceAssumption DEF Typed
<1>4. CASE ObserveVoice(f)
  <2>1. captured' = Len(frames')
    BY <1>2, <1>3, <1>4 DEF ObserveVoice, CountsAgree
  <2>2. voice' > 0 /\ frames' # <<>>
    BY <1>2, <1>3, <1>4 DEF ObserveVoice, Smaller
  <2>3. vad_triggered' <=> voice' >= MinVoice
    <3>1. voice' = IF voice + 1 < MinVoice THEN voice + 1 ELSE MinVoice
      BY <1>4 DEF ObserveVoice, Smaller
    <3>2. voice >= MinVoice => voice' >= MinVoice
      BY <1>3, <3>1
    <3>3. vad_triggered' = (vad_triggered \/ voice' >= MinVoice)
      BY <1>4 DEF ObserveVoice
    <3>4. vad_triggered <=> voice >= MinVoice
      BY DEF CountsAgree
    <3> QED
      BY <3>2, <3>3, <3>4
  <2> QED
    BY <2>1, <2>2, <2>3 DEF CountsAgree
<1>5. CASE ObservePause(f)
  BY <1>2, <1>3, <1>5 DEF ObservePause, CountsAgree
<1>6. CASE ObserveSilence
  <2>1. CASE frames' = <<>> /\ ResetCounters
    BY <1>2, <1>3, <2>1 DEF ResetCounters, CountsAgree
  <2>2. CASE UNCHANGED <<frames, vad>>
    BY <2>2 DEF vad, CountsAgree
  <2> QED
    BY <1>6, <2>1, <2>2 DEF ObserveSilence
<1> QED
  BY <1>4, <1>5, <1>6 DEF ReadFrame, f

LEMMA ResetAgrees ==
    ASSUME ResetCounters, frames' = <<>>
    PROVE  CountsAgree'
<1>1. Len(<<>>) = 0 /\ MinVoice \in Nat \ {0}
  BY NativeVoiceAssumption, EmptySeq
<1> QED
  BY <1>1 DEF ResetCounters, CountsAgree

\* A step of the loop keeps the counts outside a turn and no frames within one.
LEMMA LoopStepCounts ==
    ASSUME Typed, NEW l \in Loops, LoopStep(l),
           step[l] \notin Turn => CountsAgree, step[l] \in Turn => frames = <<>>
    PROVE  /\ step'[l] \notin Turn => CountsAgree'
           /\ step'[l] \in Turn => frames' = <<>>
<1> l \in Threads /\ step \in [Threads -> Steps]
  BY DEF Threads, Typed
<1> USE DEF Turn, Goto
<1>1. CASE RunChecks(l) \/ RunLeaves(l) \/ ReadEnds(l)
  <2>1. step[l] \notin Turn /\ step'[l] \notin Turn /\ UNCHANGED <<frames, vad>>
    BY <1>1 DEF RunChecks, RunLeaves, ReadEnds
  <2> QED
    BY <2>1 DEF vad, CountsAgree
<1>2. CASE ReadFrame(l)
  <2>1. step[l] \notin Turn /\ step'[l] \notin Turn
    BY <1>2 DEF ReadFrame
  <2> QED
    BY <1>2, <2>1, ReadFrameCounts
<1>3. CASE Takes(l)
  BY <1>3 DEF Takes
<1>4. CASE TakesNothing(l)
  BY <1>4, ResetAgrees DEF TakesNothing
<1>5. CASE Transcribe(l)
  <2>1. step[l] = "asr" /\ frames' = frames
    BY <1>5 DEF Transcribe, Dismiss, Acknowledge, Ask
  <2>2. (ResetCounters /\ step'[l] = "check") \/ step'[l] \in Turn
    BY <1>5 DEF Transcribe, Dismiss, Acknowledge, Ask
  <2> QED
    BY <2>1, <2>2, ResetAgrees
<1>6. CASE Reply(l)
  BY <1>6 DEF Reply
<1>7. CASE TurnOver(l)
  BY <1>7, ResetAgrees DEF TurnOver
<1> QED
  BY <1>1, <1>2, <1>3, <1>4, <1>5, <1>6, <1>7 DEF LoopStep, Finalize

LEMMA NextKeepsCounts ==
    ASSUME Typed, OneLoop, CountsKept, [Next]_vars
    PROVE  CountsKept'
<1>0. /\ Loops \subseteq Threads /\ Users \subseteq Threads /\ Owner \in Threads
      /\ Owner \notin Loops /\ Loops \cap Users = {} /\ step \in [Threads -> Steps]
  BY NativeVoiceAssumption DEF Threads, Typed
<1>1. ASSUME NEW l \in Loops, LoopStep(l) PROVE CountsKept'
  <2>1. Minds(l) /\ UNCHANGED lifecycle /\ step[l] # "idle"
    BY <1>1, LoopStepTyped, LoopStepGoes
  <2> SUFFICES ASSUME ~abandoned PROVE CountsKept'
    BY <2>1 DEF CountsKept, lifecycle
  <2>2. \A k \in Loops \ {l} : step[k] \notin Turn /\ step'[k] \notin Turn
    BY <1>0, <2>1, BusyLoopIsAlone DEF Minds, Turn
  <2>3. /\ step'[l] \notin Turn => CountsAgree'
        /\ step'[l] \in Turn => frames' = <<>>
    BY <1>1, <2>2, LoopStepCounts DEF CountsKept
  <2> QED
    BY <2>2, <2>3 DEF CountsKept
<1>2. ASSUME NEW t \in Loops \cup Users, SpeechStep(t) PROVE CountsKept'
  <2>1. Minds(t) /\ UNCHANGED abandoned
    BY <1>2, SpeechStepTyped, SpeechStepGoes
  <2>2. CASE Clear(t)
    <3>1. frames' = <<>> /\ CountsAgree'
      BY <2>2, ResetAgrees DEF Clear, Cleared
    <3> QED
      BY <3>1 DEF CountsKept
  <2>3. CASE Mute(t) \/ Played(t)
    <3>1. UNCHANGED <<frames, vad>>
      BY <2>3 DEF Mute, Played
    <3>2. step[t] \in Turn /\ step'[t] \in Turn
      BY <1>0, <2>3 DEF Mute, Played, Goto, Turn
    <3> QED
      BY <1>0, <2>1, <3>1, <3>2 DEF CountsKept, CountsAgree, Minds, vad
  <2> QED
    BY <1>2, <2>2, <2>3 DEF SpeechStep
<1>3. ASSUME NEW t \in Loops \cup {Owner}, Close(t) PROVE CountsKept'
  <2>1. Minds(t) /\ UNCHANGED abandoned /\ UNCHANGED <<frames, vad>>
    BY <1>3, CloseTyped, CloseGoes DEF Close
  <2>2. step[t] \notin Turn /\ step'[t] \notin Turn
    BY <1>3, CloseGoes DEF Turn
  <2> QED
    BY <1>0, <2>1, <2>2 DEF CountsKept, CountsAgree, Minds, vad
<1>4. ASSUME NEW u \in Users, Speak(u) PROVE CountsKept'
  BY <1>0, <1>4 DEF Speak, Goto, lifecycle, CountsKept, CountsAgree, vad
<1>5. CASE Start
  <2>1. PICK l \in Loops \ alive : step' = [step EXCEPT ![l] = "check"]
    BY <1>5 DEF Start
  <2>2. UNCHANGED <<frames, vad, abandoned>>
    BY <1>5 DEF Start
  <2>3. ~abandoned => step[l] = "idle"
    BY DEF OneLoop
  <2>4. \A k \in Loops : ~abandoned => (step'[k] \in Turn <=> step[k] \in Turn)
    BY <1>0, <2>1, <2>3 DEF Turn
  <2> QED
    BY <2>2, <2>4 DEF CountsKept, CountsAgree, vad
<1>6. CASE Stop
  BY <1>0, <1>6 DEF Stop, Goto, CountsKept, CountsAgree, vad
<1>7. CASE Joined
  BY <1>0, <1>7 DEF Joined, Goto, CountsKept, CountsAgree, vad
<1>8. CASE \E r \in Recorders : Record(r) \/ RecorderFails(r)
  BY <1>8 DEF Record, RecorderFails, CountsKept, CountsAgree, vad, lifecycle
<1>9. CASE UNCHANGED vars
  BY <1>9 DEF vars, CountsKept, CountsAgree, vad, lifecycle
<1> QED
  BY <1>1, <1>2, <1>3, <1>4, <1>5, <1>6, <1>7, <1>8, <1>9 DEF Next

LEMMA InitCounts ==
    ASSUME Init
    PROVE  CountsKept
<1>1. Len(<<>>) = 0 /\ MinVoice \in Nat \ {0}
  BY NativeVoiceAssumption, EmptySeq
<1> QED
  BY <1>1 DEF Init, CountsKept, CountsAgree

-----------------------------------------------------------------------------
(* The recorders that are lost. *)

LEMMA RoomKept ==
    ASSUME NEW lost, NEW less, NEW muting, NEW n, Room(lost, muting, n), n \in Nat, less \subseteq lost
    PROVE  Room(less, muting, n)
<1>1. /\ IsFiniteSet(less) /\ Cardinality(less) \in Nat /\ Cardinality(lost) \in Nat
      /\ Cardinality(muting) \in Nat /\ Cardinality(less) <= Cardinality(lost)
  BY FS_Subset, FS_CardinalityType DEF Room
<1> QED
  BY <1>1 DEF Room

\* A request to speak brings a speaker.
LEMMA RoomToSpeak ==
    ASSUME NEW lost, NEW muting, NEW n \in Nat, Room(lost, muting, n), NEW u, u \notin muting
    PROVE  Room(lost, muting \cup {u}, n + 1)
<1>1. /\ IsFiniteSet(muting \cup {u}) /\ Cardinality(muting \cup {u}) = Cardinality(muting) + 1
      /\ Cardinality(muting) \in Nat /\ Cardinality(lost) \in Nat
  BY FS_AddElement, FS_CardinalityType DEF Room
<1> QED
  BY <1>1 DEF Room

\* A speaker that has stopped the source may have lost one recorder.
LEMMA RoomToLose ==
    ASSUME NEW lost, NEW more, NEW muting, NEW n \in Nat, NEW u \in muting, NEW x,
           Room(lost, muting, n), more \subseteq lost \cup {x}
    PROVE  Room(more, muting \ {u}, n)
<1>1. /\ IsFiniteSet(lost \cup {x}) /\ Cardinality(lost \cup {x}) <= Cardinality(lost) + 1
      /\ Cardinality(lost) \in Nat /\ Cardinality(lost \cup {x}) \in Nat
  <2>1. IsFiniteSet(lost) /\ IsFiniteSet(lost \cup {x}) /\ Cardinality(lost) \in Nat
    BY FS_AddElement, FS_CardinalityType DEF Room
  <2>2. Cardinality(lost \cup {x}) = IF x \in lost THEN Cardinality(lost) ELSE Cardinality(lost) + 1
    BY <2>1, FS_AddElement
  <2> QED
    BY <2>1, <2>2
<1>2. IsFiniteSet(more) /\ Cardinality(more) <= Cardinality(lost \cup {x}) /\ Cardinality(more) \in Nat
  BY <1>1, FS_Subset, FS_CardinalityType
<1>3. /\ IsFiniteSet(muting \ {u}) /\ Cardinality(muting \ {u}) = Cardinality(muting) - 1
      /\ Cardinality(muting) \in Nat
  BY FS_RemoveElement, FS_CardinalityType DEF Room
<1> QED
  BY <1>1, <1>2, <1>3 DEF Room

LEMMA IsLost ==
    ASSUME NEW x
    PROVE  /\ x \in Lost <=>
                 /\ x \in recording /\ x # process
                 /\ \A k \in Threads : Ends(k) => handle[k] # x
           /\ x \in Lost' <=>
                 /\ x \in recording' /\ x # process'
                 /\ \A k \in Threads : step'[k] \in {"muting", "closing"} => handle'[k] # x
  BY DEF Lost, Ends

\* The recorders that were about to be ended are, or have ended ...
EndersKept ==
    \A k \in Threads : \/ ~Ends(k) \/ handle[k] \notin recording'
                       \/ step'[k] \in {"muting", "closing"} /\ handle'[k] = handle[k]

\* ... and the current one still is, or it is about to be ended, or has ended.
CurrentKept ==
    \/ process \notin recording' \/ process' = process
    \/ \E k \in Threads : step'[k] \in {"muting", "closing"} /\ handle'[k] = process

LEMMA NoneLost ==
    ASSUME recording' \subseteq recording \cup {process'}, CurrentKept, EndersKept
    PROVE  Lost' \subseteq Lost
<1> SUFFICES ASSUME NEW x \in Lost' PROVE x \in Lost
  OBVIOUS
<1>1. /\ x \in recording' /\ x # process'
      /\ \A k \in Threads : step'[k] \in {"muting", "closing"} => handle'[k] # x
  BY IsLost
<1>2. x \in recording /\ x # process
  BY <1>1 DEF CurrentKept
<1>3. \A k \in Threads : Ends(k) => handle[k] # x
  BY <1>1 DEF EndersKept
<1> QED
  BY <1>2, <1>3, IsLost

\* Stopping the source loses nothing if what is current is what is ended.
LEMMA StopLosesNothing ==
    ASSUME Typed, NEW t \in Threads, Minds(t),
           \/ StopReads(t) /\ step'[t] \in {"muting", "closing"} /\ ~Ends(t)
           \/ StopTerminates(t) /\ process \in {handle[t], None}
    PROVE  Lost' \subseteq Lost
<1>0. None \notin recording /\ handle \in [Threads -> Recorders \cup {None}]
  BY NativeVoiceAssumption DEF Typed
<1>1. CASE StopReads(t) /\ step'[t] \in {"muting", "closing"} /\ ~Ends(t)
  <2>1. UNCHANGED <<process, recording>>
    BY <1>1 DEF StopReads, source
  <2>2. EndersKept
    BY <1>1 DEF EndersKept, Minds, Ends
  <2> QED
    BY <2>1, <2>2, NoneLost DEF CurrentKept
<1>2. CASE StopTerminates(t) /\ process \in {handle[t], None}
  <2>1. recording' = recording \ {handle[t]}
    BY <1>2 DEF StopTerminates
  <2>2. CurrentKept
    BY <1>0, <1>2, <2>1 DEF CurrentKept
  <2>3. EndersKept
    BY <2>1 DEF EndersKept, Minds, Ends
  <2> QED
    BY <2>1, <2>2, <2>3, NoneLost
<1> QED
  BY <1>1, <1>2

LEMMA LoopStepLosesNothing ==
    ASSUME Typed, OnlyTheLoopOpens, ~abandoned, NEW l \in Loops, LoopStep(l)
    PROVE  Lost' \subseteq Lost
<1>0. l \in Threads /\ None \notin recording
  BY NativeVoiceAssumption DEF Threads, Typed
<1>1. Minds(l) /\ ~Ends(l)
  BY LoopStepTyped, LoopStepGoes DEF Ends
<1>2. EndersKept
  BY <1>1 DEF Minds, Ends, EndersKept
<1>3. CASE RunChecks(l)
  <2>1. \/ UNCHANGED <<process, recording>>
        \/ ~Running /\ recording' = recording \cup {process'}
    BY <1>3, RunChecksEffect
  <2>2. ~Running => process \notin recording
    BY <1>0 DEF Running
  <2>3. CurrentKept
    BY <2>1, <2>2 DEF CurrentKept
  <2> QED
    BY <1>2, <2>1, <2>3, NoneLost
<1>4. CASE ReadFrame(l)
  <2>1. UNCHANGED <<process, recording>>
    BY <1>4, ReadFrameEffect
  <2> QED
    BY <1>2, <2>1, NoneLost DEF CurrentKept
<1>5. CASE ~RunChecks(l) /\ ~ReadFrame(l)
  <2>1. /\ recording' = recording
        /\ \/ process' = process
           \/ process' = None /\ step[l] = "read" /\ handle[l] \notin recording
    BY <1>5, OtherLoopStep
  <2>2. step[l] = "read" => process \in {handle[l], None}
    BY DEF OnlyTheLoopOpens
  <2>3. CurrentKept
    BY <1>0, <2>1, <2>2 DEF CurrentKept
  <2> QED
    BY <1>2, <2>1, <2>3, NoneLost
<1> QED
  BY <1>3, <1>4, <1>5

LEMMA SpeechStepLoses ==
    ASSUME Typed, OnlyTheLoopOpens, ~abandoned, NEW t \in Loops \cup Users, SpeechStep(t)
    PROVE  \/ Lost' \subseteq Lost /\ Muting' = Muting
           \/ Lost' \subseteq Lost \cup {process} /\ t \in Muting /\ Muting' = Muting \ {t}
<1>0. /\ t \in Threads /\ Users \subseteq Threads /\ Loops \cap Users = {}
      /\ step \in [Threads -> Steps] /\ None \notin recording
  BY NativeVoiceAssumption DEF Threads, Typed
<1>1. Minds(t) /\ \A k \in Users \ {t} : step'[k] = step[k]
  BY <1>0, SpeechStepTyped DEF Minds
<1>2. CASE step[t] = "mute" /\ StopReads(t) /\ Goto(t, "muting")
  <2>1. step'[t] = "muting" /\ ~Ends(t)
    BY <1>0, <1>2 DEF Goto, Ends
  <2>2. Muting' = Muting
    BY <1>1, <1>2, <2>1 DEF Muting
  <2> QED
    BY <1>0, <1>1, <1>2, <2>1, <2>2, StopLosesNothing
<1>3. CASE step[t] = "muting" /\ StopTerminates(t) /\ Goto(t, "play")
  <2>1. step'[t] = "play"
    BY <1>0, <1>3 DEF Goto
  <2>2. CASE t \in Loops
    <3>1. Muting' = Muting
      BY <1>0, <1>1, <2>2 DEF Muting
    <3>2. process \in {handle[t], None}
      BY <1>3, <2>2 DEF OnlyTheLoopOpens
    <3> QED
      BY <1>0, <1>1, <1>3, <3>1, <3>2, StopLosesNothing
  <2>3. CASE t \in Users
    <3>1. t \in Muting /\ Muting' = Muting \ {t}
      BY <1>1, <1>3, <2>1, <2>3 DEF Muting
    <3>2. /\ recording' = recording \ {handle[t]}
          /\ \A k \in Threads \ {t} : step'[k] = step[k] /\ handle'[k] = handle[k]
      BY <1>1, <1>3 DEF StopTerminates, Minds
    <3>3. ASSUME NEW x \in Lost', x # process PROVE x \in Lost
      <4>1. /\ x \in recording'
            /\ \A k \in Threads : step'[k] \in {"muting", "closing"} => handle'[k] # x
        BY IsLost
      <4>2. \A k \in Threads : Ends(k) => handle[k] # x
        BY <3>2, <4>1 DEF Ends
      <4> QED
        BY <3>2, <3>3, <4>1, <4>2, IsLost
    <3> QED
      BY <3>1, <3>3
  <2> QED
    BY <2>2, <2>3
<1>4. CASE Played(t) \/ Clear(t)
  <2>1. UNCHANGED <<process, recording>> /\ step[t] \in {"play", "clear"}
    BY <1>4 DEF Played, Clear, Cleared, source
  <2>2. step'[t] \in {"clear", "idle", "turn_over"}
    BY <1>0, <1>4 DEF Played, Clear, Goto
  <2>3. Muting' = Muting
    BY <1>1, <2>1, <2>2 DEF Muting
  <2>4. EndersKept
    BY <1>1, <2>1 DEF EndersKept, Minds, Ends
  <2> QED
    BY <2>1, <2>3, <2>4, NoneLost DEF CurrentKept
<1> QED
  BY <1>2, <1>3, <1>4 DEF SpeechStep, Mute

LEMMA NextKeepsFew ==
    ASSUME Typed, OneLoop, OnlyTheLoopOpens, FewLost, [Next]_vars
    PROVE  FewLost'
<1>0. /\ Loops \subseteq Threads /\ Users \subseteq Threads /\ Owner \in Threads
      /\ Owner \notin Loops \cup Users /\ Loops \cap Users = {} /\ step \in [Threads -> Steps]
      /\ speaks \in Nat /\ None \notin recording
  BY NativeVoiceAssumption DEF Threads, Typed
<1>1. ASSUME Lost' \subseteq Lost, Muting' = Muting, speaks' = speaks, abandoned => abandoned'
      PROVE  FewLost'
  BY <1>0, <1>1, RoomKept DEF FewLost
<1>2. ASSUME NEW l \in Loops, LoopStep(l) PROVE FewLost'
  <2>1. Minds(l) /\ UNCHANGED abandoned
    BY <1>2, LoopStepTyped, LoopStepGoes DEF lifecycle
  <2>2. Muting' = Muting
    BY <1>0, <2>1 DEF Muting, Minds
  <2>3. speaks' = speaks
    <3>1. CASE RunChecks(l)
      BY <3>1 DEF RunChecks
    <3>2. CASE ReadFrame(l)
      BY <3>2 DEF ReadFrame
    <3> QED
      BY <1>2, <3>1, <3>2, OtherLoopStep
  <2>4. ~abandoned => Lost' \subseteq Lost
    BY <1>2, LoopStepLosesNothing
  <2> QED
    BY <1>1, <2>1, <2>2, <2>3, <2>4 DEF FewLost
<1>3. ASSUME NEW t \in Loops \cup Users, SpeechStep(t) PROVE FewLost'
  <2>1. UNCHANGED abandoned /\ UNCHANGED speaks
    BY <1>3, SpeechStepGoes, SpeechEffect
  <2> SUFFICES ASSUME ~abandoned PROVE Room(Lost', Muting', speaks)
    BY <2>1 DEF FewLost
  <2>2. Room(Lost, Muting, speaks)
    BY DEF FewLost
  <2>3. CASE Lost' \subseteq Lost /\ Muting' = Muting
    BY <1>0, <2>2, <2>3, RoomKept
  <2>4. CASE Lost' \subseteq Lost \cup {process} /\ t \in Muting /\ Muting' = Muting \ {t}
    BY <1>0, <2>2, <2>4, RoomToLose
  <2> QED
    BY <1>3, <2>3, <2>4, SpeechStepLoses
<1>4. ASSUME NEW t \in Loops \cup {Owner}, Close(t) PROVE FewLost'
  <2>1. /\ Minds(t) /\ UNCHANGED <<abandoned, speaks>>
        /\ \/ step[t] = "close" /\ step'[t] = "closing" /\ StopReads(t)
           \/ step[t] = "closing" /\ step'[t] = "idle" /\ StopTerminates(t)
    BY <1>4, CloseTyped, CloseGoes, CloseEffect
  <2>2. Muting' = Muting
    BY <1>0, <2>1 DEF Muting, Minds
  <2>3. ~abandoned => Lost' \subseteq Lost
    <3>1. ~abandoned /\ step[t] = "closing" => process \in {handle[t], None}
      BY DEF OnlyTheLoopOpens
    <3> QED
      BY <1>0, <2>1, <3>1, StopLosesNothing DEF Ends
  <2> QED
    BY <1>1, <2>1, <2>2, <2>3 DEF FewLost
<1>5. ASSUME NEW u \in Users, Speak(u) PROVE FewLost'
  <2>1. /\ step[u] = "idle" /\ step' = [step EXCEPT ![u] = "mute"] /\ speaks' = speaks + 1
        /\ UNCHANGED <<abandoned, handle, process, recording>>
    BY <1>5 DEF Speak, Goto, lifecycle, source
  <2>2. Muting' = Muting \cup {u} /\ u \notin Muting
    BY <1>0, <2>1 DEF Muting
  <2>3. EndersKept
    BY <1>0, <2>1 DEF EndersKept, Ends
  <2>4. Lost' \subseteq Lost
    BY <2>1, <2>3, NoneLost DEF CurrentKept
  <2> SUFFICES ASSUME ~abandoned PROVE Room(Lost', Muting', speaks')
    BY <2>1 DEF FewLost
  <2>5. Room(Lost', Muting, speaks)
    BY <1>0, <2>4, RoomKept DEF FewLost
  <2> QED
    BY <1>0, <2>1, <2>2, <2>5, RoomToSpeak
<1>6. CASE Start \/ Stop \/ Joined
  <2>1. /\ UNCHANGED <<process, recording, handle, speaks>> /\ (abandoned => abandoned')
    <3>1. abandoned => abandoned'
      BY <1>6, OwnerEffect
    <3>2. UNCHANGED <<process, recording, handle, speaks>>
      BY <1>6 DEF Start, Stop, Joined, source
    <3> QED
      BY <3>1, <3>2
  <2>2. ~abandoned => \A k \in Threads :
            (step'[k] = step[k]) \/ (step[k] \in {"idle", "join"} /\ k \notin Users)
    <3>1. CASE Start
      <4>1. PICK l \in Loops \ alive : step' = [step EXCEPT ![l] = "check"]
        BY <3>1 DEF Start
      <4>2. ~abandoned => step[l] = "idle"
        BY DEF OneLoop
      <4> QED
        BY <1>0, <4>1, <4>2
    <3>2. CASE Stop \/ Joined
      BY <1>0, <3>2 DEF Stop, Joined, Goto
    <3> QED
      BY <1>6, <3>1, <3>2
  <2>3. Muting' = Muting
    <3>1. \A k \in Users : step'[k] = step[k]
      BY <1>0, <1>6 DEF Start, Stop, Joined, Goto
    <3> QED
      BY <3>1 DEF Muting
  <2>4. ~abandoned => EndersKept
    BY <2>1, <2>2 DEF EndersKept, Ends
  <2>5. ~abandoned => Lost' \subseteq Lost
    BY <2>1, <2>4, NoneLost DEF CurrentKept
  <2> QED
    BY <1>1, <2>1, <2>3, <2>5 DEF FewLost
<1>7. ASSUME NEW r \in Recorders, Record(r) \/ RecorderFails(r) PROVE FewLost'
  <2>1. /\ UNCHANGED <<process, step, handle, speaks, abandoned>> /\ recording' \subseteq recording
    BY <1>7 DEF Record, RecorderFails, lifecycle
  <2>2. Lost' \subseteq Lost
    BY <2>1, NoneLost DEF CurrentKept, EndersKept, Ends
  <2> QED
    BY <1>1, <2>1, <2>2 DEF Muting
<1>8. CASE UNCHANGED vars
  <2>1. UNCHANGED <<process, step, handle, speaks, abandoned, recording>>
    BY <1>8 DEF vars, source, lifecycle
  <2> QED
    BY <1>1, <2>1 DEF Muting, Lost, Ends
<1> QED
  BY <1>2, <1>3, <1>4, <1>5, <1>6, <1>7, <1>8 DEF Next

LEMMA InitFew ==
    ASSUME Init
    PROVE  FewLost
<1>1. Lost = {} /\ Muting = {} /\ speaks = 0
  BY DEF Init, Lost, Muting, Threads
<1>2. Room({}, {}, 0)
  BY FS_EmptySet DEF Room
<1> QED
  BY <1>1, <1>2 DEF FewLost

-----------------------------------------------------------------------------
(* The theorems *)

\* Whatever the threads, the recorders and the owner do, from the start.
THEOREM LoopAlways == Spec => []IInv
<1>1. Init => IInv
  BY InitTyped, InitOneLoop, InitOpener, InitOrder, InitFresh, InitCounts, InitFew DEF IInv
<1>2. IInv /\ [Next]_vars => IInv'
  BY NextTyped, NextKeepsOneLoop, NextKeepsOpener, NextKeepsOrder, NextKeepsFresh,
     NextKeepsCounts, NextKeepsFew DEF IInv
<1> QED
  BY <1>1, <1>2, PTL DEF Spec

\* Utterances are made of frames that are new and in order, and end by the counts of
\* those frames, whoever clears them.
THEOREM SpecUtterancesIntact == Spec => []UtterancesIntact
<1>1. IInv => UtterancesIntact
  <2> SUFFICES ASSUME IInv PROVE UtterancesIntact
    OBVIOUS
  <2>1. FramesAreNew
    BY DEF IInv, FramesFresh, Increasing, Above, FramesAreNew
  <2>2. CountersAgree
    <3> SUFFICES ASSUME ~abandoned, NEW l \in Loops, step[l] \in {"check", "read"}
                 PROVE  CountsAgree
      BY DEF CountersAgree, CountsAgree
    <3>1. \A k \in Loops : step[k] \notin Turn
      BY BusyLoopIsAlone DEF IInv, Turn
    <3> QED
      BY <3>1 DEF IInv, CountsKept
  <2> QED
    BY <2>1, <2>2 DEF UtterancesIntact
<1> QED
  BY <1>1, LoopAlways, PTL

\* The loop's microphone never brings it its own words.
THEOREM SpecOwnVoiceUnheard == Spec => []OwnVoiceUnheard
<1>1. IInv => OwnVoiceUnheard
  BY DEF IInv, FramesFresh, Above, OwnVoiceUnheard
<1> QED
  BY <1>1, LoopAlways, PTL

\* Each speak() leaves at most one recorder behind, and nothing else leaves any.
THEOREM SpecFewStrayRecorders == Spec => []FewStrayRecorders
<1>1. IInv => FewStrayRecorders
  <2> SUFFICES ASSUME IInv, ~abandoned PROVE Cardinality(Stray) <= speaks
    BY DEF FewStrayRecorders
  <2>1. Room(Lost, Muting, speaks) /\ speaks \in Nat
    BY DEF IInv, FewLost, Typed
  <2>2. Stray \subseteq Lost
    BY DEF Stray, Lost
  <2>3. Room(Stray, Muting, speaks)
    BY <2>1, <2>2, RoomKept
  <2>4. Cardinality(Stray) \in Nat /\ Cardinality(Muting) \in Nat
    BY <2>3, FS_CardinalityType DEF Room
  <2> QED
    BY <2>1, <2>3, <2>4 DEF Room
<1> QED
  BY <1>1, LoopAlways, PTL
=============================================================================
