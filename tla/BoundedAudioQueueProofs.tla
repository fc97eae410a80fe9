---------------------- MODULE BoundedAudioQueueProofs ----------------------
(***************************************************************************)
(* Proofs about BoundedAudioQueue for every capacity, every policy and     *)
(* every set of threads: its type invariant, that it never overfills,      *)
(* loses count or breaks the order of its frames, that it implements       *)
(* AudioQueue, and, for one producer and one consumer, that no wakeup is   *)
(* lost although both sides share one condition variable.                  *)
(***************************************************************************)
EXTENDS BoundedAudioQueue, SequenceTheorems, TLAPS

\* What the list of waiters becomes when one is notified or leaves.
LEMMA NotifyType ==
    ASSUME NEW S, NEW w \in Seq(S)
    PROVE  Notify(w) \in Seq(S)
BY HeadTailProperties DEF Notify

\* A waiter that leaves the list leaves a list of waiters.
LEMMA LeaveType ==
    ASSUME NEW S, NEW w \in Seq(S), NEW t
    PROVE  Leave(w, t) \in Seq(S)
<1>1. CASE \E i \in DOMAIN w : w[i] = t
    <2> DEFINE k == CHOOSE i \in DOMAIN w : w[i] = t
    <2>1. k \in 1 .. Len(w)
        BY <1>1
    <2>4. Leave(w, t) = SubSeq(w, 1, k - 1) \o SubSeq(w, k + 1, Len(w))
        BY <1>1 DEF Leave, RemoveAt
    <2> HIDE DEF k
    <2>2. SubSeq(w, 1, k - 1) \in Seq(S)
        <3>1. \A i \in 1 .. k - 1 : w[i] \in S
            BY <2>1
        <3> QED BY <2>1, <3>1, SubSeqProperties
    <2>3. SubSeq(w, k + 1, Len(w)) \in Seq(S)
        <3>1. \A i \in k + 1 .. Len(w) : w[i] \in S
            BY <2>1
        <3> QED BY <2>1, <3>1, SubSeqProperties
    <2> QED BY <2>2, <2>3, <2>4, ConcatProperties
<1>2. CASE ~ \E i \in DOMAIN w : w[i] = t
    BY <1>2 DEF Leave
<1> QED BY <1>1, <1>2

\* The records a call goes through are well typed.
LEMMA CallTypes ==
    /\ NoCall \in Calls
    /\ \A op \in {"push", "pop"}, timed \in BOOLEAN : Blocked(op, timed) \in Calls
BY DEF NoCall, Blocked, Calls

-----------------------------------------------------------------------------
\* The two ways a call changes the frames keep them typed.
LEMMA AcceptType ==
    ASSUME TypeOK, NEW t \in Threads, NEW held \in Seq(Nat),
           NEW w \in Seq(Threads), Accept(t, held, w), dropped_oldest' \in Nat
    PROVE  TypeOK'
<1>1. items' \in Seq(Nat)
    BY AppendProperties DEF Accept, TypeOK
<1>2. waiters' \in Seq(Threads)
    BY NotifyType DEF Accept
<1>3. call' \in [Threads -> Calls]
    BY CallTypes DEF Accept, TypeOK
<1> QED BY <1>1, <1>2, <1>3 DEF Accept, TypeOK

\* Handing the oldest frame to a consumer keeps the state typed.
LEMMA TakeType ==
    ASSUME TypeOK, NEW t \in Threads, items # <<>>,
           NEW w \in Seq(Threads), Take(t, w)
    PROVE  TypeOK'
<1>1. items' \in Seq(Nat) /\ delivered' \in Nat
    BY HeadTailProperties DEF Take, TypeOK
<1>2. waiters' \in Seq(Threads)
    BY NotifyType DEF Take
<1>3. call' \in [Threads -> Calls]
    BY CallTypes DEF Take, TypeOK
<1> QED BY <1>1, <1>2, <1>3 DEF Take, TypeOK

\* Waiting on the condition and giving up keep the state typed.
LEMMA WaitType ==
    ASSUME TypeOK, NEW t \in Threads, NEW op \in {"push", "pop"},
           NEW timed \in BOOLEAN, Wait(t, op, timed)
    PROVE  TypeOK'
BY CallTypes, AppendProperties DEF Wait, TypeOK, counters

\* A call that times out leaves the list of waiters, and the state typed.
LEMMA GiveUpType ==
    ASSUME TypeOK, NEW t \in Threads, GiveUp(t)
    PROVE  TypeOK'
<1>1. waiters' \in Seq(Threads)
    BY LeaveType DEF GiveUp, TypeOK
<1> QED BY <1>1, CallTypes DEF GiveUp, TypeOK, counters

\* Every step keeps the state typed.
LEMMA TypeStep == TypeOK /\ [Next]_vars => TypeOK'
<1> SUFFICES ASSUME TypeOK, [Next]_vars PROVE TypeOK'
    OBVIOUS
<1> USE DEF Threads
<1>1. ASSUME NEW t \in Pushers, Push(t) PROVE TypeOK'
    <2>1. CASE PushWithSpace(t)
        BY <2>1, AcceptType DEF PushWithSpace, TypeOK
    <2>2. CASE PushDroppingOldest(t)
        <3>1. items # <<>>
            BY <2>2, BoundedAudioQueueAssumption DEF PushDroppingOldest, Full, TypeOK
        <3>2. Tail(items) \in Seq(Nat)
            BY <3>1, HeadTailProperties DEF TypeOK
        <3>3. waiters \in Seq(Threads) /\ dropped_oldest' \in Nat
            BY <2>2 DEF PushDroppingOldest, TypeOK
        <3> QED BY <2>2, <3>2, <3>3, AcceptType DEF PushDroppingOldest
    <2>3. CASE PushDroppingNewest(t)
        BY <2>3 DEF PushDroppingNewest, TypeOK
    <2>4. ASSUME NEW timed \in BOOLEAN, PushBlocking(t, timed) PROVE TypeOK'
        BY <2>4, WaitType DEF PushBlocking
    <2>5. CASE ResumePush(t)
        <3>1. Leave(waiters, t) \in Seq(Threads)
            BY LeaveType DEF TypeOK
        <3>2. call[t].timed \in BOOLEAN
            BY DEF TypeOK, Calls
        <3>3. items \in Seq(Nat) /\ (UNCHANGED dropped_oldest => dropped_oldest' \in Nat)
            BY DEF TypeOK
        <3> QED BY <2>5, <3>1, <3>2, <3>3, AcceptType, WaitType, GiveUpType DEF ResumePush
    <2> QED BY <1>1, <2>1, <2>2, <2>3, <2>4, <2>5 DEF Push
<1>2. ASSUME NEW t \in Poppers, Pop(t) PROVE TypeOK'
    <2>1. CASE PopWithItem(t)
        BY <2>1, TakeType DEF PopWithItem, TypeOK
    <2>2. ASSUME NEW timed \in BOOLEAN, PopBlocking(t, timed) PROVE TypeOK'
        BY <2>2, WaitType DEF PopBlocking
    <2>3. CASE ResumePop(t)
        <3>1. Leave(waiters, t) \in Seq(Threads)
            BY LeaveType DEF TypeOK
        <3>2. call[t].timed \in BOOLEAN
            BY DEF TypeOK, Calls
        <3> QED BY <2>3, <3>1, <3>2, TakeType, WaitType, GiveUpType DEF ResumePop
    <2> QED BY <1>2, <2>1, <2>2, <2>3 DEF Pop
<1>3. ASSUME NEW t \in Threads, Expire(t) PROVE TypeOK'
    BY <1>3 DEF Expire, TypeOK, counters, Calls
<1>4. CASE UNCHANGED vars
    BY <1>4 DEF vars, counters, TypeOK
<1> QED BY <1>1, <1>2, <1>3, <1>4 DEF Next

\* The state of the queue is well typed in every behaviour of the code.
THEOREM TypeCorrect == Spec => []TypeOK
<1>1. Init => TypeOK
    BY DEF Init, TypeOK, Calls, NoCall
<1> QED BY <1>1, TypeStep, PTL DEF Spec

-----------------------------------------------------------------------------
(* The frames: capacity, count and order, for any number of threads.        *)

FramesInv == TypeOK /\ WithinCapacity /\ Conservation /\ UnbrokenRun

\* The numbers the invariant is about.
LEMMA Sizes ==
    FramesInv =>
        /\ Len(items) \in Nat /\ DOMAIN items = 1 .. Len(items)
        /\ pushed \in Nat /\ popped \in Nat /\ dropped_oldest \in Nat
        /\ delivered \in Nat /\ Capacity \in Nat \ {0}
        /\ \A j \in 1 .. Len(items) : items[j] = pushed - Len(items) + j
BY BoundedAudioQueueAssumption DEF FramesInv, TypeOK, UnbrokenRun

\* A frame that joins what is left of the queue becomes the end of its run.
LEMMA AcceptFrames ==
    ASSUME FramesInv, NEW t, NEW w,
           \/ ~Full /\ Accept(t, items, w) /\ UNCHANGED dropped_oldest
           \/ /\ Full
              /\ dropped_oldest' = dropped_oldest + 1
              /\ Accept(t, Tail(items), w)
    PROVE  WithinCapacity' /\ Conservation' /\ UnbrokenRun'
<1>1. CASE ~Full /\ Accept(t, items, w) /\ UNCHANGED dropped_oldest
    <2>1. /\ pushed' = pushed + 1 /\ popped' = popped /\ delivered' = delivered
          /\ Len(items') = Len(items) + 1
          /\ \A i \in 1 .. Len(items) : items'[i] = items[i]
          /\ items'[Len(items) + 1] = pushed + 1
          /\ DOMAIN items' = 1 .. Len(items')
        BY <1>1, AppendProperties DEF Accept, FramesInv, TypeOK
    <2>2. WithinCapacity'
        BY <1>1, <2>1, Sizes DEF Full, WithinCapacity
    <2>3. Conservation'
        BY <1>1, <2>1, Sizes DEF Conservation, FramesInv
    <2>4. \A i \in 1 .. Len(items') : items'[i] = pushed' - Len(items') + i
        <3> SUFFICES ASSUME NEW i \in 1 .. Len(items) + 1
                     PROVE  items'[i] = pushed' - Len(items') + i
            BY <2>1
        <3>1. CASE i = Len(items) + 1
            BY <2>1, <3>1, Sizes
        <3>2. CASE i \in 1 .. Len(items)
            <4>1. items'[i] = items[i] /\ items[i] = pushed - Len(items) + i
                BY <2>1, <3>2, Sizes
            <4> QED BY <2>1, <4>1, Sizes
        <3> QED BY <3>1, <3>2, Sizes
    <2>5. delivered' <= pushed' - Len(items')
        BY <2>1, Sizes DEF UnbrokenRun, FramesInv
    <2> QED BY <2>1, <2>2, <2>3, <2>4, <2>5 DEF UnbrokenRun
<1>2. CASE /\ Full
           /\ dropped_oldest' = dropped_oldest + 1
           /\ Accept(t, Tail(items), w)
    <2>1. items # <<>>
        BY <1>2, BoundedAudioQueueAssumption DEF Full, FramesInv, TypeOK
    <2>2. /\ Tail(items) \in Seq(Nat)
          /\ Len(Tail(items)) = Len(items) - 1
          /\ \A i \in 1 .. Len(items) - 1 : Tail(items)[i] = items[i + 1]
        BY <2>1, HeadTailProperties DEF FramesInv, TypeOK
    <2>3. /\ pushed' = pushed + 1 /\ popped' = popped /\ delivered' = delivered
          /\ Len(items') = Len(items)
          /\ \A i \in 1 .. Len(items) - 1 : items'[i] = items[i + 1]
          /\ items'[Len(items)] = pushed + 1
          /\ DOMAIN items' = 1 .. Len(items')
        BY <1>2, <2>2, AppendProperties DEF Accept, FramesInv, TypeOK
    <2>4. WithinCapacity'
        BY <2>3, Sizes DEF WithinCapacity, FramesInv
    <2>5. Conservation'
        BY <1>2, <2>3, Sizes DEF Conservation, FramesInv
    <2>6. \A i \in 1 .. Len(items') : items'[i] = pushed' - Len(items') + i
        <3> SUFFICES ASSUME NEW i \in 1 .. Len(items)
                     PROVE  items'[i] = pushed' - Len(items') + i
            BY <2>3
        <3>1. CASE i = Len(items)
            BY <2>3, <3>1, Sizes
        <3>2. CASE i \in 1 .. Len(items) - 1
            <4>1. i + 1 \in 1 .. Len(items)
                BY <3>2, Sizes
            <4>2. items'[i] = items[i + 1] /\ items[i + 1] = pushed - Len(items) + (i + 1)
                BY <2>3, <3>2, <4>1, Sizes
            <4>3. /\ items'[i] = pushed - Len(items) + (i + 1)
                  /\ pushed' = pushed + 1 /\ Len(items') = Len(items)
                BY <2>3, <4>2
            <4>4. i \in Nat /\ pushed \in Nat /\ Len(items) \in Nat
                BY Sizes
            <4> QED BY <4>3, <4>4
        <3>3. Len(items) \in Nat
            BY Sizes
        <3>4. i = Len(items) \/ i \in 1 .. Len(items) - 1
            BY <3>3
        <3> QED BY <3>1, <3>2, <3>4
    <2>7. delivered' <= pushed' - Len(items')
        BY <2>3, Sizes DEF UnbrokenRun, FramesInv
    <2> QED BY <2>3, <2>4, <2>5, <2>6, <2>7 DEF UnbrokenRun
<1> QED BY <1>1, <1>2

\* Handing out the oldest frame leaves the rest of the run.
LEMMA TakeFrames ==
    ASSUME FramesInv, NEW t, NEW w, items # <<>>, Take(t, w)
    PROVE  WithinCapacity' /\ Conservation' /\ UnbrokenRun'
<1>1. /\ Len(items') = Len(items) - 1
      /\ \A i \in 1 .. Len(items) - 1 : items'[i] = items[i + 1]
      /\ DOMAIN items' = 1 .. Len(items')
    BY HeadTailProperties DEF Take, FramesInv, TypeOK
<1>2. delivered' = items[1] /\ 1 \in DOMAIN items /\ Len(items) >= 1
    BY DEF Take, FramesInv, TypeOK
<1>3. delivered' = pushed - Len(items) + 1
    BY <1>2 DEF FramesInv, UnbrokenRun
<1>4. UNCHANGED <<pushed, dropped_oldest>> /\ popped' = popped + 1
    BY DEF Take
<1>5. WithinCapacity'
    BY <1>1, Sizes DEF WithinCapacity, FramesInv
<1>6. Conservation'
    BY <1>1, <1>4, Sizes DEF Conservation, FramesInv
<1>7. \A i \in 1 .. Len(items') : items'[i] = pushed' - Len(items') + i
    <2> SUFFICES ASSUME NEW i \in 1 .. Len(items) - 1
                 PROVE  items'[i] = pushed' - Len(items') + i
        BY <1>1
    <2>1. i + 1 \in 1 .. Len(items)
        BY Sizes
    <2>2. items'[i] = items[i + 1] /\ items[i + 1] = pushed - Len(items) + (i + 1)
        BY <1>1, <2>1, Sizes
    <2>3. /\ items'[i] = pushed - Len(items) + (i + 1)
          /\ pushed' = pushed /\ Len(items') = Len(items) - 1
        BY <1>1, <1>4, <2>2
    <2> QED BY <2>3, Sizes
<1>8. delivered' <= pushed' - Len(items')
    BY <1>1, <1>3, <1>4, Sizes
<1> QED BY <1>1, <1>5, <1>6, <1>7, <1>8 DEF UnbrokenRun

\* A step that leaves the frames and their counts alone keeps the invariant.
LEMMA SameFrames ==
    ASSUME FramesInv, UNCHANGED <<items, pushed, popped, dropped_oldest, delivered>>
    PROVE  WithinCapacity' /\ Conservation' /\ UnbrokenRun'
BY DEF FramesInv, WithinCapacity, Conservation, UnbrokenRun

\* Capacity, count and order of the frames survive every step.
LEMMA FramesStep == FramesInv /\ [Next]_vars => FramesInv'
<1> SUFFICES ASSUME FramesInv, [Next]_vars
             PROVE  WithinCapacity' /\ Conservation' /\ UnbrokenRun'
    BY TypeStep DEF FramesInv
<1>1. ASSUME NEW t \in Pushers, Push(t)
      PROVE  WithinCapacity' /\ Conservation' /\ UnbrokenRun'
    <2>1. CASE PushWithSpace(t)
        BY <2>1, AcceptFrames DEF PushWithSpace
    <2>2. CASE PushDroppingOldest(t)
        BY <2>2, AcceptFrames DEF PushDroppingOldest
    <2>3. CASE PushDroppingNewest(t)
        BY <2>3, SameFrames DEF PushDroppingNewest
    <2>4. ASSUME NEW timed \in BOOLEAN, PushBlocking(t, timed)
          PROVE  WithinCapacity' /\ Conservation' /\ UnbrokenRun'
        BY <2>4, SameFrames DEF PushBlocking, Wait, counters
    <2>5. CASE ResumePush(t)
        BY <2>5, AcceptFrames, SameFrames DEF ResumePush, Wait, GiveUp, counters
    <2> QED BY <1>1, <2>1, <2>2, <2>3, <2>4, <2>5 DEF Push
<1>2. ASSUME NEW t \in Poppers, Pop(t)
      PROVE  WithinCapacity' /\ Conservation' /\ UnbrokenRun'
    <2>1. CASE PopWithItem(t)
        BY <2>1, TakeFrames DEF PopWithItem
    <2>2. ASSUME NEW timed \in BOOLEAN, PopBlocking(t, timed)
          PROVE  WithinCapacity' /\ Conservation' /\ UnbrokenRun'
        BY <2>2, SameFrames DEF PopBlocking, Wait, counters
    <2>3. CASE ResumePop(t)
        BY <2>3, TakeFrames, SameFrames DEF ResumePop, Wait, GiveUp, counters
    <2> QED BY <1>2, <2>1, <2>2, <2>3 DEF Pop
<1>3. ASSUME NEW t \in Threads, Expire(t)
      PROVE  WithinCapacity' /\ Conservation' /\ UnbrokenRun'
    BY <1>3, SameFrames DEF Expire, counters
<1>4. CASE UNCHANGED vars
    BY <1>4, SameFrames DEF vars, counters
<1> QED BY <1>1, <1>2, <1>3, <1>4 DEF Next

\* A new queue satisfies the invariant.
LEMMA FramesInit == Init => FramesInv
<1> SUFFICES ASSUME Init PROVE FramesInv
    OBVIOUS
<1>1. TypeOK
    BY DEF Init, TypeOK, Calls, NoCall
<1>2. items = <<>> /\ Len(items) = 0 /\ DOMAIN items = {}
    BY DEF Init
<1> QED BY <1>1, <1>2, BoundedAudioQueueAssumption
        DEF Init, FramesInv, WithinCapacity, Conservation, UnbrokenRun

\* The invariant about the frames holds in every behaviour.
LEMMA FramesAlways == Spec => []FramesInv
BY FramesInit, FramesStep, PTL DEF Spec

\* However many producers and consumers interleave, time out and are woken,
\* the queue never holds more than its capacity.
THEOREM NeverOverfilled == Spec => []WithinCapacity
<1>1. FramesInv => WithinCapacity
    BY DEF FramesInv
<1> QED BY <1>1, FramesAlways, PTL

\* Every frame the queue accepted is queued, was popped once or was evicted.
THEOREM NoFrameUnaccounted == Spec => []Conservation
<1>1. FramesInv => Conservation
    BY DEF FramesInv
<1> QED BY <1>1, FramesAlways, PTL

\* The frames queued are consecutive and end with the newest; what was handed
\* to a consumer is older than all of them.
THEOREM FramesInOrder == Spec => []UnbrokenRun
<1>1. FramesInv => UnbrokenRun
    BY DEF FramesInv
<1> QED BY <1>1, FramesAlways, PTL

-----------------------------------------------------------------------------
(* Refinement.                                                              *)

\* Every step of the queue is a step of AudioQueue or changes none of what
\* AudioQueue speaks of.
LEMMA AbstractStep == FramesInv /\ [Next]_vars => [Abstract!Next]_(Abstract!vars)
<1> SUFFICES ASSUME FramesInv, [Next]_vars
             PROVE  Abstract!Next \/ UNCHANGED Abstract!vars
    OBVIOUS
<1> USE DEF Abstract!Next, Abstract!vars
<1>1. ASSUME NEW t, NEW w, ~Full, Accept(t, items, w), UNCHANGED dropped_oldest
      PROVE  Abstract!Accept
    BY <1>1, Sizes DEF Full, Accept, Abstract!Accept
<1>2. ASSUME NEW t, NEW w, items # <<>>, Take(t, w)
      PROVE  Abstract!Deliver
    BY <1>2 DEF Take, Abstract!Deliver
<1>3. ASSUME NEW t, NEW op, NEW timed, Wait(t, op, timed)
      PROVE  UNCHANGED Abstract!vars
    BY <1>3 DEF Wait, counters
<1>4. ASSUME NEW t, GiveUp(t)
      PROVE  UNCHANGED Abstract!vars
    BY <1>4 DEF GiveUp, counters
<1>5. ASSUME NEW t \in Pushers, Push(t)
      PROVE  Abstract!Next \/ UNCHANGED Abstract!vars
    <2>1. CASE PushWithSpace(t)
        BY <2>1, <1>1 DEF PushWithSpace
    <2>2. CASE PushDroppingOldest(t)
        <3>1. Len(items) = Capacity
            BY <2>2, Sizes DEF PushDroppingOldest, Full, FramesInv, WithinCapacity
        <3> QED BY <2>2, <3>1 DEF PushDroppingOldest, Accept, Abstract!AcceptEvicting
    <2>3. CASE PushDroppingNewest(t)
        <3>1. Len(items) = Capacity
            BY <2>3, Sizes DEF PushDroppingNewest, Full, FramesInv, WithinCapacity
        <3> QED BY <2>3, <3>1 DEF PushDroppingNewest, Abstract!Reject
    <2>4. ASSUME NEW timed \in BOOLEAN, PushBlocking(t, timed)
          PROVE  UNCHANGED Abstract!vars
        BY <2>4, <1>3 DEF PushBlocking
    <2>5. CASE ResumePush(t)
        BY <2>5, <1>1, <1>3, <1>4 DEF ResumePush
    <2> QED BY <1>5, <2>1, <2>2, <2>3, <2>4, <2>5 DEF Push
<1>6. ASSUME NEW t \in Poppers, Pop(t)
      PROVE  Abstract!Next \/ UNCHANGED Abstract!vars
    <2>1. CASE PopWithItem(t)
        BY <2>1, <1>2 DEF PopWithItem
    <2>2. ASSUME NEW timed \in BOOLEAN, PopBlocking(t, timed)
          PROVE  UNCHANGED Abstract!vars
        BY <2>2, <1>3 DEF PopBlocking
    <2>3. CASE ResumePop(t)
        BY <2>3, <1>2, <1>3, <1>4 DEF ResumePop
    <2> QED BY <1>6, <2>1, <2>2, <2>3 DEF Pop
<1>7. ASSUME NEW t \in Threads, Expire(t)
      PROVE  UNCHANGED Abstract!vars
    BY <1>7 DEF Expire, counters
<1>8. CASE UNCHANGED vars
    BY <1>8 DEF vars, counters
<1> QED BY <1>5, <1>6, <1>7, <1>8 DEF Next

\* Locks, waiters and deadlines are invisible to the callers: the queue is a
\* bounded FIFO that loses frames only as its policy says.
THEOREM QueueImplementsAudioQueue == Spec => ImplementsAudioQueue
<1>1. Init => Abstract!Init
    BY DEF Init, Policies, Abstract!Init
<1> QED BY <1>1, FramesAlways, AbstractStep, PTL
        DEF Spec, ImplementsAudioQueue, Abstract!Spec

-----------------------------------------------------------------------------
(* One producer and one consumer: no wakeup is lost.                        *)

\* At most one thread waits, and it waits for what is really missing.
LoneWaiter(p, c) ==
    /\ waiters \in {<<>>, <<p>>, <<c>>}
    /\ waiters = <<p>> => call[p].op = "push" /\ Full
    /\ waiters = <<c>> => call[c].op = "pop" /\ items = <<>>
    /\ call[p].op \in {"none", "push"}
    /\ call[c].op \in {"none", "pop"}

\* Notifying from, and leaving, a list of at most one waiter.
LEMMA ShortLists ==
    ASSUME NEW u, NEW t
    PROVE  /\ Notify(<<>>) = <<>> /\ Notify(<<u>>) = <<>>
           /\ Leave(<<>>, t) = <<>>
           /\ t = u => Leave(<<u>>, t) = <<>>
           /\ t # u => Leave(<<u>>, t) = <<u>>
<1>1. Notify(<<>>) = <<>> /\ Notify(<<u>>) = <<>>
    BY DEF Notify
<1>2. Leave(<<>>, t) = <<>>
    BY DEF Leave
<1>3. t # u => Leave(<<u>>, t) = <<u>>
    BY DEF Leave
<1>4. t = u => Leave(<<u>>, t) = <<>>
    <2> SUFFICES ASSUME t = u PROVE Leave(<<u>>, t) = <<>>
        OBVIOUS
    <2>1. (CHOOSE i \in DOMAIN <<u>> : <<u>>[i] = t) = 1
        OBVIOUS
    <2>2. Leave(<<u>>, t) = SubSeq(<<u>>, 1, 0) \o SubSeq(<<u>>, 2, 1)
        BY <2>1 DEF Leave, RemoveAt
    <2>3. SubSeq(<<u>>, 1, 0) = <<>> /\ SubSeq(<<u>>, 2, 1) = <<>>
        BY SubSeqEmpty
    <2> QED BY <2>2, <2>3
<1> QED BY <1>1, <1>2, <1>3, <1>4

\* A call that ends or waits, for the pair of threads (p, c).
LEMMA LoneWaiterStep ==
    ASSUME NEW p, NEW c, Pushers = {p}, Poppers = {c}, p # c,
           FramesInv, LoneWaiter(p, c), [Next]_vars
    PROVE  LoneWaiter(p, c)'
<1>1. /\ call \in [{p, c} -> Calls] /\ Len(items) \in Nat
      /\ <<p>> # <<c>> /\ <<p>> # <<>> /\ <<c>> # <<>>
      /\ Full => items # <<>>
    BY BoundedAudioQueueAssumption DEF FramesInv, TypeOK, Threads, Full
<1>2. ASSUME NEW w \in {<<>>, <<p>>, <<c>>}, NEW t \in {p, c},
             waiters' = Notify(w), call' = [call EXCEPT ![t] = NoCall]
      PROVE  LoneWaiter(p, c)'
    <2>1. waiters' = <<>>
        BY <1>2, ShortLists
    <2>2. call'[p].op \in {"none", "push"} /\ call'[c].op \in {"none", "pop"}
        BY <1>1, <1>2 DEF NoCall, LoneWaiter
    <2> QED BY <1>1, <2>1, <2>2 DEF LoneWaiter
<1>3. \A t \in {p, c} : Leave(waiters, t) \in {<<>>, <<p>>, <<c>>}
    BY ShortLists DEF LoneWaiter
<1>4. CASE Push(p)
    <2>1. CASE PushWithSpace(p)
        BY <2>1, <1>2 DEF PushWithSpace, Accept, LoneWaiter
    <2>2. CASE PushDroppingOldest(p)
        BY <2>2, <1>2 DEF PushDroppingOldest, Accept, LoneWaiter
    <2>3. CASE PushDroppingNewest(p)
        BY <2>3 DEF PushDroppingNewest, LoneWaiter, Full
    <2>4. ASSUME Full, NEW timed \in BOOLEAN, Wait(p, "push", timed), waiters # <<p>>
          PROVE  LoneWaiter(p, c)'
        <3>1. waiters = <<>>
            BY <1>1, <2>4 DEF LoneWaiter
        <3>2. waiters' = <<p>> /\ items' = items
            BY <2>4, <3>1 DEF Wait
        <3>3. call' = [call EXCEPT ![p] = Blocked("push", timed)]
            BY <2>4 DEF Wait
        <3>4. call'[p].op = "push" /\ call'[c] = call[c]
            BY <1>1, <3>3 DEF Blocked
        <3> QED BY <1>1, <2>4, <3>2, <3>4 DEF LoneWaiter, Full
    <2>5. ASSUME NEW timed \in BOOLEAN, PushBlocking(p, timed)
          PROVE  LoneWaiter(p, c)'
        <3>1. waiters # <<p>>
            BY <2>5 DEF PushBlocking, Offers, Idle, NoCall, LoneWaiter
        <3> QED BY <2>5, <3>1, <2>4 DEF PushBlocking
    <2>6. CASE ResumePush(p)
        <3>1. CASE ~Full /\ Accept(p, items, Leave(waiters, p))
            BY <3>1, <1>2, <1>3 DEF Accept
        <3>2. CASE Full /\ call[p].expired /\ GiveUp(p)
            <4>1. waiters' = <<>>
                BY <1>1, <3>2, ShortLists DEF GiveUp, LoneWaiter
            <4>2. call' = [call EXCEPT ![p] = NoCall]
                BY <3>2 DEF GiveUp
            <4>3. call'[p].op = "none" /\ call'[c] = call[c]
                BY <1>1, <4>2 DEF NoCall
            <4> QED BY <1>1, <4>1, <4>3 DEF LoneWaiter
        <3>3. CASE Full /\ ~call[p].expired /\ Wait(p, "push", call[p].timed)
            <4>1. waiters # <<p>>
                BY <2>6, <3>3 DEF ResumePush, Resumes, Waiting
            <4>2. call[p].timed \in BOOLEAN
                BY <1>1 DEF Calls
            <4> QED BY <3>3, <4>1, <4>2, <2>4
        <3> QED BY <2>6, <3>1, <3>2, <3>3 DEF ResumePush
    <2> QED BY <1>4, <2>1, <2>2, <2>3, <2>5, <2>6 DEF Push
<1>5. CASE Pop(c)
    <2>1. CASE PopWithItem(c)
        BY <2>1, <1>2 DEF PopWithItem, Take, LoneWaiter
    <2>2. ASSUME items = <<>>, NEW timed \in BOOLEAN, Wait(c, "pop", timed), waiters # <<c>>
          PROVE  LoneWaiter(p, c)'
        <3>1. waiters = <<>>
            BY <1>1, <2>2 DEF LoneWaiter
        <3>2. waiters' = <<c>> /\ items' = items
            BY <2>2, <3>1 DEF Wait
        <3>3. call' = [call EXCEPT ![c] = Blocked("pop", timed)]
            BY <2>2 DEF Wait
        <3>4. call'[c].op = "pop" /\ call'[p] = call[p]
            BY <1>1, <3>3 DEF Blocked
        <3> QED BY <1>1, <2>2, <3>2, <3>4 DEF LoneWaiter, Full
    <2>3. ASSUME NEW timed \in BOOLEAN, PopBlocking(c, timed)
          PROVE  LoneWaiter(p, c)'
        <3>1. waiters # <<c>>
            BY <2>3 DEF PopBlocking, Idle, NoCall, LoneWaiter
        <3> QED BY <2>3, <3>1, <2>2 DEF PopBlocking
    <2>4. CASE ResumePop(c)
        <3>1. CASE items # <<>> /\ Take(c, Leave(waiters, c))
            BY <3>1, <1>2, <1>3 DEF Take
        <3>2. CASE items = <<>> /\ call[c].expired /\ GiveUp(c)
            <4>1. waiters' = <<>>
                BY <1>1, <3>2, ShortLists DEF GiveUp, LoneWaiter
            <4>2. call' = [call EXCEPT ![c] = NoCall]
                BY <3>2 DEF GiveUp
            <4>3. call'[c].op = "none" /\ call'[p] = call[p]
                BY <1>1, <4>2 DEF NoCall
            <4> QED BY <1>1, <4>1, <4>3 DEF LoneWaiter
        <3>3. CASE items = <<>> /\ ~call[c].expired /\ Wait(c, "pop", call[c].timed)
            <4>1. waiters # <<c>>
                BY <2>4, <3>3 DEF ResumePop, Resumes, Waiting
            <4>2. call[c].timed \in BOOLEAN
                BY <1>1 DEF Calls
            <4> QED BY <3>3, <4>1, <4>2, <2>2
        <3> QED BY <2>4, <3>1, <3>2, <3>3 DEF ResumePop
    <2> QED BY <1>5, <2>1, <2>3, <2>4 DEF Pop
<1>6. ASSUME NEW t \in {p, c}, Expire(t) PROVE LoneWaiter(p, c)'
    <2>1. call'[p].op = call[p].op /\ call'[c].op = call[c].op
        BY <1>1, <1>6 DEF Expire, Calls
    <2> QED BY <1>6, <2>1 DEF Expire, LoneWaiter, Full
<1>7. CASE UNCHANGED vars
    BY <1>7 DEF vars, LoneWaiter, Full
<1> QED BY <1>4, <1>5, <1>6, <1>7 DEF Next, Threads

\* With one thread pushing and one popping, as between the stages of the voice
\* runtime, notify() never wakes the wrong side: whoever waits has reason to.
THEOREM OneOnOneLosesNoWakeup ==
    ASSUME NEW p, NEW c, Pushers = {p}, Poppers = {c}, p # c
    PROVE  Spec => []NoLostWakeup
<1>1. Init => LoneWaiter(p, c)
    BY DEF Init, LoneWaiter, NoCall, Threads
<1>2. FramesInv /\ LoneWaiter(p, c) /\ [Next]_vars => LoneWaiter(p, c)'
    BY LoneWaiterStep
<1>3. LoneWaiter(p, c) => NoLostWakeup
    <2> SUFFICES ASSUME LoneWaiter(p, c), NEW t \in {p, c}, Waiting(t)
                 PROVE  \/ call[t].op = "push" /\ Full
                        \/ call[t].op = "pop" /\ items = <<>>
        BY DEF NoLostWakeup, Threads
    <2>1. waiters = <<t>>
        BY DEF Waiting, LoneWaiter
    <2> QED BY <2>1 DEF LoneWaiter
<1> QED BY <1>1, <1>2, <1>3, FramesAlways, PTL DEF Spec
=============================================================================
