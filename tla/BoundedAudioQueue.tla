------------------------- MODULE BoundedAudioQueue -------------------------
(***************************************************************************)
(* eivoice_runtime/core.py: BoundedAudioQueue, the queue between every two *)
(* stages of the voice runtime and behind both directions of a transport.  *)
(*                                                                         *)
(* One Condition guards the deque and serves both sides: a push that finds *)
(* the queue full and a pop that finds it empty wait on it, and every push *)
(* and pop wakes one waiter, of whichever side.  A step of this module is  *)
(* one stretch of code under the lock, from acquiring it to returning or   *)
(* to waiting.  Frames are numbered in the order they are accepted.        *)
(***************************************************************************)
EXTENDS Naturals, Sequences, SequencesExt

CONSTANTS Pushers,      \* the threads that call push
          Poppers,      \* the threads that call pop
          Capacity,     \* capacity
          MaxOffers     \* bound: how many pushes are offered in a behaviour

ASSUME BoundedAudioQueueAssumption ==
    /\ Capacity \in Nat \ {0}
    /\ MaxOffers \in Nat

Threads == Pushers \cup Poppers

Policies == {"block", "drop_oldest", "drop_newest"}

VARIABLES full_policy,      \* full_policy, chosen when the queue is made
          items,            \* _items
          pushed,           \* _pushed
          popped,           \* _popped
          dropped_oldest,   \* _dropped_oldest
          dropped_newest,   \* _dropped_newest
          waiters,          \* the threads waiting on _condition, first come first
          call,             \* the blocked call of each thread
          delivered         \* history: the last frame a pop returned, 0 for none

counters == <<pushed, popped, dropped_oldest, dropped_newest>>
vars == <<full_policy, items, counters, waiters, call, delivered>>

NoCall == [op |-> "none", timed |-> FALSE, expired |-> FALSE]
Blocked(op, timed) == [op |-> op, timed |-> timed, expired |-> FALSE]
Calls == [op : {"none", "push", "pop"}, timed : BOOLEAN, expired : BOOLEAN]

TypeOK ==
    /\ full_policy \in Policies
    /\ items \in Seq(Nat)
    /\ pushed \in Nat /\ popped \in Nat
    /\ dropped_oldest \in Nat /\ dropped_newest \in Nat
    /\ waiters \in Seq(Threads)
    /\ call \in [Threads -> Calls]
    /\ delivered \in Nat

Init ==
    /\ full_policy \in Policies
    /\ items = <<>>
    /\ pushed = 0 /\ popped = 0
    /\ dropped_oldest = 0 /\ dropped_newest = 0
    /\ waiters = <<>>
    /\ call = [t \in Threads |-> NoCall]
    /\ delivered = 0

Full == Len(items) >= Capacity

Waiting(t) == \E i \in DOMAIN waiters : waiters[i] = t

Idle(t) == call[t] = NoCall

\* Slip: the other side is never woken.
NotifyNobody(w) == w

\* Condition.notify() releases the waiter that has waited longest, if any.
Notify(w) == IF w = <<>> THEN w ELSE Tail(w)

\* What is left of the wait list once a thread that timed out has left it.
Leave(w, t) ==
    IF \E i \in DOMAIN w : w[i] = t
    THEN RemoveAt(w, CHOOSE i \in DOMAIN w : w[i] = t)
    ELSE w

-----------------------------------------------------------------------------
\* The end of a push that succeeds: the frame joins `held`, one of `w` wakes.
Accept(t, held, w) ==
    /\ pushed' = pushed + 1
    /\ items' = Append(held, pushed')
    /\ waiters' = Notify(w)
    /\ call' = [call EXCEPT ![t] = NoCall]
    /\ UNCHANGED <<full_policy, popped, dropped_newest, delivered>>

\* The end of a pop that succeeds.
Take(t, w) ==
    /\ delivered' = Head(items)
    /\ items' = Tail(items)
    /\ popped' = popped + 1
    /\ waiters' = Notify(w)
    /\ call' = [call EXCEPT ![t] = NoCall]
    /\ UNCHANGED <<full_policy, pushed, dropped_oldest, dropped_newest>>

\* The call waits on the condition (again).
Wait(t, op, timed) ==
    /\ waiters' = Append(waiters, t)
    /\ call' = [call EXCEPT ![t] = Blocked(op, timed)]
    /\ UNCHANGED <<full_policy, items, counters, delivered>>

\* Slip: the deadline starts afresh with every wait.
GiveUpNever(t) ==
    /\ waiters' = Append(Leave(waiters, t), t)
    /\ call' = [call EXCEPT ![t].expired = FALSE]
    /\ UNCHANGED <<full_policy, items, counters, delivered>>

\* The call gives up: push returns False, pop returns None.
GiveUp(t) ==
    /\ waiters' = Leave(waiters, t)
    /\ call' = [call EXCEPT ![t] = NoCall]
    /\ UNCHANGED <<full_policy, items, counters, delivered>>

-----------------------------------------------------------------------------
Offers(t) == Idle(t) /\ pushed + dropped_newest < MaxOffers

PushWithSpace(t) ==
    /\ Offers(t)
    /\ ~Full
    /\ Accept(t, items, waiters)
    /\ UNCHANGED dropped_oldest

PushDroppingOldest(t) ==
    /\ Offers(t)
    /\ Full
    /\ full_policy = "drop_oldest"
    /\ dropped_oldest' = dropped_oldest + 1
    /\ Accept(t, Tail(items), waiters)

PushDroppingNewest(t) ==
    /\ Offers(t)
    /\ Full
    /\ full_policy = "drop_newest"
    /\ dropped_newest' = dropped_newest + 1
    /\ UNCHANGED <<full_policy, items, pushed, popped, dropped_oldest, waiters, call, delivered>>

PushBlocking(t, timed) ==
    /\ Offers(t)
    /\ Full
    /\ full_policy = "block"
    /\ Wait(t, "push", timed)

PopWithItem(t) ==
    /\ Idle(t)
    /\ items # <<>>
    /\ Take(t, waiters)

PopBlocking(t, timed) ==
    /\ Idle(t)
    /\ items = <<>>
    /\ Wait(t, "pop", timed)

\* The deadline of a timed call passes, whether or not it was notified.
Expire(t) ==
    /\ call[t].timed /\ ~call[t].expired
    /\ call' = [call EXCEPT ![t].expired = TRUE]
    /\ UNCHANGED <<full_policy, items, counters, waiters, delivered>>

\* A blocked call has the lock again: it was notified, or its wait timed out.
Resumes(t, op) ==
    /\ call[t].op = op
    /\ call[t].expired \/ ~Waiting(t)

\* Slip: `if` for `while`, a woken producer does not look again.
ResumePushUnchecked(t) ==
    /\ Resumes(t, "push")
    /\ Accept(t, items, Leave(waiters, t))
    /\ UNCHANGED dropped_oldest

ResumePush(t) ==
    /\ Resumes(t, "push")
    /\ \/ ~Full /\ Accept(t, items, Leave(waiters, t)) /\ UNCHANGED dropped_oldest
       \/ Full /\ call[t].expired /\ GiveUp(t)
       \/ Full /\ ~call[t].expired /\ Wait(t, "push", call[t].timed)

ResumePop(t) ==
    /\ Resumes(t, "pop")
    /\ \/ items # <<>> /\ Take(t, Leave(waiters, t))
       \/ items = <<>> /\ call[t].expired /\ GiveUp(t)
       \/ items = <<>> /\ ~call[t].expired /\ Wait(t, "pop", call[t].timed)

Push(t) ==
    \/ PushWithSpace(t)
    \/ PushDroppingOldest(t)
    \/ PushDroppingNewest(t)
    \/ \E timed \in BOOLEAN : PushBlocking(t, timed)
    \/ ResumePush(t)

Pop(t) ==
    \/ PopWithItem(t)
    \/ \E timed \in BOOLEAN : PopBlocking(t, timed)
    \/ ResumePop(t)

Next ==
    \/ \E t \in Pushers : Push(t)
    \/ \E t \in Poppers : Pop(t)
    \/ \E t \in Threads : Expire(t)

Spec == Init /\ [][Next]_vars

\* A runnable thread gets the lock, and the clock passes every deadline; nobody
\* has to call push or pop.
Fairness ==
    /\ \A t \in Pushers : WF_vars(ResumePush(t))
    /\ \A t \in Poppers : WF_vars(ResumePop(t))
    /\ \A t \in Threads : WF_vars(Expire(t))

FairSpec == Spec /\ Fairness

-----------------------------------------------------------------------------
(* Properties *)

\* No interleaving of pushes, pops and woken waiters overfills the queue.
WithinCapacity == Len(items) <= Capacity

\* Every accepted frame is in the queue, was returned once or was counted as
\* evicted: what stats() reports adds up at every release of the lock.
Conservation == pushed = popped + dropped_oldest + Len(items)

\* The queue holds an unbroken run of frames that ends with the newest: none is
\* duplicated, skipped or overtaken, whichever thread was woken to insert it.
UnbrokenRun ==
    /\ \A i \in DOMAIN items : items[i] = pushed - Len(items) + i
    /\ delivered <= pushed - Len(items)

\* Whoever waits has reason to, or a thread that was already woken will see to
\* it: a consumer never sleeps on a queue with frames, a producer never on a
\* queue with space, with nobody left to wake it.
NoLostWakeup ==
    \A t \in Threads :
        Waiting(t) /\ ~call[t].expired =>
            \/ call[t].op = "push" /\ Full
            \/ call[t].op = "pop" /\ items = <<>>
            \/ \E u \in Threads : call[u].op # "none" /\ (call[u].expired \/ ~Waiting(u))

\* A call with a timeout returns, whatever the other threads do.
TimedCallsReturn == \A t \in Threads : call[t].timed ~> ~call[t].timed

\* The queue does what AudioQueue promises: waiting, waking and timing out
\* change nothing a caller sees.
Abstract ==
    INSTANCE AudioQueue WITH policy <- full_policy, buffer <- items, accepted <- pushed,
        evicted <- dropped_oldest, rejected <- dropped_newest

ImplementsAudioQueue == Abstract!Spec
=============================================================================
