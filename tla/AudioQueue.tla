----------------------------- MODULE AudioQueue -----------------------------
(***************************************************************************)
(* What a BoundedAudioQueue promises its callers, with no lock, condition  *)
(* variable or waiting thread in sight: a FIFO of at most Capacity frames  *)
(* that loses a frame only in the way its policy names.  The frames are    *)
(* numbered in the order the queue accepted them.                          *)
(***************************************************************************)
EXTENDS Naturals, Sequences

CONSTANT Capacity       \* the most frames the queue holds

VARIABLES policy,       \* "block", "drop_oldest" or "drop_newest", for good
          buffer,       \* the frames in the queue, oldest first
          accepted,     \* how many frames were ever accepted
          delivered,    \* the last frame handed to a consumer, 0 for none
          evicted,      \* how many accepted frames were thrown away
          rejected      \* how many offered frames were counted as refused

vars == <<policy, buffer, accepted, delivered, evicted, rejected>>

Init ==
    /\ policy \in {"block", "drop_oldest", "drop_newest"}
    /\ buffer = <<>>
    /\ accepted = 0
    /\ delivered = 0
    /\ evicted = 0
    /\ rejected = 0

Accept ==
    /\ Len(buffer) < Capacity
    /\ accepted' = accepted + 1
    /\ buffer' = Append(buffer, accepted')
    /\ UNCHANGED <<policy, delivered, evicted, rejected>>

AcceptEvicting ==
    /\ policy = "drop_oldest"
    /\ Len(buffer) = Capacity
    /\ accepted' = accepted + 1
    /\ buffer' = Append(Tail(buffer), accepted')
    /\ evicted' = evicted + 1
    /\ UNCHANGED <<policy, delivered, rejected>>

Reject ==
    /\ policy = "drop_newest"
    /\ Len(buffer) = Capacity
    /\ rejected' = rejected + 1
    /\ UNCHANGED <<policy, buffer, accepted, delivered, evicted>>

Deliver ==
    /\ buffer # <<>>
    /\ delivered' = Head(buffer)
    /\ buffer' = Tail(buffer)
    /\ UNCHANGED <<policy, accepted, evicted, rejected>>

Next == Accept \/ AcceptEvicting \/ Reject \/ Deliver

Spec == Init /\ [][Next]_vars
=============================================================================
