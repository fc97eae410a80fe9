------------------------------ MODULE EyeService ------------------------------
(***************************************************************************)
(* eye/service.py: RealtimeEyeService, which keeps an adapter's latest     *)
(* status for the threads that ask for it, turns it into an observation    *)
(* with a scene, and can poll the adapter in a thread of its own.          *)
(*                                                                         *)
(* The lock covers the latest status and the cached scene, not the call of *)
(* the adapter: each step below is one stretch under the lock, one call of *)
(* the adapter, or one look at the events of the polling thread.           *)
(***************************************************************************)
EXTENDS Naturals, FiniteSets

CONSTANTS Callers,     \* the threads of requests
          Pollers,     \* the names of polling threads, free again once one has ended
          MaxFrames,   \* bound: frames of the adapter
          None

\* What is assumed of the constants.
ServiceAssumption == MaxFrames \in Nat /\ None \notin Callers \cup Pollers

VARIABLES frame, stale,  \* of the adapter: its newest frame, and whether that is old
          pc, held,      \* of each thread: its place, and the status it holds
          latest_status,
          scene_key,     \* _latest_scene_key: of which observation
          scene,         \* _latest_scene_result: the observation it was made of
          answer,        \* history: the last observation given out, with its scene
          thread,        \* _thread
          alive,         \* the polling threads that run
          stop_event

adapter == <<frame, stale>>
cache == <<scene_key, scene, answer>>
poller == <<thread, alive, stop_event>>
vars == <<adapter, pc, held, latest_status, cache, poller>>

Threads == Callers \cup Pollers
Status == [frame : 0 .. MaxFrames, stale : BOOLEAN]

TypeOK ==
    /\ frame \in 0 .. MaxFrames /\ stale \in BOOLEAN
    /\ pc \in [Threads -> {"idle", "read", "store", "attach", "join", "check"}]
    /\ held \in [Threads -> Status \cup Pollers \cup {None}]
    /\ latest_status \in Status
    /\ {scene_key, scene} \subseteq Status \cup {None}
    /\ answer \in [observation : Status, scene : Status] \cup {None}
    /\ thread \in Pollers \cup {None} /\ alive \subseteq Pollers /\ stop_event \in BOOLEAN

NoFrame == [frame |-> 0, stale |-> FALSE]

Init ==
    /\ frame = 0 /\ stale = FALSE
    /\ pc = [t \in Threads |-> "idle"] /\ held = [t \in Threads |-> None]
    /\ latest_status = NoFrame
    /\ scene_key = None /\ scene = None /\ answer = None
    /\ thread = None /\ alive = {} /\ stop_event = FALSE

Goto(t, place, status) ==
    pc' = [pc EXCEPT ![t] = place] /\ held' = [held EXCEPT ![t] = status]

-----------------------------------------------------------------------------

\* Time passes, and the adapter's frame gets old.
FrameAges ==
    /\ frame > 0 /\ stale' = TRUE
    /\ UNCHANGED <<frame, pc, held, latest_status, cache, poller>>

\* status, poll_once or poll is called; a poll repeats these steps.
Call(c) ==
    /\ pc[c] = "idle" /\ Goto(c, "read", None)
    /\ UNCHANGED <<adapter, latest_status, cache, poller>>

\* The adapter is asked, and may find a frame.
ReadAdapter(t) ==
    /\ pc[t] = "read"
    /\ \/ frame < MaxFrames /\ frame' = frame + 1 /\ stale' = FALSE
       \/ UNCHANGED adapter
    /\ Goto(t, "store", [frame |-> frame', stale |-> stale'])
    /\ UNCHANGED <<latest_status, cache, poller>>

\* The adapter raises: the caller gets the exception, nothing is stored.
Raises(c) ==
    /\ pc[c] = "read" /\ Goto(c, "idle", None)
    /\ UNCHANGED <<adapter, latest_status, cache, poller>>

\* The status is kept, also when a newer one has been kept meanwhile.
Store(t) ==
    /\ pc[t] = "store"
    /\ latest_status' = held[t]
    /\ Goto(t, IF t \in Callers THEN "idle" ELSE "check", None)
    /\ UNCHANGED <<adapter, cache, poller>>

\* latest_observation: of the latest status.
Observe(c) ==
    /\ pc[c] = "idle" /\ Goto(c, "attach", latest_status)
    /\ UNCHANGED <<adapter, latest_status, cache, poller>>

\* Slip: a scene is known by its frame alone.
FrameOf(observation) == [observation EXCEPT !.stale = FALSE]

\* _scene_cache_key: all of an observation that its scene is made of.
KeyOf(observation) == observation

\* _attach_scene_bridge: the bridge is asked unless the scene is at hand.
Attach(c) ==
    LET key == KeyOf(held[c]) IN
    /\ pc[c] = "attach"
    /\ scene' = IF key = scene_key /\ scene # None THEN scene ELSE held[c]
    /\ scene_key' = key
    /\ answer' = [observation |-> held[c], scene |-> scene']
    /\ Goto(c, "idle", None)
    /\ UNCHANGED <<adapter, latest_status, poller>>

-----------------------------------------------------------------------------

Polling == thread \in alive

\* start: while a thread polls, even one that was told to stop, nothing is done.
Start(c) ==
    /\ pc[c] = "idle" /\ ~Polling
    /\ \E p \in {q \in Pollers : pc[q] = "idle"} :
           /\ thread' = p /\ alive' = alive \cup {p}
           /\ Goto(p, "check", None)
    /\ stop_event' = FALSE
    /\ UNCHANGED <<adapter, latest_status, cache>>

\* stop: the thread is told, then joined for at most timeout_s.
Stop(c) ==
    /\ pc[c] = "idle"
    /\ stop_event' = TRUE
    /\ IF Polling THEN Goto(c, "join", thread) ELSE UNCHANGED <<pc, held>>
    /\ UNCHANGED <<adapter, latest_status, cache, thread, alive>>

Join(c) ==
    /\ pc[c] = "join" /\ Goto(c, "idle", None)
    /\ UNCHANGED <<adapter, latest_status, cache, poller>>

Poll(p) ==
    /\ pc[p] = "check" /\ ~stop_event
    /\ Goto(p, "read", None)
    /\ UNCHANGED <<adapter, latest_status, cache, poller>>

\* The thread ends when it was told, or when the adapter raises.
PollerEnds(p) ==
    /\ \/ pc[p] = "check" /\ stop_event
       \/ pc[p] = "read"
    /\ alive' = alive \ {p}
    /\ Goto(p, "idle", None)
    /\ UNCHANGED <<adapter, latest_status, cache, thread, stop_event>>

Next ==
    \/ FrameAges
    \/ \E c \in Callers : \/ Call(c) \/ Raises(c) \/ Observe(c) \/ Attach(c)
                          \/ Start(c) \/ Stop(c) \/ Join(c)
    \/ \E p \in Pollers : Poll(p) \/ PollerEnds(p)
    \/ \E t \in Threads : ReadAdapter(t) \/ Store(t)

Spec == Init /\ [][Next]_vars

-----------------------------------------------------------------------------

\* The scene of an observation is that of the very status it shows, whoever stores
\* newer or older ones and observes them meanwhile: no tracks beside a stale picture.
ObservationHasItsScene == answer # None => answer.scene = answer.observation

\* However starts, stops and joins that give up follow each other, and whenever the
\* adapter raises, there are never two threads that poll it.
OnePoller == Cardinality(alive) <= 1
=============================================================================
