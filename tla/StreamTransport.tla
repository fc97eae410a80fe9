--------------------------- MODULE StreamTransport ---------------------------
(***************************************************************************)
(* eivoice_runtime/transport.py: InMemoryVoiceStreamTransport with its     *)
(* queues, its heartbeat and its backoff, and FakeWebSocketTransport, used *)
(* by a thread that keeps the heartbeat, by one that connects and gives    *)
(* up, and by those that send and receive.  The lock is held for a method, *)
(* except in send_ping and in check_heartbeat: these let it go in the      *)
(* middle.                                                                 *)
(*                                                                         *)
(* Times are kept as ages: how long since, or how long until, as far as    *)
(* the code tells them apart.                                              *)
(***************************************************************************)
EXTENDS Naturals, SequencesExt

CONSTANTS outbound_capacity, inbound_capacity,
          heartbeat_interval_s, pong_timeout_s,
          reconnect_base_delay_s, reconnect_max_delay_s,
          None

\* What is assumed of the constants.
TransportAssumption ==
    /\ {outbound_capacity, inbound_capacity, reconnect_base_delay_s} \subseteq Nat \ {0}
    /\ {heartbeat_interval_s, pong_timeout_s} \subseteq Nat
    /\ reconnect_max_delay_s \in Nat /\ reconnect_max_delay_s >= reconnect_base_delay_s
    /\ None \notin Nat

VARIABLES connection_state,
          idle_for,        \* since last_activity_at
          pinged_ago,      \* since last_ping_at
          awaiting_pong,
          backoff,         \* reconnect_backoff_s, which stands for the attempt too
          retry_in,        \* until next_retry_at
          outbound, inbound,
          keeper,          \* where the thread of the heartbeat is
          line,            \* pings the server has and has not answered
          answered,        \* history: nothing this connection was asked is unanswered
          wronged,         \* history: an answered connection was given up as silent
          meddled          \* history: a pong came, or the connection changed, in the middle
                           \* of send_ping or check_heartbeat

clock == <<idle_for, pinged_ago>>
reconnect == <<backoff, retry_in>>
queues == <<outbound, inbound>>
history == <<answered, wronged, meddled>>
vars == <<connection_state, clock, awaiting_pong, reconnect, queues, keeper, line, history>>

States == {"idle", "connecting", "connected", "reconnect_wait", "closed"}
Events == {"ping", "other"}
LongestAgo == Max({heartbeat_interval_s, pong_timeout_s + 1})

TypeOK ==
    /\ connection_state \in States
    /\ idle_for \in 0 .. heartbeat_interval_s
    /\ pinged_ago \in 0 .. LongestAgo \cup {None}
    /\ awaiting_pong \in BOOLEAN /\ (awaiting_pong => pinged_ago # None)
    /\ backoff \in 0 .. reconnect_max_delay_s \cup {None}
    /\ retry_in \in 0 .. reconnect_max_delay_s \cup {None}
    /\ (backoff = None <=> retry_in = None)
    /\ Len(outbound) <= outbound_capacity /\ Range(outbound) \subseteq Events
    /\ inbound \in 0 .. inbound_capacity
    /\ keeper \in {"idle", "pinged", "failing"}
    /\ line \in 0 .. 1
    /\ {answered, wronged, meddled} \subseteq BOOLEAN

Init ==
    /\ connection_state = "idle" /\ idle_for = 0 /\ pinged_ago = None
    /\ awaiting_pong = FALSE /\ backoff = None /\ retry_in = None
    /\ outbound = <<>> /\ inbound = 0 /\ keeper = "idle" /\ line = 0
    /\ answered = TRUE /\ wronged = FALSE /\ meddled = FALSE

\* Another thread comes between the two halves of send_ping or check_heartbeat.
Meddling == meddled' = (meddled \/ keeper # "idle")
Active == idle_for' = 0 /\ UNCHANGED pinged_ago

-----------------------------------------------------------------------------
(* The owner of the connection *)

\* mark_connected, or open
MarkConnected ==
    /\ connection_state' = "connected" /\ Active
    /\ awaiting_pong' = FALSE
    /\ backoff' = None /\ retry_in' = None
    /\ Meddling /\ answered' = TRUE
    /\ UNCHANGED <<queues, keeper, line, wronged>>

Ready == retry_in # None /\ retry_in = 0

BeginReconnect ==
    /\ Ready
    /\ connection_state' = "connecting" /\ Active
    /\ Meddling
    /\ UNCHANGED <<awaiting_pong, reconnect, queues, keeper, line, answered, wronged>>

\* From one attempt to the next the delay doubles, up to its limit.
NextBackoff ==
    IF backoff = None THEN reconnect_base_delay_s ELSE Min({2 * backoff, reconnect_max_delay_s})

Reschedule ==
    /\ backoff' = NextBackoff /\ retry_in' = NextBackoff
    /\ connection_state' = "reconnect_wait" /\ Active
    /\ awaiting_pong' = FALSE

\* schedule_reconnect
ScheduleReconnect ==
    /\ Reschedule
    /\ Meddling
    /\ UNCHANGED <<queues, keeper, line, answered, wronged>>

\* FakeWebSocketTransport.close: a retry that was scheduled stays so.
Close ==
    /\ connection_state' = "closed" /\ Active
    /\ awaiting_pong' = FALSE
    /\ Meddling
    /\ UNCHANGED <<reconnect, queues, keeper, line, answered, wronged>>

-----------------------------------------------------------------------------
(* Those who send and receive *)

\* The outbound queue drops its oldest, be it a ping.
Sent(event) ==
    outbound' = Append(IF Len(outbound) = outbound_capacity THEN Tail(outbound) ELSE outbound,
                       event)

SendEvent ==
    /\ Sent("other") /\ Active
    /\ UNCHANGED <<connection_state, awaiting_pong, reconnect, inbound, keeper, line, history>>

\* pop_outbound_event, by whoever carries it to the server.
PopOutbound ==
    /\ outbound # <<>>
    /\ outbound' = Tail(outbound) /\ Active
    /\ line' = (IF Head(outbound) = "ping" THEN 1 ELSE line)
    /\ UNCHANGED <<connection_state, awaiting_pong, reconnect, inbound, keeper, history>>

\* push_inbound_event: a full queue refuses.
PushInbound ==
    /\ IF inbound < inbound_capacity THEN inbound' = inbound + 1 /\ Active
       ELSE UNCHANGED <<inbound, clock>>
    /\ UNCHANGED <<connection_state, awaiting_pong, reconnect, outbound, keeper, line, history>>

\* receive_event, and drain_inbound_events, which repeats it.
Receive ==
    /\ inbound > 0
    /\ \E n \in {1, inbound} : inbound' = inbound - n
    /\ Active
    /\ UNCHANGED <<connection_state, awaiting_pong, reconnect, outbound, keeper, line, history>>

\* record_pong, when the server answers the last ping it has.
RecordPong ==
    /\ line = 1 /\ line' = 0
    /\ awaiting_pong' = FALSE /\ Active
    /\ answered' = ("ping" \notin Range(outbound))
    /\ Meddling
    /\ UNCHANGED <<connection_state, reconnect, queues, keeper, wronged>>

-----------------------------------------------------------------------------
(* The heartbeat *)

\* heartbeat_due
Due ==
    /\ connection_state = "connected" /\ ~awaiting_pong
    /\ IF pinged_ago = None THEN idle_for >= heartbeat_interval_s
       ELSE pinged_ago >= heartbeat_interval_s

\* send_ping: the ping is on its way ...
SendPing ==
    /\ keeper = "idle" /\ Due
    /\ Sent("ping") /\ Active /\ answered' = FALSE
    /\ keeper' = "pinged"
    /\ UNCHANGED <<connection_state, awaiting_pong, reconnect, inbound, line, wronged, meddled>>

\* ... before it is noted.
NotePing ==
    /\ keeper = "pinged"
    /\ pinged_ago' = 0 /\ idle_for' = 0 /\ awaiting_pong' = TRUE
    /\ keeper' = "idle"
    /\ UNCHANGED <<connection_state, reconnect, queues, line, history>>

\* Slip: how long ago the ping was decides alone.
TimedOutAnyway == pinged_ago # None /\ pinged_ago > pong_timeout_s

TimedOut == awaiting_pong /\ pinged_ago > pong_timeout_s

\* check_heartbeat: the connection is found silent ...
CheckHeartbeat ==
    /\ keeper = "idle" /\ connection_state = "connected" /\ TimedOut
    /\ keeper' = "failing"
    /\ wronged' = (wronged \/ answered)
    /\ UNCHANGED <<connection_state, clock, awaiting_pong, reconnect, queues, line, answered, meddled>>

\* ... and whichever there is now is given up.
GiveUp ==
    /\ keeper = "failing"
    /\ Reschedule
    /\ keeper' = "idle"
    /\ wronged' = (wronged \/ answered)
    /\ UNCHANGED <<queues, line, answered, meddled>>

\* A second passes.
Tick ==
    /\ idle_for' = Min({idle_for + 1, heartbeat_interval_s})
    /\ pinged_ago' = (IF pinged_ago = None THEN None ELSE Min({pinged_ago + 1, LongestAgo}))
    /\ retry_in' = (IF retry_in \in {None, 0} THEN retry_in ELSE retry_in - 1)
    /\ UNCHANGED <<connection_state, awaiting_pong, backoff, queues, keeper, line, history>>

Next ==
    \/ MarkConnected \/ BeginReconnect \/ ScheduleReconnect \/ Close
    \/ SendEvent \/ PopOutbound \/ PushInbound \/ Receive \/ RecordPong
    \/ SendPing \/ NotePing \/ CheckHeartbeat \/ GiveUp \/ Tick

Spec == Init /\ [][Next]_vars

-----------------------------------------------------------------------------

\* A connection is only given up as silent if its last ping went unanswered, as long as no
\* pong comes and no connection changes in the middle of send_ping or check_heartbeat.
OnlySilenceTimesOut == wronged => meddled
=============================================================================
