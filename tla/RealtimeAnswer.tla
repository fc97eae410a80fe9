--------------------------- MODULE RealtimeAnswer ---------------------------
(***************************************************************************)
(* What the head answers when it is asked what it sees: vision_realtime of *)
(* runtime/app.py goes through the sources of a picture in their order and *)
(* gives the first that is realtime and fresh, and                         *)
(* monitoring/realtime_vision.py turns it into a state of health.  The     *)
(* sources are looked at one after the other, and all but the native       *)
(* service before any is judged: the service is polled only when its turn  *)
(* comes, in a subprocess that may take until its timeout.                 *)
(***************************************************************************)
EXTENDS Integers, Sequences, FiniteSetsExt

CONSTANTS realtime_vision_max_age_seconds, MaxClock, None

\* The app's own hooks, the native eye service, and the body: a hook of its own, or a
\* snapshot with the state of the vision loop or of a replay.
Order == <<"app", "service", "body">>

VARIABLES stage,        \* of the request
          clock,
          asked_at,     \* now_ts
          candidates,   \* what was collected so far, None for nothing
          judged,       \* how many candidates were turned down
          given,        \* the position of the candidate given as the answer, None without
          shown,        \* health_state of the monitor's payload
          had           \* history: the sources that had a live, fresh picture

vars == <<stage, clock, asked_at, candidates, judged, given, shown, had>>

Forms == {"realtime", "static", "vision_state", "replay"}
Statuses == {"live", "waiting", "degraded", "stale", "not_wired"}
Healths == {"healthy", "degraded", "stale", "offline", "failed"}
Times == 0..MaxClock

\* The place of the native service among the candidates, until it is polled.
Unpolled == [form |-> "realtime", status |-> "unpolled", captured |-> None]

Candidate == [form : Forms, status : Statuses \cup {"unpolled"}, captured : Nat \cup {None}]

\* What is assumed of the constants.
AnswerAssumption ==
    /\ realtime_vision_max_age_seconds \in Nat \ {0} /\ MaxClock \in Nat
    /\ None \notin Nat \cup Candidate \cup Healths

TypeOK ==
    /\ stage \in {"away", "collect", "judge", "show"} /\ clock \in Times /\ asked_at \in Times
    /\ Len(candidates) <= Len(Order)
    /\ \A i \in DOMAIN candidates :
           \/ candidates[i] \in {None, Unpolled}
           \/ candidates[i].form \in Forms /\ candidates[i].status \in Statuses
    /\ judged \in 0..Len(Order) /\ given \in DOMAIN Order \cup {None}
    /\ shown \in Healths \cup {None} /\ had \subseteq DOMAIN Order

Init ==
    /\ stage = "away" /\ clock = 0 /\ asked_at = 0 /\ candidates = <<>> /\ judged = 0
    /\ given = None /\ shown = None /\ had = {}

\* A source dates its picture by the frame, when it has one; a source in trouble gives
\* none, or the last one.
Pictures(forms) ==
    [form : forms, status : {"live"}, captured : {None} \cup ((clock - 2..clock) \cap Nat)]
        \cup [form : forms, status : Statuses \ {"live"}, captured : {None}]
        \cup [form : forms, status : {"stale"}, captured : {0}]

-----------------------------------------------------------------------------
(* runtime/app.py *)

\* _coerce_realtime_timestamp gives no time for a date it cannot read; no date, and a
\* date to come, are fresh.
Age(p) == IF p.captured = None THEN 0 ELSE Max({asked_at - p.captured, 0})

\* Slip: the age is taken when the candidate's turn comes.
FreshByNow(p) ==
    IF p.captured = None THEN TRUE ELSE clock - p.captured <= realtime_vision_max_age_seconds

\* _is_realtime_payload_fresh
Fresh(p) == Age(p) <= realtime_vision_max_age_seconds

\* _is_realtime_vision_payload
Accepted(p) == p.form # "static" /\ p.status # "not_wired" /\ Fresh(p)

\* A mapping of the body: the state of the vision loop is taken for realtime unless it
\* is off, a replay unless it is off.
Promoted(p) == IF p.form # "static" /\ p.status = "not_wired" THEN None ELSE p

Ask ==
    /\ stage \in {"away", "show"} /\ stage' = "collect"
    /\ asked_at' = clock
    /\ candidates' = <<>> /\ judged' = 0 /\ given' = None /\ shown' = None /\ had' = {}
    /\ UNCHANGED clock

Collected(candidate) ==
    /\ stage = "collect"
    /\ candidates' = Append(candidates, candidate)
    /\ stage' = IF Len(candidates') = Len(Order) THEN "judge" ELSE "collect"
    /\ UNCHANGED <<clock, asked_at, judged, given, shown>>

Turn == Order[Len(candidates) + 1]

\* A picture in time for this request, from a source that works.
InTime(p) ==
    /\ p.status = "live" /\ p.form # "static"
    /\ p.captured = None \/ asked_at - p.captured <= realtime_vision_max_age_seconds

Noted(position, p) == had' = IF InTime(p) THEN had \cup {position} ELSE had

CollectHook ==
    /\ stage = "collect" /\ Turn \in {"app", "body"}
    /\ \E p \in Pictures({"realtime", "static"}) :
           Collected(p) /\ Noted(Len(candidates) + 1, p)

CollectSnapshot ==
    /\ stage = "collect" /\ Turn = "body"
    /\ \E p \in Pictures({"vision_state", "replay"}) :
           Collected(Promoted(p)) /\ Noted(Len(candidates) + 1, p)

\* No hook, or a snapshot that raises.
CollectNothing ==
    /\ stage = "collect" /\ Turn \in {"app", "body"}
    /\ Collected(None) /\ UNCHANGED had

\* The service is not looked at yet.
CollectService ==
    /\ stage = "collect" /\ Turn = "service"
    /\ \E candidate \in {None, Unpolled} : Collected(candidate)
    /\ UNCHANGED had

\* A hook of the app or of the body raises, and the request with it.
HookFails ==
    /\ stage = "collect" /\ Turn \in {"app", "body"}
    /\ stage' = "show" /\ shown' = "failed"
    /\ UNCHANGED <<clock, asked_at, candidates, judged, given, had>>

\* The poll of SafeSubprocessEyeAdapter ends in time, or in a degraded payload.
Polled ==
    /\ stage = "judge" /\ candidates[judged + 1] = Unpolled
    /\ \E p \in Pictures({"realtime"}) :
           candidates' = [candidates EXCEPT ![judged + 1] = p] /\ Noted(judged + 1, p)
    /\ UNCHANGED <<stage, clock, asked_at, judged, given, shown>>

Judge ==
    /\ stage = "judge"
    /\ LET p == candidates[judged + 1] IN
       /\ p # Unpolled
       /\ IF p # None /\ Accepted(p)
          THEN given' = judged + 1 /\ stage' = "show" /\ UNCHANGED judged
          ELSE /\ judged' = judged + 1
               /\ stage' = IF judged' = Len(Order) THEN "show" ELSE "judge"
               /\ UNCHANGED given
    /\ UNCHANGED <<clock, asked_at, candidates, shown, had>>

-----------------------------------------------------------------------------
(* monitoring/realtime_vision.py *)

\* stream_ready: a stream that waits says it is not ready, the promoted state of the
\* vision loop and a replay count as ready.
StreamReady(p) == p.status = "live" \/ p.form \in {"vision_state", "replay"}

\* _derive_realtime_status, _source_freshness and _health_state
HealthState(p) ==
    IF p.status \in {"stale", "degraded"} THEN p.status
    ELSE IF StreamReady(p) THEN "healthy" ELSE "degraded"

Show ==
    /\ stage = "show" /\ shown = None
    /\ shown' = IF given = None THEN "offline" ELSE HealthState(candidates[given])
    /\ UNCHANGED <<stage, clock, asked_at, candidates, judged, given, had>>

Tick ==
    /\ clock < MaxClock /\ clock' = clock + 1
    /\ UNCHANGED <<stage, asked_at, candidates, judged, given, shown, had>>

Next ==
    \/ Ask \/ CollectHook \/ CollectSnapshot \/ CollectNothing \/ CollectService \/ HookFails
    \/ Polled \/ Judge \/ Show \/ Tick

Spec == Init /\ [][Next]_vars

-----------------------------------------------------------------------------

\* However long the native service takes to be polled, the head answers with the first
\* source that had a live picture in time for the request, and is offline only if none
\* had; a picture shown as healthy is as recent as the request asked for, if it has a
\* date.
AnswerIsHonest ==
    shown \notin {None, "failed"} =>
        /\ had # {} => given # None /\ given <= Min(had)
        /\ shown = "healthy" /\ candidates[given].captured # None =>
               asked_at - candidates[given].captured <= realtime_vision_max_age_seconds
=============================================================================
