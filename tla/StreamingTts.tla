---------------------------- MODULE StreamingTts ----------------------------
(***************************************************************************)
(* eivoice_runtime/tts.py: StreamingTtsSession, with the provider and the  *)
(* websocket of eivoice_runtime/cloud_providers.py that it streams from    *)
(* (MiniMaxStreamingTtsProvider, MiniMaxWebSocketTtsTransport).            *)
(*                                                                         *)
(* A call of synthesize returns a lazy stream of events: its consumer      *)
(* pulls one at a time, while cancel comes from anywhere, also while a     *)
(* pull is blocked in a receive.  A connection is named by the stream that *)
(* opened it; the transport remembers one, whoever is receiving.           *)
(***************************************************************************)
EXTENDS Naturals

CONSTANTS MaxCalls,   \* bound: the calls of synthesize in a behaviour
          Rounds,     \* the round ids they are made for
          MaxChunks,  \* bound: audio chunks of one answer
          None        \* no round, no stream

Streams == 1 .. MaxCalls

\* What is assumed of the constants.
TtsAssumption == {MaxCalls, MaxChunks} \subseteq Nat /\ None \notin Streams \cup Rounds

VARIABLES pc,         \* where the stream of each call is
          round,      \* request.round_id of each call
          cancelled,  \* state.cancelled of each call
          rounds,     \* _rounds: the last call for each round id
          active,     \* _active_round_id
          cancelled_round_count,
          ws,         \* transport._ws: the stream that opened it
          closed,     \* transport._closed: set for good by the first close
          shut,       \* connections closed by the transport
          source,     \* the connection each stream is receiving from
          left,       \* chunks the provider still has to send on each
          served,     \* history: streams that received their whole answer, or whose
                      \* connection failed
          late,       \* history: chunks a stream gave out after its cancellation
          meddled     \* history: a finished round was cancelled, a call was made
                      \* for a round that was still streaming, or a round was
                      \* given up while it was connecting

vars == <<pc, round, cancelled, rounds, active, cancelled_round_count, ws, closed,
          shut, source, left, served, late, meddled>>

Stages == {"uncalled", "called", "started", "opening", "open", "receiving", "ending", "done"}

TypeOK ==
    /\ pc \in [Streams -> Stages]
    /\ round \in [Streams -> Rounds \cup {None}]
    /\ cancelled \in [Streams -> BOOLEAN]
    /\ rounds \in [Rounds -> Streams \cup {None}]
    /\ active \in Rounds \cup {None}
    /\ cancelled_round_count \in 0 .. MaxCalls
    /\ ws \in Streams \cup {None} /\ closed \in BOOLEAN
    /\ {shut, served} \subseteq SUBSET Streams
    /\ source \in [Streams -> Streams \cup {None}]
    /\ left \in [Streams -> 0 .. MaxChunks]
    /\ late \in [Streams -> 0 .. MaxChunks]
    /\ meddled \in BOOLEAN

Init ==
    /\ pc = [s \in Streams |-> "uncalled"]
    /\ round = [s \in Streams |-> None]
    /\ cancelled = [s \in Streams |-> FALSE]
    /\ rounds = [r \in Rounds |-> None]
    /\ active = None /\ cancelled_round_count = 0
    /\ ws = None /\ closed = FALSE /\ shut = {}
    /\ source = [s \in Streams |-> None]
    /\ left = [s \in Streams |-> 0]
    /\ served = {}
    /\ late = [s \in Streams |-> 0]
    /\ meddled = FALSE

Goto(s, stage) == pc' = [pc EXCEPT ![s] = stage]
transport == <<ws, closed, shut>>
network == <<source, left, served, late>>
book == <<round, rounds, active>>

\* close() of the transport: only the first one reaches a connection.
Close ==
    /\ closed' = TRUE
    /\ shut' = IF closed THEN shut ELSE shut \cup ({ws} \ {None})
    /\ UNCHANGED ws

\* Slip: the provider is stopped, the round is not marked.
StopProvider(s) ==
    IF cancelled[s] THEN UNCHANGED <<cancelled, cancelled_round_count, transport>>
    ELSE /\ cancelled_round_count' = cancelled_round_count + 1
         /\ Close /\ UNCHANGED cancelled

\* Once per call; provider.cancel whatever the call it is for has come to.
MarkCancelled(s) ==
    IF cancelled[s] THEN UNCHANGED <<cancelled, cancelled_round_count, transport>>
    ELSE /\ cancelled' = [cancelled EXCEPT ![s] = TRUE]
         /\ cancelled_round_count' = cancelled_round_count + 1
         /\ Close

-----------------------------------------------------------------------------

\* The unfinished call of another round that a new one supersedes.
Superseded(r) ==
    IF active \in {None, r} THEN {} ELSE {t \in {rounds[active]} : pc[t] # "done"}

\* synthesize: _begin_round.  Nothing is sent before the stream is pulled twice.
Synthesize(s, r) ==
    /\ \A t \in 1 .. s : pc[t] = "uncalled" <=> t = s
    /\ IF Superseded(r) = {} THEN UNCHANGED <<cancelled, cancelled_round_count, transport>>
       ELSE \E t \in Superseded(r) : MarkCancelled(t)
    /\ round' = [round EXCEPT ![s] = r]
    /\ rounds' = [rounds EXCEPT ![r] = s]
    /\ active' = r
    /\ Goto(s, "called")
    /\ meddled' = \/ meddled
                  \/ \E t \in Streams : round[t] = r /\ pc[t] # "done"
                  \/ \E t \in Superseded(r) : pc[t] = "opening"
    /\ UNCHANGED network

\* cancel or interrupt, for one round or for the active one.
Cancel(r) ==
    /\ r # None /\ rounds[r] # None
    /\ MarkCancelled(rounds[r])
    /\ meddled' = (meddled \/ pc[rounds[r]] \in {"done", "opening"})
    /\ UNCHANGED <<pc, book, network>>

\* The first event, whether or not the round was cancelled meanwhile.
SentenceStart(s) ==
    /\ pc[s] = "called"
    /\ Goto(s, "started")
    /\ UNCHANGED <<book, cancelled, cancelled_round_count, transport, network, meddled>>

\* _is_cancelled_or_stale.
Stale(s) == cancelled[s] \/ active # round[s]

PullStale(s) ==
    /\ pc[s] \in {"started", "open"} /\ Stale(s)
    /\ MarkCancelled(s)
    /\ Goto(s, "done")
    /\ UNCHANGED <<book, network, meddled>>

\* The next chunk is asked for: the first time that opens the connection, after
\* that it receives from whichever connection the transport has now.
PullChunk(s) ==
    /\ pc[s] \in {"started", "open"} /\ ~Stale(s)
    /\ Goto(s, IF pc[s] = "started" THEN "opening" ELSE "receiving")
    /\ source' = [source EXCEPT ![s] = IF pc[s] = "started" THEN None ELSE ws]
    /\ UNCHANGED <<book, cancelled, cancelled_round_count, transport, left, served, late,
                   meddled>>

\* stream_json: connect and start the task; a failure ends the stream.
Connect(s) ==
    /\ pc[s] = "opening"
    /\ \/ /\ ws' = s
          /\ source' = [source EXCEPT ![s] = s]
          /\ \E n \in 0 .. MaxChunks : left' = [left EXCEPT ![s] = n]
          /\ Goto(s, "receiving")
          /\ UNCHANGED served
       \/ /\ served' = served \cup {s}
          /\ ws' \in {ws, s}
          /\ Goto(s, "ending")
          /\ UNCHANGED <<source, left>>
    /\ UNCHANGED <<book, cancelled, cancelled_round_count, closed, shut, late, meddled>>

\* A chunk arrives and is given out.
ReceiveChunk(s) ==
    LET c == source[s] IN
    /\ pc[s] = "receiving" /\ c \notin shut /\ left[c] > 0
    /\ left' = [left EXCEPT ![c] = @ - 1]
    /\ late' = [late EXCEPT ![s] = IF cancelled[s] THEN @ + 1 ELSE @]
    /\ source' = [source EXCEPT ![s] = None]
    /\ Goto(s, "open")
    /\ UNCHANGED <<book, cancelled, cancelled_round_count, transport, served,
                   meddled>>

\* The last message arrives, or the receive raises: closed, broken or timed out.
ReceiveLast(s) ==
    LET c == source[s] IN
    /\ pc[s] = "receiving"
    /\ \/ /\ c \notin shut /\ left[c] = 0
          /\ served' = IF c = s THEN served \cup {s} ELSE served
       \/ c \in shut /\ UNCHANGED served
       \/ c \notin shut /\ served' = served \cup {s}
    /\ source' = [source EXCEPT ![s] = None]
    /\ Goto(s, "ending")
    /\ UNCHANGED <<book, cancelled, cancelled_round_count, transport, left, late, meddled>>

\* The complete event of a stream that ran out says whether it was cancelled.
Complete(s) ==
    /\ pc[s] = "ending"
    /\ Goto(s, "done")
    /\ UNCHANGED <<book, cancelled, cancelled_round_count, transport, network, meddled>>

Next ==
    \/ \E s \in Streams : \/ \E r \in Rounds : Synthesize(s, r)
                          \/ SentenceStart(s) \/ PullStale(s) \/ PullChunk(s)
                          \/ Connect(s) \/ ReceiveChunk(s) \/ ReceiveLast(s) \/ Complete(s)
    \/ \E r \in Rounds : Cancel(r)

Spec == Init /\ [][Next]_vars

-----------------------------------------------------------------------------

\* A cancelled or superseded round gives out at most the one chunk its consumer was
\* already waiting for, however often rounds are cancelled, although only the first
\* cancel closes a connection and the provider goes on sending.
AtMostOneChunkLate == \A s \in Streams : late[s] <= 1

\* A stream that completes without saying so was neither cancelled nor cut short: it
\* had its provider's whole answer, or its own connection failed.  For rounds used
\* one at a time, cancelled only while they last and not while they connect: a cancel
\* that names a finished round closes the connection of the active one, and a round
\* that connects after it was superseded takes the transport with it.
CancelledOrWhole ==
    \A s \in Streams :
        pc[s] = "done" /\ ~cancelled[s] /\ ~meddled => s \in served
=============================================================================
