---------------------------- MODULE IdentityMemory ----------------------------
(***************************************************************************)
(* Who is who: the registry of faces and its file                          *)
(* (eye/identity/registry.py), the matcher that names a face by it         *)
(* (eye/identity/matcher.py), and the adapter that tells the memory        *)
(* service about known people, each not too often (eye/identity_memory.py).*)
(* The vision process reads the file when it starts; processes that enrol  *)
(* people read it, and replace it in place.                                *)
(*                                                                         *)
(* Of a person's embeddings the registry keeps how many there are: they    *)
(* are only added, and numbered in turn.                                   *)
(***************************************************************************)
EXTENDS Naturals, FiniteSetsExt

CONSTANTS Enrollers,       \* processes that enrol
          People,
          MaxEmbeddings,   \* bound: embeddings of a person
          min_interval_s,
          None,
          Torn             \* half of a registry file

\* What is assumed of the constants.
IdentityAssumption ==
    /\ {MaxEmbeddings, min_interval_s} \subseteq Nat
    /\ None \notin People \cup [People -> 0 .. MaxEmbeddings] /\ None # Torn

VARIABLES file,        \* None, Torn, or the embeddings of each person
          registry,    \* _people of each enroller, None if it is not running
          saving,      \* enrollers that have emptied the file and not yet written it
          known,       \* _people of the vision process, None if it is not running
          sighting,    \* whom it is telling the memory about
          waiting,     \* seconds until _last_sent_by_person lets each person pass
          told_ago,    \* history: since the memory took in each person
          returned,    \* history: the embeddings whose enrolment has returned
          meddled,     \* history: two enrollers ran at once
          crashed,     \* history: an enroller ended in the middle of a save
          repeated,    \* history: the memory was told again too soon
          excused      \* history: people whose last sighting came in while its answer
                       \* was lost, or a process ended

registries == <<file, registry, saving, returned, meddled, crashed>>
memory == <<sighting, waiting, told_ago, repeated, excused>>
vars == <<registries, known, memory>>

Registry == [People -> 0 .. MaxEmbeddings]
Empty == [p \in People |-> 0]

TypeOK ==
    /\ file \in Registry \cup {None, Torn}
    /\ registry \in [Enrollers -> Registry \cup {None}] /\ known \in Registry \cup {None}
    /\ saving \subseteq {e \in Enrollers : registry[e] # None}
    /\ sighting \in People \cup {None} /\ (sighting # None => known # None)
    /\ {waiting, told_ago} \subseteq [People -> 0 .. min_interval_s]
    /\ returned \in Registry
    /\ {meddled, crashed, repeated} \subseteq BOOLEAN /\ excused \subseteq People

Init ==
    /\ file = None /\ registry = [e \in Enrollers |-> None] /\ saving = {}
    /\ known = None /\ sighting = None
    /\ waiting = [p \in People |-> 0] /\ told_ago = [p \in People |-> min_interval_s]
    /\ returned = Empty
    /\ meddled = FALSE /\ crashed = FALSE /\ repeated = FALSE /\ excused = {}

\* _load: a file that is not there is an empty registry; half a file raises.
Loaded == IF file = None THEN Empty ELSE file

-----------------------------------------------------------------------------
(* JsonIdentityRegistry, in the processes that enrol *)

Open(e) ==
    /\ registry[e] = None /\ file # Torn
    /\ registry' = [registry EXCEPT ![e] = Loaded]
    /\ meddled' = (meddled \/ \E d \in Enrollers : registry[d] # None)
    /\ UNCHANGED <<file, saving, returned, crashed, known, memory>>

Enrolled(people, person, n) == [people EXCEPT ![person] = @ + n]

\* enroll_or_update: a person with any number of embeddings, or none.  The file is emptied ...
Enroll(e) ==
    /\ registry[e] # None /\ e \notin saving
    /\ \E p \in People : \E n \in 0 .. MaxEmbeddings - registry[e][p] :
           registry' = [registry EXCEPT ![e] = Enrolled(registry[e], p, n)]
    /\ saving' = saving \cup {e} /\ file' = Torn
    /\ UNCHANGED <<returned, meddled, crashed, known, memory>>

\* ... and written.
Save(e) ==
    /\ e \in saving
    /\ saving' = saving \ {e} /\ file' = registry[e]
    /\ returned' = [p \in People |-> Max({returned[p], registry[e][p]})]
    /\ UNCHANGED <<registry, meddled, crashed, known, memory>>

\* An enroller is done, or crashes: between emptying and writing the file, half is left.
EndEnroller(e) ==
    /\ registry[e] # None
    /\ registry' = [registry EXCEPT ![e] = None] /\ saving' = saving \ {e}
    /\ crashed' = (crashed \/ e \in saving)
    /\ UNCHANGED <<file, returned, meddled, known, memory>>

-----------------------------------------------------------------------------
(* The vision process *)

Start ==
    /\ known = None /\ file # Torn
    /\ known' = Loaded
    /\ UNCHANGED <<registries, memory>>

\* It ends with all it remembered; a sighting may have come in or not.
End ==
    /\ known # None
    /\ known' = None /\ sighting' = None
    /\ waiting' = [p \in People |-> 0]
    /\ excused' = People
    /\ UNCHANGED <<registries, told_ago, repeated>>

\* match finds a known person, ingest_identity_observation lets him pass.  Of everybody else
\* nothing is told: unknown, without embeddings, or sent recently.
See(p) ==
    /\ known # None /\ sighting = None
    /\ known[p] > 0 /\ waiting[p] = 0
    /\ sighting' = p
    /\ UNCHANGED <<registries, known, waiting, told_ago, repeated, excused>>

\* The memory takes the sighting in.
Tell ==
    /\ sighting # None
    /\ told_ago' = [told_ago EXCEPT ![sighting] = 0]
    /\ repeated' = (repeated \/ (told_ago[sighting] < min_interval_s /\ sighting \notin excused))

\* Slip: a request that failed does not count, whatever came of it.
AnsweredUncounted == Tell /\ UNCHANGED waiting /\ excused' = excused \ {sighting}

\* The answer says so: the interval begins.
Answered ==
    /\ Tell
    /\ waiting' = [waiting EXCEPT ![sighting] = min_interval_s]
    /\ excused' = excused \ {sighting}

\* It takes the sighting in and the answer is lost, late or not understood.
AnswerLost == Tell /\ UNCHANGED waiting /\ excused' = excused \cup {sighting}

\* It is not reached, or refuses.
Refused == sighting # None /\ UNCHANGED <<waiting, told_ago, repeated, excused>>

Post ==
    /\ Answered \/ AnswerLost \/ Refused
    /\ sighting' = None
    /\ UNCHANGED <<registries, known>>

Tick ==
    /\ waiting' = [p \in People |-> Max({waiting[p], 1}) - 1]
    /\ told_ago' = [p \in People |-> Min({told_ago[p] + 1, min_interval_s})]
    /\ UNCHANGED <<registries, known, sighting, repeated, excused>>

Next ==
    \/ \E e \in Enrollers : Open(e) \/ Enroll(e) \/ Save(e) \/ EndEnroller(e)
    \/ Start \/ End \/ (\E p \in People : See(p)) \/ Post \/ Tick

Spec == Init /\ [][Next]_vars

-----------------------------------------------------------------------------

\* Whatever was enrolled is in the file from then on, except while it is replaced, as long as
\* nobody crashes in the middle of that and one process enrols at a time.
EnrolledSurvives ==
    ~crashed /\ ~meddled /\ saving = {} =>
        \A p \in People : returned[p] <= Loaded[p]

\* The memory hears of a person at most once in min_interval_s, unless an answer was lost or
\* the process restarted.
ToldOnce == ~repeated
=============================================================================
