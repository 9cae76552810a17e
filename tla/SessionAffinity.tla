---------------------------- MODULE SessionAffinity ----------------------------
(***************************************************************************)
(* The session-affinity scorer: Score looks a request's session up in an   *)
(* LRU cache shared by all streams and prefers the model found there;      *)
(* ProcessResponse, on the same stream and much later, records the model   *)
(* that answered and echoes the session id, a new one if there was none.   *)
(*                                                                         *)
(* A client sends its turns one after the other and uses the id echoed to  *)
(* it, if the response reaches it; two clients may share a session.  The   *)
(* scorer is the only one of its pipeline, so a preferred candidate is     *)
(* selected.                                                               *)
(***************************************************************************)
EXTENDS Naturals, Sequences, FiniteSets, SequencesExt

CONSTANTS
    Clients,        \* clients, each with one stream at a time
    Models,         \* model names
    Ids,            \* session ids (bound: how many are generated)
    SharedId,       \* the id that clients may start with
    Nil,            \* no id, no model
    maxSessions     \* capacity of the cache

ASSUME AffinityAssumption ==
    /\ SharedId \in Ids /\ Nil \notin Ids \cup Models
    /\ maxSessions \in Nat \ {0}

VARIABLES
    candidates, \* models of the datastore
    cache,      \* Seq of [id, model], the most recently used first
    used,       \* ids handed out so far
    sessionId,  \* [Clients -> the id a client sends, or Nil]
    turn,       \* [Clients -> its current turn]
    lastModel,  \* [Clients -> the model named by its last response, or Nil]
    since,      \* [Ids -> the sessions used after the last use of this one]
    absent      \* ids not recorded yet, or whose time is over

avars == <<candidates, cache, used, sessionId, turn, lastModel, since, absent>>

(* cycle: the id in the turn's CycleState; routed: the selected model;     *)
(* echo: the id set on the response.                                       *)
NoTurn == [phase |-> "idle", cycle |-> Nil, routed |-> Nil, echo |-> Nil]

AInit ==
    /\ candidates = Models
    /\ cache = <<>> /\ used = {SharedId}
    /\ sessionId \in [Clients -> {Nil, SharedId}]
    /\ turn = [c \in Clients |-> NoTurn]
    /\ lastModel = [c \in Clients |-> Nil]
    /\ since = [i \in Ids |-> {}] /\ absent = Ids

-----------------------------------------------------------------------------
(* The library's LRU cache.                                                *)
Known(id) == \E i \in DOMAIN cache : cache[i].id = id
Place(id) == CHOOSE i \in DOMAIN cache : cache[i].id = id
Entry(id) == cache[Place(id)]
Others(id) == IF Known(id) THEN RemoveAt(cache, Place(id)) ELSE cache

(* A session is used: every other one has waited longer.                   *)
Use(id) == since' = [j \in Ids |-> IF j = id THEN {} ELSE since[j] \cup {id}]

(* Add: the entry becomes the most recent one, the oldest is evicted.      *)
CacheAdd(id, m) ==
    LET entries == <<[id |-> id, model |-> m]>> \o Others(id)
        kept == IF Len(entries) > maxSessions THEN maxSessions ELSE Len(entries)
    IN /\ cache' = SubSeq(entries, 1, kept)
       /\ Use(id) /\ absent' = absent \ {id}

(* The time to live of an entry is over.                                   *)
Expire(id) ==
    /\ Known(id)
    /\ cache' = Others(id)
    /\ absent' = absent \cup {id}
    /\ UNCHANGED <<candidates, used, sessionId, turn, lastModel, since>>

(* The registry adds or removes a model.                                   *)
ChangeCandidates(S) ==
    /\ S # candidates /\ S # {}
    /\ candidates' = S
    /\ UNCHANGED <<cache, used, sessionId, turn, lastModel, since, absent>>

-----------------------------------------------------------------------------
(* The turn of a request with this id goes to the model m.                 *)
Route(c, id, m) ==
    turn' = [turn EXCEPT ![c] = [phase |-> "routed", cycle |-> id, routed |-> m, echo |-> Nil]]

(* Faulty: the entry is looked up without becoming a recent one.           *)
ScorePeeks(c) ==
    /\ turn[c].phase = "idle"
    /\ LET id == sessionId[c]
           hit == id # Nil /\ Known(id)
           previous == IF hit THEN Entry(id).model ELSE Nil
       IN /\ IF hit THEN Use(id) ELSE UNCHANGED since
          /\ \E m \in IF previous \in candidates THEN {previous} ELSE candidates : Route(c, id, m)
    /\ UNCHANGED <<candidates, cache, used, sessionId, lastModel, absent>>

(* A request is scored: without an id, for an unknown session and when its *)
(* model is no candidate there is no opinion; Get makes the entry recent.  *)
Score(c) ==
    /\ turn[c].phase = "idle"
    /\ LET id == sessionId[c]
           hit == id # Nil /\ Known(id)
           previous == IF hit THEN Entry(id).model ELSE Nil
       IN /\ IF hit THEN cache' = <<Entry(id)>> \o Others(id) /\ Use(id)
                    ELSE UNCHANGED <<cache, since>>
          /\ \E m \in IF previous \in candidates THEN {previous} ELSE candidates : Route(c, id, m)
    /\ UNCHANGED <<candidates, used, sessionId, lastModel, absent>>

(* Faulty: the entry of a session is made once, not overwritten.           *)
ProcessResponseOnce(c) ==
    /\ turn[c].phase = "routed"
    /\ \E m \in Models, id \in IF turn[c].cycle # Nil THEN {turn[c].cycle} ELSE Ids \ used :
        /\ IF Known(id) THEN UNCHANGED <<cache, since, absent>> ELSE CacheAdd(id, m)
        /\ used' = used \cup {id}
        /\ lastModel' = [lastModel EXCEPT ![c] = m]
        /\ turn' = [turn EXCEPT ![c] = [@ EXCEPT !.phase = "answered", !.echo = id]]
    /\ UNCHANGED <<candidates, sessionId>>

(* ProcessResponse: the model is the one the response names, which need    *)
(* not be the one the request was sent to.                                 *)
ProcessResponse(c) ==
    /\ turn[c].phase = "routed"
    /\ \E m \in Models, id \in IF turn[c].cycle # Nil THEN {turn[c].cycle} ELSE Ids \ used :
        /\ CacheAdd(id, m)
        /\ used' = used \cup {id}
        /\ lastModel' = [lastModel EXCEPT ![c] = m]
        /\ turn' = [turn EXCEPT ![c] = [@ EXCEPT !.phase = "answered", !.echo = id]]
    /\ UNCHANGED <<candidates, sessionId>>

(* A response whose body names no model is skipped.                        *)
ProcessResponseNoModel(c) ==
    /\ turn[c].phase = "routed"
    /\ turn' = [turn EXCEPT ![c] = [@ EXCEPT !.phase = "answered"]]
    /\ UNCHANGED <<candidates, cache, used, sessionId, lastModel, since, absent>>

(* The response reaches the client, which sends the id echoed from now on. *)
Deliver(c) ==
    /\ turn[c].phase = "answered"
    /\ sessionId' = [sessionId EXCEPT ![c] = IF turn[c].echo # Nil THEN turn[c].echo ELSE @]
    /\ turn' = [turn EXCEPT ![c] = NoTurn]
    /\ UNCHANGED <<candidates, cache, used, lastModel, since, absent>>

(* The stream ends before its response was processed, or before it reached *)
(* the client.                                                             *)
Lose(c) ==
    /\ turn[c].phase # "idle"
    /\ turn' = [turn EXCEPT ![c] = NoTurn]
    /\ UNCHANGED <<candidates, cache, used, sessionId, lastModel, since, absent>>

-----------------------------------------------------------------------------
ANext ==
    \/ \E S \in SUBSET Models : ChangeCandidates(S)
    \/ \E id \in Ids : Expire(id)
    \/ \E c \in Clients : \/ Score(c) \/ ProcessResponse(c) \/ ProcessResponseNoModel(c)
                          \/ Deliver(c) \/ Lose(c)

ASpec == AInit /\ [][ANext]_avars

-----------------------------------------------------------------------------
(* The cache, which never exceeds its capacity nor has two entries for a   *)
(* session, and the turns keep their types.                                *)
ATypeOK ==
    /\ candidates \subseteq Models /\ used \subseteq Ids /\ absent \subseteq Ids
    /\ Len(cache) <= maxSessions
    /\ cache \in Seq([id : Ids, model : Models])
    /\ \A i, j \in DOMAIN cache : cache[i].id = cache[j].id => i = j
    /\ sessionId \in [Clients -> Ids \cup {Nil}] /\ lastModel \in [Clients -> Models \cup {Nil}]
    /\ since \in [Ids -> SUBSET Ids]
    /\ turn \in [Clients -> [phase : {"idle", "routed", "answered"}, cycle : Ids \cup {Nil},
                             routed : Models \cup {Nil}, echo : Ids \cup {Nil}]]

(* A session that was recorded keeps its entry until its time is over or   *)
(* maxSessions others were used after it: a lookup counts as a use, so a   *)
(* session in use is not evicted by ones that nobody comes back to (as the *)
(* ids of clients that never send them are).                               *)
Recent(id) == id \notin absent /\ Cardinality(since[id]) < maxSessions
RecentSessionsKept == \A id \in Ids : Recent(id) => Known(id)

(* A client that shares its session with nobody is sent back to the model  *)
(* that its last response named, whether or not that response reached it,  *)
(* if that model is a candidate and the session recent - also with an id   *)
(* that was made up for it, and whatever turns of others come in between.  *)
(* (The plugin's documentation says the model selected: RecordsSelected.)  *)
Alone(c) == \A d \in Clients \ {c} : sessionId[d] # sessionId[c] /\ turn[d].cycle # sessionId[c]
StickyTurns ==
    [][\A c \in Clients :
        turn[c].phase = "idle" /\ turn'[c].phase = "routed" /\ Alone(c)
        /\ sessionId[c] # Nil /\ Recent(sessionId[c]) /\ lastModel[c] \in candidates
            => turn'[c].routed = lastModel[c]]_avars

-----------------------------------------------------------------------------
(* Statements of the plugin's documentation that the code does not         *)
(* implement.  "The session ID is always echoed back as a response         *)
(* header": not when the response body names no model.                     *)
AlwaysEchoed == \A c \in Clients : turn[c].phase = "answered" => turn[c].echo # Nil

(* "After each request, it records which model was selected for which      *)
(* session ID": ProcessResponse records the model the response names.      *)
RecordsSelected ==
    [][\A c \in Clients :
        turn[c].phase = "routed" /\ turn'[c].phase = "answered" /\ turn'[c].echo # Nil
            => [id |-> turn'[c].echo, model |-> turn[c].routed] \in Range(cache')]_avars
=============================================================================
