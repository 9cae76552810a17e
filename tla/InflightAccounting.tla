-------------------------- MODULE InflightAccounting --------------------------
(***************************************************************************)
(* How many requests the system believes to be in flight: many ext_proc    *)
(* streams notify request and response events, the event bus delivers them *)
(* to the RequestMetadataExtractor, and the extractor keeps the counts that*)
(* the in-flight scorer reads.                                             *)
(*                                                                         *)
(* A stream is reduced to the events it notifies (ExtProcStream shows that *)
(* it notifies each at most once, the request first), the data layer to    *)
(* the bus it implements (DatalayerProcessor!ImplementsBus).               *)
(***************************************************************************)
EXTENDS Integers, Sequences, FiniteSets, EventBus

CONSTANTS
    Streams,    \* ext_proc streams, each for one HTTP request
    Models,     \* model names
    NoModel,    \* a request without a "model" in its body
    MaxTokens   \* [Streams -> Int]: the "max_tokens" of each request, unchecked

ASSUME AccountingAssumption ==
    /\ IsFiniteSet(Streams) /\ IsFiniteSet(Models)
    /\ NoModel \notin Models
    /\ MaxTokens \in [Streams -> Int]
    /\ Room \in Nat \ {0, 1}
    /\ Events = Streams \X {"request", "response"}

VARIABLES
    phase,      \* [Streams -> "idle", "forwarded", "answered" or "aborted"]
    model,      \* [Streams -> Models \cup {NoModel}]: Request.Body["model"]
    lost,       \* events that Notify dropped
    counters    \* [Models -> counts]: e.counters, as published in the datastore

vars == <<phase, model, lost, counters, busVars>>

Req(s) == <<s, "request">>
Resp(s) == <<s, "response">>

Init ==
    /\ BusInit
    /\ phase = [s \in Streams |-> "idle"]
    /\ model = [s \in Streams |-> NoModel]
    /\ lost = {}
    /\ counters = [m \in Models |-> [requests |-> 0, tokens |-> 0]]

(* Notify: the channel takes the event, or drops it when it is full; one   *)
(* more event than the channel holds may be on its way to the extractors.  *)
Notify(e) ==
    \/ Post(e) /\ UNCHANGED lost
    \/ /\ Len(waiting) >= Room - 1
       /\ lost' = lost \cup {e}
       /\ UNCHANGED busVars

(* HandleRequestBody succeeds.                                             *)
Forward(s, m) ==
    /\ phase[s] = "idle"
    /\ phase' = [phase EXCEPT ![s] = "forwarded"]
    /\ model' = [model EXCEPT ![s] = m]
    /\ Notify(Req(s))
    /\ UNCHANGED counters

(* The last chunk of the response body has been handled.                   *)
Answer(s) ==
    /\ phase[s] = "forwarded"
    /\ phase' = [phase EXCEPT ![s] = "answered"]
    /\ Notify(Resp(s))
    /\ UNCHANGED <<model, counters>>

(* A response to a request that had no body: no model, no request event.   *)
AnswerBodyless(s) ==
    /\ phase[s] = "idle"
    /\ phase' = [phase EXCEPT ![s] = "answered"]
    /\ Notify(Resp(s))
    /\ UNCHANGED <<model, counters>>

(* The stream ends without a ResponseEvent: cancelled, a Send or a chunk   *)
(* processor failed, the response had no body or ended with trailers.      *)
Abort(s) ==
    /\ phase[s] = "forwarded"
    /\ phase' = [phase EXCEPT ![s] = "aborted"]
    /\ UNCHANGED <<model, lost, counters, busVars>>

(* Faulty: an amount larger than the counter is left out.                  *)
floorSkips(v, delta) == IF v < delta THEN v ELSE v - delta

floorDecrement(v, delta) == IF v < delta THEN 0 ELSE v - delta

(* RequestMetadataExtractor.Extract on one event.                          *)
Extract(e) ==
    LET s == e[1]
        m == model[s]
    IN IF m = NoModel THEN counters
       ELSE [counters EXCEPT ![m] =
               IF e = Req(s)
               THEN [requests |-> @.requests + 1, tokens |-> @.tokens + MaxTokens[s]]
               ELSE [requests |-> floorDecrement(@.requests, 1),
                     tokens |-> floorDecrement(@.tokens, MaxTokens[s])]]

Dispatch ==
    /\ Handle
    /\ counters' = Extract(Head(waiting))
    /\ UNCHANGED <<phase, model, lost>>

Next ==
    \/ Dispatch
    \/ \E s \in Streams :
        \/ \E m \in Models \cup {NoModel} : Forward(s, m)
        \/ Answer(s) \/ AnswerBodyless(s) \/ Abort(s)

Spec == Init /\ [][Next]_vars

-----------------------------------------------------------------------------
InSeq(e, s) == \E i \in DOMAIN s : s[i] = e
Handled(e) == InSeq(e, handled)

(* The streams of a model whose request the extractor has seen and whose   *)
(* response it has not.                                                    *)
SeenInFlight(m) == {s \in Streams : model[s] = m /\ Handled(Req(s)) /\ ~Handled(Resp(s))}

(* The streams, the bus and the counters keep their types.                 *)
TypeOK ==
    /\ phase \in [Streams -> {"idle", "forwarded", "answered", "aborted"}]
    /\ model \in [Streams -> Models \cup {NoModel}]
    /\ lost \subseteq Events
    /\ counters \in [Models -> [requests : Nat, tokens : Int]]
    /\ waiting \in Seq(Events) /\ handled \in Seq(Events) /\ open \in BOOLEAN
    /\ Len(waiting) <= Room

(* Requests whose event was dropped and whose response was subtracted all  *)
(* the same.                                                               *)
Orphans(m) == {s \in Streams : model[s] = m /\ Req(s) \in lost /\ Handled(Resp(s))}

(* The streams of a model that have touched its counts.                    *)
Touched(m) == {s \in Streams : model[s] = m /\ (Handled(Req(s)) \/ Handled(Resp(s)))}

(* What streams reserve when their max_tokens is positive, and what they   *)
(* take away when it is negative (nothing checks the number).              *)
Reserved(S) == Cardinality(UNION {{s} \X (1..MaxTokens[s]) : s \in S})
Owed(S) == Cardinality(UNION {{s} \X (1..-MaxTokens[s]) : s \in S})

(* Every count is explained by the events: with nothing dropped the number *)
(* of requests is exactly what the extractor has seen and not seen         *)
(* answered, whatever the order in which streams answer, and so are the    *)
(* tokens as long as no max_tokens was negative; a dropped request event   *)
(* takes away at most its own share, once, and never adds (floorDecrement);*)
(* a dropped response event leaves its request in the count.  The floor    *)
(* can leave the tokens too high by what negative max_tokens have taken    *)
(* away, never by more: requests of -5 and 3 answered in the order 3, -5   *)
(* end at 5.  Once nothing waits and nothing was dropped, what was seen is *)
(* what is at the model server plus the streams that ended without a       *)
(* ResponseEvent (the leak that the extractor's TODO names).               *)
CountExplained ==
    \A m \in Models :
        LET seen == SeenInFlight(m)
            orphans == Orphans(m)
        IN /\ counters[m].requests \in Cardinality(seen) - Cardinality(orphans) .. Cardinality(seen)
           /\ counters[m].tokens \in Reserved(seen) - Owed(seen) - Reserved(orphans)
                                     .. Reserved(seen) - Owed(seen) + Owed(Touched(m))
           /\ lost = {} /\ waiting = <<>> =>
                seen = {s \in Streams : model[s] = m /\ phase[s] \in {"forwarded", "aborted"}}
=============================================================================
