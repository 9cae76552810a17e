--------------------------- MODULE InferenceMessage ---------------------------
(***************************************************************************)
(* The headers of a request: the plugins read and change them in an        *)
(* InferenceMessage, which keeps the changes to be sent, and Envoy applies *)
(* these to the headers it has.  Envoy's names have no case; the message's *)
(* keys are strings, so "Content-Length" and "content-length" differ.      *)
(*                                                                         *)
(* A key is a pair <<name, spelling>>.                                     *)
(***************************************************************************)
EXTENDS Naturals, FiniteSets

CONSTANTS
    Names,          \* header names, without case
    Values,         \* header values
    None,           \* no such header
    ContentLength,  \* the header that HandleRequestBody sets, as "Content-Length"
    TraceHeader,    \* the header that injectTraceContextHeaders sets
    SetKeys,        \* keys that plugins set
    RemoveKeys,     \* keys that plugins remove
    MaxSteps        \* bound: changes made by plugins

Keys == Names \X {"lower", "mixed"}
ToLower(k) == <<k[1], "lower">>

ASSUME MessageAssumption ==
    /\ None \notin Values /\ Values # {}
    /\ ContentLength \in Names /\ TraceHeader \in Names
    /\ SetKeys \subseteq Keys /\ RemoveKeys \subseteq Keys
    /\ MaxSteps \in Nat

VARIABLES
    phase,      \* "new", "plugins" or "sent"
    steps,      \* changes made by plugins
    upstream,   \* [Names -> Values \cup {None}]: the headers Envoy has
    Headers,    \* [Keys -> Values \cup {None}]
    mutatedHeaders, \* [Keys -> Values \cup {None}]
    removedHeaders, \* set of keys
    intended    \* [Names -> Values \cup {None}]: what the plugins made of upstream

msgVars == <<Headers, mutatedHeaders, removedHeaders>>
vars == <<phase, steps, upstream, msgVars, intended>>

Init ==
    /\ phase = "new" /\ steps = 0
    /\ upstream \in [Names -> Values \cup {None}] /\ intended = upstream
    /\ Headers = [k \in Keys |-> None]
    /\ mutatedHeaders = [k \in Keys |-> None] /\ removedHeaders = {}

-----------------------------------------------------------------------------
(* Faulty: a header that was removed before stays in the list.             *)
SetHeaderKeepsRemoved(H, M, R, k, v) ==
    IF H[k] = v THEN <<H, M, R>>
    ELSE <<[H EXCEPT ![k] = v], [M EXCEPT ![k] = v], R>>

(* SetHeader on the message <<H, M, R>>: nothing, if it has that value.    *)
SetHeader(H, M, R, k, v) ==
    IF H[k] = v THEN <<H, M, R>>
    ELSE <<[H EXCEPT ![k] = v], [M EXCEPT ![k] = v], R \ {k}>>

(* Faulty: the value set before is still sent.                             *)
RemoveHeaderKeepsMutation(H, M, R, k) ==
    IF H[k] = None THEN <<H, M, R>> ELSE <<[H EXCEPT ![k] = None], M, R \cup {k}>>

RemoveHeader(H, M, R, k) ==
    IF H[k] = None THEN <<H, M, R>>
    ELSE <<[H EXCEPT ![k] = None], [M EXCEPT ![k] = None], R \cup {k}>>

-----------------------------------------------------------------------------
Update(m) == Headers' = m[1] /\ mutatedHeaders' = m[2] /\ removedHeaders' = m[3]

(* The headers arrive, their keys are put in lower case; the trace context *)
(* is added when a span is recording.                                      *)
HandleRequestHeaders(recording, v) ==
    /\ phase = "new"
    /\ phase' = "plugins"
    /\ LET received == [k \in Keys |-> IF k = ToLower(k) THEN upstream[k[1]] ELSE None]
       IN IF recording
          THEN /\ Update(SetHeader(received, mutatedHeaders, removedHeaders,
                                   <<TraceHeader, "lower">>, v))
               /\ intended' = [intended EXCEPT ![TraceHeader] = v]
          ELSE /\ Update(<<received, mutatedHeaders, removedHeaders>>)
               /\ UNCHANGED intended
    /\ UNCHANGED <<steps, upstream>>

(* A plugin sets a header (body-field-to-header, base-model-to-header).    *)
PluginSets(k, v) ==
    /\ phase = "plugins" /\ steps < MaxSteps
    /\ Update(SetHeader(Headers, mutatedHeaders, removedHeaders, k, v))
    /\ intended' = [intended EXCEPT ![k[1]] = v]
    /\ steps' = steps + 1
    /\ UNCHANGED <<phase, upstream>>

PluginRemoves(k) ==
    /\ phase = "plugins" /\ steps < MaxSteps
    /\ Update(RemoveHeader(Headers, mutatedHeaders, removedHeaders, k))
    /\ intended' = [intended EXCEPT ![k[1]] = None]
    /\ steps' = steps + 1
    /\ UNCHANGED <<phase, upstream>>

(* Envoy's part: what is to be removed goes, then what is to be set        *)
(* overwrites, in the order of the list, which is that of a Go map.        *)
Applied(M, R) ==
    {h \in [Names -> Values \cup {None}] : \A n \in Names :
        LET set == {M[k] : k \in {n} \X {"lower", "mixed"}} \ {None}
        IN IF set # {} THEN h[n] \in set
           ELSE h[n] = IF \E k \in R : k[1] = n THEN None ELSE upstream[n]}

(* HandleRequestBody has run the plugins: it sets the length of the body   *)
(* and sends the changes.                                                  *)
HandleRequestBody(v) ==
    /\ phase = "plugins"
    /\ phase' = "sent"
    /\ Update(SetHeader(Headers, mutatedHeaders, removedHeaders, <<ContentLength, "mixed">>, v))
    /\ intended' = [intended EXCEPT ![ContentLength] = v]
    /\ upstream' \in Applied(mutatedHeaders', removedHeaders')
    /\ UNCHANGED steps

Next ==
    \E v \in Values :
        \/ \E recording \in BOOLEAN : HandleRequestHeaders(recording, v)
        \/ \E k \in SetKeys : PluginSets(k, v)
        \/ \E k \in RemoveKeys : PluginRemoves(k)
        \/ HandleRequestBody(v)

Spec == Init /\ [][Next]_vars

-----------------------------------------------------------------------------
(* The message keeps its types.                                            *)
TypeOK ==
    /\ phase \in {"new", "plugins", "sent"} /\ steps \in 0..MaxSteps
    /\ upstream \in [Names -> Values \cup {None}] /\ intended \in [Names -> Values \cup {None}]
    /\ Headers \in [Keys -> Values \cup {None}]
    /\ mutatedHeaders \in [Keys -> Values \cup {None}]
    /\ removedHeaders \subseteq Keys

(* No key is both set and removed (the comments in SetHeader and           *)
(* RemoveHeader), and a key that is set has the value the plugins read.    *)
SetOrRemoved ==
    \A k \in Keys : /\ k \in removedHeaders => Headers[k] = None
                    /\ mutatedHeaders[k] # None => mutatedHeaders[k] = Headers[k]

(* Every header that is set has one spelling, and what is removed has the  *)
(* lower-case one, the only spelling of what is received.                  *)
KeysSet == SetKeys \cup {<<ContentLength, "mixed">>, <<TraceHeader, "lower">>}
MixedNames == {n \in Names : <<n, "mixed">> \in KeysSet}
OneSpelling ==
    /\ \A n \in MixedNames : <<n, "lower">> \notin KeysSet \cup RemoveKeys
    /\ RemoveKeys \subseteq Names \X {"lower"}

(* Envoy ends up with the headers that the plugins made, in whatever order *)
(* they set, removed and restored them.                                    *)
EnvoyAgrees == OneSpelling /\ phase = "sent" => upstream = intended

-----------------------------------------------------------------------------
(* A statement of the code's comments that the code does not implement:    *)
(* keys are put in lower case "so later case-insensitive lookups and       *)
(* mutations ... overwrite the upstream header instead of producing a      *)
(* case-differentiated duplicate".  SetHeader keeps the case of its key,   *)
(* and HandleRequestBody itself sets "Content-Length".                     *)
NoDuplicates ==
    \A n \in Names : Headers[<<n, "lower">>] = None \/ Headers[<<n, "mixed">>] = None
=============================================================================
