--------------------------- MODULE ResponsePayload ---------------------------
(***************************************************************************)
(* What a ResponseEvent says of a response: at EndOfStream its bytes are   *)
(* parsed as JSON, or else as server-sent events, whose pieces             *)
(* parseSSEResponseBody merges into one body; the cost extractor looks for *)
(* token counts in it.  Pure functions, used by ExtProcStream, which fires *)
(* the event, and by CostDigest, which receives it.                        *)
(*                                                                         *)
(* A body is a record of what is read from it: the model, the two places   *)
(* of usage, the text and the stop reason.  A line of a stream is an event *)
(* or Skipped: no "data:" line, empty, "[DONE]", or not a JSON object.     *)
(***************************************************************************)
EXTENDS Integers, Sequences, SequencesExt

CONSTANTS
    None,       \* absent: no model, no usage, no reason, no counts
    Skipped     \* a line without an event

(* The keys of the two counts, by format.                                  *)
OpenAITokens == <<"prompt_tokens", "completion_tokens">>
AnthropicTokens == <<"input_tokens", "output_tokens">>
GoogleTokens == <<"promptTokenCount", "candidatesTokenCount">>

NoBody == [model |-> None, usage |-> None, usageMetadata |-> None, text |-> <<>>, stop |-> None]

(* A usage counts under some of the keys that are read, or there is none.  *)
UsageKeys == ToSet(OpenAITokens) \cup ToSet(AnthropicTokens) \cup ToSet(GoogleTokens)
IsUsage(u) == u = None \/ \E K \in SUBSET UsageKeys : u \in [K -> Nat]

(* What is absent is no usage and no pair of counts.                       *)
ASSUME AbsentAssumption ==
    None \notin Nat \X Nat /\ \A K \in SUBSET UsageKeys : None \notin [K -> Nat]

(* An SSE event: "message" and "response" may hold a model, too, the       *)
(* latter also usage.                                                      *)
IsLine(l) ==
    \/ l = Skipped
    \/ /\ DOMAIN l = {"model", "message", "text", "stop", "usage", "response"}
       /\ l.text \in Seq(ToSet(l.text)) /\ IsUsage(l.usage)
       /\ l.response # None => IsUsage(l.response.usage)

-----------------------------------------------------------------------------
UsageOf(e) ==
    CASE e.usage # None -> e.usage
      [] e.usage = None /\ e.response # None -> e.response.usage
      [] OTHER -> None

(* The model of an event, the place looked at last first: a "response" is  *)
(* only looked at when the event has no usage of its own.                  *)
ModelOf(e) ==
    CASE e.usage = None /\ e.response # None /\ e.response.model # None -> e.response.model
      [] e.message # None -> e.message
      [] OTHER -> e.model

Or(x, default) == IF x = None THEN default ELSE x

(* Faulty: a later usage replaces an earlier one as a whole.               *)
MergeUsageWhole(old, new) == IF new = None THEN old ELSE new

(* Usage is merged key by key.                                             *)
MergeUsage(old, new) ==
    CASE new = None -> old
      [] old = None -> new
      [] OTHER -> [k \in DOMAIN old \cup DOMAIN new |-> IF k \in DOMAIN new THEN new[k] ELSE old[k]]

MergeLine(body, e) ==
    IF e = Skipped THEN body
    ELSE [body EXCEPT !.model = Or(ModelOf(e), @), !.text = @ \o e.text,
                      !.stop = Or(e.stop, @), !.usage = MergeUsage(@, UsageOf(e))]

(* Text alone makes no body, and a stop reason alone neither.  (The text   *)
(* always becomes Anthropic content: result["choices"] is never set.)      *)
parseSSEResponseBody(lines) ==
    LET merged[n \in 0..Len(lines)] ==
            IF n = 0 THEN NoBody ELSE MergeLine(merged[n - 1], lines[n])
        body == merged[Len(lines)]
    IN IF body.model = None /\ body.usage = None THEN NoBody ELSE body

(* At EndOfStream: JSON, or else SSE, or else nothing.                     *)
EventBody(response) ==
    CASE response.kind = "json" -> response.body
      [] response.kind = "sse" -> parseSSEResponseBody(response.lines)
      [] OTHER -> NoBody

-----------------------------------------------------------------------------
(* Both counts, or none.                                                   *)
Counts(usage, keys) ==
    IF \A i \in 1..2 : keys[i] \in DOMAIN usage /\ usage[keys[i]] > 0
    THEN <<usage[keys[1]], usage[keys[2]]>> ELSE None

(* The first format that is there decides.                                 *)
extractTokenCounts(body) ==
    CASE body.usageMetadata # None -> Counts(body.usageMetadata, GoogleTokens)
      [] body.usageMetadata = None /\ body.usage # None ->
            CASE "prompt_tokens" \in DOMAIN body.usage -> Counts(body.usage, OpenAITokens)
              [] "prompt_tokens" \notin DOMAIN body.usage /\ "input_tokens" \in DOMAIN body.usage ->
                    Counts(body.usage, AnthropicTokens)
              [] OTHER -> None
      [] OTHER -> None

-----------------------------------------------------------------------------
(* What the events of a stream amount to, said without merging: the model  *)
(* and the stop reason are the last ones named, every key of usage has the *)
(* value reported last, though the keys may be spread over events, and the *)
(* text is that of all events in order; a cost is known exactly if the     *)
(* format found has both its counts in the end.                            *)
AmountsTo(lines, body) ==
    LET events == {i \in DOMAIN lines : lines[i] # Skipped}
        Naming == {i \in events : ModelOf(lines[i]) # None}
        Using == {i \in events : UsageOf(lines[i]) # None}
        Stopping == {i \in events : lines[i].stop # None}
        Reporting(k) == {i \in Using : k \in DOMAIN UsageOf(lines[i])}
        Latest(S) == lines[CHOOSE i \in S : \A j \in S : j <= i]
        Reported == UNION {DOMAIN UsageOf(lines[i]) : i \in Using}
        Final(k) == UsageOf(Latest(Reporting(k)))[k]
        Known(keys) == \A i \in 1..2 : keys[i] \in Reported /\ Final(keys[i]) > 0
    IN IF Naming \cup Using = {} THEN body = NoBody
       ELSE /\ body.model = IF Naming = {} THEN None ELSE ModelOf(Latest(Naming))
            /\ body.stop = IF Stopping = {} THEN None ELSE Latest(Stopping).stop
            /\ body.usage = IF Using = {} THEN None ELSE [k \in Reported |-> Final(k)]
            /\ body.text = FlattenSeq([i \in DOMAIN lines |->
                              IF i \in events THEN lines[i].text ELSE <<>>])
            /\ (extractTokenCounts(body) # None) <=>
                \/ Known(OpenAITokens)
                \/ "prompt_tokens" \notin Reported /\ Known(AnthropicTokens)
=============================================================================
