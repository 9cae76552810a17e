-------------------------------- MODULE MCCost --------------------------------
(***************************************************************************)
(* Instances of CostDigest for TLC.                                        *)
(***************************************************************************)
EXTENDS CostDigest, TLC

MCPrices == {[input |-> 1, output |-> 2]}

Event == [model |-> None, message |-> None, text |-> <<>>, stop |-> None,
          usage |-> None, response |-> None]

(* An Anthropic stream: the counts are spread over two events.             *)
MessageStart == [Event EXCEPT !.message = "claude"]
InputUsage == [Event EXCEPT !.usage = "input_tokens" :> 2 @@ "output_tokens" :> 0]
OutputUsage == [Event EXCEPT !.usage = ("output_tokens" :> 2)]

(* A cheap and a dear response: a JSON body, and a stream whose usage is   *)
(* spread over two events; and one without both counts.                    *)
MCResponses ==
    {[kind |-> "json", body |-> [NoBody EXCEPT !.usage = "prompt_tokens" :> 1 @@ "completion_tokens" :> 1]],
     [kind |-> "sse", lines |-> <<MessageStart, InputUsage, Skipped, OutputUsage>>],
     [kind |-> "json", body |-> [NoBody EXCEPT !.usageMetadata = ("promptTokenCount" :> 1),
                                    !.usage = "prompt_tokens" :> 1 @@ "completion_tokens" :> 1]]}

Symmetry == Permutations(Models)
=============================================================================
