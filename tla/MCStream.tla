------------------------------ MODULE MCStream ------------------------------
(***************************************************************************)
(* Instances of ExtProcStream: profiles as the configuration loader builds *)
(* them, without and with body post-processors.                            *)
(***************************************************************************)
EXTENDS ExtProcStream, TLC

MCProfile(plugins, chunkProcessors, post) ==
    [plugins |-> plugins, chunkProcessors |-> chunkProcessors, buffering |-> plugins \/ post]

(* Response plugins, chunk processors (not with post-processors), or       *)
(* request plugins only.                                                   *)
Plain == [postProcessors |-> FALSE,
          profiles |-> {MCProfile(TRUE, FALSE, FALSE), MCProfile(FALSE, TRUE, FALSE),
                        MCProfile(FALSE, FALSE, FALSE)}]
Post == [postProcessors |-> TRUE,
         profiles |-> {MCProfile(TRUE, FALSE, TRUE), MCProfile(FALSE, FALSE, TRUE)}]

MCServers == {Plain, Post}

Event == [model |-> None, message |-> None, text |-> <<>>, stop |-> None,
          usage |-> None, response |-> None]

(* Anthropic: message_start, message_delta with one count or with both.    *)
MessageStart == [Event EXCEPT !.message = "claude"]
InputUsage == [Event EXCEPT !.usage = "input_tokens" :> 2 @@ "output_tokens" :> 0]
OutputUsage == [Event EXCEPT !.usage = ("output_tokens" :> 2), !.stop = "end_turn", !.text = <<"b">>]

(* OpenAI: a chunk, and the end of a stream of the Responses API, which    *)
(* names the model and the usage in its "response".                        *)
Chunk == [Event EXCEPT !.model = "gpt", !.text = <<"a">>, !.stop = "stop"]
ResponseCompleted ==
    [Event EXCEPT !.response = [model |-> "gpt-2",
                                usage |-> "prompt_tokens" :> 1 @@ "completion_tokens" :> 1]]

(* Google: its usageMetadata is not merged, and nothing else is known.     *)
GoogleChunk == Event

MCStreams ==
    {<<MessageStart, InputUsage, Skipped, OutputUsage>>,
     <<InputUsage, OutputUsage, InputUsage, MessageStart>>,
     <<Chunk, Skipped, Chunk, ResponseCompleted>>,
     <<ResponseCompleted, OutputUsage, Chunk, InputUsage>>,
     <<GoogleChunk, OutputUsage, MessageStart, Chunk>>,
     <<GoogleChunk, Skipped, GoogleChunk, GoogleChunk>>}
=============================================================================
