---------------------------- MODULE ExtProcStream ----------------------------
(***************************************************************************)
(* One ext_proc stream: the loop of Server.Process (pkg/handlers/server.go)*)
(* with the request and response handlers it calls, driven by Envoy in     *)
(* FULL_DUPLEX_STREAMED body mode.                                         *)
(*                                                                         *)
(* A body is a sequence of bytes.  The i-th byte Envoy sends in a          *)
(* direction is the number i, so that a lost, repeated or reordered byte   *)
(* can be seen in what the server sends back; a byte that a plugin wrote   *)
(* is 0.  Receiving a message and running its handler is one step (the     *)
(* state is local to the stream's goroutine); every Send is a step of its  *)
(* own, because it can fail and leave the rest of the answer unsent.       *)
(***************************************************************************)
EXTENDS Integers, Sequences, SequencesExt, ResponsePayload

CONSTANTS
    BodyByteLimit,  \* largest body chunk the server emits (envoy.BodyByteLimit)
    Servers,        \* servers, as configured: the profiles their picker may
                    \* return, and whether they have body post-processors
    Streams,        \* responses as lines of a stream, one line for a byte
    MaxChunks,      \* bound: body chunks Envoy sends per direction
    ChunkLens,      \* bound: sizes of those chunks
    MutatedLens,    \* bound: sizes of a body (or chunk) rewritten by a plugin
    MaxDups         \* bound: re-deliveries of a final chunk, per stream

(* What LoadConfiguration guarantees about the server it configures (see   *)
(* BuiltServerSound in ExtProcStreamProofs).                               *)
ServerSound(s) ==
    /\ s.postProcessors \in BOOLEAN /\ s.profiles # {}
    /\ \A p \in s.profiles :
        /\ p \in [plugins : BOOLEAN, chunkProcessors : BOOLEAN, buffering : BOOLEAN]
        /\ p.buffering = (p.plugins \/ s.postProcessors)
        /\ p.buffering => ~p.chunkProcessors

ASSUME ConfigAssumption ==
    /\ BodyByteLimit \in Nat \ {0}
    /\ \A s \in Servers : ServerSound(s)
    /\ \A s \in Streams : s \in Seq(ToSet(s)) /\ \A i \in DOMAIN s : IsLine(s[i])

ASSUME BoundAssumption ==
    /\ MaxChunks \in Nat /\ MaxDups \in Nat
    /\ ChunkLens \subseteq Nat /\ ChunkLens # {}
    /\ MutatedLens \subseteq Nat

VARIABLES
    server,      \* the server this stream was opened with
    envoy,       \* what Envoy has sent: see EnvoyInit
    requestBody, responseBody,                 \* accumulated bytes
    requestBodyComplete, responseBodyComplete, \* EndOfStream was handled
    profile,                                   \* reqCtx.Profile
    headersSent,                               \* reqCtx.ResponseHeadersSent
    toSend,      \* responses of the current message still to be sent
    out,         \* responses sent so far
    status,      \* "open", "closing" (an immediate response is being sent),
                 \* "ended" (Process returned nil) or "failed" (an error)
    trace        \* plugin stages run and events notified, in order

reqCtx == <<requestBody, responseBody, requestBodyComplete,
            responseBodyComplete, profile, headersSent>>
vars == <<server, envoy, reqCtx, toSend, out, status, trace>>

Profiles == server.profiles
PostProcessors == server.postProcessors

Directions == {"req", "resp"}
Stages == {"preProcessors", "profilePicker", "requestPlugins", "RequestEvent",
           "headerProcessors", "chunkProcessors", "responsePlugins",
           "postProcessors", "ResponseEvent"}

(* requesthandling.Profile{}: every stream starts with it.                 *)
emptyProfile == [plugins |-> FALSE, chunkProcessors |-> FALSE, buffering |-> FALSE]

-----------------------------------------------------------------------------
(* The answers of the server.  NoLength: the Content-Length is not set.    *)
NoLength == <<>>
Headers(dir, length) ==
    [type |-> "headers", dir |-> dir, length |-> length, body |-> <<>>, eos |-> FALSE]
Body(dir, bytes, eos) ==
    [type |-> "body", dir |-> dir, length |-> NoLength, body |-> bytes, eos |-> eos]
Trailers(dir) ==
    [type |-> "trailers", dir |-> dir, length |-> NoLength, body |-> <<>>, eos |-> FALSE]
Immediate ==
    [type |-> "immediate", dir |-> "resp", length |-> NoLength, body |-> <<>>, eos |-> TRUE]

(* Faulty: when the limit divides the length, the last chunk is empty and  *)
(* dropped.                                                                *)
BuildChunkedLosesEos(dir, bytes) ==
    LET count == IF Len(bytes) = 0 THEN 1 ELSE (Len(bytes) \div BodyByteLimit) + 1
        end(i) == IF i = count THEN Len(bytes) ELSE i * BodyByteLimit
    IN SelectSeq([i \in 1..count |->
          Body(dir, SubSeq(bytes, (i - 1) * BodyByteLimit + 1, end(i)), i = count)],
          LAMBDA m : m.body # <<>>)

(* A body split into chunks of at most BodyByteLimit bytes, the last one   *)
(* with EndOfStream; an empty body is one empty chunk.                     *)
BuildChunkedBodyResponses(dir, bytes) ==
    LET n == Len(bytes)
        count == IF n = 0 THEN 1 ELSE (n + BodyByteLimit - 1) \div BodyByteLimit
        end(i) == IF i = count THEN n ELSE i * BodyByteLimit
    IN [i \in 1..count |->
          Body(dir, SubSeq(bytes, (i - 1) * BodyByteLimit + 1, end(i)), i = count)]

(* What a plugin makes of a body (a JSON object, never empty) or of a      *)
(* chunk (any string).                                                     *)
Mutated(n) == [i \in 1..n |-> 0]

-----------------------------------------------------------------------------
(* How a handler ends: with answers to send, or with an error, which is an *)
(* ImmediateResponse when it carries a known code ("typed") and a gRPC     *)
(* error otherwise.  Either way Process returns after an error.            *)
Reply(msgs) == toSend' = msgs /\ UNCHANGED status

BuildErrResponse(err) ==
    \/ err = "typed"   /\ toSend' = <<Immediate>> /\ status' = "closing"
    \/ err = "untyped" /\ toSend' = <<>> /\ status' = "failed"

Errors == {"typed", "untyped"}

-----------------------------------------------------------------------------
(* HandleRequestHeaders: the answer waits for the body unless there is     *)
(* none.                                                                   *)
HandleRequestHeaders(eos) ==
    /\ Reply(IF eos THEN <<Headers("req", NoLength)>> ELSE <<>>)
    /\ UNCHANGED <<reqCtx, trace>>

(* Faulty: the Content-Length of the body before the plugins.              *)
HandleRequestBodyOriginalLength(bytes) ==
    \E p \in Profiles, n \in MutatedLens :
        /\ profile' = p
        /\ trace' = trace \o <<"preProcessors", "profilePicker", "requestPlugins", "RequestEvent">>
        /\ Reply(<<Headers("req", <<Len(bytes)>>)>>
                   \o BuildChunkedBodyResponses("req", Mutated(n)))

(* HandleRequestBody on the whole body.  It stops at the first failing     *)
(* step: parsing, pre-processors, profile picker, request plugins (or      *)
(* marshalling what they made of the body).  On success it notifies the    *)
(* data layer and answers with the headers, Content-Length included, and   *)
(* the chunked body.                                                       *)
RequestBodyFails(stages, err) ==
    /\ trace' = trace \o stages
    /\ BuildErrResponse(err)

HandleRequestBody(bytes) ==
    LET pre == <<"preProcessors">>
        picked == Append(pre, "profilePicker")
        done == Append(picked, "requestPlugins")
    IN \/ RequestBodyFails(<<>>, "typed") /\ UNCHANGED profile
       \/ /\ bytes # <<>>  \* an empty body does not parse
          /\ \/ \E err \in Errors : RequestBodyFails(pre, err) /\ UNCHANGED profile
             \/ RequestBodyFails(picked, "typed") /\ UNCHANGED profile
             \/ \E p \in Profiles, err \in Errors :
                   RequestBodyFails(done, err) /\ profile' = p
             \/ \E p \in Profiles, sent \in {bytes} \cup {Mutated(n) : n \in MutatedLens \ {0}} :
                   /\ profile' = p
                   /\ trace' = trace \o Append(done, "RequestEvent")
                   /\ Reply(<<Headers("req", <<Len(sent)>>)>>
                              \o BuildChunkedBodyResponses("req", sent))

(* The RequestBody case of the loop: the handler runs on the last chunk,   *)
(* and a chunk delivered after EndOfStream is ignored.                     *)
AppendRequestBody(chunk, eos) ==
    /\ requestBody' = requestBody \o chunk
    /\ requestBodyComplete' = eos
    /\ IF eos THEN HandleRequestBody(requestBody')
              ELSE Reply(<<>>) /\ UNCHANGED <<profile, trace>>
    /\ UNCHANGED <<responseBody, responseBodyComplete, headersSent>>

ProcessRequestBody(chunk, eos) ==
    IF requestBodyComplete THEN UNCHANGED <<reqCtx, trace, toSend, status>>
                           ELSE AppendRequestBody(chunk, eos)

HandleTrailers(dir) ==
    /\ Reply(<<Trailers(dir)>>)
    /\ UNCHANGED <<reqCtx, trace>>

-----------------------------------------------------------------------------
(* HandleResponseHeaders: the headers post-processors run at once, the     *)
(* answer waits for the body unless there is none.                         *)
HandleResponseHeaders(eos) ==
    /\ trace' = Append(trace, "headerProcessors")
    /\ \/ \E err \in Errors : BuildErrResponse(err)
       \/ Reply(IF eos THEN <<Headers("resp", NoLength)>> ELSE <<>>)
    /\ UNCHANGED reqCtx

(* Faulty: an event for every chunk.                                       *)
NotifyEveryChunk(stages, eos) == trace' = trace \o Append(stages, "ResponseEvent")

(* The end of the ResponseBody case: on the last chunk the data layer is   *)
(* notified, whether the handler failed or not.                            *)
NotifyOnEos(stages, eos) ==
    trace' = trace \o (IF eos THEN Append(stages, "ResponseEvent") ELSE stages)

(* HandleResponseBody on the whole body: passed through when there is      *)
(* nothing to run or it does not parse; profile plugins, then              *)
(* post-processors, stopping at the first error.                           *)
HandleResponseBody(bytes) ==
    LET plugins == IF profile.plugins THEN <<"responsePlugins">> ELSE <<>>
        all == IF PostProcessors THEN Append(plugins, "postProcessors") ELSE plugins
        answer(sent, length) ==
            Reply(<<Headers("resp", length)>> \o BuildChunkedBodyResponses("resp", sent))
    IN \/ answer(bytes, NoLength) /\ NotifyOnEos(<<>>, TRUE)
       \/ /\ bytes # <<>>
          /\ all # <<>>
          /\ \/ \E err \in Errors, ran \in {plugins, all} \ {<<>>} :
                   BuildErrResponse(err) /\ NotifyOnEos(ran, TRUE)
             \/ answer(bytes, NoLength) /\ NotifyOnEos(all, TRUE)
             \/ \E n \in MutatedLens \ {0} :
                   answer(Mutated(n), <<n>>) /\ NotifyOnEos(all, TRUE)

(* Faulty: the headers go out with every chunk.                            *)
BuildStreamedChunkAlwaysHeaders(chunk, eos) ==
    /\ Reply(<<Headers("resp", NoLength), Body("resp", chunk, eos)>>)
    /\ headersSent' = TRUE

(* HandleResponseChunk: the chunk processors run on this chunk alone and   *)
(* it is sent at once, the first time after the headers.                   *)
BuildStreamedChunkResponse(chunk, eos) ==
    /\ Reply((IF headersSent THEN <<>> ELSE <<Headers("resp", NoLength)>>)
               \o <<Body("resp", chunk, eos)>>)
    /\ headersSent' = TRUE

HandleResponseChunk(chunk, eos) ==
    \/ /\ ~profile.chunkProcessors
       /\ BuildStreamedChunkResponse(chunk, eos)
       /\ NotifyOnEos(<<>>, eos)
    \/ /\ profile.chunkProcessors
       /\ NotifyOnEos(<<"chunkProcessors">>, eos)
       /\ \/ \E err \in Errors : BuildErrResponse(err) /\ UNCHANGED headersSent
          \/ \E sent \in {chunk} \cup {Mutated(n) : n \in MutatedLens} :
                BuildStreamedChunkResponse(sent, eos)

(* The ResponseBody case of the loop: accumulate, then answer the whole    *)
(* body or this chunk; a chunk delivered after EndOfStream is ignored.     *)
AppendResponseBody(chunk, eos) ==
    /\ responseBody' = responseBody \o chunk
    /\ responseBodyComplete' = eos
    /\ \/ /\ profile.buffering /\ ~eos
          /\ Reply(<<>>) /\ UNCHANGED <<trace, headersSent>>
       \/ /\ profile.buffering /\ eos
          /\ HandleResponseBody(responseBody') /\ UNCHANGED headersSent
       \/ /\ ~profile.buffering
          /\ HandleResponseChunk(chunk, eos)
    /\ UNCHANGED <<requestBody, requestBodyComplete, profile>>

ProcessResponseBody(chunk, eos) ==
    IF responseBodyComplete THEN UNCHANGED <<reqCtx, trace, toSend, status>>
                            ELSE AppendResponseBody(chunk, eos)

-----------------------------------------------------------------------------
(* Envoy, as far as the stream sees it: each direction goes from "start"   *)
(* through "body" to "eos" (EndOfStream) or "trailers"; a local reply ends *)
(* the request direction early ("dropped").  The response follows the      *)
(* request, because Envoy forwards nothing before the server has answered  *)
(* the request headers, or is a local reply.                               *)
EnvoyInit ==
    [state  |-> [d \in Directions |-> "start"],
     sent   |-> [d \in Directions |-> 0],  \* bytes sent
     chunks |-> [d \in Directions |-> 0],  \* chunks sent
     last   |-> [d \in Directions |-> <<>>], \* the final chunk
     dups   |-> 0,
     got    |-> [d \in Directions |-> <<>>]] \* body bytes it has got back

(* The loop is at Recv.                                                    *)
AtRecv == status = "open" /\ toSend = <<>>

EnvoyState(dir, state) == envoy' = [envoy EXCEPT !.state[dir] = state]

EnvoyChunk(dir, chunk, eos) ==
    /\ AtRecv
    /\ envoy.state[dir] = "body"
    /\ envoy.chunks[dir] < MaxChunks
    /\ envoy' = [envoy EXCEPT
                   !.state[dir] = IF eos THEN "eos" ELSE @,
                   !.sent[dir] = @ + Len(chunk),
                   !.chunks[dir] = @ + 1,
                   !.last[dir] = IF eos THEN chunk ELSE @]

(* Envoy delivers the final chunk of a direction once more.                *)
EnvoyRedelivers(dir) ==
    /\ AtRecv
    /\ envoy.state[dir] = "eos"
    /\ envoy.chunks[dir] > 0
    /\ envoy.dups < MaxDups
    /\ envoy' = [envoy EXCEPT !.dups = @ + 1]

NextChunks(dir) == {[i \in 1..n |-> envoy.sent[dir] + i] : n \in ChunkLens}

-----------------------------------------------------------------------------
Init ==
    /\ server \in Servers
    /\ envoy = EnvoyInit
    /\ requestBody = <<>> /\ responseBody = <<>>
    /\ requestBodyComplete = FALSE /\ responseBodyComplete = FALSE
    /\ profile = emptyProfile
    /\ headersSent = FALSE
    /\ toSend = <<>> /\ out = <<>>
    /\ status = "open"
    /\ trace = <<>>

RequestHeaders(eos) ==
    /\ AtRecv /\ envoy.state["req"] = "start"
    /\ EnvoyState("req", IF eos THEN "eos" ELSE "body")
    /\ HandleRequestHeaders(eos)
    /\ UNCHANGED <<server, out>>

RequestBody(chunk, eos) ==
    /\ EnvoyChunk("req", chunk, eos)
    /\ ProcessRequestBody(chunk, eos)
    /\ UNCHANGED <<server, out>>

RequestBodyRedelivered ==
    /\ EnvoyRedelivers("req")
    /\ ProcessRequestBody(envoy.last["req"], TRUE)
    /\ UNCHANGED <<server, out>>

RequestTrailers ==
    /\ AtRecv /\ envoy.state["req"] = "body"
    /\ EnvoyState("req", "trailers")
    /\ HandleTrailers("req")
    /\ UNCHANGED <<server, out>>

(* The upstream answers, or Envoy does: then no more of the request comes. *)
ResponseHeaders(eos) ==
    /\ AtRecv /\ envoy.state["req"] # "start" /\ envoy.state["resp"] = "start"
    /\ envoy' = [envoy EXCEPT !.state["resp"] = IF eos THEN "eos" ELSE "body",
                              !.state["req"] = IF @ = "body" THEN "dropped" ELSE @]
    /\ HandleResponseHeaders(eos)
    /\ UNCHANGED <<server, out>>

ResponseBody(chunk, eos) ==
    /\ EnvoyChunk("resp", chunk, eos)
    /\ ProcessResponseBody(chunk, eos)
    /\ UNCHANGED <<server, out>>

ResponseBodyRedelivered ==
    /\ EnvoyRedelivers("resp")
    /\ ProcessResponseBody(envoy.last["resp"], TRUE)
    /\ UNCHANGED <<server, out>>

ResponseTrailers ==
    /\ AtRecv /\ envoy.state["resp"] = "body"
    /\ EnvoyState("resp", "trailers")
    /\ HandleTrailers("resp")
    /\ UNCHANGED <<server, out>>

(* The stream is closed or cancelled while the loop waits in Recv (nil),   *)
(* or the context is done, Recv fails or the message is of no known type   *)
(* (an error).                                                             *)
RecvEnds ==
    /\ AtRecv
    /\ status' \in {"ended", "failed"}
    /\ UNCHANGED <<server, envoy, reqCtx, toSend, out, trace>>

Send ==
    /\ status \in {"open", "closing"} /\ toSend # <<>>
    /\ out' = Append(out, Head(toSend))
    /\ envoy' = [envoy EXCEPT !.got[Head(toSend).dir] = @ \o Head(toSend).body]
    /\ toSend' = Tail(toSend)
    /\ status' = IF status = "closing" THEN "ended" ELSE status
    /\ UNCHANGED <<server, reqCtx, trace>>

SendFails ==
    /\ status \in {"open", "closing"} /\ toSend # <<>>
    /\ toSend' = <<>>
    /\ status' = "failed"
    /\ UNCHANGED <<server, envoy, reqCtx, out, trace>>

Next ==
    \/ \E eos \in BOOLEAN :
        \/ RequestHeaders(eos)
        \/ ResponseHeaders(eos)
        \/ \E chunk \in NextChunks("req") : RequestBody(chunk, eos)
        \/ \E chunk \in NextChunks("resp") : ResponseBody(chunk, eos)
    \/ RequestBodyRedelivered \/ ResponseBodyRedelivered
    \/ RequestTrailers \/ ResponseTrailers
    \/ RecvEnds \/ Send \/ SendFails

(* The goroutine keeps running the loop: a response that was built is sent *)
(* (or its Send fails).  Nothing is assumed of Envoy.                      *)
Fairness == WF_vars(Send \/ SendFails)

Spec == Init /\ [][Next]_vars /\ Fairness

-----------------------------------------------------------------------------
(* What the ResponseEvent says when the i-th byte of the response is the   *)
(* i-th of these lines.                                                    *)
ResponseEventBody(lines) ==
    EventBody([kind |-> "sse", lines |-> [i \in DOMAIN responseBody |-> lines[responseBody[i]]]])

-----------------------------------------------------------------------------
(* Of the answers of a direction: the headers, the body, its end.          *)
Opens(m, dir) == m.type = "headers" /\ m.dir = dir
Carries(m, dir) == m.type = "body" /\ m.dir = dir
Ended(dir) == \E i \in DOMAIN out : Carries(out[i], dir) /\ out[i].eos
Answered(dir) == \E i \in DOMAIN out : Opens(out[i], dir)

(* In a sequence of answers: nothing follows an immediate response; of     *)
(* what is said in one direction, only body chunks follow the headers, and *)
(* nothing the chunk with EndOfStream.                                     *)
IsAnswer(m) == m.type \in {"headers", "body"}
MayFollow(m, n) ==
    /\ m.type # "immediate"
    /\ IsAnswer(m) /\ IsAnswer(n) /\ m.dir = n.dir => n.type = "body" /\ ~m.eos
InOrder(answers) ==
    /\ \A i, j \in DOMAIN answers : i < j => MayFollow(answers[i], answers[j])
    /\ \A j \in DOMAIN answers : answers[j].type = "body" =>
        \E i \in DOMAIN answers : i < j /\ Opens(answers[i], answers[j].dir)

Message == [type : {"headers", "body", "trailers", "immediate"}, dir : Directions,
            length : Seq(Nat), body : Seq(Nat), eos : BOOLEAN]

(* The stream's locals keep their types, and a closed stream has nothing   *)
(* left to send.                                                           *)
TypeOK ==
    /\ server \in Servers
    /\ requestBody \in Seq(Nat) /\ responseBody \in Seq(Nat)
    /\ requestBodyComplete \in BOOLEAN /\ responseBodyComplete \in BOOLEAN
    /\ profile \in Profiles \cup {emptyProfile}
    /\ headersSent \in BOOLEAN
    /\ toSend \in Seq(Message) /\ out \in Seq(Message)
    /\ status \in {"open", "closing", "ended", "failed"}
    /\ status \in {"ended", "failed"} => toSend = <<>>
    /\ trace \in Seq(Stages)

(* Whatever Envoy re-delivers and wherever plugins fail, the answers of    *)
(* each direction are one HeadersResponse followed by body chunks, nothing *)
(* follows the chunk with EndOfStream, and an immediate response is the    *)
(* last thing sent (Process, HandleRequestBody, buildStreamedChunkResponse)*)
AnswersInOrder == InOrder(out)

(* No plugin has rewritten these bytes: none of them is a plugin's, and no *)
(* chunk was, or might have been, emptied by chunk processors.             *)
Intact(bytes, answers, dir) ==
    /\ \A i \in DOMAIN bytes : bytes[i] # 0
    /\ dir = "resp" /\ profile.chunkProcessors =>
        \A i \in DOMAIN answers : Carries(answers[i], dir) => answers[i].body # <<>>

(* The bytes sent back are the bytes Envoy sent, once and in order, except *)
(* where a plugin rewrote them; all of them have been sent when the chunk  *)
(* with EndOfStream is (the buffers of Process, BuildChunkedBodyResponses).*)
BodyFidelity ==
    \A d \in Directions :
        LET bytes == envoy.got[d]
        IN /\ \A i, j \in DOMAIN bytes : i < j /\ bytes[i] # 0 /\ bytes[j] # 0 => bytes[i] < bytes[j]
           /\ Intact(bytes, out, d) => /\ Len(bytes) <= envoy.sent[d]
                                       /\ \A i \in DOMAIN bytes : bytes[i] = i
                                       /\ Ended(d) => Len(bytes) = envoy.sent[d]

(* The Content-Length promised with the headers is the number of body      *)
(* bytes that follow, and no chunk of a body sent whole is larger than     *)
(* BodyByteLimit (HandleRequestBody, HandleResponseBody).                  *)
ContentLengthHonoured ==
    \A d \in Directions, h \in DOMAIN out :
        Opens(out[h], d) /\ out[h].length # NoLength =>
            /\ Len(envoy.got[d]) <= out[h].length[1]
            /\ Ended(d) => Len(envoy.got[d]) = out[h].length[1]
            /\ \A i \in DOMAIN out : Carries(out[i], d) => Len(out[i].body) <= BodyByteLimit

Rank(stage) ==
    CASE stage = "preProcessors" -> 1  [] stage = "profilePicker" -> 2
      [] stage = "requestPlugins" -> 3 [] stage = "RequestEvent" -> 4
      [] stage = "headerProcessors" -> 5
      [] stage \in {"chunkProcessors", "responsePlugins"} -> 6
      [] stage = "postProcessors" -> 7 [] stage = "ResponseEvent" -> 8

(* The stages of the pipeline run in their fixed order and each one once   *)
(* per stream (chunk processors: once per chunk); the RequestEvent follows *)
(* the request plugins, the ResponseEvent ends the list and neither event  *)
(* is ever notified twice.  This is the order of the code; the             *)
(* documentation has another one: see ResponseEventBeforePlugins and       *)
(* PhasesReserved.                                                         *)
StagesInOrder ==
    \A i, j \in DOMAIN trace : i < j =>
        \/ Rank(trace[i]) < Rank(trace[j])
        \/ trace[i] = "chunkProcessors" /\ trace[j] = "chunkProcessors"

(* The ResponseEvent of a streamed response describes the response as      *)
(* Envoy sent it, whole and once, however it was cut into chunks, whether  *)
(* its last chunk came again and whatever chunk processors made of it;     *)
(* usage that a provider spreads over events is put together (Process,     *)
(* parseSSEResponseBody, extractTokenCounts).                              *)
EventReportsResponse ==
    ~profile.buffering /\ "ResponseEvent" \in ToSet(trace) =>
        \A lines \in Streams : envoy.sent["resp"] <= Len(lines) =>
            AmountsTo(SubSeq(lines, 1, envoy.sent["resp"]), ResponseEventBody(lines))

(* A body that arrived completely is answered to its last byte, unless the *)
(* stream ends first: neither direction is left waiting after EndOfStream. *)
CompletedBodyAnswered ==
    /\ requestBodyComplete ~> (Ended("req") \/ status # "open")
    /\ responseBodyComplete ~> (Ended("resp") \/ status # "open")

-----------------------------------------------------------------------------
(* Statements of the documentation that the code does not implement.       *)

(* docs/architecture.md: the ResponseEvent is fired "at the start of       *)
(* response body handling - before the response plugins run".              *)
ResponseEventBeforePlugins ==
    \A i, j \in DOMAIN trace :
        trace[i] = "ResponseEvent" /\ trace[j] \in {"responsePlugins", "postProcessors"} => i < j

(* docs/architecture.md: pre- and post-processing "are accepted in the     *)
(* configuration but are not yet invoked by the request path".             *)
PhasesReserved == "postProcessors" \notin ToSet(trace)

(* What both statements imply: every stream keeps to one of them at least. *)
(* A stream that does not, one with response plugins and post-processors,  *)
(* refutes the two at once.                                                *)
DocumentedStages == ResponseEventBeforePlugins \/ PhasesReserved

(* docs/architecture.md: the proxy streams request headers, body and       *)
(* trailers to IPP, "which replies with mutations": once the request has   *)
(* been received to its end, its headers have been answered.               *)
ReceivedRequestAnswered ==
    AtRecv /\ envoy.state["req"] \in {"eos", "trailers"} => Answered("req")

(* pkg/config/config.go: post-processors "are always invoked on the whole  *)
(* body of the response": a response sent to its end with no failure (and  *)
(* not passed through because it did not parse) went through them.         *)
PostProcessorsAlwaysInvoked ==
    PostProcessors /\ Ended("resp") /\ status = "open"
        => \/ "postProcessors" \in ToSet(trace)
           \/ profile.buffering  \* passed through: neither JSON nor SSE
=============================================================================
