------------------------- MODULE ExtProcStreamProofs -------------------------
(***************************************************************************)
(* Proofs about ExtProcStream, for any servers and profiles, chunk sizes,  *)
(* rewritten bodies and re-deliveries, with what it takes its lines and    *)
(* servers from: ResponsePayload and ConfigLoader.                         *)
(***************************************************************************)
EXTENDS ExtProcStream, ConfigLoader, SequenceTheorems, FiniteSetTheorems,
        WellFoundedInduction, TLAPS

(* What the stream says: what it has sent and what it is about to send.    *)
Said == out \o toSend

(* What a sequence of answers has in a direction.                          *)
Silent(q, d) == \A i \in DOMAIN q : ~(IsAnswer(q[i]) /\ q[i].dir = d)
Opened(q, d) == \E i \in DOMAIN q : Opens(q[i], d)
Unfinished(q, d) == \A i \in DOMAIN q : IsAnswer(q[i]) /\ q[i].dir = d => ~q[i].eos
Plain(q) == \A i \in DOMAIN q : q[i].type # "immediate"

(* Messages that may follow others.                                        *)
Continues(q, new) ==
    /\ \A i \in DOMAIN q, j \in DOMAIN new : MayFollow(q[i], new[j])
    /\ \A i, j \in DOMAIN new : i < j => MayFollow(new[i], new[j])
    /\ \A j \in DOMAIN new : new[j].type = "body" =>
        \/ \E i \in DOMAIN new : i < j /\ Opens(new[i], new[j].dir)
        \/ Opened(q, new[j].dir)

(* Where Envoy is in each direction, and whether the loop knows.           *)
EnvoyType ==
    envoy \in [state : [Directions -> {"start", "body", "eos", "trailers", "dropped"}],
               sent : [Directions -> Nat], chunks : [Directions -> Nat],
               last : [Directions -> Seq(Nat)], dups : Nat, got : [Directions -> Seq(Nat)]]
Complete(d) == IF d = "req" THEN requestBodyComplete ELSE responseBodyComplete
Over(d) == envoy.state[d] \notin {"start", "body"}
FlowInv ==
    /\ \A d \in Directions :
        /\ envoy.state[d] = "start" => envoy.chunks[d] = 0
        /\ ~Over(d) => ~Complete(d)
        /\ envoy.state[d] = "eos" /\ envoy.chunks[d] > 0 => Complete(d)
    /\ envoy.state["resp"] # "start" => Over("req")

(* What has been said, for what Envoy has sent; and no more is said once   *)
(* the stream is not open.                                                 *)
SaidInv ==
    /\ InOrder(Said)
    /\ status \in {"ended", "failed"} => toSend = <<>>
    /\ status = "closing" => toSend = <<Immediate>>
    /\ status = "open" =>
        /\ Plain(Said)
        /\ ~Over("req") => Silent(Said, "req")
        /\ envoy.state["resp"] = "start" => Silent(Said, "resp") /\ ~headersSent
        /\ envoy.state["resp"] = "body" =>
            /\ Unfinished(Said, "resp")
            /\ ~headersSent => Silent(Said, "resp")
            /\ headersSent => ~profile.buffering /\ Opened(Said, "resp")

(* The stages that have run, for what Envoy has sent.                      *)
TraceInv ==
    /\ StagesInOrder
    /\ ~Over("req") => trace = <<>>
    /\ \A i \in DOMAIN trace :
        /\ envoy.state["resp"] = "start" => Rank(trace[i]) <= 4
        /\ envoy.state["resp"] = "body" =>
            Rank(trace[i]) <= 5 \/ (~profile.buffering /\ trace[i] = "chunkProcessors")

-----------------------------------------------------------------------------
(* A sequence appended to another, and answers appended to answers.        *)
LEMMA JoinElements ==
  ASSUME NEW S, NEW q \in Seq(S), NEW new \in Seq(S)
  PROVE  /\ q \o new \in Seq(S)
         /\ Len(q) \in Nat /\ DOMAIN q = 1..Len(q) /\ DOMAIN new = 1..Len(new) /\ Len(new) \in Nat
         /\ DOMAIN (q \o new) = 1..(Len(q) + Len(new))
         /\ \A i \in DOMAIN q : i \in DOMAIN (q \o new) /\ (q \o new)[i] = q[i]
         /\ \A i \in DOMAIN new : Len(q) + i \in DOMAIN (q \o new) /\ (q \o new)[Len(q) + i] = new[i]
         /\ \A k \in DOMAIN (q \o new) :
              \/ k \in DOMAIN q
              \/ k > Len(q) /\ k - Len(q) \in DOMAIN new /\ (q \o new)[k] = new[k - Len(q)]
<1>1. /\ q \o new \in Seq(S) /\ Len(q \o new) = Len(q) + Len(new)
      /\ \A i \in 1 .. Len(q) + Len(new) :
            (q \o new)[i] = IF i <= Len(q) THEN q[i] ELSE new[i - Len(q)]
  BY ConcatProperties
<1>2. /\ DOMAIN q = 1..Len(q) /\ DOMAIN new = 1..Len(new) /\ Len(q) \in Nat /\ Len(new) \in Nat
      /\ DOMAIN (q \o new) = 1..(Len(q) + Len(new))
  BY <1>1, LenProperties
<1>3. \A i \in DOMAIN q : i \in DOMAIN (q \o new) /\ (q \o new)[i] = q[i]
  BY <1>1, <1>2
<1>4. \A i \in DOMAIN new : Len(q) + i \in DOMAIN (q \o new) /\ (q \o new)[Len(q) + i] = new[i]
  BY <1>1, <1>2
<1>5. \A k \in DOMAIN (q \o new) :
        \/ k \in DOMAIN q
        \/ k > Len(q) /\ k - Len(q) \in DOMAIN new /\ (q \o new)[k] = new[k - Len(q)]
  BY <1>1, <1>2
<1> QED BY <1>1, <1>2, <1>3, <1>4, <1>5

LEMMA JoinMeans ==
  ASSUME NEW q \in Seq(Message), NEW new \in Seq(Message)
  PROVE  /\ \A d : Silent(q \o new, d) <=> Silent(q, d) /\ Silent(new, d)
         /\ \A d : Opened(q \o new, d) <=> Opened(q, d) \/ Opened(new, d)
         /\ \A d : Unfinished(q \o new, d) <=> Unfinished(q, d) /\ Unfinished(new, d)
         /\ Plain(q \o new) <=> Plain(q) /\ Plain(new)
<1> DEFINE all == q \o new
<1> HIDE DEF all
<1>0. /\ \A i \in DOMAIN q : i \in DOMAIN all /\ all[i] = q[i]
      /\ \A i \in DOMAIN new : \E k \in DOMAIN all : all[k] = new[i]
      /\ \A k \in DOMAIN all : \/ k \in DOMAIN q /\ all[k] = q[k]
                               \/ \E i \in DOMAIN new : all[k] = new[i]
  <2>1. /\ \A i \in DOMAIN q : i \in DOMAIN all /\ all[i] = q[i]
        /\ \A i \in DOMAIN new : Len(q) + i \in DOMAIN all /\ all[Len(q) + i] = new[i]
        /\ \A k \in DOMAIN all : \/ k \in DOMAIN q
                                 \/ k - Len(q) \in DOMAIN new /\ all[k] = new[k - Len(q)]
    BY JoinElements DEF all
  <2> QED BY <2>1
<1>1. ASSUME NEW d
      PROVE  /\ Silent(all, d) <=> Silent(q, d) /\ Silent(new, d)
             /\ Opened(all, d) <=> Opened(q, d) \/ Opened(new, d)
             /\ Unfinished(all, d) <=> Unfinished(q, d) /\ Unfinished(new, d)
  <2>1. Silent(all, d) <=> Silent(q, d) /\ Silent(new, d)
    BY <1>0 DEF Silent
  <2>2. Opened(all, d) <=> Opened(q, d) \/ Opened(new, d)
    BY <1>0 DEF Opened
  <2>3. Unfinished(all, d) <=> Unfinished(q, d) /\ Unfinished(new, d)
    BY <1>0 DEF Unfinished
  <2> QED BY <2>1, <2>2, <2>3
<1>2. Plain(all) <=> Plain(q) /\ Plain(new)
  BY <1>0 DEF Plain
<1> QED BY <1>1, <1>2 DEF all

LEMMA JoinInOrder ==
  ASSUME NEW q \in Seq(Message), NEW new \in Seq(Message), InOrder(q), Continues(q, new)
  PROVE  InOrder(q \o new)
<1> DEFINE all == q \o new
<1> HIDE DEF all
<1>0. /\ Len(q) \in Nat /\ DOMAIN q = 1..Len(q) /\ DOMAIN new = 1..Len(new) /\ Len(new) \in Nat
      /\ DOMAIN all = 1..(Len(q) + Len(new))
      /\ \A i \in DOMAIN q : i \in DOMAIN all /\ all[i] = q[i]
      /\ \A i \in DOMAIN new : Len(q) + i \in DOMAIN all /\ all[Len(q) + i] = new[i]
      /\ \A k \in DOMAIN all : \/ k \in DOMAIN q
                               \/ k > Len(q) /\ k - Len(q) \in DOMAIN new /\ all[k] = new[k - Len(q)]
  BY JoinElements DEF all
<1>1. ASSUME NEW i \in DOMAIN all, NEW j \in DOMAIN all, i < j PROVE MayFollow(all[i], all[j])
  <2>1. CASE j \in DOMAIN q
    <3>1. i \in DOMAIN q
      BY <1>0, <1>1, <2>1
    <3> QED BY <1>0, <1>1, <2>1, <3>1 DEF InOrder
  <2>2. CASE i \in DOMAIN q /\ j \notin DOMAIN q
    BY <1>0, <2>2 DEF Continues
  <2>3. CASE i \notin DOMAIN q /\ j \notin DOMAIN q
    <3>1. /\ i - Len(q) \in DOMAIN new /\ j - Len(q) \in DOMAIN new /\ i - Len(q) < j - Len(q)
          /\ all[i] = new[i - Len(q)] /\ all[j] = new[j - Len(q)]
      BY <1>0, <1>1, <2>3
    <3> QED BY <3>1 DEF Continues
  <2> QED BY <2>1, <2>2, <2>3
<1>2. ASSUME NEW j \in DOMAIN all, all[j].type = "body"
      PROVE  \E i \in DOMAIN all : i < j /\ Opens(all[i], all[j].dir)
  <2>1. CASE j \in DOMAIN q
    BY <1>0, <1>2, <2>1 DEF InOrder
  <2>2. CASE j \notin DOMAIN q
    <3> DEFINE k == j - Len(q)
    <3>1. k \in DOMAIN new /\ all[j] = new[k] /\ j = Len(q) + k
      BY <1>0, <2>2
    <3>2. CASE \E i \in DOMAIN new : i < k /\ Opens(new[i], new[k].dir)
      <4>1. PICK i \in DOMAIN new : i < k /\ Opens(new[i], new[k].dir)
        BY <3>2
      <4>2. Len(q) + i \in DOMAIN all /\ Len(q) + i < j /\ all[Len(q) + i] = new[i]
        BY <1>0, <3>1, <4>1
      <4> QED BY <3>1, <4>1, <4>2
    <3>3. CASE Opened(q, new[k].dir)
      <4>1. PICK i \in DOMAIN q : Opens(q[i], new[k].dir)
        BY <3>3 DEF Opened
      <4>2. i \in DOMAIN all /\ i < j /\ all[i] = q[i]
        BY <1>0, <3>1, <4>1
      <4> QED BY <3>1, <4>1, <4>2
    <3> QED BY <1>2, <3>1, <3>2, <3>3 DEF Continues
  <2> QED BY <2>1, <2>2
<1> QED BY <1>1, <1>2 DEF InOrder, all

(* A message moves from what is to be sent to what has been sent.          *)
LEMMA SendMoves ==
  ASSUME NEW q \in Seq(Message), NEW r \in Seq(Message), r # <<>>
  PROVE  /\ Append(q, Head(r)) \in Seq(Message) /\ Tail(r) \in Seq(Message)
         /\ Append(q, Head(r)) \o Tail(r) = q \o r
<1>1. Head(r) \in Message /\ Tail(r) \in Seq(Message)
  BY HeadTailProperties
<1>2. Append(q, Head(r)) = q \o <<Head(r)>> /\ Append(q, Head(r)) \in Seq(Message)
  BY <1>1, AppendIsConcat, AppendProperties
<1>3. <<Head(r)>> \in Seq(Message)
  BY <1>1
<1>4. <<Head(r)>> \o Tail(r) = r
  <2>1. /\ <<Head(r)>> \o Tail(r) \in Seq(Message)
        /\ Len(<<Head(r)>> \o Tail(r)) = 1 + Len(Tail(r))
        /\ \A i \in 1 .. 1 + Len(Tail(r)) :
             (<<Head(r)>> \o Tail(r))[i] = IF i <= 1 THEN <<Head(r)>>[i] ELSE Tail(r)[i - 1]
    BY <1>1, <1>3, ConcatProperties
  <2>2. /\ Len(Tail(r)) = Len(r) - 1 /\ Len(r) \in Nat /\ Head(r) = r[1]
        /\ \A i \in 1..Len(Tail(r)) : Tail(r)[i] = r[i + 1]
    BY HeadTailProperties, LenProperties
  <2>3. \A i \in 1..Len(r) : (<<Head(r)>> \o Tail(r))[i] = r[i]
    BY <2>1, <2>2
  <2> QED BY <2>1, <2>2, <2>3, SeqEqual
<1>5. (q \o <<Head(r)>>) \o Tail(r) = q \o (<<Head(r)>> \o Tail(r))
  BY <1>1, <1>3, ConcatAssociative
<1> QED BY <1>1, <1>2, <1>4, <1>5

(* What has been sent is in order if all that is said is.                  *)
LEMMA PrefixInOrder ==
  ASSUME NEW q \in Seq(Message), NEW new \in Seq(Message), InOrder(q \o new)
  PROVE  InOrder(q)
<1> DEFINE all == q \o new
<1> HIDE DEF all
<1>1. /\ DOMAIN q = 1..Len(q) /\ Len(q) \in Nat
      /\ DOMAIN all = 1..(Len(q) + Len(new)) /\ Len(new) \in Nat
      /\ \A i \in DOMAIN q : i \in DOMAIN all /\ all[i] = q[i]
  BY JoinElements DEF all
<1>2. \A i \in DOMAIN all : \A j \in DOMAIN q : i < j => i \in DOMAIN q
  BY <1>1
<1> QED BY <1>1, <1>2 DEF InOrder, all

-----------------------------------------------------------------------------
(* The messages the handlers build.                                        *)
LEMMA FunctionSeq ==
  ASSUME NEW S, NEW n \in Nat, NEW f \in [1..n -> S]
  PROVE  f \in Seq(S) /\ Len(f) = n /\ DOMAIN f = 1..n
<1>1. f \in Seq(S)
  BY SeqDef
<1>2. DOMAIN f = 1..n /\ DOMAIN f = 1..Len(f) /\ Len(f) \in Nat
  BY <1>1, LenProperties
<1> QED BY <1>1, <1>2

LEMMA MessageTypes ==
  ASSUME NEW d \in Directions
  PROVE  /\ \A len \in Seq(Nat) : Headers(d, len) \in Message
         /\ \A bytes \in Seq(Nat), eos \in BOOLEAN : Body(d, bytes, eos) \in Message
         /\ Trailers(d) \in Message
         /\ Immediate \in Message
         /\ NoLength \in Seq(Nat)
<1>1. <<>> \in Seq(Nat)
  OBVIOUS
<1> QED BY <1>1 DEF Headers, Body, Trailers, Immediate, Message, Directions, NoLength

(* Chunks: how many, and the bounds of each.                               *)
Chunks(n) == IF n = 0 THEN 1 ELSE (n + BodyByteLimit - 1) \div BodyByteLimit
ChunkEnd(n, i) == IF i = Chunks(n) THEN n ELSE i * BodyByteLimit

LEMMA ChunkBounds ==
  ASSUME NEW n \in Nat
  PROVE  /\ Chunks(n) \in Nat \ {0}
         /\ \A i \in 1..Chunks(n) :
              /\ (i - 1) * BodyByteLimit + 1 \in Nat \ {0}
              /\ ChunkEnd(n, i) \in 0..n
              /\ ChunkEnd(n, i) - (i - 1) * BodyByteLimit <= BodyByteLimit
<1> DEFINE L == BodyByteLimit
           k == (n + L - 1) \div L
<1>0. L \in Nat \ {0}
  BY ConfigAssumption
<1>1. CASE n = 0
  <2>1. Chunks(n) = 1
    BY <1>1 DEF Chunks
  <2> QED BY <1>0, <1>1, <2>1 DEF ChunkEnd
<1>2. CASE n # 0
  <2> HIDE DEF L
  <2>1. k \in Nat /\ k * L <= n + L - 1 /\ n + L - 1 < k * L + L
    BY <1>0
  <2> HIDE DEF k
  <2>2. k # 0
    BY <1>0, <1>2, <2>1
  <2>3. Chunks(n) = k
    BY <1>2 DEF Chunks, k, L
  <2>4. ASSUME NEW i \in 1..k
        PROVE  /\ (i - 1) * L \in Nat
               /\ i # k => i * L \in 0..n /\ i * L - (i - 1) * L = L
               /\ i = k => n - (i - 1) * L <= L
    <3>1. (i - 1) * L \in Nat /\ i * L = (i - 1) * L + L
      BY <1>0, <2>1
    <3>2. ASSUME i # k PROVE i * L \in 0..n
      <4>1. i <= k - 1
        BY <2>1, <3>2
      <4>2. i * L <= (k - 1) * L /\ (k - 1) * L = k * L - L
        BY <1>0, <2>1, <4>1
      <4> QED BY <1>0, <2>1, <3>1, <4>2
    <3>3. ASSUME i = k PROVE n - (i - 1) * L <= L
      BY <1>0, <2>1, <3>1, <3>3
    <3> QED BY <1>0, <3>1, <3>2, <3>3
  <2> QED BY <1>0, <2>1, <2>2, <2>3, <2>4 DEF ChunkEnd, L
<1> QED BY <1>1, <1>2

LEMMA ChunkedBody ==
  ASSUME NEW d \in Directions, NEW bytes \in Seq(Nat)
  PROVE  LET chunks == BuildChunkedBodyResponses(d, bytes)
         IN /\ chunks \in Seq(Message) /\ Len(chunks) \in Nat \ {0}
            /\ \A i \in DOMAIN chunks :
                 /\ chunks[i].type = "body" /\ chunks[i].dir = d
                 /\ chunks[i].eos <=> i = Len(chunks)
                 /\ Len(chunks[i].body) <= BodyByteLimit
<1> DEFINE n == Len(bytes)
           L == BodyByteLimit
           part(i) == SubSeq(bytes, (i - 1) * L + 1, ChunkEnd(n, i))
           chunk(i) == Body(d, part(i), i = Chunks(n))
           chunks == [i \in 1..Chunks(n) |-> chunk(i)]
<1>1. n \in Nat /\ L \in Nat \ {0} /\ Chunks(n) \in Nat \ {0}
  BY ChunkBounds, ConfigAssumption, LenProperties
<1>2. BuildChunkedBodyResponses(d, bytes) = chunks
  BY DEF BuildChunkedBodyResponses, Chunks, ChunkEnd
<1>3. ASSUME NEW i \in 1..Chunks(n) PROVE part(i) \in Seq(Nat) /\ Len(part(i)) <= L
  <2> DEFINE from == (i - 1) * L + 1
             to == ChunkEnd(n, i)
  <2>1. from \in Nat \ {0} /\ to \in 0..n /\ to - (from - 1) <= L
    BY <1>1, ChunkBounds
  <2> HIDE DEF from, to
  <2>2. \A j \in from..to : bytes[j] \in Nat
    BY <1>1, <2>1, ElementOfSeq
  <2>3. /\ SubSeq(bytes, from, to) \in Seq(Nat)
        /\ Len(SubSeq(bytes, from, to)) = IF from <= to THEN to - from + 1 ELSE 0
    BY <1>1, <2>1, <2>2, SubSeqProperties
  <2> QED BY <1>1, <2>1, <2>3 DEF from, to
<1>4. ASSUME NEW i \in 1..Chunks(n)
      PROVE  /\ chunk(i) \in Message
             /\ chunk(i).type = "body" /\ chunk(i).dir = d /\ chunk(i).body = part(i)
             /\ chunk(i).eos <=> i = Chunks(n)
  <2> HIDE DEF part
  <2>1. part(i) \in Seq(Nat)
    BY <1>3
  <2>2. (i = Chunks(n)) \in BOOLEAN
    OBVIOUS
  <2>3. chunk(i) \in Message
    BY <2>1, <2>2, MessageTypes
  <2> QED BY <2>3 DEF Body
<1>5. chunks \in [1..Chunks(n) -> Message]
  <2> HIDE DEF chunk
  <2> QED BY <1>4
<1>6. chunks \in Seq(Message) /\ Len(chunks) = Chunks(n) /\ DOMAIN chunks = 1..Chunks(n)
  <2> HIDE DEF chunks
  <2> QED BY <1>1, <1>5, FunctionSeq
<1>7. \A i \in DOMAIN chunks : chunks[i] = chunk(i)
  BY <1>6
<1> HIDE DEF chunks, chunk, part
<1> QED BY <1>1, <1>2, <1>3, <1>4, <1>6, <1>7

-----------------------------------------------------------------------------
(* What each kind of reply adds to what was said.                          *)
LEMMA SayNothing ==
  ASSUME NEW q
  PROVE  <<>> \in Seq(Message) /\ Continues(q, <<>>)
BY DEF Continues

LEMMA SayHeaders ==
  ASSUME NEW q \in Seq(Message), NEW d \in Directions, NEW len \in Seq(Nat), Plain(q), Silent(q, d)
  PROVE  LET new == <<Headers(d, len)>>
         IN /\ new \in Seq(Message) /\ Continues(q, new) /\ Plain(new)
            /\ \A e : e # d => Silent(new, e)
<1> DEFINE h == Headers(d, len)
<1>1. h \in Message /\ h.type = "headers" /\ h.dir = d
  BY MessageTypes DEF Headers
<1> HIDE DEF h
<1>2. <<h>> \in Seq(Message) /\ DOMAIN <<h>> = {1} /\ <<h>>[1] = h
  BY <1>1
<1>3. \A i \in DOMAIN q : MayFollow(q[i], h)
  BY <1>1 DEF MayFollow, Plain, Silent
<1>4. Continues(q, <<h>>)
  BY <1>1, <1>2, <1>3 DEF Continues
<1> QED BY <1>1, <1>2, <1>4 DEF h, Plain, Silent

LEMMA SayTrailers ==
  ASSUME NEW q \in Seq(Message), NEW d \in Directions, Plain(q)
  PROVE  LET new == <<Trailers(d)>>
         IN /\ new \in Seq(Message) /\ Continues(q, new) /\ Plain(new)
            /\ \A e : Silent(new, e) /\ Unfinished(new, e)
<1> DEFINE h == Trailers(d)
<1>1. h \in Message /\ h.type = "trailers"
  BY MessageTypes DEF Trailers
<1> HIDE DEF h
<1>2. <<h>> \in Seq(Message) /\ DOMAIN <<h>> = {1} /\ <<h>>[1] = h
  BY <1>1
<1>3. \A i \in DOMAIN q : MayFollow(q[i], h)
  BY <1>1 DEF MayFollow, Plain, IsAnswer
<1>4. Continues(q, <<h>>)
  BY <1>1, <1>2, <1>3 DEF Continues
<1> QED BY <1>1, <1>2, <1>4 DEF h, Plain, Silent, Unfinished, IsAnswer

LEMMA SayImmediate ==
  ASSUME NEW q \in Seq(Message), Plain(q)
  PROVE  <<Immediate>> \in Seq(Message) /\ Continues(q, <<Immediate>>)
<1>1. Immediate \in Message /\ Immediate.type = "immediate"
  BY MessageTypes DEF Immediate, Directions
<1>2. <<Immediate>> \in Seq(Message) /\ DOMAIN <<Immediate>> = {1} /\ <<Immediate>>[1] = Immediate
  BY <1>1
<1>3. \A i \in DOMAIN q : MayFollow(q[i], Immediate)
  BY <1>1 DEF MayFollow, Plain, IsAnswer
<1> QED BY <1>1, <1>2, <1>3 DEF Continues

LEMMA SayChunk ==
  ASSUME NEW q \in Seq(Message), NEW d \in Directions, NEW bytes \in Seq(Nat), NEW eos \in BOOLEAN,
         Plain(q), Opened(q, d), Unfinished(q, d)
  PROVE  LET new == <<Body(d, bytes, eos)>>
         IN /\ new \in Seq(Message) /\ Continues(q, new) /\ Plain(new)
            /\ \A e : e # d => Silent(new, e)
            /\ ~eos => Unfinished(new, d)
<1> DEFINE b == Body(d, bytes, eos)
<1>1. b \in Message /\ b.type = "body" /\ b.dir = d /\ b.eos = eos
  BY MessageTypes DEF Body
<1> HIDE DEF b
<1>2. <<b>> \in Seq(Message) /\ DOMAIN <<b>> = {1} /\ <<b>>[1] = b
  BY <1>1
<1>3. \A i \in DOMAIN q : MayFollow(q[i], b)
  BY <1>1 DEF MayFollow, Plain, Unfinished
<1>4. Continues(q, <<b>>)
  BY <1>1, <1>2, <1>3 DEF Continues
<1> QED BY <1>1, <1>2, <1>4 DEF b, Plain, Silent, Unfinished

(* The headers and all chunks of a direction: a whole body, or the first   *)
(* chunk of a streamed one.                                                *)
LEMMA SayWhole ==
  ASSUME NEW q \in Seq(Message), NEW d \in Directions, NEW len \in Seq(Nat), NEW chunks \in Seq(Message),
         Plain(q), Silent(q, d),
         \A i \in DOMAIN chunks :
            /\ chunks[i].type = "body" /\ chunks[i].dir = d
            /\ chunks[i].eos => i = Len(chunks)
  PROVE  LET new == <<Headers(d, len)>> \o chunks
         IN /\ new \in Seq(Message) /\ Continues(q, new) /\ Plain(new)
            /\ \A e : e # d => Silent(new, e)
            /\ Opened(new, d)
            /\ (\A i \in DOMAIN chunks : ~chunks[i].eos) => Unfinished(new, d)
<1> DEFINE h == Headers(d, len)
           new == <<h>> \o chunks
<1>1. h \in Message /\ h.type = "headers" /\ h.dir = d /\ h.eos = FALSE
  BY MessageTypes DEF Headers
<1> HIDE DEF h
<1>2. <<h>> \in Seq(Message) /\ DOMAIN <<h>> = {1} /\ <<h>>[1] = h /\ Len(<<h>>) = 1
  BY <1>1
<1> HIDE DEF new
<1>3. /\ new \in Seq(Message) /\ DOMAIN new = 1..(1 + Len(chunks)) /\ Len(chunks) \in Nat
      /\ DOMAIN chunks = 1..Len(chunks)
      /\ new[1] = h
      /\ \A k \in DOMAIN new : k # 1 => k - 1 \in DOMAIN chunks /\ new[k] = chunks[k - 1]
  <2>1. /\ <<h>> \o chunks \in Seq(Message) /\ Len(<<h>> \o chunks) = 1 + Len(chunks)
        /\ \A i \in 1 .. 1 + Len(chunks) :
             (<<h>> \o chunks)[i] = IF i <= 1 THEN <<h>>[i] ELSE chunks[i - 1]
    BY <1>2, ConcatProperties
  <2>2. Len(chunks) \in Nat /\ DOMAIN chunks = 1..Len(chunks)
    BY LenProperties
  <2>3. new \in Seq(Message) /\ DOMAIN new = 1..(1 + Len(chunks))
    BY <2>1, <2>2, LenProperties DEF new
  <2>4. \A i \in 1 .. 1 + Len(chunks) : new[i] = IF i <= 1 THEN h ELSE chunks[i - 1]
    BY <1>2, <2>1 DEF new
  <2> QED BY <2>2, <2>3, <2>4
<1>4. \A k \in DOMAIN new :
        /\ new[k].dir = d /\ (k = 1 => new[k].type = "headers" /\ ~new[k].eos)
        /\ k # 1 => new[k].type = "body" /\ (new[k].eos => k = 1 + Len(chunks))
  BY <1>1, <1>3
<1>5. \A i \in DOMAIN q, k \in DOMAIN new : MayFollow(q[i], new[k])
  BY <1>4 DEF MayFollow, Plain, Silent
<1>6. \A i, k \in DOMAIN new : i < k => MayFollow(new[i], new[k])
  BY <1>3, <1>4 DEF MayFollow
<1>7. 1 \in DOMAIN new /\ Opens(new[1], d)
  BY <1>3, <1>4 DEF Opens
<1>8. \A k \in DOMAIN new : new[k].type = "body" => \E i \in DOMAIN new : i < k /\ Opens(new[i], new[k].dir)
  <2>1. \A k \in DOMAIN new : new[k].type = "body" => k # 1 /\ k > 1
    BY <1>3, <1>4
  <2> QED BY <1>4, <1>7, <2>1
<1>9. Continues(q, new)
  BY <1>5, <1>6, <1>8 DEF Continues
<1>10. Plain(new) /\ (\A e : e # d => Silent(new, e)) /\ Opened(new, d)
  BY <1>4, <1>7 DEF Plain, Silent, Opened
<1>11. (\A i \in DOMAIN chunks : ~chunks[i].eos) => Unfinished(new, d)
  BY <1>1, <1>3 DEF Unfinished
<1> QED BY <1>3, <1>9, <1>10, <1>11 DEF h, new

-----------------------------------------------------------------------------
(* The stages that handlers add to the trace.                              *)
LEMMA Ranks ==
  /\ Rank("preProcessors") = 1 /\ Rank("profilePicker") = 2 /\ Rank("requestPlugins") = 3
  /\ Rank("RequestEvent") = 4 /\ Rank("headerProcessors") = 5 /\ Rank("chunkProcessors") = 6
  /\ Rank("responsePlugins") = 6 /\ Rank("postProcessors") = 7 /\ Rank("ResponseEvent") = 8
  /\ \A x \in Stages : Rank(x) \in 1..8
BY DEF Rank, Stages

Sorted(stages) ==
    /\ stages \in Seq(Stages)
    /\ \A i, j \in DOMAIN stages : i < j => Rank(stages[i]) < Rank(stages[j])

LEMMA SortedStages ==
  /\ Sorted(<<>>)
  /\ \A a \in Stages : Sorted(<<a>>)
  /\ \A a, b \in Stages : Rank(a) < Rank(b) => Sorted(<<a, b>>)
  /\ \A a, b, c \in Stages : Rank(a) < Rank(b) /\ Rank(b) < Rank(c) => Sorted(<<a, b, c>>)
  /\ \A a, b, c, d \in Stages :
        Rank(a) < Rank(b) /\ Rank(b) < Rank(c) /\ Rank(c) < Rank(d) => Sorted(<<a, b, c, d>>)
<1>1. Sorted(<<>>) /\ \A a \in Stages : Sorted(<<a>>)
  BY DEF Sorted
<1>2. ASSUME NEW a \in Stages, NEW b \in Stages, Rank(a) < Rank(b) PROVE Sorted(<<a, b>>)
  BY <1>2 DEF Sorted
<1>3. ASSUME NEW a \in Stages, NEW b \in Stages, NEW c \in Stages,
             Rank(a) < Rank(b), Rank(b) < Rank(c)
      PROVE  Sorted(<<a, b, c>>)
  BY <1>3, Ranks DEF Sorted
<1>4. ASSUME NEW a \in Stages, NEW b \in Stages, NEW c \in Stages, NEW d \in Stages,
             Rank(a) < Rank(b), Rank(b) < Rank(c), Rank(c) < Rank(d)
      PROVE  Sorted(<<a, b, c, d>>)
  BY <1>4, Ranks DEF Sorted
<1> QED BY <1>1, <1>2, <1>3, <1>4

LEMMA TraceGrows ==
  ASSUME trace \in Seq(Stages), StagesInOrder, NEW stages, Sorted(stages),
         \A i \in DOMAIN trace, j \in DOMAIN stages :
            \/ Rank(trace[i]) < Rank(stages[j])
            \/ trace[i] = "chunkProcessors" /\ stages[j] = "chunkProcessors",
         trace' = trace \o stages
  PROVE  /\ trace' \in Seq(Stages) /\ StagesInOrder'
         /\ \A k \in DOMAIN trace' : \/ \E i \in DOMAIN trace : trace'[k] = trace[i]
                                     \/ \E j \in DOMAIN stages : trace'[k] = stages[j]
<1>1. /\ trace' \in Seq(Stages)
      /\ Len(trace) \in Nat /\ DOMAIN trace = 1..Len(trace)
      /\ DOMAIN stages = 1..Len(stages) /\ Len(stages) \in Nat
      /\ DOMAIN trace' = 1..(Len(trace) + Len(stages))
      /\ \A i \in DOMAIN trace : trace'[i] = trace[i]
      /\ \A k \in DOMAIN trace' :
           \/ k \in DOMAIN trace
           \/ k > Len(trace) /\ k - Len(trace) \in DOMAIN stages
              /\ trace'[k] = stages[k - Len(trace)]
  BY JoinElements DEF Sorted
<1>2. ASSUME NEW i \in DOMAIN trace', NEW j \in DOMAIN trace', i < j
      PROVE  \/ Rank(trace'[i]) < Rank(trace'[j])
             \/ trace'[i] = "chunkProcessors" /\ trace'[j] = "chunkProcessors"
  <2>1. CASE j \in DOMAIN trace
    <3>1. i \in DOMAIN trace
      BY <1>1, <1>2, <2>1
    <3> QED BY <1>1, <1>2, <2>1, <3>1 DEF StagesInOrder
  <2>2. CASE i \in DOMAIN trace /\ j \notin DOMAIN trace
    BY <1>1, <2>2
  <2>3. CASE i \notin DOMAIN trace /\ j \notin DOMAIN trace
    <3>1. /\ i - Len(trace) \in DOMAIN stages /\ j - Len(trace) \in DOMAIN stages
          /\ i - Len(trace) < j - Len(trace)
          /\ trace'[i] = stages[i - Len(trace)] /\ trace'[j] = stages[j - Len(trace)]
      BY <1>1, <1>2, <2>3
    <3> QED BY <3>1 DEF Sorted
  <2> QED BY <2>1, <2>2, <2>3
<1>3. StagesInOrder'
  BY <1>2 DEF StagesInOrder
<1>4. \A k \in DOMAIN trace' : \/ \E i \in DOMAIN trace : trace'[k] = trace[i]
                              \/ \E j \in DOMAIN stages : trace'[k] = stages[j]
  BY <1>1
<1> QED BY <1>1, <1>3, <1>4

-----------------------------------------------------------------------------
(* The inductive invariant.                                                *)
DataType ==
    /\ server \in Servers
    /\ requestBody \in Seq(Nat) /\ responseBody \in Seq(Nat)
    /\ profile \in Profiles \cup {emptyProfile}
    /\ toSend \in Seq(Message) /\ out \in Seq(Message)
    /\ status \in {"open", "closing", "ended", "failed"}
    /\ trace \in Seq(Stages)
Flags ==
    /\ requestBodyComplete \in BOOLEAN /\ responseBodyComplete \in BOOLEAN
    /\ headersSent \in BOOLEAN
IInv == DataType /\ Flags /\ EnvoyType /\ FlowInv /\ SaidInv /\ TraceInv

(* What a reply adds to what was said.                                     *)
LEMMA Speak ==
  ASSUME DataType, SaidInv, AtRecv, NEW new \in Seq(Message), Continues(out, new),
         toSend' = new, out' = out
  PROVE  /\ toSend' \in Seq(Message) /\ out' \in Seq(Message) /\ InOrder(Said)'
         /\ Plain(Said) /\ (Plain(new) => Plain(Said)')
         /\ \A d : Silent(Said, d) /\ Silent(new, d) => Silent(Said, d)'
         /\ \A d : Opened(Said, d) \/ Opened(new, d) => Opened(Said, d)'
         /\ \A d : Unfinished(Said, d) /\ Unfinished(new, d) => Unfinished(Said, d)'
         /\ Said = out
<1>1. out \in Seq(Message) /\ Said = out
  BY ConcatEmptySeq DEF DataType, AtRecv, Said
<1>2. Said' = out \o new
  BY DEF Said
<1>3. InOrder(out) /\ Plain(out)
  BY <1>1 DEF SaidInv, AtRecv
<1>4. InOrder(out \o new)
  BY <1>1, <1>3, JoinInOrder
<1>5. InOrder(Said)'
  BY <1>2, <1>4 DEF InOrder
<1>6. /\ Plain(new) => Plain(out \o new)
      /\ \A d : Silent(out, d) /\ Silent(new, d) => Silent(out \o new, d)
      /\ \A d : Opened(out, d) \/ Opened(new, d) => Opened(out \o new, d)
      /\ \A d : Unfinished(out, d) /\ Unfinished(new, d) => Unfinished(out \o new, d)
  BY <1>1, <1>3, JoinMeans
<1>7. Plain(new) => Plain(Said)'
  BY <1>2, <1>6 DEF Plain
<1>8. \A d : Silent(Said, d) /\ Silent(new, d) => Silent(Said, d)'
  BY <1>1, <1>2, <1>6 DEF Silent
<1>9. \A d : Opened(Said, d) \/ Opened(new, d) => Opened(Said, d)'
  BY <1>1, <1>2, <1>6 DEF Opened
<1>10. \A d : Unfinished(Said, d) /\ Unfinished(new, d) => Unfinished(Said, d)'
  BY <1>1, <1>2, <1>6 DEF Unfinished
<1> QED BY <1>1, <1>3, <1>5, <1>7, <1>8, <1>9, <1>10

(* A reply with nothing new leaves what was said as it is.                 *)
LEMMA SaidSame ==
  ASSUME Said' = Said
  PROVE  /\ InOrder(Said)' = InOrder(Said) /\ Plain(Said)' = Plain(Said)
         /\ \A d : Silent(Said, d)' = Silent(Said, d)
         /\ \A d : Opened(Said, d)' = Opened(Said, d)
         /\ \A d : Unfinished(Said, d)' = Unfinished(Said, d)
BY DEF InOrder, Plain, Silent, Opened, Unfinished

(* A handler's error: an immediate response or none ends what is said.     *)
LEMMA ErrKeeps ==
  ASSUME DataType, SaidInv, AtRecv, NEW err, BuildErrResponse(err), out' = out
  PROVE  /\ toSend' \in Seq(Message) /\ out' \in Seq(Message)
         /\ status' \in {"closing", "failed"} /\ SaidInv'
<1>1. out \in Seq(Message) /\ Said = out /\ Plain(out)
  BY ConcatEmptySeq DEF DataType, AtRecv, Said, SaidInv
<1>2. CASE toSend' = <<Immediate>> /\ status' = "closing"
  <2>1. <<Immediate>> \in Seq(Message) /\ Continues(out, <<Immediate>>)
    BY <1>1, SayImmediate
  <2>2. InOrder(Said)' /\ toSend' \in Seq(Message) /\ out' \in Seq(Message)
    BY <1>2, <2>1, Speak
  <2> QED BY <1>2, <2>2 DEF SaidInv
<1>3. CASE toSend' = <<>> /\ status' = "failed"
  <2>1. <<>> \in Seq(Message) /\ Continues(out, <<>>)
    BY SayNothing
  <2>2. InOrder(Said)' /\ toSend' \in Seq(Message) /\ out' \in Seq(Message)
    BY <1>3, <2>1, Speak
  <2> QED BY <1>3, <2>2 DEF SaidInv
<1> QED BY <1>2, <1>3 DEF BuildErrResponse

-----------------------------------------------------------------------------
(* Envoy's side of a step.                                                 *)
LEMMA StateMoves ==
  ASSUME EnvoyType, NEW dir \in Directions,
         NEW state \in {"start", "body", "eos", "trailers", "dropped"}, EnvoyState(dir, state)
  PROVE  /\ EnvoyType'
         /\ envoy'.state = [envoy.state EXCEPT ![dir] = state]
         /\ envoy'.chunks = envoy.chunks /\ envoy'.sent = envoy.sent /\ envoy'.got = envoy.got
BY DEF EnvoyType, EnvoyState

LEMMA ChunkArrives ==
  ASSUME EnvoyType, NEW dir \in Directions, NEW chunk \in Seq(Nat), NEW eos \in BOOLEAN,
         EnvoyChunk(dir, chunk, eos)
  PROVE  /\ EnvoyType'
         /\ envoy'.state = [envoy.state EXCEPT ![dir] = IF eos THEN "eos" ELSE "body"]
         /\ envoy'.chunks = [envoy.chunks EXCEPT ![dir] = @ + 1]
         /\ envoy.state[dir] = "body" /\ AtRecv
<1> Len(chunk) \in Nat
  BY LenProperties
<1>1. envoy.state[dir] = "body" /\ AtRecv
  BY DEF EnvoyChunk
<1>2. /\ envoy'.state = [envoy.state EXCEPT ![dir] = IF eos THEN "eos" ELSE "body"]
      /\ envoy'.chunks = [envoy.chunks EXCEPT ![dir] = @ + 1]
  BY DEF EnvoyType, EnvoyChunk
<1>3. /\ envoy'.sent = [envoy.sent EXCEPT ![dir] = @ + Len(chunk)]
      /\ envoy'.last = [envoy.last EXCEPT ![dir] = IF eos THEN chunk ELSE @]
      /\ envoy' = [envoy EXCEPT !.state = envoy'.state, !.sent = envoy'.sent,
                                !.chunks = envoy'.chunks, !.last = envoy'.last]
  BY DEF EnvoyType, EnvoyChunk
<1>4. EnvoyType'
  <2>1. envoy'.state \in [Directions -> {"start", "body", "eos", "trailers", "dropped"}]
    BY <1>2 DEF EnvoyType
  <2>2. envoy'.chunks \in [Directions -> Nat] /\ envoy'.sent \in [Directions -> Nat]
    BY <1>2, <1>3 DEF EnvoyType
  <2>3. envoy'.last \in [Directions -> Seq(Nat)]
    BY <1>3 DEF EnvoyType
  <2> QED BY <1>3, <2>1, <2>2, <2>3 DEF EnvoyType
<1> QED BY <1>1, <1>2, <1>4

LEMMA ChunkCounted ==
  ASSUME EnvoyType, NEW dir \in Directions, NEW chunk \in Seq(Nat), NEW eos \in BOOLEAN,
         EnvoyChunk(dir, chunk, eos)
  PROVE  /\ envoy'.got = envoy.got
         /\ envoy'.sent[dir] = envoy.sent[dir] + Len(chunk)
         /\ \A d \in Directions \ {dir} : envoy'.sent[d] = envoy.sent[d]
<1>1. envoy' = [envoy EXCEPT !.state[dir] = IF eos THEN "eos" ELSE @,
                             !.sent[dir] = @ + Len(chunk),
                             !.chunks[dir] = @ + 1,
                             !.last[dir] = IF eos THEN chunk ELSE @]
  BY DEF EnvoyChunk
<1>2. envoy'.got = envoy.got /\ envoy'.sent = [envoy.sent EXCEPT ![dir] = @ + Len(chunk)]
  BY <1>1 DEF EnvoyType
<1> QED BY <1>2 DEF EnvoyType

LEMMA NextChunkType ==
  ASSUME EnvoyType, NEW dir \in Directions, NEW chunk \in NextChunks(dir)
  PROVE  chunk \in Seq(Nat)
<1>1. envoy.sent[dir] \in Nat
  BY DEF EnvoyType
<1>2. PICK n \in ChunkLens : chunk = [i \in 1..n |-> envoy.sent[dir] + i]
  BY DEF NextChunks
<1>3. n \in Nat
  BY BoundAssumption
<1>4. chunk \in [1..n -> Nat]
  BY <1>1, <1>2, <1>3
<1> QED BY <1>3, <1>4, FunctionSeq

LEMMA MutatedType ==
  ASSUME NEW n \in MutatedLens
  PROVE  Mutated(n) \in Seq(Nat) /\ n \in Nat
<1>1. n \in Nat
  BY BoundAssumption
<1>2. Mutated(n) \in [1..n -> Nat]
  BY <1>1 DEF Mutated
<1> QED BY <1>1, <1>2, FunctionSeq

-----------------------------------------------------------------------------
(* The request's side.                                                     *)
LEMMA RequestHeadersKeeps ==
  ASSUME IInv, NEW eos \in BOOLEAN, RequestHeaders(eos)
  PROVE  IInv'
<1> DEFINE new == IF eos THEN <<Headers("req", NoLength)>> ELSE <<>>
<1> USE DEF IInv
<1>0. /\ AtRecv /\ toSend' = new /\ status' = status /\ out' = out /\ trace' = trace
      /\ server' = server /\ UNCHANGED reqCtx /\ envoy.state["req"] = "start"
  BY DEF RequestHeaders, HandleRequestHeaders, Reply
<1>1. /\ EnvoyType' /\ envoy'.chunks = envoy.chunks
      /\ envoy'.state = [envoy.state EXCEPT !["req"] = IF eos THEN "eos" ELSE "body"]
  BY StateMoves DEF RequestHeaders, Directions
<1>2. /\ envoy'.state["req"] = (IF eos THEN "eos" ELSE "body")
      /\ envoy'.state["resp"] = envoy.state["resp"] /\ envoy.state["resp"] = "start"
      /\ envoy.chunks["req"] = 0
  BY <1>0, <1>1 DEF EnvoyType, Directions, FlowInv, Over
<1>3. out \in Seq(Message) /\ Said = out /\ Plain(out) /\ Silent(out, "req")
  BY <1>0, ConcatEmptySeq DEF DataType, AtRecv, Said, SaidInv, Over
<1>4. /\ new \in Seq(Message) /\ Continues(out, new) /\ Plain(new)
      /\ Silent(new, "resp") /\ (~eos => Silent(new, "req"))
  <2>1. CASE eos
    BY <1>3, <2>1, SayHeaders, MessageTypes DEF Directions
  <2>2. CASE ~eos
    BY <2>2, SayNothing DEF Plain, Silent
  <2> QED BY <2>1, <2>2
<1> HIDE DEF new
<1>5. /\ toSend' \in Seq(Message) /\ out' \in Seq(Message) /\ InOrder(Said)' /\ Plain(Said)'
      /\ (Silent(Said, "resp") => Silent(Said, "resp")')
      /\ (~eos => Silent(Said, "req")')
  BY <1>0, <1>3, <1>4, Speak
<1>6. DataType'
  BY <1>0, <1>5 DEF DataType, reqCtx, Profiles
<1>7. Flags'
  BY <1>0 DEF Flags, reqCtx
<1>8. FlowInv'
  BY <1>0, <1>1, <1>2 DEF FlowInv, Over, Complete, reqCtx, Directions, EnvoyType
<1>9. SaidInv'
  BY <1>0, <1>2, <1>5 DEF SaidInv, Over, reqCtx, AtRecv
<1>10. TraceInv'
  BY <1>0, <1>2 DEF TraceInv, StagesInOrder, Over
<1> QED BY <1>1, <1>6, <1>7, <1>8, <1>9, <1>10

LEMMA RequestTrailersKeeps ==
  ASSUME IInv, RequestTrailers
  PROVE  IInv'
<1> USE DEF IInv
<1>0. /\ AtRecv /\ toSend' = <<Trailers("req")>> /\ status' = status /\ out' = out /\ trace' = trace
      /\ server' = server /\ UNCHANGED reqCtx /\ envoy.state["req"] = "body"
  BY DEF RequestTrailers, HandleTrailers, Reply
<1>1. /\ EnvoyType' /\ envoy'.chunks = envoy.chunks
      /\ envoy'.state = [envoy.state EXCEPT !["req"] = "trailers"]
  BY StateMoves DEF RequestTrailers, Directions
<1>2. /\ envoy'.state["req"] = "trailers"
      /\ envoy'.state["resp"] = envoy.state["resp"] /\ envoy.state["resp"] = "start"
  BY <1>0, <1>1 DEF EnvoyType, Directions, FlowInv, Over
<1>3. out \in Seq(Message) /\ Plain(out)
  BY <1>0, ConcatEmptySeq DEF DataType, AtRecv, Said, SaidInv
<1>4. /\ <<Trailers("req")>> \in Seq(Message) /\ Continues(out, <<Trailers("req")>>)
      /\ Plain(<<Trailers("req")>>) /\ Silent(<<Trailers("req")>>, "resp")
  BY <1>3, SayTrailers DEF Directions
<1>5. /\ toSend' \in Seq(Message) /\ out' \in Seq(Message) /\ InOrder(Said)' /\ Plain(Said)'
      /\ (Silent(Said, "resp") => Silent(Said, "resp")')
  BY <1>0, <1>4, Speak
<1>6. DataType'
  BY <1>0, <1>5 DEF DataType, reqCtx, Profiles
<1>7. Flags'
  BY <1>0 DEF Flags, reqCtx
<1>8. FlowInv'
  BY <1>0, <1>1, <1>2 DEF FlowInv, Over, Complete, reqCtx, Directions, EnvoyType
<1>9. SaidInv'
  BY <1>0, <1>2, <1>5 DEF SaidInv, Over, reqCtx, AtRecv
<1>10. TraceInv'
  BY <1>0, <1>2 DEF TraceInv, StagesInOrder, Over
<1> QED BY <1>1, <1>6, <1>7, <1>8, <1>9, <1>10

(* A chunk delivered once more finds the direction complete.               *)
LEMMA RedeliveryIgnored ==
  ASSUME IInv, NEW dir \in Directions, EnvoyRedelivers(dir),
         UNCHANGED <<reqCtx, trace, toSend, status, server, out>>
  PROVE  IInv'
<1> USE DEF IInv
<1>1. EnvoyType' /\ envoy'.state = envoy.state /\ envoy'.chunks = envoy.chunks
  <2>1. envoy' = [envoy EXCEPT !.dups = @ + 1]
    BY DEF EnvoyRedelivers
  <2>2. envoy.dups \in Nat
    BY DEF EnvoyType
  <2>3. envoy.dups + 1 \in Nat
    BY <2>2
  <2> QED BY <2>1, <2>3 DEF EnvoyType
<1>2. DataType'
  BY DEF DataType, reqCtx, Profiles
<1>3. Flags'
  BY DEF Flags, reqCtx
<1>4. FlowInv'
  BY <1>1 DEF FlowInv, Over, Complete, reqCtx
<1>5. SaidInv'
  <2>1. Said' = Said
    BY DEF Said
  <2> QED BY <1>1, <2>1, SaidSame DEF SaidInv, Over, reqCtx
<1>6. TraceInv'
  BY <1>1 DEF TraceInv, StagesInOrder, Over, reqCtx
<1> QED BY <1>1, <1>2, <1>3, <1>4, <1>5, <1>6

LEMMA RedeliveredKeeps ==
  ASSUME IInv, RequestBodyRedelivered \/ ResponseBodyRedelivered
  PROVE  IInv'
<1>1. CASE RequestBodyRedelivered
  <2>1. requestBodyComplete
    BY <1>1 DEF RequestBodyRedelivered, EnvoyRedelivers, IInv, FlowInv, Complete, Directions
  <2>2. UNCHANGED <<reqCtx, trace, toSend, status, server, out>>
    BY <1>1, <2>1 DEF RequestBodyRedelivered, ProcessRequestBody
  <2> QED BY <1>1, <2>2, RedeliveryIgnored DEF RequestBodyRedelivered, Directions
<1>2. CASE ResponseBodyRedelivered
  <2>1. responseBodyComplete
    BY <1>2 DEF ResponseBodyRedelivered, EnvoyRedelivers, IInv, FlowInv, Complete, Directions
  <2>2. UNCHANGED <<reqCtx, trace, toSend, status, server, out>>
    BY <1>2, <2>1 DEF ResponseBodyRedelivered, ProcessResponseBody
  <2> QED BY <1>2, <2>2, RedeliveryIgnored DEF ResponseBodyRedelivered, Directions
<1> QED BY <1>1, <1>2

(* The stages of the request, in their order.                              *)
RequestStages ==
    {<<>>, <<"preProcessors">>, <<"preProcessors", "profilePicker">>,
     <<"preProcessors", "profilePicker", "requestPlugins">>,
     <<"preProcessors", "profilePicker", "requestPlugins", "RequestEvent">>}

LEMMA RequestTrace ==
  ASSUME trace = <<>>, NEW stages \in RequestStages, trace' = trace \o stages
  PROVE  /\ trace' \in Seq(Stages) /\ StagesInOrder'
         /\ \A i \in DOMAIN trace' : Rank(trace'[i]) <= 4
<1>0. {"preProcessors", "profilePicker", "requestPlugins", "RequestEvent"} \subseteq Stages
  BY DEF Stages
<1>1. Sorted(stages) /\ \A j \in DOMAIN stages : Rank(stages[j]) <= 4
  <2>1. CASE stages = <<>>
    BY <2>1, SortedStages
  <2>2. CASE stages = <<"preProcessors">>
    <3>1. Sorted(<<"preProcessors">>)
      BY <1>0, SortedStages
    <3>2. \A j \in 1..1 : Rank(<<"preProcessors">>[j]) <= 4
      BY Ranks
    <3> QED BY <2>2, <3>1, <3>2
  <2>3. CASE stages = <<"preProcessors", "profilePicker">>
    <3>1. Sorted(<<"preProcessors", "profilePicker">>)
      BY <1>0, SortedStages, Ranks
    <3>2. \A j \in 1..2 : Rank(<<"preProcessors", "profilePicker">>[j]) <= 4
      BY Ranks
    <3> QED BY <2>3, <3>1, <3>2
  <2>4. CASE stages = <<"preProcessors", "profilePicker", "requestPlugins">>
    <3>1. Sorted(<<"preProcessors", "profilePicker", "requestPlugins">>)
      BY <1>0, SortedStages, Ranks
    <3>2. \A j \in 1..3 : Rank(<<"preProcessors", "profilePicker", "requestPlugins">>[j]) <= 4
      BY Ranks
    <3> QED BY <2>4, <3>1, <3>2
  <2>5. CASE stages = <<"preProcessors", "profilePicker", "requestPlugins", "RequestEvent">>
    <3>1. Sorted(<<"preProcessors", "profilePicker", "requestPlugins", "RequestEvent">>)
      BY <1>0, SortedStages, Ranks
    <3>2. \A j \in 1..4 :
            Rank(<<"preProcessors", "profilePicker", "requestPlugins", "RequestEvent">>[j]) <= 4
      BY Ranks
    <3> QED BY <2>5, <3>1, <3>2
  <2> QED BY <2>1, <2>2, <2>3, <2>4, <2>5 DEF RequestStages
<1>2. trace \in Seq(Stages) /\ StagesInOrder /\ DOMAIN trace = {}
  BY DEF StagesInOrder
<1>3. /\ trace' \in Seq(Stages) /\ StagesInOrder'
      /\ \A k \in DOMAIN trace' : \/ \E i \in DOMAIN trace : trace'[k] = trace[i]
                                  \/ \E j \in DOMAIN stages : trace'[k] = stages[j]
  BY <1>1, <1>2, TraceGrows
<1> QED BY <1>1, <1>2, <1>3

LEMMA AppendTuples ==
  ASSUME NEW a, NEW b, NEW c, NEW e
  PROVE  /\ Append(<<>>, a) = <<a>>
         /\ Append(<<a>>, b) = <<a, b>>
         /\ Append(<<a, b>>, c) = <<a, b, c>>
         /\ Append(<<a, b, c>>, e) = <<a, b, c, e>>
<1> DEFINE S == {a, b, c, e}
<1>0. a \in S /\ b \in S /\ c \in S /\ e \in S
  OBVIOUS
<1> HIDE DEF S
<1>1. Append(<<>>, a) = <<a>>
  OBVIOUS
<1>2. Append(<<a>>, b) = <<a, b>>
  <2>1. /\ <<a>> \in Seq(S) /\ Len(<<a>>) = 1
        /\ <<a, b>> \in Seq(S) /\ Len(<<a, b>>) = 2
    BY <1>0
  <2>2. /\ Append(<<a>>, b) \in Seq(S) /\ Len(Append(<<a>>, b)) = 2
        /\ \A i \in 1..1 : Append(<<a>>, b)[i] = <<a>>[i]
        /\ Append(<<a>>, b)[2] = b
    BY <1>0, <2>1, AppendProperties
  <2>3. \A i \in 1..2 : Append(<<a>>, b)[i] = <<a, b>>[i]
    BY <2>2
  <2> QED BY <2>1, <2>2, <2>3, SeqEqual
<1>3. Append(<<a, b>>, c) = <<a, b, c>>
  <2>1. /\ <<a, b>> \in Seq(S) /\ Len(<<a, b>>) = 2
        /\ <<a, b, c>> \in Seq(S) /\ Len(<<a, b, c>>) = 3
    BY <1>0
  <2>2. /\ Append(<<a, b>>, c) \in Seq(S) /\ Len(Append(<<a, b>>, c)) = 3
        /\ \A i \in 1..2 : Append(<<a, b>>, c)[i] = <<a, b>>[i]
        /\ Append(<<a, b>>, c)[3] = c
    BY <1>0, <2>1, AppendProperties
  <2>3. \A i \in 1..3 : Append(<<a, b>>, c)[i] = <<a, b, c>>[i]
    BY <2>2
  <2> QED BY <2>1, <2>2, <2>3, SeqEqual
<1>4. Append(<<a, b, c>>, e) = <<a, b, c, e>>
  <2>1. /\ <<a, b, c>> \in Seq(S) /\ Len(<<a, b, c>>) = 3
        /\ <<a, b, c, e>> \in Seq(S) /\ Len(<<a, b, c, e>>) = 4
    BY <1>0
  <2>2. /\ Append(<<a, b, c>>, e) \in Seq(S) /\ Len(Append(<<a, b, c>>, e)) = 4
        /\ \A i \in 1..3 : Append(<<a, b, c>>, e)[i] = <<a, b, c>>[i]
        /\ Append(<<a, b, c>>, e)[4] = e
    BY <1>0, <2>1, AppendProperties
  <2>3. \A i \in 1..4 : Append(<<a, b, c>>, e)[i] = <<a, b, c, e>>[i]
    BY <2>2
  <2> QED BY <2>1, <2>2, <2>3, SeqEqual
<1> QED BY <1>1, <1>2, <1>3, <1>4

LEMMA HandleRequestBodyKeeps ==
  ASSUME DataType, SaidInv, AtRecv, ~Over("req"), envoy.state["resp"] = "start",
         Over("req")', envoy'.state["resp"] = "start", trace = <<>>,
         NEW bytes \in Seq(Nat), HandleRequestBody(bytes), out' = out, server' = server,
         headersSent' = headersSent
  PROVE  /\ toSend' \in Seq(Message) /\ out' \in Seq(Message) /\ SaidInv'
         /\ status' \in {"open", "closing", "failed"}
         /\ profile' \in Profiles \cup {emptyProfile}
         /\ \E stages \in RequestStages : trace' = trace \o stages
<1>1. CASE /\ profile' \in Profiles \cup {emptyProfile}
           /\ \E stages \in RequestStages, err \in Errors : RequestBodyFails(stages, err)
  <2>1. PICK stages \in RequestStages, err \in Errors : RequestBodyFails(stages, err)
    BY <1>1
  <2>2. BuildErrResponse(err) /\ trace' = trace \o stages
    BY <2>1 DEF RequestBodyFails
  <2>3. /\ toSend' \in Seq(Message) /\ out' \in Seq(Message)
        /\ status' \in {"closing", "failed"} /\ SaidInv'
    BY <2>2, ErrKeeps
  <2> QED BY <1>1, <2>2, <2>3
<1>2. CASE \E p \in Profiles, sent \in {bytes} \cup {Mutated(n) : n \in MutatedLens \ {0}} :
              /\ profile' = p
              /\ trace' = trace \o <<"preProcessors", "profilePicker", "requestPlugins", "RequestEvent">>
              /\ Reply(<<Headers("req", <<Len(sent)>>)>> \o BuildChunkedBodyResponses("req", sent))
  <2>1. PICK p \in Profiles, sent \in {bytes} \cup {Mutated(n) : n \in MutatedLens \ {0}} :
              /\ profile' = p
              /\ trace' = trace \o <<"preProcessors", "profilePicker", "requestPlugins", "RequestEvent">>
              /\ Reply(<<Headers("req", <<Len(sent)>>)>> \o BuildChunkedBodyResponses("req", sent))
    BY <1>2
  <2>2. sent \in Seq(Nat) /\ <<Len(sent)>> \in Seq(Nat)
    <3>1. sent \in Seq(Nat)
      BY MutatedType
    <3> QED BY <3>1, LenProperties
  <2> DEFINE chunks == BuildChunkedBodyResponses("req", sent)
             new == <<Headers("req", <<Len(sent)>>)>> \o chunks
  <2> HIDE DEF chunks
  <2>3. /\ chunks \in Seq(Message)
        /\ \A i \in DOMAIN chunks :
             /\ chunks[i].type = "body" /\ chunks[i].dir = "req"
             /\ chunks[i].eos => i = Len(chunks)
    BY <2>2, ChunkedBody DEF chunks, Directions
  <2>4. out \in Seq(Message) /\ Said = out /\ Plain(out) /\ Silent(out, "req")
    BY ConcatEmptySeq DEF DataType, AtRecv, Said, SaidInv
  <2>5. new \in Seq(Message) /\ Continues(out, new) /\ Plain(new) /\ Silent(new, "resp")
    BY <2>2, <2>3, <2>4, SayWhole DEF Directions
  <2>6. toSend' = new /\ status' = status
    BY <2>1 DEF Reply, chunks
  <2> HIDE DEF new
  <2>7. /\ toSend' \in Seq(Message) /\ out' \in Seq(Message) /\ InOrder(Said)' /\ Plain(Said)'
        /\ (Silent(Said, "resp") => Silent(Said, "resp")')
    BY <2>5, <2>6, Speak
  <2>8. SaidInv'
    BY <2>6, <2>7 DEF SaidInv, AtRecv
  <2>9. <<"preProcessors", "profilePicker", "requestPlugins", "RequestEvent">> \in RequestStages
    BY DEF RequestStages
  <2> QED BY <2>1, <2>6, <2>7, <2>8, <2>9 DEF AtRecv
<1>3. profile \in Profiles \cup {emptyProfile}
  BY DEF DataType
<1>4. /\ Append(<<"preProcessors">>, "profilePicker") = <<"preProcessors", "profilePicker">>
      /\ Append(<<"preProcessors", "profilePicker">>, "requestPlugins")
            = <<"preProcessors", "profilePicker", "requestPlugins">>
      /\ Append(<<"preProcessors", "profilePicker", "requestPlugins">>, "RequestEvent")
            = <<"preProcessors", "profilePicker", "requestPlugins", "RequestEvent">>
  <2> DEFINE a == "preProcessors"
             b == "profilePicker"
             c == "requestPlugins"
             e == "RequestEvent"
  <2> HIDE DEF a, b, c, e
  <2>1. /\ Append(<<a>>, b) = <<a, b>>
        /\ Append(<<a, b>>, c) = <<a, b, c>>
        /\ Append(<<a, b, c>>, e) = <<a, b, c, e>>
    BY AppendTuples
  <2> QED BY <2>1, Zenon DEF a, b, c, e
<1>5. /\ <<>> \in RequestStages /\ <<"preProcessors">> \in RequestStages
      /\ <<"preProcessors", "profilePicker">> \in RequestStages
      /\ <<"preProcessors", "profilePicker", "requestPlugins">> \in RequestStages
  BY Zenon DEF RequestStages
<1>6. "typed" \in Errors
  BY DEF Errors
<1> QED BY <1>1, <1>2, <1>3, <1>4, <1>5, <1>6 DEF HandleRequestBody

LEMMA RequestBodyKeeps ==
  ASSUME IInv, NEW eos \in BOOLEAN, NEW chunk \in NextChunks("req"), RequestBody(chunk, eos)
  PROVE  IInv'
<1> USE DEF IInv
<1>1. chunk \in Seq(Nat)
  BY NextChunkType DEF Directions
<1>2. /\ EnvoyType' /\ AtRecv /\ envoy.state["req"] = "body"
      /\ envoy'.state = [envoy.state EXCEPT !["req"] = IF eos THEN "eos" ELSE "body"]
      /\ envoy'.chunks = [envoy.chunks EXCEPT !["req"] = @ + 1]
  BY <1>1, ChunkArrives DEF RequestBody, Directions
<1>3. /\ envoy'.state["req"] = (IF eos THEN "eos" ELSE "body")
      /\ envoy'.state["resp"] = envoy.state["resp"] /\ envoy.state["resp"] = "start"
      /\ ~Over("req")
  BY <1>2 DEF EnvoyType, Directions, FlowInv, Over
<1>4. ~requestBodyComplete /\ trace = <<>>
  BY <1>3 DEF FlowInv, TraceInv, Complete, Directions
<1>5. /\ AppendRequestBody(chunk, eos) /\ server' = server /\ out' = out
  BY <1>4 DEF RequestBody, ProcessRequestBody
<1>6. /\ requestBody' = requestBody \o chunk /\ requestBodyComplete' = eos
      /\ UNCHANGED <<responseBody, responseBodyComplete, headersSent>>
      /\ requestBody' \in Seq(Nat)
  BY <1>1, <1>5 DEF AppendRequestBody, DataType
<1>7. /\ toSend' \in Seq(Message) /\ out' \in Seq(Message) /\ SaidInv'
      /\ status' \in {"open", "closing", "failed"}
      /\ profile' \in Profiles \cup {emptyProfile}
      /\ \E stages \in RequestStages : trace' = trace \o stages
      /\ ~eos => trace' = trace
  <2>1. CASE eos
    <3>1. HandleRequestBody(requestBody') /\ Over("req")' /\ headersSent' = headersSent
      BY <1>3, <1>5, <1>6, <2>1 DEF AppendRequestBody, Over
    <3>2. envoy'.state["resp"] = "start"
      BY <1>3
    <3> DEFINE bytes == requestBody'
    <3> HIDE DEF bytes
    <3>3. bytes \in Seq(Nat) /\ HandleRequestBody(bytes)
      BY <1>6, <3>1 DEF bytes
    <3> QED BY <1>2, <1>3, <1>4, <1>5, <2>1, <3>1, <3>2, <3>3, HandleRequestBodyKeeps
  <2>2. CASE ~eos
    <3>1. toSend' = <<>> /\ status' = status /\ profile' = profile /\ trace' = trace
      BY <1>5, <2>2 DEF AppendRequestBody, Reply
    <3>2. Said' = Said /\ toSend' = toSend
      BY <1>2, <1>5, <3>1 DEF Said, AtRecv
    <3>3. SaidInv'
      BY <1>2, <1>3, <1>6, <2>2, <3>1, <3>2, SaidSame DEF SaidInv, Over
    <3>4. <<>> \in RequestStages /\ trace \o <<>> = trace
      BY <1>4 DEF RequestStages
    <3> QED BY <1>2, <1>5, <3>1, <3>2, <3>3, <3>4 DEF DataType, AtRecv
  <2> QED BY <2>1, <2>2
<1>8. /\ trace' \in Seq(Stages) /\ StagesInOrder'
      /\ \A i \in DOMAIN trace' : Rank(trace'[i]) <= 4
  BY <1>4, <1>7, RequestTrace
<1>9. DataType'
  BY <1>5, <1>6, <1>7, <1>8 DEF DataType, Profiles
<1>10. Flags'
  BY <1>6 DEF Flags
<1>11. FlowInv'
  BY <1>2, <1>3, <1>6 DEF FlowInv, Over, Complete, Directions, EnvoyType
<1>12. TraceInv'
  BY <1>3, <1>4, <1>7, <1>8 DEF TraceInv, Over
<1> QED BY <1>2, <1>7, <1>9, <1>10, <1>11, <1>12

-----------------------------------------------------------------------------
(* The response's side.                                                    *)
LEMMA ResponseHeadersKeeps ==
  ASSUME IInv, NEW eos \in BOOLEAN, ResponseHeaders(eos)
  PROVE  IInv'
<1> USE DEF IInv
<1>0. /\ AtRecv /\ out' = out /\ trace' = Append(trace, "headerProcessors")
      /\ server' = server /\ UNCHANGED reqCtx
      /\ envoy.state["req"] # "start" /\ envoy.state["resp"] = "start"
  BY DEF ResponseHeaders, HandleResponseHeaders
<1>1. /\ envoy'.state = [envoy.state EXCEPT !["resp"] = IF eos THEN "eos" ELSE "body",
                                            !["req"] = IF @ = "body" THEN "dropped" ELSE @]
      /\ envoy'.chunks = envoy.chunks /\ EnvoyType'
  <2>1. envoy' = [envoy EXCEPT !.state["resp"] = IF eos THEN "eos" ELSE "body",
                               !.state["req"] = IF @ = "body" THEN "dropped" ELSE @]
    BY DEF ResponseHeaders
  <2> QED BY <2>1 DEF EnvoyType, Directions
<1>2. /\ envoy'.state["resp"] = (IF eos THEN "eos" ELSE "body")
      /\ envoy'.state["req"] = (IF envoy.state["req"] = "body" THEN "dropped" ELSE envoy.state["req"])
      /\ Over("req")' /\ envoy.chunks["resp"] = 0 /\ ~Complete("resp")
  BY <1>0, <1>1 DEF EnvoyType, Directions, FlowInv, Over
<1>3. out \in Seq(Message) /\ Said = out /\ Plain(out) /\ Silent(out, "resp") /\ ~headersSent
  BY <1>0, ConcatEmptySeq DEF DataType, AtRecv, Said, SaidInv
<1>4. toSend' \in Seq(Message) /\ out' \in Seq(Message) /\ SaidInv'
      /\ status' \in {"open", "closing", "failed"}
  <2>1. CASE \E err \in Errors : BuildErrResponse(err)
    <3>1. PICK err \in Errors : BuildErrResponse(err)
      BY <2>1
    <3> QED BY <1>0, <3>1, ErrKeeps
  <2>2. CASE eos /\ Reply(<<Headers("resp", NoLength)>>)
    <3> DEFINE new == <<Headers("resp", NoLength)>>
    <3>1. new \in Seq(Message) /\ Continues(out, new) /\ Plain(new)
      BY <1>3, SayHeaders, MessageTypes DEF Directions
    <3>2. toSend' = new /\ status' = status
      BY <2>2 DEF Reply
    <3> HIDE DEF new
    <3>3. toSend' \in Seq(Message) /\ out' \in Seq(Message) /\ InOrder(Said)' /\ Plain(Said)'
      BY <1>0, <3>1, <3>2, Speak
    <3>4. SaidInv'
      BY <1>0, <1>2, <2>2, <3>2, <3>3 DEF SaidInv, AtRecv
    <3> QED BY <1>0, <3>2, <3>3, <3>4 DEF AtRecv
  <2>3. CASE ~eos /\ Reply(<<>>)
    <3>1. toSend' = toSend /\ status' = status /\ Said' = Said
      BY <1>0, <2>3 DEF Reply, AtRecv, Said
    <3>2. Silent(Said, "resp") => Unfinished(Said, "resp")
      BY DEF Silent, Unfinished
    <3>3. Unfinished(Said, "resp")' /\ Silent(Said, "resp")' /\ InOrder(Said)' /\ Plain(Said)'
      BY <1>0, <1>3, <3>1, <3>2, SaidSame DEF SaidInv, AtRecv
    <3>4. headersSent' = headersSent
      BY <1>0 DEF reqCtx
    <3>5. SaidInv'
      BY <1>0, <1>2, <1>3, <2>3, <3>1, <3>3, <3>4 DEF SaidInv, AtRecv
    <3> QED BY <1>0, <3>1, <3>5 DEF DataType, AtRecv
  <2> QED BY <2>1, <2>2, <2>3 DEF ResponseHeaders, HandleResponseHeaders
<1>5. /\ trace' \in Seq(Stages) /\ StagesInOrder'
      /\ \A k \in DOMAIN trace' : Rank(trace'[k]) <= 5
  <2>1. /\ trace \in Seq(Stages) /\ StagesInOrder
        /\ \A i \in DOMAIN trace : Rank(trace[i]) <= 4
    BY <1>0 DEF DataType, TraceInv
  <2>2. "headerProcessors" \in Stages
    BY DEF Stages
  <2>3. trace' = trace \o <<"headerProcessors">>
    BY <1>0, <2>1, <2>2, AppendIsConcat
  <2> DEFINE stages == <<"headerProcessors">>
  <2>4. Sorted(stages)
    BY <2>2, SortedStages
  <2>5. \A j \in DOMAIN stages : stages[j] = "headerProcessors"
    OBVIOUS
  <2>6. \A i \in DOMAIN trace : Rank(trace[i]) \in 1..8
    BY <2>1, Ranks, ElementOfSeq, LenProperties
  <2> HIDE DEF stages
  <2>7. \A i \in DOMAIN trace, j \in DOMAIN stages : Rank(trace[i]) < Rank(stages[j])
    BY <2>1, <2>5, <2>6, Ranks
  <2>8. /\ trace' \in Seq(Stages) /\ StagesInOrder'
        /\ \A k \in DOMAIN trace' : \/ \E i \in DOMAIN trace : trace'[k] = trace[i]
                                    \/ \E j \in DOMAIN stages : trace'[k] = stages[j]
    BY <2>1, <2>3, <2>4, <2>7, TraceGrows DEF stages
  <2> QED BY <2>1, <2>5, <2>6, <2>8, Ranks
<1>6. DataType'
  BY <1>0, <1>4, <1>5 DEF DataType, reqCtx, Profiles
<1>7. Flags'
  BY <1>0 DEF Flags, reqCtx
<1>8. FlowInv'
  BY <1>0, <1>1, <1>2 DEF FlowInv, Over, Complete, reqCtx, Directions, EnvoyType
<1>9. TraceInv'
  BY <1>2, <1>5 DEF TraceInv
<1> QED BY <1>1, <1>4, <1>6, <1>7, <1>8, <1>9

LEMMA ResponseTrailersKeeps ==
  ASSUME IInv, ResponseTrailers
  PROVE  IInv'
<1> USE DEF IInv
<1>0. /\ AtRecv /\ toSend' = <<Trailers("resp")>> /\ status' = status /\ out' = out /\ trace' = trace
      /\ server' = server /\ UNCHANGED reqCtx /\ envoy.state["resp"] = "body"
  BY DEF ResponseTrailers, HandleTrailers, Reply
<1>1. /\ EnvoyType' /\ envoy'.chunks = envoy.chunks
      /\ envoy'.state = [envoy.state EXCEPT !["resp"] = "trailers"]
  BY StateMoves DEF ResponseTrailers, Directions
<1>2. /\ envoy'.state["resp"] = "trailers" /\ envoy'.state["req"] = envoy.state["req"]
      /\ Over("req") /\ Over("req")'
  BY <1>0, <1>1 DEF EnvoyType, Directions, FlowInv, Over
<1>3. out \in Seq(Message) /\ Plain(out)
  BY <1>0, ConcatEmptySeq DEF DataType, AtRecv, Said, SaidInv
<1>4. /\ <<Trailers("resp")>> \in Seq(Message) /\ Continues(out, <<Trailers("resp")>>)
      /\ Plain(<<Trailers("resp")>>)
  BY <1>3, SayTrailers DEF Directions
<1>5. toSend' \in Seq(Message) /\ out' \in Seq(Message) /\ InOrder(Said)' /\ Plain(Said)'
  BY <1>0, <1>4, Speak
<1>6. DataType'
  BY <1>0, <1>5 DEF DataType, reqCtx, Profiles
<1>7. Flags'
  BY <1>0 DEF Flags, reqCtx
<1>8. FlowInv'
  BY <1>0, <1>1, <1>2 DEF FlowInv, Over, Complete, reqCtx, Directions, EnvoyType
<1>9. SaidInv'
  BY <1>0, <1>2, <1>5 DEF SaidInv, AtRecv
<1>10. TraceInv'
  BY <1>0, <1>2 DEF TraceInv, StagesInOrder
<1> QED BY <1>1, <1>6, <1>7, <1>8, <1>9, <1>10

(* The stages of a response sent whole, before its event.                  *)
ResponseStages ==
    {<<>>, <<"responsePlugins">>, <<"postProcessors">>, <<"responsePlugins", "postProcessors">>}

(* What a body adds to the trace: the stages of a whole body and its       *)
(* event, or the chunk processors and, at the end, the event.              *)
LEMMA ResponseTrace ==
  ASSUME DataType, TraceInv, envoy.state["resp"] = "body", NEW eos \in BOOLEAN, NEW stages,
         NotifyOnEos(stages, eos),
         \/ profile.buffering /\ eos /\ stages \in ResponseStages
         \/ ~profile.buffering /\ stages \in {<<>>, <<"chunkProcessors">>}
  PROVE  /\ trace' \in Seq(Stages) /\ StagesInOrder'
         /\ ~eos => \A k \in DOMAIN trace' :
                      Rank(trace'[k]) <= 5 \/ (~profile.buffering /\ trace'[k] = "chunkProcessors")
<1> DEFINE new == IF eos THEN Append(stages, "ResponseEvent") ELSE stages
<1>0. {"responsePlugins", "postProcessors", "chunkProcessors", "ResponseEvent"} \subseteq Stages
  BY DEF Stages
<1>1. \A a, b \in Stages :
        /\ Append(<<>>, "ResponseEvent") = <<"ResponseEvent">>
        /\ Append(<<a>>, "ResponseEvent") = <<a, "ResponseEvent">>
        /\ Append(<<a, b>>, "ResponseEvent") = <<a, b, "ResponseEvent">>
  BY AppendTuples, Zenon
<1>2. /\ profile.buffering => /\ eos
                             /\ \/ new = <<"ResponseEvent">>
                                \/ new = <<"responsePlugins", "ResponseEvent">>
                                \/ new = <<"postProcessors", "ResponseEvent">>
                                \/ new = <<"responsePlugins", "postProcessors", "ResponseEvent">>
      /\ ~profile.buffering => \/ new = <<>> /\ ~eos
                               \/ new = <<"chunkProcessors">> /\ ~eos
                               \/ new = <<"ResponseEvent">> /\ eos
                               \/ new = <<"chunkProcessors", "ResponseEvent">> /\ eos
  BY <1>0, <1>1 DEF ResponseStages
<1>3. trace' = trace \o new
  BY DEF NotifyOnEos
<1> HIDE DEF new
<1>4. /\ Sorted(new)
      /\ \A j \in DOMAIN new : /\ Rank(new[j]) \in 6..8
                               /\ ~profile.buffering /\ ~eos => new[j] = "chunkProcessors"
                               /\ ~profile.buffering =>
                                    new[j] = "chunkProcessors" \/ new[j] = "ResponseEvent"
  <2>1. CASE new = <<>>
    BY <2>1, SortedStages
  <2>2. CASE new = <<"chunkProcessors">> /\ ~profile.buffering
    <3>1. Sorted(<<"chunkProcessors">>)
      BY <1>0, SortedStages
    <3>2. \A j \in 1..1 : <<"chunkProcessors">>[j] = "chunkProcessors"
      OBVIOUS
    <3> QED BY <2>2, <3>1, <3>2, Ranks
  <2>3. CASE new = <<"ResponseEvent">> /\ eos
    <3>1. Sorted(<<"ResponseEvent">>)
      BY <1>0, SortedStages
    <3>2. \A j \in 1..1 : <<"ResponseEvent">>[j] = "ResponseEvent"
      OBVIOUS
    <3> QED BY <2>3, <3>1, <3>2, Ranks
  <2>4. CASE new = <<"chunkProcessors", "ResponseEvent">> /\ eos /\ ~profile.buffering
    <3>1. Sorted(<<"chunkProcessors", "ResponseEvent">>)
      BY <1>0, SortedStages, Ranks
    <3>2. \A j \in 1..2 : \/ <<"chunkProcessors", "ResponseEvent">>[j] = "chunkProcessors"
                          \/ <<"chunkProcessors", "ResponseEvent">>[j] = "ResponseEvent"
      OBVIOUS
    <3> QED BY <2>4, <3>1, <3>2, Ranks
  <2>5. ASSUME NEW a \in {"responsePlugins", "postProcessors"},
               new = <<a, "ResponseEvent">>, eos, profile.buffering
        PROVE  Sorted(new) /\ \A j \in DOMAIN new : Rank(new[j]) \in 6..8
    <3>1. a \in Stages /\ Rank(a) \in 6..7 /\ "ResponseEvent" \in Stages
      BY <1>0, Ranks
    <3>2. Sorted(<<a, "ResponseEvent">>)
      BY <3>1, SortedStages, Ranks
    <3>3. \A j \in 1..2 : <<a, "ResponseEvent">>[j] = a \/ <<a, "ResponseEvent">>[j] = "ResponseEvent"
      OBVIOUS
    <3> QED BY <2>5, <3>1, <3>2, <3>3, Ranks
  <2>6. CASE /\ new = <<"responsePlugins", "postProcessors", "ResponseEvent">> /\ eos
             /\ profile.buffering
    <3> DEFINE t == <<"responsePlugins", "postProcessors", "ResponseEvent">>
    <3>1. Sorted(t)
      BY <1>0, SortedStages, Ranks
    <3>2. \A j \in 1..3 : t[j] = "responsePlugins" \/ t[j] = "postProcessors" \/ t[j] = "ResponseEvent"
      OBVIOUS
    <3> QED BY <2>6, <3>1, <3>2, Ranks
  <2> QED BY <1>2, <2>1, <2>2, <2>3, <2>4, <2>5, <2>6
<1>5. /\ trace \in Seq(Stages) /\ StagesInOrder
      /\ \A i \in DOMAIN trace :
            Rank(trace[i]) <= 5 \/ (~profile.buffering /\ trace[i] = "chunkProcessors")
  BY DEF DataType, TraceInv
<1>6. \A i \in DOMAIN trace : Rank(trace[i]) \in 1..8
  BY <1>5, Ranks, ElementOfSeq, LenProperties
<1>7. \A i \in DOMAIN trace, j \in DOMAIN new :
        \/ Rank(trace[i]) < Rank(new[j])
        \/ trace[i] = "chunkProcessors" /\ new[j] = "chunkProcessors"
  BY <1>4, <1>5, <1>6, Ranks
<1>8. /\ trace' \in Seq(Stages) /\ StagesInOrder'
      /\ \A k \in DOMAIN trace' : \/ \E i \in DOMAIN trace : trace'[k] = trace[i]
                                  \/ \E j \in DOMAIN new : trace'[k] = new[j]
  BY <1>3, <1>4, <1>5, <1>7, TraceGrows
<1>9. ~eos => ~profile.buffering
  OBVIOUS
<1> QED BY <1>4, <1>5, <1>8, <1>9

LEMMA HandleResponseBodyKeeps ==
  ASSUME DataType, SaidInv, AtRecv, envoy.state["resp"] = "body", profile.buffering,
         Over("req")', envoy'.state["resp"] = "eos",
         NEW bytes \in Seq(Nat), HandleResponseBody(bytes), out' = out
  PROVE  /\ toSend' \in Seq(Message) /\ out' \in Seq(Message) /\ SaidInv'
         /\ status' \in {"open", "closing", "failed"}
         /\ \E stages \in ResponseStages : NotifyOnEos(stages, TRUE)
<1> DEFINE plugins == IF profile.plugins THEN <<"responsePlugins">> ELSE <<>>
           all == IF PostProcessors THEN Append(plugins, "postProcessors") ELSE plugins
           answer(sent, length) ==
             Reply(<<Headers("resp", length)>> \o BuildChunkedBodyResponses("resp", sent))
<1>1. plugins \in ResponseStages /\ all \in ResponseStages /\ <<>> \in ResponseStages
  <2>1. /\ Append(<<>>, "postProcessors") = <<"postProcessors">>
        /\ Append(<<"responsePlugins">>, "postProcessors") = <<"responsePlugins", "postProcessors">>
    BY AppendTuples, Zenon
  <2> QED BY <2>1 DEF ResponseStages
<1>2. out \in Seq(Message) /\ Said = out /\ Plain(out) /\ Silent(out, "resp")
  BY ConcatEmptySeq DEF DataType, AtRecv, Said, SaidInv
<1>3. ASSUME NEW sent \in Seq(Nat), NEW length \in Seq(Nat), answer(sent, length)
      PROVE  /\ toSend' \in Seq(Message) /\ out' \in Seq(Message) /\ SaidInv'
             /\ status' = "open"
  <2> DEFINE chunks == BuildChunkedBodyResponses("resp", sent)
             new == <<Headers("resp", length)>> \o chunks
  <2>1. toSend' = new /\ status' = status
    BY <1>3 DEF Reply
  <2> HIDE DEF chunks
  <2>2. /\ chunks \in Seq(Message)
        /\ \A i \in DOMAIN chunks :
             /\ chunks[i].type = "body" /\ chunks[i].dir = "resp"
             /\ chunks[i].eos => i = Len(chunks)
    BY ChunkedBody DEF chunks, Directions
  <2>3. new \in Seq(Message) /\ Continues(out, new) /\ Plain(new)
    BY <1>2, <2>2, SayWhole DEF Directions
  <2> HIDE DEF new
  <2>4. toSend' \in Seq(Message) /\ out' \in Seq(Message) /\ InOrder(Said)' /\ Plain(Said)'
    BY <2>1, <2>3, Speak
  <2>5. SaidInv'
    BY <2>1, <2>4 DEF SaidInv, AtRecv
  <2> QED BY <2>1, <2>4, <2>5 DEF AtRecv
<1>4. ASSUME NEW err \in Errors, BuildErrResponse(err)
      PROVE  /\ toSend' \in Seq(Message) /\ out' \in Seq(Message) /\ SaidInv'
             /\ status' \in {"closing", "failed"}
  BY <1>4, ErrKeeps
<1>5. \/ answer(bytes, NoLength) /\ NotifyOnEos(<<>>, TRUE)
      \/ \E err \in Errors, ran \in {plugins, all} \ {<<>>} :
           BuildErrResponse(err) /\ NotifyOnEos(ran, TRUE)
      \/ answer(bytes, NoLength) /\ NotifyOnEos(all, TRUE)
      \/ \E n \in MutatedLens \ {0} : answer(Mutated(n), <<n>>) /\ NotifyOnEos(all, TRUE)
  BY DEF HandleResponseBody
<1>6. NoLength \in Seq(Nat)
  BY DEF NoLength
<1> HIDE DEF plugins, all, answer
<1>7. CASE answer(bytes, NoLength) /\ NotifyOnEos(<<>>, TRUE)
  BY <1>1, <1>3, <1>6, <1>7
<1>8. CASE \E err \in Errors, ran \in {plugins, all} \ {<<>>} :
             BuildErrResponse(err) /\ NotifyOnEos(ran, TRUE)
  BY <1>1, <1>4, <1>8
<1>9. CASE answer(bytes, NoLength) /\ NotifyOnEos(all, TRUE)
  BY <1>1, <1>3, <1>6, <1>9
<1>10. CASE \E n \in MutatedLens \ {0} : answer(Mutated(n), <<n>>) /\ NotifyOnEos(all, TRUE)
  <2>1. PICK n \in MutatedLens \ {0} : answer(Mutated(n), <<n>>) /\ NotifyOnEos(all, TRUE)
    BY <1>10
  <2>2. Mutated(n) \in Seq(Nat) /\ <<n>> \in Seq(Nat)
    <3>1. Mutated(n) \in Seq(Nat) /\ n \in Nat
      BY MutatedType
    <3> QED BY <3>1
  <2> QED BY <1>1, <1>3, <2>1, <2>2
<1> QED BY <1>5, <1>7, <1>8, <1>9, <1>10

LEMMA StreamedChunkKeeps ==
  ASSUME DataType, SaidInv, AtRecv, envoy.state["resp"] = "body", ~profile.buffering,
         NEW eos \in BOOLEAN, Over("req")',
         envoy'.state["resp"] = (IF eos THEN "eos" ELSE "body"),
         NEW bytes \in Seq(Nat), BuildStreamedChunkResponse(bytes, eos),
         out' = out, profile' = profile
  PROVE  /\ toSend' \in Seq(Message) /\ out' \in Seq(Message) /\ SaidInv'
         /\ status' = "open" /\ headersSent' = TRUE
<1> DEFINE chunk == <<Body("resp", bytes, eos)>>
           new == (IF headersSent THEN <<>> ELSE <<Headers("resp", NoLength)>>) \o chunk
<1>1. toSend' = new /\ status' = status /\ headersSent' = TRUE
  BY DEF BuildStreamedChunkResponse, Reply
<1>2. /\ out \in Seq(Message) /\ Said = out /\ Plain(out) /\ Unfinished(out, "resp")
      /\ ~headersSent => Silent(out, "resp")
      /\ headersSent => Opened(out, "resp")
  BY ConcatEmptySeq DEF DataType, AtRecv, Said, SaidInv
<1>3. /\ Body("resp", bytes, eos) \in Message /\ Body("resp", bytes, eos).type = "body"
      /\ Body("resp", bytes, eos).dir = "resp" /\ Body("resp", bytes, eos).eos = eos
  BY MessageTypes DEF Body, Directions
<1>4. /\ new \in Seq(Message) /\ Continues(out, new) /\ Plain(new)
      /\ Opened(out, "resp") \/ Opened(new, "resp")
      /\ ~eos => Unfinished(new, "resp")
  <2>1. CASE headersSent
    <3>1. /\ chunk \in Seq(Message) /\ Continues(out, chunk) /\ Plain(chunk)
          /\ ~eos => Unfinished(chunk, "resp")
      BY <1>2, <2>1, SayChunk DEF Directions
    <3>2. new = chunk
      BY <2>1, <3>1, ConcatEmptySeq
    <3> HIDE DEF new, chunk
    <3> QED BY <1>2, <2>1, <3>1, <3>2
  <2>2. CASE ~headersSent
    <3>1. /\ chunk \in Seq(Message) /\ Len(chunk) = 1 /\ DOMAIN chunk = {1}
          /\ chunk[1] = Body("resp", bytes, eos)
      BY <1>3
    <3> HIDE DEF chunk
    <3>2. \A i \in DOMAIN chunk :
            /\ chunk[i].type = "body" /\ chunk[i].dir = "resp"
            /\ (chunk[i].eos => i = Len(chunk)) /\ chunk[i].eos = eos
      BY <1>3, <3>1
    <3>3. NoLength \in Seq(Nat) /\ "resp" \in Directions
      BY DEF NoLength, Directions
    <3> DEFINE whole == <<Headers("resp", NoLength)>> \o chunk
    <3>4. /\ whole \in Seq(Message) /\ Continues(out, whole) /\ Plain(whole) /\ Opened(whole, "resp")
          /\ (\A i \in DOMAIN chunk : ~chunk[i].eos) => Unfinished(whole, "resp")
      BY <1>2, <2>2, <3>1, <3>2, <3>3, SayWhole
    <3>5. new = whole
      BY <2>2
    <3> HIDE DEF new, whole
    <3> QED BY <3>2, <3>4, <3>5
  <2> QED BY <2>1, <2>2
<1> HIDE DEF new
<1>5. /\ toSend' \in Seq(Message) /\ out' \in Seq(Message) /\ InOrder(Said)' /\ Plain(Said)'
      /\ Opened(Said, "resp")' /\ (~eos => Unfinished(Said, "resp")')
  BY <1>1, <1>2, <1>4, Speak
<1>6. SaidInv'
  BY <1>1, <1>5 DEF SaidInv, AtRecv
<1> QED BY <1>1, <1>5, <1>6 DEF AtRecv

LEMMA HandleResponseChunkKeeps ==
  ASSUME DataType, Flags, SaidInv, AtRecv, envoy.state["resp"] = "body", ~profile.buffering,
         NEW eos \in BOOLEAN, Over("req")',
         envoy'.state["resp"] = (IF eos THEN "eos" ELSE "body"),
         NEW chunk \in Seq(Nat), HandleResponseChunk(chunk, eos), out' = out, profile' = profile
  PROVE  /\ toSend' \in Seq(Message) /\ out' \in Seq(Message) /\ SaidInv'
         /\ status' \in {"open", "closing", "failed"}
         /\ headersSent' \in BOOLEAN
         /\ \E stages \in {<<>>, <<"chunkProcessors">>} : NotifyOnEos(stages, eos)
<1>1. \A n \in MutatedLens : Mutated(n) \in Seq(Nat)
  BY MutatedType
<1>2. \/ \E sent \in Seq(Nat) : BuildStreamedChunkResponse(sent, eos)
      \/ \E err \in Errors : BuildErrResponse(err) /\ headersSent' = headersSent
  BY <1>1 DEF HandleResponseChunk
<1>3. \E stages \in {<<>>, <<"chunkProcessors">>} : NotifyOnEos(stages, eos)
  BY DEF HandleResponseChunk
<1>4. CASE \E sent \in Seq(Nat) : BuildStreamedChunkResponse(sent, eos)
  <2>1. PICK sent \in Seq(Nat) : BuildStreamedChunkResponse(sent, eos)
    BY <1>4
  <2>2. /\ toSend' \in Seq(Message) /\ out' \in Seq(Message) /\ SaidInv'
        /\ status' = "open" /\ headersSent' = TRUE
    BY <2>1, StreamedChunkKeeps
  <2> QED BY <1>3, <2>2
<1>5. CASE \E err \in Errors : BuildErrResponse(err) /\ headersSent' = headersSent
  <2>1. /\ toSend' \in Seq(Message) /\ out' \in Seq(Message) /\ SaidInv'
        /\ status' \in {"closing", "failed"}
    BY <1>5, ErrKeeps
  <2>2. headersSent' \in BOOLEAN
    BY <1>5 DEF Flags
  <2> QED BY <1>3, <2>1, <2>2
<1> QED BY <1>2, <1>4, <1>5

LEMMA ResponseBodyKeeps ==
  ASSUME IInv, NEW eos \in BOOLEAN, NEW chunk \in NextChunks("resp"), ResponseBody(chunk, eos)
  PROVE  IInv'
<1> USE DEF IInv
<1>1. chunk \in Seq(Nat)
  BY NextChunkType DEF Directions
<1>2. /\ EnvoyType' /\ AtRecv /\ envoy.state["resp"] = "body"
      /\ envoy'.state = [envoy.state EXCEPT !["resp"] = IF eos THEN "eos" ELSE "body"]
      /\ envoy'.chunks = [envoy.chunks EXCEPT !["resp"] = @ + 1]
  BY <1>1, ChunkArrives DEF ResponseBody, Directions
<1>3. /\ envoy'.state["resp"] = (IF eos THEN "eos" ELSE "body")
      /\ envoy'.state["req"] = envoy.state["req"] /\ Over("req") /\ Over("req")'
  BY <1>2 DEF EnvoyType, Directions, FlowInv, Over
<1>4. ~responseBodyComplete
  BY <1>2 DEF FlowInv, Over, Complete, Directions
<1>5. /\ AppendResponseBody(chunk, eos) /\ server' = server /\ out' = out
  BY <1>4 DEF ResponseBody, ProcessResponseBody
<1>6. /\ responseBody' = responseBody \o chunk /\ responseBodyComplete' = eos
      /\ UNCHANGED <<requestBody, requestBodyComplete, profile>>
      /\ responseBody' \in Seq(Nat)
  BY <1>1, <1>5 DEF AppendResponseBody, DataType
<1>7. /\ toSend' \in Seq(Message) /\ out' \in Seq(Message) /\ SaidInv'
      /\ status' \in {"open", "closing", "failed"}
      /\ headersSent' \in BOOLEAN
      /\ trace' \in Seq(Stages) /\ StagesInOrder'
      /\ ~eos => \A k \in DOMAIN trace' :
                   Rank(trace'[k]) <= 5 \/ (~profile.buffering /\ trace'[k] = "chunkProcessors")
  <2>1. CASE profile.buffering /\ ~eos
    <3>1. toSend' = <<>> /\ status' = status /\ trace' = trace /\ headersSent' = headersSent
      BY <1>5, <2>1 DEF AppendResponseBody, Reply
    <3>2. Said' = Said /\ toSend' = toSend
      BY <1>2, <1>5, <3>1 DEF Said, AtRecv
    <3>3. SaidInv'
      BY <1>2, <1>3, <1>6, <2>1, <3>1, <3>2, SaidSame DEF SaidInv
    <3>4. headersSent' \in BOOLEAN
      BY <3>1 DEF Flags
    <3>5. /\ trace' \in Seq(Stages) /\ StagesInOrder'
          /\ \A k \in DOMAIN trace' :
               Rank(trace'[k]) <= 5 \/ (~profile.buffering /\ trace'[k] = "chunkProcessors")
      BY <1>2, <3>1 DEF TraceInv, DataType, StagesInOrder
    <3> QED BY <1>2, <1>5, <3>1, <3>2, <3>3, <3>4, <3>5 DEF DataType, AtRecv
  <2>2. CASE profile.buffering /\ eos
    <3>1. HandleResponseBody(responseBody') /\ headersSent' = headersSent
      BY <1>5, <2>2 DEF AppendResponseBody
    <3>2. headersSent' \in BOOLEAN
      BY <3>1 DEF Flags
    <3> DEFINE bytes == responseBody'
    <3> HIDE DEF bytes
    <3>3. bytes \in Seq(Nat) /\ HandleResponseBody(bytes)
      BY <1>6, <3>1 DEF bytes
    <3>4. envoy'.state["resp"] = "eos"
      BY <1>3, <2>2
    <3>5. /\ toSend' \in Seq(Message) /\ out' \in Seq(Message) /\ SaidInv'
          /\ status' \in {"open", "closing", "failed"}
          /\ \E stages \in ResponseStages : NotifyOnEos(stages, TRUE)
      BY <1>2, <1>3, <1>5, <2>2, <3>3, <3>4, HandleResponseBodyKeeps
    <3>6. PICK stages \in ResponseStages : NotifyOnEos(stages, eos)
      BY <2>2, <3>5
    <3>7. trace' \in Seq(Stages) /\ StagesInOrder'
      BY <1>2, <2>2, <3>6, ResponseTrace
    <3> QED BY <2>2, <3>2, <3>5, <3>7
  <2>3. CASE ~profile.buffering
    <3>1. HandleResponseChunk(chunk, eos) /\ profile' = profile
      BY <1>5, <1>6, <2>3 DEF AppendResponseBody
    <3>2. /\ toSend' \in Seq(Message) /\ out' \in Seq(Message) /\ SaidInv'
          /\ status' \in {"open", "closing", "failed"}
          /\ headersSent' \in BOOLEAN
          /\ \E stages \in {<<>>, <<"chunkProcessors">>} : NotifyOnEos(stages, eos)
      BY <1>1, <1>2, <1>3, <1>5, <2>3, <3>1, HandleResponseChunkKeeps
    <3>3. PICK stages \in {<<>>, <<"chunkProcessors">>} : NotifyOnEos(stages, eos)
      BY <3>2
    <3>4. /\ trace' \in Seq(Stages) /\ StagesInOrder'
          /\ ~eos => \A k \in DOMAIN trace' :
                       Rank(trace'[k]) <= 5 \/ (~profile.buffering /\ trace'[k] = "chunkProcessors")
      BY <1>2, <2>3, <3>3, ResponseTrace
    <3> QED BY <3>2, <3>4
  <2> QED BY <2>1, <2>2, <2>3
<1>8. DataType'
  BY <1>5, <1>6, <1>7 DEF DataType, Profiles
<1>9. Flags'
  BY <1>6, <1>7 DEF Flags
<1>10. FlowInv'
  BY <1>2, <1>3, <1>6 DEF FlowInv, Over, Complete, Directions, EnvoyType
<1>11. TraceInv'
  BY <1>3, <1>6, <1>7 DEF TraceInv
<1> QED BY <1>2, <1>7, <1>8, <1>9, <1>10, <1>11

-----------------------------------------------------------------------------
(* The sending side, and the end of the stream.                            *)
LEMMA SendDelivers ==
  ASSUME EnvoyType, toSend \in Seq(Message), Send
  PROVE  /\ EnvoyType'
         /\ envoy'.state = envoy.state /\ envoy'.chunks = envoy.chunks /\ envoy'.sent = envoy.sent
         /\ Head(toSend) \in Message
         /\ envoy'.got = [envoy.got EXCEPT ![Head(toSend).dir] = @ \o Head(toSend).body]
<1> DEFINE m == Head(toSend)
<1>1. m \in Message /\ m.dir \in Directions /\ m.body \in Seq(Nat)
  <2>1. m \in Message
    BY HeadTailProperties DEF Send
  <2> QED BY <2>1 DEF Message
<1>2. envoy' = [envoy EXCEPT !.got[m.dir] = @ \o m.body]
  BY DEF Send
<1> HIDE DEF m
<1>3. /\ envoy'.state = envoy.state /\ envoy'.chunks = envoy.chunks /\ envoy'.sent = envoy.sent
      /\ envoy'.got = [envoy.got EXCEPT ![m.dir] = @ \o m.body]
  BY <1>2 DEF EnvoyType
<1>4. envoy.got[m.dir] \o m.body \in Seq(Nat)
  BY <1>1, ConcatProperties DEF EnvoyType
<1>5. envoy'.got \in [Directions -> Seq(Nat)]
  BY <1>3, <1>4 DEF EnvoyType
<1>6. EnvoyType'
  BY <1>2, <1>3, <1>5 DEF EnvoyType
<1> QED BY <1>1, <1>3, <1>6 DEF m

LEMMA SendKeeps ==
  ASSUME IInv, Send \/ SendFails \/ RecvEnds \/ UNCHANGED vars
  PROVE  IInv'
<1> USE DEF IInv
<1>1. /\ server' = server /\ UNCHANGED reqCtx /\ trace' = trace
      /\ EnvoyType' /\ envoy'.state = envoy.state /\ envoy'.chunks = envoy.chunks
  <2>1. CASE Send
    BY <2>1, SendDelivers DEF Send, DataType
  <2>2. CASE SendFails \/ RecvEnds \/ UNCHANGED vars
    <3>1. envoy' = envoy
      BY <2>2 DEF SendFails, RecvEnds, vars
    <3> QED BY <2>2, <3>1 DEF SendFails, RecvEnds, vars, EnvoyType
  <2> QED BY <2>1, <2>2
<1>2. EnvoyType' /\ FlowInv'
  BY <1>1 DEF FlowInv, Over, Complete, reqCtx
<1>3. Flags'
  BY <1>1 DEF Flags, reqCtx
<1>4. TraceInv'
  BY <1>1 DEF TraceInv, StagesInOrder, Over, reqCtx
<1>5. /\ toSend \in Seq(Message) /\ out \in Seq(Message)
      /\ status \in {"open", "closing", "ended", "failed"}
  BY DEF DataType
<1>6. /\ toSend' \in Seq(Message) /\ out' \in Seq(Message)
      /\ status' \in {"open", "closing", "ended", "failed"} /\ SaidInv'
  <2>1. CASE Send
    <3>1. /\ Said' = Said /\ toSend' \in Seq(Message) /\ out' \in Seq(Message)
      BY <1>5, <2>1, SendMoves DEF Send, Said
    <3>2. CASE status = "open"
      <4>1. status' = "open"
        BY <2>1, <3>2 DEF Send
      <4> QED BY <1>1, <3>1, <3>2, <4>1, SaidSame DEF SaidInv, Over, reqCtx
    <3>3. CASE status = "closing"
      <4>1. status' = "ended" /\ toSend' = Tail(<<Immediate>>)
        BY <2>1, <3>3 DEF Send, SaidInv
      <4>2. Tail(<<Immediate>>) = <<>>
        OBVIOUS
      <4> QED BY <3>1, <4>1, <4>2, SaidSame DEF SaidInv
    <3> QED BY <2>1, <3>2, <3>3 DEF Send
  <2>2. CASE SendFails
    <3>1. toSend' = <<>> /\ out' = out /\ status' = "failed"
      BY <2>2 DEF SendFails
    <3>2. Said' = out
      BY <1>5, <3>1, ConcatEmptySeq DEF Said
    <3>3. InOrder(out)
      BY <1>5, PrefixInOrder DEF SaidInv, Said
    <3>4. InOrder(Said)'
      BY <3>2, <3>3 DEF InOrder
    <3> QED BY <1>5, <3>1, <3>4 DEF SaidInv
  <2>3. CASE RecvEnds
    <3>1. toSend' = toSend /\ toSend = <<>> /\ out' = out /\ status' \in {"ended", "failed"}
      BY <2>3 DEF RecvEnds, AtRecv
    <3>2. Said' = Said
      BY <3>1 DEF Said
    <3> QED BY <1>5, <3>1, <3>2, SaidSame DEF SaidInv
  <2>4. CASE UNCHANGED vars
    <3>1. Said' = Said /\ toSend' = toSend /\ out' = out /\ status' = status
      BY <2>4 DEF Said, vars
    <3> QED BY <1>1, <1>5, <3>1, SaidSame DEF SaidInv, Over, reqCtx
  <2> QED BY <2>1, <2>2, <2>3, <2>4
<1>7. DataType'
  BY <1>1, <1>6 DEF DataType, reqCtx, Profiles
<1> QED BY <1>2, <1>3, <1>4, <1>6, <1>7

-----------------------------------------------------------------------------
LEMMA InitHolds == Init => IInv
<1> SUFFICES ASSUME Init PROVE IInv
  OBVIOUS
<1>1. DataType
  BY DEF Init, DataType
<1>2. Flags
  BY DEF Init, Flags
<1>3. EnvoyType
  BY DEF Init, EnvoyType, EnvoyInit, Directions
<1>4. FlowInv
  BY DEF Init, FlowInv, EnvoyInit, Over, Complete, Directions
<1>5. Said = <<>>
  BY DEF Init, Said
<1>6. SaidInv
  BY <1>5 DEF Init, SaidInv, EnvoyInit, InOrder, Plain, Silent, Over, Directions
<1>7. TraceInv
  BY DEF Init, TraceInv, StagesInOrder
<1> QED BY <1>1, <1>2, <1>3, <1>4, <1>6, <1>7 DEF IInv

(* Every step of the loop keeps the inductive invariant: types, Envoy's    *)
(* progress against the loop's flags, the order of what is said, and the   *)
(* order of the stages.                                                    *)
THEOREM Invariance == Spec => []IInv
<1>1. IInv /\ [Next]_vars => IInv'
  <2> SUFFICES ASSUME IInv, [Next]_vars PROVE IInv'
    OBVIOUS
  <2>1. ASSUME NEW eos \in BOOLEAN, RequestHeaders(eos) PROVE IInv'
    BY <2>1, RequestHeadersKeeps
  <2>2. ASSUME NEW eos \in BOOLEAN, ResponseHeaders(eos) PROVE IInv'
    BY <2>2, ResponseHeadersKeeps
  <2>3. ASSUME NEW eos \in BOOLEAN, NEW chunk \in NextChunks("req"), RequestBody(chunk, eos)
        PROVE  IInv'
    BY <2>3, RequestBodyKeeps
  <2>4. ASSUME NEW eos \in BOOLEAN, NEW chunk \in NextChunks("resp"), ResponseBody(chunk, eos)
        PROVE  IInv'
    BY <2>4, ResponseBodyKeeps
  <2>5. CASE RequestBodyRedelivered \/ ResponseBodyRedelivered
    BY <2>5, RedeliveredKeeps
  <2>6. CASE RequestTrailers
    BY <2>6, RequestTrailersKeeps
  <2>7. CASE ResponseTrailers
    BY <2>7, ResponseTrailersKeeps
  <2>8. CASE RecvEnds \/ Send \/ SendFails \/ UNCHANGED vars
    BY <2>8, SendKeeps
  <2> QED BY <2>1, <2>2, <2>3, <2>4, <2>5, <2>6, <2>7, <2>8 DEF Next
<1> QED BY <1>1, InitHolds, PTL DEF Spec

(* The locals of Process keep their types, and a stream that has returned  *)
(* has nothing left to send.                                               *)
THEOREM TypeCorrect == Spec => []TypeOK
<1>1. IInv => TypeOK
  BY DEF IInv, DataType, Flags, SaidInv, TypeOK
<1> QED BY <1>1, Invariance, PTL

(* For any number and size of chunks, any profile, any failure and any     *)
(* re-delivery, what Envoy gets back in a direction is one HeadersResponse *)
(* and then body chunks up to the one with EndOfStream, and nothing comes  *)
(* after an immediate response.                                            *)
THEOREM AnswersOrdered == Spec => []AnswersInOrder
<1>1. IInv => AnswersInOrder
  BY PrefixInOrder DEF IInv, DataType, SaidInv, Said, AnswersInOrder
<1> QED BY <1>1, Invariance, PTL

(* For any number of chunks and re-deliveries, the stages run in the       *)
(* pipeline's order, each once per stream (chunk processors: per chunk),   *)
(* and each event is notified at most once.                                *)
THEOREM PipelineOrdered == Spec => []StagesInOrder
<1>1. IInv => StagesInOrder
  BY DEF IInv, TraceInv
<1> QED BY <1>1, Invariance, PTL

-----------------------------------------------------------------------------
(* The bytes.  What a message carries in a direction; how the messages of  *)
(* a sequence lie end to end in a body, from a position on: off[k] bytes   *)
(* come before the k-th.                                                   *)
Bytes(m, d) == IF m.dir = d THEN m.body ELSE <<>>
Layout(off, q, d, from, body) ==
    /\ off \in [1..(Len(q) + 1) -> 0..Len(body)]
    /\ off[1] = from /\ off[Len(q) + 1] = Len(body)
    /\ \A k \in DOMAIN q :
        /\ Carries(q[k], d) \/ Bytes(q[k], d) = <<>>
        /\ off[k + 1] = off[k] + Len(Bytes(q[k], d))
        /\ \A i \in DOMAIN Bytes(q[k], d) : body[off[k] + i] = Bytes(q[k], d)[i]
        /\ Carries(q[k], d) /\ q[k].eos => off[k + 1] = Len(body)
Finished(q, d) == \E i \in DOMAIN q : Carries(q[i], d) /\ q[i].eos

(* Envoy's first n bytes, in order, among what plugins wrote.              *)
Rising(body, n) ==
    /\ \A i \in DOMAIN body : body[i] <= n
    /\ \A i, j \in DOMAIN body : i < j /\ body[i] # 0 /\ body[j] # 0 => body[i] < body[j]
Whole(bytes, q, d) ==
    Intact(bytes, q, d) => /\ Len(bytes) <= envoy.sent[d] /\ \A i \in DOMAIN bytes : bytes[i] = i
                           /\ Finished(q, d) => Len(bytes) = envoy.sent[d]

(* The Content-Length said, if any.                                        *)
Unpromised(q, d) == \A h \in DOMAIN q : Opens(q[h], d) => q[h].length = NoLength
Promised(q, d, body) ==
    \A h \in DOMAIN q : Opens(q[h], d) /\ q[h].length # NoLength =>
        /\ Len(body) <= q[h].length[1]
        /\ Finished(q, d) => Len(body) = q[h].length[1]
        /\ \A i \in DOMAIN q : Carries(q[i], d) => Len(q[i].body) <= BodyByteLimit

(* What Envoy has got in a direction is the beginning of what it will have *)
(* when all that is said is sent.  A whole body is sent in several chunks, *)
(* what chunk processors made of one at once.                              *)
ByChunk(d) == d = "resp" /\ profile.chunkProcessors
Account(d, body) ==
    /\ body \in Seq(Nat)
    /\ Len(envoy.got[d]) <= Len(body) /\ \A i \in DOMAIN envoy.got[d] : envoy.got[d][i] = body[i]
    /\ \E off : Layout(off, toSend, d, Len(envoy.got[d]), body)
    /\ Finished(out, d) => Len(envoy.got[d]) = Len(body)
    /\ Rising(body, envoy.sent[d])
    /\ Whole(body, Said, d) /\ Whole(envoy.got[d], out, d)
    /\ ~ByChunk(d) => \A i \in DOMAIN body : (\A j \in 1..i : body[j] # 0) => body[i] = i
    /\ ByChunk(d) => \A k \in DOMAIN toSend : Carries(toSend[k], d) => k = Len(toSend)
    /\ status = "open" /\ Silent(Said, d) => body = <<>>
    /\ Promised(Said, d, body)
    /\ d = "resp" /\ status = "open" /\ envoy.state[d] = "body" =>
        /\ Unpromised(Said, d)
        /\ ~profile.buffering /\ Intact(body, Said, d) => Len(body) = envoy.sent[d]

(* The buffers hold what Envoy has sent.                                   *)
Buffered(bytes, n) == Len(bytes) = n /\ \A i \in DOMAIN bytes : bytes[i] = i
BodyInv ==
    /\ Buffered(requestBody, envoy.sent["req"]) /\ Buffered(responseBody, envoy.sent["resp"])
    /\ envoy.state["resp"] = "start" => envoy.sent["resp"] = 0
    /\ \A d \in Directions : \E body : Account(d, body)

(* Answers that say nothing about the body of a direction.                 *)
Inert(q, d) ==
    \A k \in DOMAIN q :
        /\ Bytes(q[k], d) = <<>> /\ ~Carries(q[k], d)
        /\ Opens(q[k], d) => q[k].length = NoLength

LEMMA JoinBodies ==
  ASSUME NEW q \in Seq(Message), NEW new \in Seq(Message), NEW d
  PROVE  /\ Finished(q \o new, d) <=> Finished(q, d) \/ Finished(new, d)
         /\ Unpromised(q \o new, d) <=> Unpromised(q, d) /\ Unpromised(new, d)
         /\ \A body : Promised(q, d, body) /\ Inert(new, d) => Promised(q \o new, d, body)
         /\ \A body : Promised(new, d, body) /\ Silent(q, d) => Promised(q \o new, d, body)
<1> DEFINE all == q \o new
<1> HIDE DEF all
<1>0. /\ \A i \in DOMAIN q : i \in DOMAIN all /\ all[i] = q[i]
      /\ \A i \in DOMAIN new : \E k \in DOMAIN all : all[k] = new[i]
      /\ \A k \in DOMAIN all : \/ k \in DOMAIN q /\ all[k] = q[k]
                               \/ \E i \in DOMAIN new : all[k] = new[i]
  <2>1. /\ \A i \in DOMAIN q : i \in DOMAIN all /\ all[i] = q[i]
        /\ \A i \in DOMAIN new : Len(q) + i \in DOMAIN all /\ all[Len(q) + i] = new[i]
        /\ \A k \in DOMAIN all : \/ k \in DOMAIN q
                                 \/ k - Len(q) \in DOMAIN new /\ all[k] = new[k - Len(q)]
    BY JoinElements DEF all
  <2> QED BY <2>1
<1>1. Finished(all, d) <=> Finished(q, d) \/ Finished(new, d)
  BY <1>0 DEF Finished
<1>2. Unpromised(all, d) <=> Unpromised(q, d) /\ Unpromised(new, d)
  BY <1>0 DEF Unpromised
<1>3. ASSUME NEW body, Promised(q, d, body), Inert(new, d) PROVE Promised(all, d, body)
  <2>1. ~Finished(new, d)
    BY <1>3 DEF Finished, Inert
  <2>2. ASSUME NEW h \in DOMAIN all, Opens(all[h], d), all[h].length # NoLength
        PROVE  h \in DOMAIN q /\ q[h] = all[h]
    BY <1>0, <1>3, <2>2 DEF Inert
  <2>3. ASSUME NEW i \in DOMAIN all, Carries(all[i], d)
        PROVE  i \in DOMAIN q /\ q[i] = all[i]
    BY <1>0, <1>3, <2>3 DEF Inert
  <2> QED BY <1>1, <1>3, <2>1, <2>2, <2>3 DEF Promised
<1>4. ASSUME NEW body, Promised(new, d, body), Silent(q, d) PROVE Promised(all, d, body)
  <2>1. ~Finished(q, d)
    BY <1>4 DEF Finished, Silent, Carries, IsAnswer
  <2>2. ASSUME NEW h \in DOMAIN all, Opens(all[h], d) \/ Carries(all[h], d)
        PROVE  \E k \in DOMAIN new : new[k] = all[h]
    BY <1>0, <1>4, <2>2 DEF Silent, Opens, Carries, IsAnswer
  <2> QED BY <1>1, <1>4, <2>1, <2>2 DEF Promised
<1> QED BY <1>1, <1>2, <1>3, <1>4 DEF all

LEMMA InertLayout ==
  ASSUME NEW q \in Seq(Message), NEW d, Inert(q, d), NEW body \in Seq(Nat)
  PROVE  \E off : Layout(off, q, d, Len(body), body)
<1> DEFINE off == [k \in 1..(Len(q) + 1) |-> Len(body)]
<1>1. Len(body) \in Nat /\ Len(q) \in Nat /\ DOMAIN q = 1..Len(q)
  BY LenProperties
<1>2. \A k \in DOMAIN q : Bytes(q[k], d) = <<>> /\ ~Carries(q[k], d)
  BY DEF Inert
<1>3. Layout(off, q, d, Len(body), body)
  BY <1>1, <1>2 DEF Layout
<1> QED BY <1>3

(* When the loop is at Recv, all that was said has been sent.              *)
LEMMA AtRest ==
  ASSUME DataType, EnvoyType, AtRecv, NEW d \in Directions, NEW body, Account(d, body)
  PROVE  body = envoy.got[d] /\ Said = out
<1>1. Said = out
  BY ConcatEmptySeq DEF DataType, AtRecv, Said
<1>2. toSend = <<>> /\ Len(toSend) = 0
  BY DEF AtRecv
<1>3. PICK off : Layout(off, toSend, d, Len(envoy.got[d]), body)
  BY DEF Account
<1>4. Len(envoy.got[d]) = Len(body)
  BY <1>2, <1>3 DEF Layout
<1>5. envoy.got[d] \in Seq(Nat) /\ body \in Seq(Nat)
  BY DEF EnvoyType, Account
<1>6. \A i \in 1..Len(body) : envoy.got[d][i] = body[i]
  BY <1>4, <1>5, LenProperties DEF Account
<1> QED BY <1>1, <1>4, <1>5, <1>6, SeqEqual

(* A statement about the bytes of a body survives what a step says         *)
(* elsewhere.                                                              *)
LEMMA WholeKeeps ==
  ASSUME NEW d \in Directions, NEW bytes \in Seq(Nat), NEW q, Whole(bytes, q, d),
         envoy.sent[d] \in Nat, envoy'.sent[d] \in Nat, envoy.sent[d] <= envoy'.sent[d],
         envoy'.sent[d] = envoy.sent[d] \/ Unfinished(q, d),
         d = "resp" => profile' = profile \/ (bytes = <<>> /\ Silent(q, d))
  PROVE  Whole(bytes, q, d)'
<1>1. Finished(q, d) => ~Unfinished(q, d) /\ ~Silent(q, d)
  BY DEF Finished, Unfinished, Silent, Carries, IsAnswer
<1>2. Finished(q, d)' = Finished(q, d)
  BY DEF Finished
<1>3. CASE bytes = <<>> /\ Silent(q, d)
  BY <1>1, <1>2, <1>3 DEF Whole
<1>4. CASE d # "resp" \/ profile' = profile
  <2>1. Intact(bytes, q, d)' = Intact(bytes, q, d)
    BY <1>4 DEF Intact
  <2>2. Len(bytes) \in Nat
    BY LenProperties
  <2> QED BY <1>1, <1>2, <2>1, <2>2 DEF Whole
<1> QED BY <1>3, <1>4

(* A step that says nothing about the body of a direction.                 *)
LEMMA SayNoBody ==
  ASSUME DataType, EnvoyType, AtRecv, NEW d \in Directions, NEW body, Account(d, body),
         NEW new \in Seq(Message), Inert(new, d), toSend' = new, out' = out,
         envoy'.got = envoy.got, envoy'.sent[d] \in Nat, envoy.sent[d] <= envoy'.sent[d],
         envoy'.sent[d] = envoy.sent[d] \/ Unfinished(out, d),
         d = "resp" => profile' = profile \/ Silent(out, d),
         d = "resp" /\ status' = "open" /\ envoy'.state[d] = "body" =>
            \/ Silent(out, d) /\ (profile'.buffering \/ envoy'.sent[d] = 0)
            \/ envoy.state[d] = "body" /\ profile' = profile /\ envoy'.sent[d] = envoy.sent[d]
  PROVE  Account(d, body)'
<1>1. body = envoy.got[d] /\ Said = out /\ status = "open"
  BY AtRest DEF AtRecv
<1>2. out \in Seq(Message) /\ body \in Seq(Nat) /\ Said' = out \o new /\ envoy.sent[d] \in Nat
  BY DEF DataType, Account, Said, EnvoyType
<1> DEFINE said == out \o new
<1>3. /\ Finished(said, d) <=> Finished(out, d)
      /\ Unpromised(said, d) <=> Unpromised(out, d)
      /\ Promised(out, d, body) => Promised(said, d, body)
  <2>1. ~Finished(new, d) /\ Unpromised(new, d)
    BY DEF Finished, Unpromised, Inert
  <2> QED BY <1>2, <2>1, JoinBodies
<1>4. Silent(said, d) => Silent(out, d)
  BY <1>2, JoinMeans
<1>5. \E off : Layout(off, new, d, Len(body), body)
  BY <1>2, InertLayout
<1>6. Intact(body, said, d)' <=> Intact(body, out, d)'
  <2>1. /\ \A i \in DOMAIN out : i \in DOMAIN said /\ said[i] = out[i]
        /\ \A k \in DOMAIN said : \/ k \in DOMAIN out /\ said[k] = out[k]
                                  \/ k - Len(out) \in DOMAIN new /\ said[k] = new[k - Len(out)]
    BY <1>2, JoinElements
  <2> HIDE DEF said
  <2>2. \A k \in DOMAIN said : Carries(said[k], d) => k \in DOMAIN out /\ said[k] = out[k]
    BY <2>1 DEF Inert
  <2>3. said' = said
    BY <1>2 DEF said
  <2> QED BY <2>1, <2>2, <2>3 DEF Intact, Carries
<1> HIDE DEF said
<1>7. Said' = said
  BY <1>2 DEF said
<1>8. /\ Finished(Said, d)' = Finished(said, d) /\ Silent(Said, d)' = Silent(said, d)
      /\ Unpromised(Said, d)' = Unpromised(said, d) /\ Promised(Said, d, body)' = Promised(said, d, body)
      /\ Finished(out, d)' = Finished(out, d) /\ Unfinished(out, d)' = Unfinished(out, d)
  BY <1>7 DEF Finished, Silent, Unpromised, Promised, Unfinished
<1>9. Silent(out, d) => body = <<>>
  BY <1>1 DEF Account
<1>10. Whole(body, out, d)'
  <2>1. Whole(body, out, d)
    BY <1>1 DEF Account
  <2>2. PICK q : q = out
    OBVIOUS
  <2>3. Whole(body, q, d)'
    BY <1>2, <1>9, <2>1, <2>2, WholeKeeps
  <2> QED BY <2>2, <2>3
<1>11. Whole(body, Said, d)'
  BY <1>2, <1>3, <1>6, <1>7, <1>8, <1>10 DEF Whole, said
<1>12. Rising(body, envoy'.sent[d])
  <2>1. Rising(body, envoy.sent[d]) /\ \A i \in DOMAIN body : body[i] \in Nat
    BY <1>2, ElementOfSeq, LenProperties DEF Account
  <2> QED BY <1>2, <2>1 DEF Rising
<1>13. ~ByChunk(d)' => \A i \in DOMAIN body : (\A j \in 1..i : body[j] # 0) => body[i] = i
  <2>1. CASE body = <<>>
    BY <2>1
  <2>2. CASE ByChunk(d)' = ByChunk(d)
    BY <2>2 DEF Account
  <2> QED BY <1>9, <2>1, <2>2 DEF ByChunk
<1>14. \A k \in DOMAIN new : ~Carries(new[k], d)
  BY DEF Inert
<1>15. ASSUME d = "resp", status' = "open", envoy'.state[d] = "body"
       PROVE  /\ Unpromised(said, d)
              /\ ~profile'.buffering /\ Intact(body, said, d)' => Len(body) = envoy'.sent[d]
  <2>1. CASE Silent(out, d) /\ (profile'.buffering \/ envoy'.sent[d] = 0)
    <3>1. Unpromised(out, d)
      BY <2>1 DEF Unpromised, Silent, Opens, IsAnswer
    <3>2. body = <<>> /\ Len(body) = 0
      BY <1>9, <2>1
    <3> QED BY <1>3, <2>1, <3>1, <3>2
  <2>2. CASE envoy.state[d] = "body" /\ profile' = profile /\ envoy'.sent[d] = envoy.sent[d]
    <3>1. Intact(body, out, d)' = Intact(body, out, d)
      BY <1>1, <2>2 DEF Intact
    <3> QED BY <1>1, <1>3, <1>6, <1>15, <2>2, <3>1 DEF Account
  <2> QED BY <1>15, <2>1, <2>2
<1>16. (\E off : Layout(off, toSend, d, Len(envoy.got[d]), body))'
  BY <1>1, <1>5
<1>17. Promised(said, d, body)
  BY <1>1, <1>3 DEF Account
<1>18. Finished(out, d) => Len(envoy.got[d]) = Len(body)
  BY <1>1
<1>19. /\ Len(envoy'.got[d]) <= Len(body)
       /\ \A i \in DOMAIN envoy'.got[d] : envoy'.got[d][i] = body[i]
  <2>1. Len(body) \in Nat
    BY <1>2, LenProperties
  <2> QED BY <1>1, <2>1
<1>20. (d = "resp" /\ status = "open" /\ envoy.state[d] = "body" =>
         /\ Unpromised(Said, d)
         /\ ~profile.buffering /\ Intact(body, Said, d) => Len(body) = envoy.sent[d])'
  <2>1. Intact(body, Said, d)' = Intact(body, said, d)'
    BY <1>2, <1>7 DEF said
  <2> QED BY <1>8, <1>15, <2>1
<1>21. Whole(envoy.got[d], out, d)'
  BY <1>1, <1>10
<1> QED BY <1>1, <1>2, <1>4, <1>8, <1>9, <1>11, <1>12, <1>13, <1>14, <1>16, <1>17, <1>18, <1>19,
           <1>20, <1>21 DEF Account

(* Chunks follow each other without a gap.                                 *)
LEMMA ChunkStarts ==
  ASSUME NEW n \in Nat
  PROVE  /\ ChunkEnd(n, Chunks(n)) = n
         /\ \A i \in 1..Chunks(n) :
              /\ (i - 1) * BodyByteLimit \in Nat /\ (i - 1) * BodyByteLimit <= ChunkEnd(n, i)
              /\ i # 1 => ChunkEnd(n, i - 1) = (i - 1) * BodyByteLimit
<1> DEFINE L == BodyByteLimit
           k == (n + L - 1) \div L
<1>0. L \in Nat \ {0}
  BY ConfigAssumption
<1>1. CASE n = 0
  <2>1. Chunks(n) = 1
    BY <1>1 DEF Chunks
  <2> QED BY <1>0, <1>1, <2>1 DEF ChunkEnd
<1>2. CASE n # 0
  <2> HIDE DEF L
  <2>1. k \in Nat /\ k * L <= n + L - 1 /\ n + L - 1 < k * L + L
    BY <1>0
  <2> HIDE DEF k
  <2>3. Chunks(n) = k
    BY <1>2 DEF Chunks, k, L
  <2>4. ASSUME NEW i \in 1..k
        PROVE  (i - 1) * L \in Nat /\ (i - 1) * L <= ChunkEnd(n, i)
    <3>1. (i - 1) * L \in Nat /\ i * L = (i - 1) * L + L
      BY <1>0, <2>1
    <3>2. CASE i # k
      BY <1>0, <2>3, <3>1, <3>2 DEF ChunkEnd, L
    <3>3. CASE i = k
      <4>1. ChunkEnd(n, i) = n
        BY <2>3, <3>3 DEF ChunkEnd
      <4> QED BY <1>0, <2>1, <3>1, <3>3, <4>1
    <3> QED BY <3>2, <3>3
  <2>5. ASSUME NEW i \in 1..k, i # 1 PROVE ChunkEnd(n, i - 1) = (i - 1) * L
    BY <2>1, <2>3, <2>5 DEF ChunkEnd, L
  <2> QED BY <2>3, <2>4, <2>5 DEF ChunkEnd, L
<1> QED BY <1>1, <1>2

IsChunked(chunks, d, bytes) ==
    /\ chunks \in Seq(Message) /\ Len(chunks) = Chunks(Len(bytes))
    /\ \A i \in 1..Chunks(Len(bytes)) :
        /\ chunks[i].type = "body" /\ chunks[i].dir = d
        /\ chunks[i].eos <=> i = Chunks(Len(bytes))
        /\ chunks[i].body \in Seq(Nat) /\ Len(chunks[i].body) <= BodyByteLimit
        /\ Len(chunks[i].body) = ChunkEnd(Len(bytes), i) - (i - 1) * BodyByteLimit
        /\ \A j \in DOMAIN chunks[i].body :
            chunks[i].body[j] = bytes[(i - 1) * BodyByteLimit + j]

LEMMA ChunkParts ==
  ASSUME NEW d \in Directions, NEW bytes \in Seq(Nat)
  PROVE  IsChunked(BuildChunkedBodyResponses(d, bytes), d, bytes)
<1> DEFINE n == Len(bytes)
           L == BodyByteLimit
           part(i) == SubSeq(bytes, (i - 1) * L + 1, ChunkEnd(n, i))
           chunks == BuildChunkedBodyResponses(d, bytes)
<1>1. n \in Nat /\ L \in Nat \ {0} /\ Chunks(n) \in Nat \ {0}
  BY ChunkBounds, ConfigAssumption, LenProperties
<1>2. chunks = [i \in 1..Chunks(n) |-> Body(d, part(i), i = Chunks(n))]
  BY DEF BuildChunkedBodyResponses, Chunks, ChunkEnd
<1>3. /\ chunks \in Seq(Message)
      /\ \A i \in DOMAIN chunks :
           /\ chunks[i].type = "body" /\ chunks[i].dir = d
           /\ chunks[i].eos <=> i = Len(chunks)
           /\ Len(chunks[i].body) <= BodyByteLimit
  BY ChunkedBody
<1>4. DOMAIN chunks = 1..Chunks(n) /\ Len(chunks) = Chunks(n)
  <2>1. DOMAIN chunks = 1..Chunks(n)
    BY <1>2
  <2>2. DOMAIN chunks = 1..Len(chunks) /\ Len(chunks) \in Nat
    BY <1>3, LenProperties
  <2> HIDE DEF chunks
  <2> QED BY <1>1, <2>1, <2>2
<1>5. ASSUME NEW i \in 1..Chunks(n)
      PROVE  /\ chunks[i].body = part(i)
             /\ part(i) \in Seq(Nat) /\ Len(part(i)) = ChunkEnd(n, i) - (i - 1) * L
             /\ \A j \in DOMAIN part(i) : part(i)[j] = bytes[(i - 1) * L + j]
  <2> DEFINE start == (i - 1) * L
             to == ChunkEnd(n, i)
  <2>1. start \in Nat /\ to \in 0..n /\ start <= to
    BY <1>1, ChunkBounds, ChunkStarts
  <2> HIDE DEF start, to
  <2>2. \A j \in (start + 1)..to : bytes[j] \in Nat
    BY <1>1, <2>1, ElementOfSeq
  <2>3. /\ SubSeq(bytes, start + 1, to) \in Seq(Nat)
        /\ Len(SubSeq(bytes, start + 1, to)) = IF start + 1 <= to THEN to - (start + 1) + 1 ELSE 0
        /\ \A j \in 1 .. to - (start + 1) + 1 : SubSeq(bytes, start + 1, to)[j] = bytes[(start + 1) + j - 1]
    BY <1>1, <2>1, <2>2, SubSeqProperties
  <2>4. part(i) = SubSeq(bytes, start + 1, to)
    BY DEF start, to
  <2> DEFINE p == SubSeq(bytes, start + 1, to)
  <2>8. \A j \in 1 .. to - (start + 1) + 1 : p[j] = bytes[(start + 1) + j - 1]
    BY <2>3
  <2>5. p \in Seq(Nat) /\ Len(p) = to - start /\ DOMAIN p = 1..(to - start)
    <3>1. p \in Seq(Nat) /\ Len(p) = to - start
      BY <1>1, <2>1, <2>3
    <3> HIDE DEF p
    <3>2. DOMAIN p = 1..Len(p)
      BY <3>1, LenProperties
    <3> QED BY <3>1, <3>2
  <2> HIDE DEF p
  <2>6. \A j \in DOMAIN p : p[j] = bytes[start + j]
    <3>1. ASSUME NEW j \in DOMAIN p PROVE p[j] = bytes[start + j]
      <4>1. j \in 1 .. to - (start + 1) + 1 /\ (start + 1) + j - 1 = start + j
        BY <1>1, <2>1, <2>5
      <4> QED BY <2>8, <4>1
    <3> QED BY <3>1
  <2>7. chunks[i].body = part(i)
    <3>1. chunks[i] = Body(d, part(i), i = Chunks(n))
      BY <1>2
    <3> HIDE DEF chunks, part
    <3>2. Body(d, part(i), i = Chunks(n)).body = part(i)
      BY DEF Body
    <3> QED BY <3>1, <3>2
  <2> QED BY <2>4, <2>5, <2>6, <2>7 DEF start, to, p
<1> HIDE DEF chunks, part
<1>6. ASSUME NEW i \in 1..Chunks(n)
      PROVE  /\ chunks[i].type = "body" /\ chunks[i].dir = d
             /\ chunks[i].eos <=> i = Chunks(n)
             /\ chunks[i].body \in Seq(Nat) /\ Len(chunks[i].body) <= L
             /\ Len(chunks[i].body) = ChunkEnd(n, i) - (i - 1) * L
             /\ \A j \in DOMAIN chunks[i].body : chunks[i].body[j] = bytes[(i - 1) * L + j]
  <2>1. /\ chunks[i].type = "body" /\ chunks[i].dir = d
        /\ chunks[i].eos <=> i = Chunks(n)
        /\ Len(chunks[i].body) <= L
    BY <1>3, <1>4
  <2> DEFINE c == chunks[i].body
  <2>2. /\ c \in Seq(Nat) /\ Len(c) = ChunkEnd(n, i) - (i - 1) * L
        /\ \A j \in DOMAIN c : c[j] = bytes[(i - 1) * L + j]
    BY <1>5
  <2> QED BY <2>1, <2>2
<1>7. IsChunked(chunks, d, bytes)
  BY <1>3, <1>4, <1>6, Zenon DEF IsChunked
<1> QED BY <1>7 DEF chunks

(* Headers and chunks carry the whole body.                                *)
LEMMA WholeLayout ==
  ASSUME NEW d \in Directions, NEW bytes \in Seq(Nat), NEW length \in Seq(Nat)
  PROVE  LET new == <<Headers(d, length)>> \o BuildChunkedBodyResponses(d, bytes)
         IN /\ new \in Seq(Message)
            /\ \E off : Layout(off, new, d, 0, bytes)
            /\ ~Silent(new, d)
            /\ length \in {NoLength, <<Len(bytes)>>} => Promised(new, d, bytes)
<1> DEFINE n == Len(bytes)
           L == BodyByteLimit
           h == Headers(d, length)
           chunks == BuildChunkedBodyResponses(d, bytes)
           new == <<h>> \o chunks
           off == [k \in 1..(Len(new) + 1) |-> IF k <= 2 THEN 0 ELSE ChunkEnd(n, k - 2)]
<1>1. n \in Nat /\ L \in Nat \ {0} /\ Chunks(n) \in Nat \ {0}
  BY ChunkBounds, ConfigAssumption, LenProperties
<1>2. h \in Message /\ h.type = "headers" /\ h.dir = d /\ h.body = <<>> /\ h.length = length
  BY MessageTypes DEF Headers
<1> HIDE DEF h
<1>3. <<h>> \in Seq(Message) /\ Len(<<h>>) = 1 /\ <<h>>[1] = h
  BY <1>2
<1>4. /\ chunks \in Seq(Message) /\ Len(chunks) = Chunks(n)
      /\ \A i \in 1..Chunks(n) :
           /\ chunks[i].type = "body" /\ chunks[i].dir = d /\ (chunks[i].eos <=> i = Chunks(n))
           /\ chunks[i].body \in Seq(Nat) /\ Len(chunks[i].body) <= L
           /\ Len(chunks[i].body) = ChunkEnd(n, i) - (i - 1) * L
           /\ \A j \in DOMAIN chunks[i].body : chunks[i].body[j] = bytes[(i - 1) * L + j]
  <2>1. IsChunked(chunks, d, bytes)
    BY ChunkParts
  <2> HIDE DEF chunks
  <2> QED BY <2>1 DEF IsChunked
<1> HIDE DEF chunks
<1>5. /\ new \in Seq(Message) /\ Len(new) = Chunks(n) + 1 /\ DOMAIN new = 1..(Chunks(n) + 1)
      /\ new[1] = h /\ \A k \in 2..(Chunks(n) + 1) : new[k] = chunks[k - 1]
  <2>1. /\ new \in Seq(Message) /\ Len(new) = 1 + Chunks(n)
        /\ \A i \in 1 .. 1 + Chunks(n) : new[i] = IF i <= 1 THEN <<h>>[i] ELSE chunks[i - 1]
    BY <1>3, <1>4, ConcatProperties
  <2> HIDE DEF new
  <2>2. DOMAIN new = 1..Len(new)
    BY <2>1, LenProperties
  <2> QED BY <1>1, <1>3, <2>1, <2>2
<1> HIDE DEF new, L
<1>6. \A i \in 1..Chunks(n) : /\ ChunkEnd(n, i) \in 0..n
                              /\ (i - 1) * L \in Nat
                              /\ i # 1 => ChunkEnd(n, i - 1) = (i - 1) * L
  BY <1>1, ChunkBounds, ChunkStarts DEF L
<1>7. ChunkEnd(n, Chunks(n)) = n
  BY <1>1, ChunkStarts
<1> HIDE DEF n
<1>8. off \in [1..(Len(new) + 1) -> 0..n]
  <2>1. ASSUME NEW k \in 1..(Len(new) + 1), k > 2 PROVE ChunkEnd(n, k - 2) \in 0..n
    <3>1. k - 2 \in 1..Chunks(n)
      BY <1>1, <1>5, <2>1
    <3> QED BY <1>6, <3>1
  <2> QED BY <1>1, <2>1
<1>9. off[1] = 0 /\ off[Len(new) + 1] = n
  BY <1>1, <1>5, <1>7
<1>10. ASSUME NEW k \in DOMAIN new
       PROVE  /\ Carries(new[k], d) \/ Bytes(new[k], d) = <<>>
              /\ off[k + 1] = off[k] + Len(Bytes(new[k], d))
              /\ \A i \in DOMAIN Bytes(new[k], d) : bytes[off[k] + i] = Bytes(new[k], d)[i]
              /\ Carries(new[k], d) /\ new[k].eos => off[k + 1] = n
  <2>1. CASE k = 1
    <3>1. Bytes(new[k], d) = <<>> /\ off[k + 1] = 0 /\ off[k] = 0 /\ ~Carries(new[k], d)
      BY <1>1, <1>2, <1>5, <2>1 DEF Bytes, Carries
    <3> QED BY <3>1
  <2>2. CASE k # 1
    <3> DEFINE i == k - 1
    <3>1. i \in 1..Chunks(n) /\ new[k] = chunks[i] /\ k = i + 1 /\ k \in 2..(Chunks(n) + 1)
      BY <1>1, <1>5, <2>2
    <3> HIDE DEF i
    <3>2. off[k + 1] = ChunkEnd(n, i)
      BY <1>1, <1>5, <3>1
    <3>3. off[k] = (i - 1) * L
      <4>1. CASE i = 1
        <5>1. off[k] = 0
          BY <1>1, <1>5, <3>1, <4>1
        <5>2. (i - 1) * L = 0
          BY <1>1, <4>1 DEF L
        <5> QED BY <5>1, <5>2
      <4>2. CASE i # 1
        <5>1. off[k] = ChunkEnd(n, i - 1)
          BY <1>1, <1>5, <3>1, <4>2
        <5> QED BY <1>6, <3>1, <4>2, <5>1
      <4> QED BY <4>1, <4>2
    <3>4. Bytes(new[k], d) = chunks[i].body /\ Carries(new[k], d)
      BY <1>4, <3>1 DEF Bytes, Carries
    <3> DEFINE start == (i - 1) * L
    <3>5. /\ start \in Nat /\ ChunkEnd(n, i) \in 0..n
          /\ Len(chunks[i].body) = ChunkEnd(n, i) - start
          /\ \A j \in DOMAIN chunks[i].body : chunks[i].body[j] = bytes[start + j]
          /\ chunks[i].eos <=> i = Chunks(n)
      BY <1>4, <1>6, <3>1
    <3> HIDE DEF start
    <3>6. off[k] = start
      BY <3>3 DEF start
    <3> HIDE DEF off
    <3>7. off[k + 1] = off[k] + Len(chunks[i].body)
      BY <1>1, <3>2, <3>5, <3>6
    <3>8. new[k].eos => off[k + 1] = n
      BY <1>7, <3>1, <3>2, <3>5
    <3> QED BY <3>4, <3>5, <3>6, <3>7, <3>8
  <2> QED BY <2>1, <2>2
<1>11. Layout(off, new, d, 0, bytes)
  <2> HIDE DEF off
  <2> QED BY <1>8, <1>9, <1>10 DEF Layout, n
<1>12. ~Silent(new, d)
  <2>1. 1 \in DOMAIN new /\ new[1] = h
    BY <1>1, <1>5
  <2> QED BY <1>2, <2>1 DEF Silent, IsAnswer
<1>13. ASSUME length \in {NoLength, <<Len(bytes)>>} PROVE Promised(new, d, bytes)
  <2>1. ASSUME NEW k \in DOMAIN new, Opens(new[k], d), new[k].length # NoLength
        PROVE  new[k].length = <<n>>
    <3>1. k = 1
      <4>1. CASE k # 1
        <5>1. k - 1 \in 1..Chunks(n) /\ new[k] = chunks[k - 1]
          BY <1>1, <1>5, <4>1
        <5> QED BY <1>4, <2>1, <5>1 DEF Opens
      <4> QED BY <4>1
    <3> QED BY <1>2, <1>5, <1>13, <2>1, <3>1 DEF n
  <2>2. ASSUME NEW k \in DOMAIN new, Carries(new[k], d) PROVE Len(new[k].body) <= BodyByteLimit
    <3>1. k # 1
      BY <1>2, <1>5, <2>2 DEF Carries
    <3>2. k - 1 \in 1..Chunks(n) /\ new[k] = chunks[k - 1]
      BY <1>1, <1>5, <3>1
    <3> QED BY <1>4, <3>2 DEF L
  <2>3. <<n>>[1] = n /\ n <= n
    BY <1>1
  <2> QED BY <2>1, <2>2, <2>3 DEF Promised, n
<1> QED BY <1>5, <1>11, <1>12, <1>13 DEF new, h, chunks

(* A whole body is said: what was buffered, or what plugins made of it.    *)
LEMMA SayWholeBody ==
  ASSUME DataType, EnvoyType, AtRecv, NEW d \in Directions, NEW body, Account(d, body), Silent(out, d),
         NEW bytes \in Seq(Nat), NEW length \in Seq(Nat), length \in {NoLength, <<Len(bytes)>>},
         toSend' = <<Headers(d, length)>> \o BuildChunkedBodyResponses(d, bytes), out' = out,
         envoy'.got = envoy.got, envoy'.sent[d] \in Nat, envoy'.state[d] # "body", ~ByChunk(d)',
         \/ Buffered(bytes, envoy'.sent[d])
         \/ bytes # <<>> /\ \A i \in DOMAIN bytes : bytes[i] = 0
  PROVE  Account(d, bytes)'
<1>1. body = envoy.got[d] /\ Said = out /\ status = "open"
  BY AtRest DEF AtRecv
<1>2. envoy.got[d] = <<>> /\ Len(envoy.got[d]) = 0
  BY <1>1 DEF Account
<1>3. PICK new \in Seq(Message) :
        /\ toSend' = new /\ (\E off : Layout(off, new, d, 0, bytes))
        /\ ~Silent(new, d) /\ Promised(new, d, bytes)
  BY WholeLayout
<1>4. out \in Seq(Message) /\ Said' = out \o new
  BY <1>3 DEF DataType, Said
<1> DEFINE said == out \o new
<1>5. Promised(said, d, bytes) /\ ~Silent(said, d)
  BY <1>3, <1>4, JoinBodies, JoinMeans
<1> HIDE DEF said
<1>6. Said' = said
  BY <1>4 DEF said
<1>7. Promised(Said, d, bytes)' /\ ~Silent(Said, d)'
  BY <1>5, <1>6 DEF Promised, Silent, Finished
<1>8. Len(bytes) \in Nat /\ DOMAIN bytes = 1..Len(bytes)
  BY LenProperties
<1>9. Rising(bytes, envoy'.sent[d])
  BY <1>8 DEF Rising, Buffered
<1>10. \A i \in DOMAIN bytes : (\A j \in 1..i : bytes[j] # 0) => bytes[i] = i
  <2>1. \A i \in DOMAIN bytes : i \in 1..i
    BY <1>8
  <2> QED BY <2>1 DEF Buffered
<1>11. Whole(bytes, Said, d)'
  <2>1. CASE Buffered(bytes, envoy'.sent[d])
    BY <1>8, <2>1 DEF Whole, Buffered
  <2>2. CASE bytes # <<>> /\ \A i \in DOMAIN bytes : bytes[i] = 0
    <3>1. 1 \in DOMAIN bytes
      BY <1>8, <2>2
    <3> QED BY <2>2, <3>1 DEF Whole, Intact
  <2> QED BY <2>1, <2>2
<1>12. ~Finished(out, d)'
  BY DEF Finished, Silent, Carries, IsAnswer
<1>13. Whole(envoy.got[d], out, d)'
  BY <1>2, <1>12 DEF Whole
<1>14. (\E off : Layout(off, toSend, d, Len(envoy.got[d]), bytes))'
  BY <1>2, <1>3
<1>15. /\ Len(envoy'.got[d]) <= Len(bytes)
       /\ \A i \in DOMAIN envoy'.got[d] : envoy'.got[d][i] = bytes[i]
  BY <1>2, <1>8
<1> QED BY <1>7, <1>9, <1>10, <1>11, <1>12, <1>13, <1>14, <1>15 DEF Account

(* A streamed chunk, after the headers if they have not been sent.         *)
Streamed(new, b) == new \in {<<>> \o <<b>>, <<Headers("resp", NoLength)>> \o <<b>>}
CarriesOn(new, body, bytes) ==
    /\ new \in Seq(Message)
    /\ \E off : Layout(off, new, "resp", Len(body), body \o bytes)
    /\ ~Silent(new, "resp") /\ Unpromised(new, "resp")
    /\ \E k \in DOMAIN new : Carries(new[k], "resp") /\ new[k].body = bytes
    /\ \A k \in DOMAIN new : Carries(new[k], "resp") => k = Len(new)
LEMMA ChunkLayout ==
  ASSUME NEW b \in Message, Carries(b, "resp"), NEW body \in Seq(Nat), NEW new, Streamed(new, b)
  PROVE  CarriesOn(new, body, b.body)
<1> DEFINE bytes == b.body
<1>0. bytes \in Seq(Nat)
  BY DEF Message
<1> HIDE DEF bytes
<1> DEFINE h == Headers("resp", NoLength)
           all == body \o bytes
<1>1. /\ h \in Message /\ h.type = "headers" /\ h.dir = "resp" /\ h.body = <<>> /\ h.length = NoLength
      /\ b.type = "body" /\ b.dir = "resp" /\ b.body = bytes
  BY MessageTypes DEF Headers, Carries, Directions, bytes
<1> HIDE DEF h
<1>2. /\ all \in Seq(Nat) /\ Len(all) = Len(body) + Len(bytes) /\ Len(body) \in Nat /\ Len(bytes) \in Nat
      /\ \A i \in DOMAIN bytes : all[Len(body) + i] = bytes[i]
  BY <1>0, ConcatProperties, JoinElements, LenProperties
<1> HIDE DEF all
<1>3. CASE new = <<>> \o <<b>>
  <2> DEFINE off == <<Len(body), Len(all)>>
  <2>1. new = <<b>>
    BY <1>3
  <2>2. new \in Seq(Message) /\ Len(new) = 1 /\ new[1] = b /\ DOMAIN new = {1}
    BY <1>1, <2>1
  <2>3. off[1] = Len(body) /\ off[2] = Len(all) /\ off \in [1..(1 + 1) -> 0..Len(all)]
    BY <1>2
  <2> HIDE DEF off
  <2>4. Bytes(b, "resp") = bytes /\ Carries(b, "resp")
    BY <1>1 DEF Bytes, Carries
  <2>5. /\ Carries(new[1], "resp") \/ Bytes(new[1], "resp") = <<>>
        /\ off[1 + 1] = off[1] + Len(Bytes(new[1], "resp"))
        /\ \A i \in DOMAIN Bytes(new[1], "resp") : all[off[1] + i] = Bytes(new[1], "resp")[i]
        /\ Carries(new[1], "resp") /\ new[1].eos => off[1 + 1] = Len(all)
    BY <1>2, <2>2, <2>3, <2>4
  <2>6. Layout(off, new, "resp", Len(body), all)
    <3>1. \A k \in DOMAIN new : k = 1
      BY <2>2
    <3>2. off \in [1..(Len(new) + 1) -> 0..Len(all)] /\ off[Len(new) + 1] = Len(all)
      BY <2>2, <2>3
    <3> QED BY <2>3, <2>5, <3>1, <3>2, Zenon DEF Layout
  <2>7. ~Silent(new, "resp") /\ Unpromised(new, "resp") /\ Carries(new[1], "resp")
    BY <1>1, <2>2 DEF Silent, Unpromised, Opens, Carries, IsAnswer
  <2> QED BY <1>1, <2>2, <2>6, <2>7 DEF all, CarriesOn
<1>4. CASE new = <<h>> \o <<b>>
  <2> DEFINE off == <<Len(body), Len(body), Len(all)>>
  <2>1. new = <<h, b>>
    <3>1. <<h>> \in Seq(Message)
      BY <1>1
    <3>2. Append(<<h>>, b) = <<h>> \o <<b>>
      BY <1>1, <3>1, AppendIsConcat
    <3>3. Append(<<h>>, b) = <<h, b>>
      BY AppendTuples
    <3> QED BY <1>4, <3>2, <3>3
  <2>2. new \in Seq(Message) /\ Len(new) = 2 /\ new[1] = h /\ new[2] = b /\ DOMAIN new = {1, 2}
    BY <1>1, <2>1
  <2>3. /\ off[1] = Len(body) /\ off[2] = Len(body) /\ off[3] = Len(all)
        /\ off \in [1..(2 + 1) -> 0..Len(all)]
    BY <1>2
  <2> HIDE DEF off
  <2>4. Bytes(b, "resp") = bytes /\ Carries(b, "resp") /\ Bytes(h, "resp") = <<>> /\ ~Carries(h, "resp")
    BY <1>1 DEF Bytes, Carries
  <2>5. /\ Carries(new[1], "resp") \/ Bytes(new[1], "resp") = <<>>
        /\ off[1 + 1] = off[1] + Len(Bytes(new[1], "resp"))
        /\ \A i \in DOMAIN Bytes(new[1], "resp") : all[off[1] + i] = Bytes(new[1], "resp")[i]
        /\ Carries(new[1], "resp") /\ new[1].eos => off[1 + 1] = Len(all)
    BY <1>2, <2>2, <2>3, <2>4
  <2>6. /\ Carries(new[2], "resp") \/ Bytes(new[2], "resp") = <<>>
        /\ off[2 + 1] = off[2] + Len(Bytes(new[2], "resp"))
        /\ \A i \in DOMAIN Bytes(new[2], "resp") : all[off[2] + i] = Bytes(new[2], "resp")[i]
        /\ Carries(new[2], "resp") /\ new[2].eos => off[2 + 1] = Len(all)
    BY <1>2, <2>2, <2>3, <2>4
  <2>7. Layout(off, new, "resp", Len(body), all)
    <3>1. \A k \in DOMAIN new : k = 1 \/ k = 2
      BY <2>2
    <3>2. off \in [1..(Len(new) + 1) -> 0..Len(all)] /\ off[Len(new) + 1] = Len(all)
      BY <2>2, <2>3
    <3> QED BY <2>3, <2>5, <2>6, <3>1, <3>2, Zenon DEF Layout
  <2>8. /\ ~Silent(new, "resp") /\ Unpromised(new, "resp")
        /\ Carries(new[2], "resp") /\ ~Carries(new[1], "resp")
    BY <1>1, <2>2 DEF Silent, Unpromised, Opens, Carries, IsAnswer
  <2> QED BY <1>1, <2>2, <2>7, <2>8 DEF all, CarriesOn
<1> QED BY <1>3, <1>4 DEF h, Streamed

LEMMA SayMore ==
  ASSUME DataType, EnvoyType, AtRecv, NEW body, Account("resp", body),
         envoy.state["resp"] = "body", Unfinished(out, "resp"), ~profile.buffering, profile' = profile,
         NEW chunk \in Seq(Nat), \A i \in DOMAIN chunk : chunk[i] = envoy.sent["resp"] + i,
         NEW bytes \in Seq(Nat), NEW eos \in BOOLEAN, headersSent \in BOOLEAN,
         bytes = chunk \/ (profile.chunkProcessors /\ \A i \in DOMAIN bytes : bytes[i] = 0),
         toSend' = (IF headersSent THEN <<>> ELSE <<Headers("resp", NoLength)>>)
                     \o <<Body("resp", bytes, eos)>>,
         out' = out, envoy'.got = envoy.got, envoy'.sent["resp"] = envoy.sent["resp"] + Len(chunk)
  PROVE  Account("resp", body \o bytes)'
<1> DEFINE d == "resp"
           all == body \o bytes
           sent == envoy.sent["resp"]
<1>0. d \in Directions
  BY DEF Directions
<1>1. body = envoy.got[d] /\ Said = out /\ status = "open" /\ body \in Seq(Nat)
  BY <1>0, AtRest DEF AtRecv, Account
<1>2. PICK new \in Seq(Message) :
        /\ toSend' = new /\ (\E off : Layout(off, new, d, Len(body), all))
        /\ ~Silent(new, d) /\ Unpromised(new, d)
        /\ (\E k \in DOMAIN new : Carries(new[k], d) /\ new[k].body = bytes)
        /\ (\A k \in DOMAIN new : Carries(new[k], d) => k = Len(new))
  <2> DEFINE text == Body("resp", bytes, eos)
  <2>1. text \in Message /\ Carries(text, "resp") /\ text.body = bytes
    BY <1>0, MessageTypes DEF Body, Carries
  <2>2. PICK b \in Message : b = text
    BY <2>1
  <2>3. PICK new : new = toSend'
    OBVIOUS
  <2>4. Streamed(new, b)
    BY <2>2, <2>3 DEF Streamed
  <2>5. Carries(b, "resp") /\ b.body = bytes
    BY <2>1, <2>2
  <2> HIDE DEF text
  <2>6. CarriesOn(new, body, bytes)
    BY <1>1, <2>4, <2>5, ChunkLayout
  <2> QED BY <2>3, <2>6 DEF CarriesOn
<1>3. /\ all \in Seq(Nat) /\ Len(all) = Len(body) + Len(bytes) /\ Len(body) \in Nat /\ Len(bytes) \in Nat
      /\ DOMAIN body = 1..Len(body) /\ DOMAIN bytes = 1..Len(bytes) /\ DOMAIN all = 1..Len(all)
  <2>1. all \in Seq(Nat) /\ Len(all) = Len(body) + Len(bytes)
    BY <1>1, ConcatProperties
  <2> HIDE DEF all
  <2> QED BY <1>1, <2>1, LenProperties
<1>30. \A i \in DOMAIN body : i \in DOMAIN all /\ all[i] = body[i]
  BY <1>1, JoinElements
<1>31. ASSUME NEW i \in DOMAIN all, i \notin DOMAIN body
       PROVE  i > Len(body) /\ i - Len(body) \in DOMAIN bytes /\ all[i] = bytes[i - Len(body)]
  BY <1>1, <1>31, JoinElements
<1>4. sent \in Nat /\ Len(chunk) \in Nat /\ DOMAIN chunk = 1..Len(chunk)
  BY <1>0, LenProperties DEF EnvoyType
<1> DEFINE said == out \o new
<1>5. out \in Seq(Message) /\ Said' = said
  BY <1>2 DEF DataType, Said
<1>6. /\ ~Silent(said, d)
      /\ Unpromised(said, d) <=> Unpromised(out, d) /\ Unpromised(new, d)
  BY <1>2, <1>5, JoinBodies, JoinMeans
<1>7. /\ \A i \in DOMAIN out : i \in DOMAIN said /\ said[i] = out[i]
      /\ \A i \in DOMAIN new : Len(out) + i \in DOMAIN said /\ said[Len(out) + i] = new[i]
  BY <1>5, JoinElements
<1> HIDE DEF said, all, sent
<1>8. Unpromised(said, d)
  BY <1>1, <1>2, <1>6 DEF Account
<1>9. Promised(said, d, all)
  BY <1>8 DEF Promised, Unpromised
<1>10. ~Finished(out, d) /\ ~Finished(out, d)'
  BY DEF Finished, Unfinished, Carries, IsAnswer
<1>11. Intact(all, said, d)' => Intact(body, out, d) /\ bytes = chunk
  <2> SUFFICES ASSUME Intact(all, said, d)' PROVE Intact(body, out, d) /\ bytes = chunk
    OBVIOUS
  <2>1. said' = said /\ all' = all
    BY <1>1, <1>5 DEF said, all
  <2>2. \A i \in DOMAIN all : all[i] # 0
    BY <2>1 DEF Intact
  <2>3. profile.chunkProcessors => \A i \in DOMAIN said : Carries(said[i], d) => said[i].body # <<>>
    BY <2>1 DEF Intact, Carries
  <2>4. Intact(body, out, d)
    <3>1. \A i \in DOMAIN body : body[i] # 0
      BY <1>30, <2>2
    <3> QED BY <1>7, <2>3, <3>1 DEF Intact
  <2>5. CASE profile.chunkProcessors /\ \A i \in DOMAIN bytes : bytes[i] = 0
    <3>1. bytes # <<>>
      <4>1. PICK k \in DOMAIN new : Carries(new[k], d) /\ new[k].body = bytes
        BY <1>2
      <4> QED BY <1>7, <2>3, <2>5, <4>1
    <3>2. Len(body) + 1 \in DOMAIN all /\ Len(body) + 1 \notin DOMAIN body
      BY <1>3, <3>1
    <3>3. all[Len(body) + 1] = 0
      BY <1>3, <1>31, <2>5, <3>2
    <3> QED BY <2>2, <3>2, <3>3
  <2> QED BY <2>4, <2>5
<1>12. Intact(body, out, d) => Len(body) = sent /\ \A i \in DOMAIN body : body[i] = i
  BY <1>1 DEF Account, Whole, sent
<1>13. Intact(body, out, d) /\ bytes = chunk
         => Len(all) = envoy'.sent[d] /\ \A i \in DOMAIN all : all[i] = i
  <2> SUFFICES ASSUME Intact(body, out, d), bytes = chunk
               PROVE  Len(all) = envoy'.sent[d] /\ \A i \in DOMAIN all : all[i] = i
    OBVIOUS
  <2>1. ASSUME NEW i \in DOMAIN all PROVE all[i] = i
    <3>1. CASE i \in DOMAIN body
      BY <1>12, <1>30, <3>1
    <3>2. CASE i \notin DOMAIN body
      <4>1. all[i] = sent + (i - Len(body))
        BY <1>31, <3>2 DEF sent
      <4> QED BY <1>3, <1>4, <1>12, <4>1
    <3> QED BY <3>1, <3>2
  <2> QED BY <1>3, <1>12, <2>1 DEF sent
<1>14. Whole(all, Said, d)'
  <2>1. all' = all
    BY <1>1 DEF all
  <2>2. Len(all) <= Len(all)
    BY <1>3
  <2>3. Intact(all, Said, d)' = Intact(all, said, d)'
    <3>1. Said' = said'
      BY <1>5 DEF said
    <3> QED BY <3>1
  <2>4. Whole(all, Said, d)' = (Intact(all, Said, d)' =>
           /\ Len(all) <= envoy'.sent[d] /\ \A i \in DOMAIN all : all[i] = i
           /\ Finished(Said, d)' => Len(all) = envoy'.sent[d])
    BY <2>1 DEF Whole
  <2> QED BY <1>3, <1>11, <1>13, <2>2, <2>3, <2>4
<1>15. Rising(all, envoy'.sent[d])
  <2>1. /\ \A i \in DOMAIN body : body[i] <= sent /\ body[i] \in Nat
        /\ \A i, j \in DOMAIN body : i < j /\ body[i] # 0 /\ body[j] # 0 => body[i] < body[j]
    BY <1>1, ElementOfSeq, <1>3 DEF Account, Rising, sent
  <2>2. \A i \in DOMAIN bytes : bytes[i] \in Nat /\ (bytes[i] = 0 \/ (bytes[i] = sent + i /\ i <= Len(chunk)))
    <3>1. ASSUME NEW i \in DOMAIN bytes
          PROVE  bytes[i] \in Nat /\ (bytes[i] = 0 \/ (bytes[i] = sent + i /\ i <= Len(chunk)))
      <4>1. bytes[i] \in Nat
        BY <1>3, ElementOfSeq
      <4>2. CASE bytes = chunk
        BY <1>4, <4>1, <4>2 DEF sent
      <4> QED BY <4>1, <4>2
    <3> QED BY <3>1
  <2>3. envoy'.sent[d] = sent + Len(chunk)
    BY DEF sent
  <2>4. ASSUME NEW i \in DOMAIN all PROVE all[i] <= sent + Len(chunk)
    <3>1. CASE i \in DOMAIN body
      <4>1. all[i] = body[i] /\ body[i] <= sent /\ body[i] \in Nat
        BY <1>30, <2>1, <3>1
      <4> QED BY <1>4, <4>1
    <3>2. CASE i \notin DOMAIN body
      <4>1. PICK k \in DOMAIN bytes : all[i] = bytes[k]
        BY <1>31, <3>2
      <4>2. k \in Nat
        BY <1>3
      <4>3. bytes[k] = 0 \/ (bytes[k] = sent + k /\ k <= Len(chunk))
        BY <2>2
      <4> QED BY <1>4, <4>1, <4>2, <4>3
    <3> QED BY <3>1, <3>2
  <2>5. ASSUME NEW i \in DOMAIN all, NEW j \in DOMAIN all, i < j, all[i] # 0, all[j] # 0
        PROVE  all[i] < all[j]
    <3>1. CASE j \in DOMAIN body
      <4>1. i \in DOMAIN body
        BY <1>3, <2>5, <3>1
      <4> QED BY <1>30, <2>1, <2>5, <3>1, <4>1
    <3>2. CASE j \notin DOMAIN body /\ i \in DOMAIN body
      <4>1. all[i] = body[i] /\ body[i] <= sent /\ body[i] \in Nat
        BY <1>30, <2>1, <3>2
      <4>2. j - Len(body) \in DOMAIN bytes /\ all[j] = bytes[j - Len(body)]
        BY <1>31, <3>2
      <4>3. all[j] = sent + (j - Len(body)) /\ j - Len(body) > 0
        BY <1>3, <2>2, <2>5, <4>2
      <4> QED BY <1>3, <1>4, <4>1, <4>3
    <3>3. CASE j \notin DOMAIN body /\ i \notin DOMAIN body
      <4>1. /\ j - Len(body) \in DOMAIN bytes /\ all[j] = bytes[j - Len(body)]
            /\ i - Len(body) \in DOMAIN bytes /\ all[i] = bytes[i - Len(body)]
        BY <1>31, <3>3
      <4>2. all[j] = sent + (j - Len(body)) /\ all[i] = sent + (i - Len(body))
        BY <1>3, <2>2, <2>5, <4>1
      <4> QED BY <1>3, <1>4, <2>5, <4>2
    <3> QED BY <3>1, <3>2, <3>3
  <2> QED BY <2>3, <2>4, <2>5 DEF Rising
<1>16. ~ByChunk(d)' => \A i \in DOMAIN all : (\A j \in 1..i : all[j] # 0) => all[i] = i
  <2> SUFFICES ASSUME ~profile.chunkProcessors, NEW i \in DOMAIN all, \A j \in 1..i : all[j] # 0
               PROVE  all[i] = i
    BY DEF ByChunk
  <2>1. CASE i \in DOMAIN body
    <3>1. \A j \in 1..i : j \in DOMAIN body /\ all[j] = body[j]
      <4>1. \A j \in 1..i : j \in DOMAIN body
        BY <1>3, <2>1
      <4> QED BY <1>30, <4>1
    <3>2. \A j \in 1..i : body[j] # 0
      BY <3>1
    <3>3. body[i] = i
      BY <2>1, <3>2 DEF Account, ByChunk
    <3> QED BY <1>30, <2>1, <3>3
  <2>2. CASE i \notin DOMAIN body
    <3>1. \A j \in DOMAIN body : j \in 1..i /\ all[j] = body[j]
      <4>1. i \in Nat /\ i > Len(body)
        BY <1>3, <1>31, <2>2
      <4> QED BY <1>3, <1>30, <4>1
    <3>2. Intact(body, out, d)
      BY <3>1 DEF Intact
    <3> QED BY <1>13, <3>2
  <2> QED BY <2>1, <2>2
<1>17. Whole(envoy.got[d], out, d)'
  <2>1. PICK q, got : q = out /\ got = body
    OBVIOUS
  <2>2. Whole(got, q, d)
    BY <1>1, <2>1 DEF Account
  <2>3. envoy'.sent[d] = sent + Len(chunk) /\ envoy.sent[d] = sent
    BY DEF sent
  <2>4. envoy'.sent[d] \in Nat /\ envoy.sent[d] \in Nat /\ envoy.sent[d] <= envoy'.sent[d]
    BY <1>4, <2>3
  <2>5. Whole(got, q, d)'
    BY <1>0, <1>1, <2>1, <2>2, <2>4, WholeKeeps
  <2> QED BY <1>1, <2>1, <2>5
<1>18. (\E off : Layout(off, toSend, d, Len(envoy.got[d]), all))'
  <2>1. PICK off : Layout(off, new, d, Len(body), all)
    BY <1>2 DEF all
  <2>2. all' = all /\ toSend' = new /\ envoy'.got[d] = body
    BY <1>1, <1>2 DEF all
  <2>3. Layout(off, toSend, d, Len(envoy.got[d]), all)'
    BY <2>1, <2>2
  <2> QED BY <2>3
<1>19. /\ Len(envoy'.got[d]) <= Len(all)
       /\ \A i \in DOMAIN envoy'.got[d] : envoy'.got[d][i] = all[i]
  BY <1>1, <1>3, <1>30
<1>20. ~Silent(Said, d)' /\ Promised(Said, d, all)' /\ Unpromised(Said, d)'
  <2>1. all' = all
    BY <1>1 DEF all
  <2> QED BY <1>5, <1>6, <1>8, <1>9, <2>1 DEF Silent, Promised, Unpromised, Finished
<1>21. Intact(all, Said, d)' => Len(all) = envoy'.sent[d]
  <2>1. Said' = said'
    BY <1>5 DEF said
  <2>2. Intact(all, Said, d)' = Intact(all, said, d)'
    BY <2>1
  <2> QED BY <1>11, <1>13, <2>2
<1>22. \A k \in DOMAIN toSend' : Carries(toSend'[k], d) => k = Len(toSend')
  BY <1>2
<1>23. all' = all /\ d' = d
  BY <1>1 DEF all
<1>24. Account(d, all)'
  BY <1>3, <1>10, <1>14, <1>15, <1>16, <1>17, <1>18, <1>19, <1>20, <1>21, <1>22, <1>23 DEF Account
<1> QED BY <1>24 DEF all

(* A message is sent: Envoy has more of the same body.                     *)
LEMMA SendLayout ==
  ASSUME NEW q \in Seq(Message), q # <<>>, NEW d, NEW from \in Nat, NEW body \in Seq(Nat),
         NEW off, Layout(off, q, d, from, body)
  PROVE  LET sent == Bytes(Head(q), d)
         IN /\ from + Len(sent) <= Len(body)
            /\ \A i \in DOMAIN sent : body[from + i] = sent[i]
            /\ Carries(Head(q), d) \/ sent = <<>>
            /\ Carries(Head(q), d) /\ Head(q).eos => from + Len(sent) = Len(body)
            /\ \E rest : Layout(rest, Tail(q), d, from + Len(sent), body)
<1> DEFINE r == Tail(q)
           rest == [k \in 1..(Len(r) + 1) |-> off[k + 1]]
           sent == Bytes(Head(q), d)
<1>1. /\ Len(q) \in Nat \ {0} /\ DOMAIN q = 1..Len(q) /\ Head(q) = q[1]
      /\ r \in Seq(Message) /\ Len(r) = Len(q) - 1
      /\ \A k \in 1..Len(r) : r[k] = q[k + 1]
  BY HeadTailProperties, EmptySeq, LenProperties
<1>2. DOMAIN r = 1..Len(r)
  BY <1>1, LenProperties
<1> HIDE DEF r
<1>3. Len(body) \in Nat
  BY LenProperties
<1>4. /\ off \in [1..(Len(q) + 1) -> 0..Len(body)]
      /\ off[1] = from /\ off[Len(q) + 1] = Len(body)
      /\ \A k \in DOMAIN q :
          /\ Carries(q[k], d) \/ Bytes(q[k], d) = <<>>
          /\ off[k + 1] = off[k] + Len(Bytes(q[k], d))
          /\ \A i \in DOMAIN Bytes(q[k], d) : body[off[k] + i] = Bytes(q[k], d)[i]
          /\ Carries(q[k], d) /\ q[k].eos => off[k + 1] = Len(body)
  BY DEF Layout
<1>5. 1 \in DOMAIN q /\ 2 \in 1..(Len(q) + 1)
  BY <1>1
<1>6. /\ Carries(Head(q), d) \/ sent = <<>>
      /\ off[2] = from + Len(sent) /\ \A i \in DOMAIN sent : body[from + i] = sent[i]
      /\ Carries(Head(q), d) /\ Head(q).eos => off[2] = Len(body)
  <2>1. off[1 + 1] = off[2]
    OBVIOUS
  <2>2. /\ Carries(q[1], d) \/ Bytes(q[1], d) = <<>>
        /\ off[1 + 1] = off[1] + Len(Bytes(q[1], d))
        /\ \A i \in DOMAIN Bytes(q[1], d) : body[off[1] + i] = Bytes(q[1], d)[i]
        /\ Carries(q[1], d) /\ q[1].eos => off[1 + 1] = Len(body)
    BY <1>4, <1>5
  <2>3. off[1] = from /\ Head(q) = q[1]
    BY <1>1, <1>4
  <2> QED BY <2>1, <2>2, <2>3
<1>7. off[2] <= Len(body)
  BY <1>3, <1>4, <1>5
<1>8. rest \in [1..(Len(r) + 1) -> 0..Len(body)] /\ rest[1] = off[2] /\ rest[Len(r) + 1] = Len(body)
  <2>1. \A k \in 1..(Len(r) + 1) : k + 1 \in 1..(Len(q) + 1)
    BY <1>1
  <2>2. Len(r) + 1 + 1 = Len(q) + 1 /\ Len(r) \in Nat
    BY <1>1
  <2> QED BY <1>4, <2>1, <2>2
<1>9. ASSUME NEW k \in DOMAIN r
      PROVE  /\ Carries(r[k], d) \/ Bytes(r[k], d) = <<>>
             /\ rest[k + 1] = rest[k] + Len(Bytes(r[k], d))
             /\ \A i \in DOMAIN Bytes(r[k], d) : body[rest[k] + i] = Bytes(r[k], d)[i]
             /\ Carries(r[k], d) /\ r[k].eos => rest[k + 1] = Len(body)
  <2>1. k + 1 \in DOMAIN q /\ r[k] = q[k + 1] /\ k \in 1..(Len(r) + 1) /\ k + 1 \in 1..(Len(r) + 1)
    BY <1>1, <1>2
  <2>2. rest[k] = off[k + 1] /\ rest[k + 1] = off[(k + 1) + 1]
    BY <2>1
  <2> HIDE DEF rest
  <2> QED BY <1>4, <2>1, <2>2
<1>10. Layout(rest, r, d, off[2], body)
  <2> HIDE DEF rest
  <2> QED BY <1>8, <1>9 DEF Layout
<1> QED BY <1>6, <1>7, <1>10 DEF r

LEMMA SendAccount ==
  ASSUME IInv, Send, NEW d \in Directions, NEW body, Account(d, body)
  PROVE  Account(d, body)'
<1> DEFINE m == Head(toSend)
           text == Bytes(m, d)
           got == envoy.got[d] \o text
<1>1. /\ toSend \in Seq(Message) /\ out \in Seq(Message) /\ toSend # <<>> /\ EnvoyType
      /\ toSend' = Tail(toSend) /\ out' = Append(out, m)
      /\ profile' = profile /\ status' \in {status, "ended"}
  BY DEF IInv, DataType, Send, reqCtx
<1>2. /\ m \in Message /\ envoy'.state = envoy.state /\ envoy'.sent = envoy.sent
      /\ envoy'.got = [envoy.got EXCEPT ![m.dir] = @ \o m.body]
  BY <1>1, SendDelivers
<1>3. Said' = Said
  BY <1>1, SendMoves DEF Said
<1>4. envoy.got[d] \in Seq(Nat) /\ body \in Seq(Nat) /\ text \in Seq(Nat) /\ envoy.got \in [Directions -> Seq(Nat)]
  <2>1. envoy.got[d] \in Seq(Nat) /\ body \in Seq(Nat) /\ envoy.got \in [Directions -> Seq(Nat)]
    BY <1>1 DEF EnvoyType, Account
  <2>2. m.body \in Seq(Nat) /\ <<>> \in Seq(Nat)
    BY <1>2 DEF Message
  <2> QED BY <2>1, <2>2 DEF Bytes
<1>5. envoy'.got[d] = got
  <2>1. CASE m.dir = d
    BY <1>2, <1>4, <2>1 DEF Bytes
  <2>2. CASE m.dir # d
    BY <1>2, <1>4, <2>2, ConcatEmptySeq DEF Bytes
  <2> QED BY <2>1, <2>2
<1>6. /\ got \in Seq(Nat) /\ Len(got) = Len(envoy.got[d]) + Len(text) /\ Len(envoy.got[d]) \in Nat /\ Len(text) \in Nat
      /\ DOMAIN got = 1..Len(got) /\ Len(got) \in Nat
      /\ \A i \in DOMAIN got : \/ i \in DOMAIN envoy.got[d] /\ got[i] = envoy.got[d][i]
                               \/ i - Len(envoy.got[d]) \in DOMAIN text /\ got[i] = text[i - Len(envoy.got[d])]
  <2>1. got \in Seq(Nat) /\ Len(got) = Len(envoy.got[d]) + Len(text)
    BY <1>4, ConcatProperties
  <2>2. DOMAIN got = 1..Len(got) /\ Len(got) \in Nat /\ Len(envoy.got[d]) \in Nat /\ Len(text) \in Nat
    BY <1>4, <2>1, LenProperties
  <2>3. \A i \in DOMAIN got : \/ i \in DOMAIN envoy.got[d] /\ got[i] = envoy.got[d][i]
                              \/ i - Len(envoy.got[d]) \in DOMAIN text /\ got[i] = text[i - Len(envoy.got[d])]
    <3> HIDE DEF text
    <3>1. PICK g \in Seq(Nat) : g = envoy.got[d]
      BY <1>4
    <3>2. ASSUME NEW i \in DOMAIN (g \o text)
          PROVE  \/ i \in DOMAIN g /\ (g \o text)[i] = g[i]
                 \/ i - Len(g) \in DOMAIN text /\ (g \o text)[i] = text[i - Len(g)]
      BY <1>4, JoinElements
    <3> QED BY <3>1, <3>2
  <2> QED BY <2>1, <2>2, <2>3
<1>7. PICK off : Layout(off, toSend, d, Len(envoy.got[d]), body)
  BY DEF Account
<1>8. /\ Len(got) <= Len(body)
      /\ \A i \in DOMAIN text : body[Len(envoy.got[d]) + i] = text[i]
      /\ Carries(m, d) \/ text = <<>>
      /\ Carries(m, d) /\ m.eos => Len(got) = Len(body)
      /\ \E rest : Layout(rest, Tail(toSend), d, Len(got), body)
  <2>1. PICK from \in Nat, q \in Seq(Message) : from = Len(envoy.got[d]) /\ q = toSend
    BY <1>1, <1>6
  <2>2. Layout(off, q, d, from, body) /\ q # <<>>
    BY <1>1, <1>7, <2>1
  <2>3. /\ from + Len(Bytes(Head(q), d)) <= Len(body)
        /\ \A i \in DOMAIN Bytes(Head(q), d) : body[from + i] = Bytes(Head(q), d)[i]
        /\ Carries(Head(q), d) \/ Bytes(Head(q), d) = <<>>
        /\ Carries(Head(q), d) /\ Head(q).eos => from + Len(Bytes(Head(q), d)) = Len(body)
        /\ \E rest : Layout(rest, Tail(q), d, from + Len(Bytes(Head(q), d)), body)
    BY <1>4, <2>2, SendLayout
  <2>4. text = Bytes(Head(q), d) /\ m = Head(q) /\ Len(got) = from + Len(text)
    BY <1>6, <2>1
  <2> HIDE DEF got, text, m
  <2> QED BY <2>1, <2>3, <2>4
<1>9. \A i \in DOMAIN got : got[i] = body[i]
  <2>1. ASSUME NEW i \in DOMAIN got PROVE got[i] = body[i]
    <3>1. CASE i \in DOMAIN envoy.got[d] /\ got[i] = envoy.got[d][i]
      BY <3>1 DEF Account
    <3>2. CASE i - Len(envoy.got[d]) \in DOMAIN text /\ got[i] = text[i - Len(envoy.got[d])]
      <4>1. i = Len(envoy.got[d]) + (i - Len(envoy.got[d]))
        BY <1>6
      <4> QED BY <1>8, <3>2, <4>1
    <3> QED BY <1>6, <3>1, <3>2
  <2> QED BY <2>1
<1> HIDE DEF got, text, m
<1>10. /\ \A i \in DOMAIN out : i \in DOMAIN out' /\ out'[i] = out[i]
       /\ Len(out) + 1 \in DOMAIN out' /\ out'[Len(out) + 1] = m
       /\ \A k \in DOMAIN out' : (k \in DOMAIN out /\ out'[k] = out[k]) \/ out'[k] = m
  <2>1. /\ Append(out, m) \in Seq(Message) /\ Len(Append(out, m)) = Len(out) + 1
        /\ \A i \in 1..Len(out) : Append(out, m)[i] = out[i]
        /\ Append(out, m)[Len(out) + 1] = m
    BY <1>1, <1>2, AppendProperties
  <2>2. DOMAIN out = 1..Len(out) /\ Len(out) \in Nat /\ DOMAIN Append(out, m) = 1..(Len(out) + 1)
    BY <1>1, <2>1, LenProperties
  <2> QED BY <1>1, <2>1, <2>2
<1>11. Finished(out, d)' => Len(got) = Len(body)
  <2>1. ASSUME Finished(out, d) PROVE Len(got) = Len(body)
    <3>1. Len(envoy.got[d]) = Len(body)
      BY <2>1 DEF Account
    <3> QED BY <1>4, <1>6, <1>8, <3>1, LenProperties
  <2>2. ASSUME Finished(out, d)', ~Finished(out, d) PROVE Carries(m, d) /\ m.eos
    BY <1>10, <2>2 DEF Finished, Carries
  <2> QED BY <1>8, <2>1, <2>2
<1>12. /\ Finished(Said, d)' = Finished(Said, d) /\ Silent(Said, d)' = Silent(Said, d)
       /\ Unpromised(Said, d)' = Unpromised(Said, d) /\ Promised(Said, d, body)' = Promised(Said, d, body)
       /\ Intact(body, Said, d)' = Intact(body, Said, d) /\ ByChunk(d)' = ByChunk(d)
  BY <1>1, <1>3 DEF Finished, Silent, Unpromised, Promised, Intact, ByChunk
<1>13. Whole(body, Said, d)'
  <2>1. Whole(body, Said, d)
    BY DEF Account
  <2> QED BY <1>2, <1>12, <2>1 DEF Whole
<1>14. Finished(out, d)' => Finished(Said, d)
  <2>1. /\ out' \in Seq(Message) /\ toSend' \in Seq(Message)
    BY <1>1, <1>2, SendMoves DEF m
  <2>2. PICK q \in Seq(Message), r \in Seq(Message) : q = out' /\ r = toSend'
    BY <2>1
  <2>3. Finished(q, d) => Finished(q \o r, d)
    BY JoinBodies
  <2>4. q \o r = Said
    BY <1>3, <2>2 DEF Said
  <2> QED BY <2>2, <2>3, <2>4 DEF Finished
<1>15. /\ DOMAIN body = 1..Len(body) /\ Len(body) \in Nat
       /\ \A i \in DOMAIN got : i \in DOMAIN body /\ i \in Nat
  BY <1>4, <1>6, <1>8, LenProperties
<1>16. PICK G, Q : G = got /\ Q = out'
  OBVIOUS
<1>17. ASSUME Intact(G, Q, d)
       PROVE  /\ Len(G) <= envoy.sent[d] /\ \A i \in DOMAIN G : G[i] = i
              /\ Finished(Q, d) => Len(G) = envoy.sent[d]
  <2>0. Finished(Q, d) = Finished(out, d)'
    BY <1>16 DEF Finished
  <2>1. CASE ~ByChunk(d)
    <3>1. ASSUME NEW i \in DOMAIN G PROVE G[i] = i
      <4>1. \A j \in 1..i : j \in DOMAIN G
        BY <1>6, <1>16
      <4>2. \A j \in 1..i : body[j] # 0
        BY <1>9, <1>16, <1>17, <4>1 DEF Intact
      <4>3. body[i] = i
        BY <1>15, <1>16, <2>1, <4>2 DEF Account
      <4> QED BY <1>9, <1>16, <4>3
    <3>2. Len(G) <= envoy.sent[d]
      <4>1. CASE Len(G) = 0
        BY <1>1, <4>1 DEF EnvoyType
      <4>2. CASE Len(G) # 0
        <5>1. Len(G) \in DOMAIN G /\ Len(G) \in DOMAIN body
          BY <1>6, <1>15, <1>16, <4>2
        <5>2. body[Len(G)] <= envoy.sent[d]
          BY <5>1 DEF Account, Rising
        <5> QED BY <1>9, <1>16, <3>1, <5>1, <5>2
      <4> QED BY <4>1, <4>2
    <3>3. ASSUME Finished(Q, d) PROVE Len(G) = envoy.sent[d]
      <4>1. Len(G) = Len(body) /\ Finished(Said, d)
        BY <1>11, <1>14, <1>16, <2>0, <3>3
      <4>2. \A i \in DOMAIN body : body[i] # 0
        BY <1>6, <1>9, <1>15, <1>16, <1>17, <4>1 DEF Intact
      <4>3. Intact(body, Said, d)
        BY <2>1, <4>2 DEF Intact, ByChunk
      <4> QED BY <4>1, <4>3 DEF Account, Whole
    <3> QED BY <3>1, <3>2, <3>3
  <2>2. CASE ByChunk(d) /\ Carries(m, d)
    <3>1. Tail(toSend) = <<>> /\ Len(Tail(toSend)) = 0
      <4>1. /\ Len(toSend) \in Nat \ {0} /\ 1 \in DOMAIN toSend /\ toSend[1] = m
            /\ Tail(toSend) \in Seq(Message) /\ Len(Tail(toSend)) = Len(toSend) - 1
        BY <1>1, HeadTailProperties, EmptySeq, LenProperties DEF m
      <4>2. Len(toSend) = 1
        BY <2>2, <4>1 DEF Account
      <4>3. Len(Tail(toSend)) = 0
        BY <4>1, <4>2
      <4> QED BY <4>1, <4>3, EmptySeq
    <3>2. Q = Said
      <4>1. out' \in Seq(Message)
        BY <1>1, <1>2, AppendProperties
      <4>2. Said' = out'
        BY <1>1, <3>1, <4>1, ConcatEmptySeq DEF Said
      <4> QED BY <1>3, <1>16, <4>2
    <3>3. Len(G) = Len(body)
      BY <1>8, <1>16, <3>1 DEF Layout
    <3>4. Intact(body, Said, d)
      BY <1>6, <1>9, <1>15, <1>16, <1>17, <3>2, <3>3 DEF Intact
    <3>5. Whole(body, Said, d)
      BY DEF Account
    <3> QED BY <1>9, <1>15, <1>16, <3>2, <3>3, <3>4, <3>5 DEF Whole
  <2>3. CASE ByChunk(d) /\ ~Carries(m, d)
    <3>1. text = <<>> /\ Len(text) = 0
      BY <1>8, <2>3
    <3>2. Len(G) = Len(envoy.got[d]) /\ DOMAIN envoy.got[d] = DOMAIN G
      BY <1>4, <1>6, <1>16, <3>1, LenProperties
    <3>3. \A i \in DOMAIN G : G[i] = envoy.got[d][i]
      BY <1>9, <1>16, <3>2 DEF Account
    <3>4. Intact(envoy.got[d], out, d)
      BY <1>10, <1>16, <1>17, <3>2, <3>3 DEF Intact
    <3>5. Finished(Q, d) => Finished(out, d)
      BY <1>10, <1>16, <2>3 DEF Finished
    <3>6. Whole(envoy.got[d], out, d)
      BY DEF Account
    <3> QED BY <3>2, <3>3, <3>4, <3>5, <3>6 DEF Whole
  <2> QED BY <2>1, <2>2, <2>3
<1>18. Whole(envoy.got[d], out, d)'
  <2>1. Intact(G, Q, d)' = Intact(G, Q, d) /\ Finished(Q, d)' = Finished(Q, d)
    BY <1>1 DEF Intact, Finished
  <2>2. Whole(G, Q, d)'
    BY <1>2, <1>17, <2>1 DEF Whole
  <2> QED BY <1>5, <1>16, <2>2
<1>19. \A k \in DOMAIN Tail(toSend) : Carries(Tail(toSend)[k], d) /\ ByChunk(d) => k = Len(Tail(toSend))
  <2>1. /\ Len(toSend) \in Nat \ {0} /\ DOMAIN toSend = 1..Len(toSend)
        /\ Tail(toSend) \in Seq(Message) /\ Len(Tail(toSend)) = Len(toSend) - 1
        /\ \A k \in 1..Len(Tail(toSend)) : Tail(toSend)[k] = toSend[k + 1]
    BY <1>1, HeadTailProperties, EmptySeq, LenProperties
  <2>2. DOMAIN Tail(toSend) = 1..Len(Tail(toSend))
    BY <2>1, LenProperties
  <2>3. \A k \in DOMAIN Tail(toSend) : k + 1 \in DOMAIN toSend /\ k \in Nat
    BY <2>1, <2>2
  <2>4. ByChunk(d) => \A k \in DOMAIN toSend : Carries(toSend[k], d) => k = Len(toSend)
    BY DEF Account
  <2> QED BY <2>1, <2>2, <2>3, <2>4
<1>20. \E rest : Layout(rest, toSend', d, Len(got), body)
  BY <1>1, <1>8
<1>21. Rising(body, envoy'.sent[d])
  BY <1>2 DEF Account
<1>22. (~ByChunk(d) => \A i \in DOMAIN body : (\A j \in 1..i : body[j] # 0) => body[i] = i)'
  BY <1>12 DEF Account
<1>23. (ByChunk(d) => \A k \in DOMAIN toSend : Carries(toSend[k], d) => k = Len(toSend))'
  BY <1>1, <1>12, <1>19
<1>24. (d = "resp" /\ status = "open" /\ envoy.state[d] = "body" =>
         /\ Unpromised(Said, d)
         /\ ~profile.buffering /\ Intact(body, Said, d) => Len(body) = envoy.sent[d])'
  BY <1>1, <1>2, <1>12 DEF Account
<1>25. (status = "open" /\ Silent(Said, d) => body = <<>>)' /\ Promised(Said, d, body)'
  BY <1>1, <1>12 DEF Account
<1> QED BY <1>4, <1>5, <1>8, <1>9, <1>11, <1>13, <1>18, <1>20, <1>21, <1>22, <1>23, <1>24, <1>25 DEF Account

(* A Send that fails: Envoy keeps what it has.                             *)
LEMMA SendFailsAccount ==
  ASSUME IInv, SendFails, NEW d \in Directions, NEW body, Account(d, body)
  PROVE  \E bytes : Account(d, bytes)'
<1>1. /\ toSend' = <<>> /\ out' = out /\ status' = "failed" /\ envoy' = envoy /\ profile' = profile
      /\ out \in Seq(Message) /\ toSend \in Seq(Message) /\ EnvoyType
  BY DEF SendFails, IInv, DataType, reqCtx
<1>2. PICK bytes \in Seq(Nat) : bytes = envoy.got[d]
  BY <1>1 DEF EnvoyType
<1>3. Said' = out
  BY <1>1, ConcatEmptySeq DEF Said
<1>4. /\ Len(bytes) \in Nat /\ DOMAIN bytes = 1..Len(bytes)
      /\ body \in Seq(Nat) /\ Len(body) \in Nat /\ DOMAIN body = 1..Len(body)
      /\ Len(bytes) <= Len(body) /\ \A i \in DOMAIN bytes : bytes[i] = body[i]
  BY <1>2, LenProperties DEF Account
<1>5. \A i \in DOMAIN bytes : i \in DOMAIN body /\ 1..i \subseteq DOMAIN bytes
  BY <1>4
<1>6. Rising(bytes, envoy'.sent[d])
  BY <1>1, <1>4, <1>5 DEF Account, Rising
<1>7. Whole(bytes, out, d)' /\ Whole(bytes, Said, d)' /\ Whole(envoy.got[d], out, d)'
  <2>1. Whole(bytes, out, d)
    BY <1>2 DEF Account
  <2>2. Whole(bytes, out, d)'
    BY <1>1, <2>1 DEF Whole, Intact, Finished
  <2> QED BY <1>1, <1>2, <1>3, <2>2
<1>8. ~ByChunk(d)' => \A i \in DOMAIN bytes : (\A j \in 1..i : bytes[j] # 0) => bytes[i] = i
  <2> SUFFICES ASSUME ~ByChunk(d), NEW i \in DOMAIN bytes, \A j \in 1..i : bytes[j] # 0
               PROVE  bytes[i] = i
    BY <1>1 DEF ByChunk
  <2>1. \A j \in 1..i : body[j] # 0
    BY <1>4, <1>5
  <2> QED BY <1>4, <1>5, <2>1 DEF Account
<1>9. /\ \A i \in DOMAIN out : i \in DOMAIN Said /\ Said[i] = out[i]
      /\ Finished(out, d) => Finished(Said, d)
  <2>1. PICK q \in Seq(Message), r \in Seq(Message) : q = out /\ r = toSend
    BY <1>1
  <2>2. \A i \in DOMAIN q : i \in DOMAIN (q \o r) /\ (q \o r)[i] = q[i]
    BY JoinElements
  <2>3. Finished(q, d) => Finished(q \o r, d)
    BY JoinBodies
  <2> QED BY <2>1, <2>2, <2>3 DEF Said
<1>10. Promised(Said, d, bytes)'
  <2>1. Promised(out, d, bytes)
    <3> SUFFICES ASSUME NEW h \in DOMAIN out, Opens(out[h], d), out[h].length # NoLength
                 PROVE  /\ Len(bytes) <= out[h].length[1]
                        /\ Finished(out, d) => Len(bytes) = out[h].length[1]
                        /\ \A i \in DOMAIN out : Carries(out[i], d) => Len(out[i].body) <= BodyByteLimit
      BY DEF Promised
    <3>1. /\ Len(body) <= out[h].length[1]
          /\ Finished(Said, d) => Len(body) = out[h].length[1]
          /\ \A i \in DOMAIN Said : Carries(Said[i], d) => Len(Said[i].body) <= BodyByteLimit
      BY <1>9 DEF Account, Promised
    <3>2. out[h].length[1] \in Nat
      <4>1. out[h].length \in Seq(Nat)
        <5>1. out[h] \in Message
          BY <1>1, ElementOfSeq, LenProperties
        <5> QED BY <5>1 DEF Message
      <4>2. 1 \in 1..Len(out[h].length)
        BY <4>1, EmptySeq, LenProperties DEF NoLength
      <4> QED BY <4>1, <4>2, ElementOfSeq
    <3>3. Finished(out, d) => Len(bytes) = Len(body)
      BY <1>2 DEF Account
    <3>4. Len(bytes) <= out[h].length[1]
      BY <1>4, <3>1, <3>2
    <3> QED BY <1>9, <3>1, <3>3, <3>4
  <2> QED BY <1>3, <2>1 DEF Promised, Finished
<1>11. (\E off : Layout(off, toSend, d, Len(envoy.got[d]), bytes))'
  <2>1. <<>> \in Seq(Message) /\ Inert(<<>>, d)
    BY DEF Inert
  <2>2. \E off : Layout(off, <<>>, d, Len(bytes), bytes)
    BY <2>1, InertLayout
  <2> QED BY <1>1, <1>2, <2>2
<1>12. Account(d, bytes)'
  BY <1>1, <1>2, <1>4, <1>6, <1>7, <1>8, <1>10, <1>11 DEF Account
<1> QED BY <1>12

(* Replies that say nothing about a body.                                  *)
LEMMA InertReplies ==
  ASSUME NEW d \in Directions, NEW e \in Directions
  PROVE  /\ <<>> \in Seq(Message) /\ Inert(<<>>, d)
         /\ <<Headers(e, NoLength)>> \in Seq(Message) /\ Inert(<<Headers(e, NoLength)>>, d)
         /\ <<Trailers(e)>> \in Seq(Message) /\ Inert(<<Trailers(e)>>, d)
         /\ <<Immediate>> \in Seq(Message) /\ Inert(<<Immediate>>, d)
<1>1. ASSUME NEW m \in Message, m.type # "body", m.body = <<>>, m.length = NoLength
      PROVE  <<m>> \in Seq(Message) /\ Inert(<<m>>, d)
  <2>1. <<m>> \in Seq(Message) /\ DOMAIN <<m>> = {1} /\ <<m>>[1] = m
    OBVIOUS
  <2> QED BY <1>1, <2>1 DEF Inert, Bytes, Carries
<1>2. /\ Headers(e, NoLength) \in Message /\ Headers(e, NoLength).type = "headers"
      /\ Headers(e, NoLength).body = <<>> /\ Headers(e, NoLength).length = NoLength
  BY MessageTypes DEF Headers
<1>3. /\ Trailers(e) \in Message /\ Trailers(e).type = "trailers"
      /\ Trailers(e).body = <<>> /\ Trailers(e).length = NoLength
  BY MessageTypes DEF Trailers
<1>4. /\ Immediate \in Message /\ Immediate.type = "immediate"
      /\ Immediate.body = <<>> /\ Immediate.length = NoLength
  BY MessageTypes DEF Immediate
<1>5. Inert(<<>>, d)
  BY DEF Inert
<1> QED BY <1>1, <1>2, <1>3, <1>4, <1>5

LEMMA InertElsewhere ==
  ASSUME NEW d, NEW q, \A k \in DOMAIN q : q[k].dir # d
  PROVE  Inert(q, d)
BY DEF Inert, Bytes, Carries, Opens

LEMMA WholeElsewhere ==
  ASSUME NEW d \in Directions, NEW e \in Directions, e # d, NEW bytes \in Seq(Nat), NEW length \in Seq(Nat)
  PROVE  LET new == <<Headers(e, length)>> \o BuildChunkedBodyResponses(e, bytes)
         IN new \in Seq(Message) /\ Inert(new, d)
<1> DEFINE h == Headers(e, length)
           chunks == BuildChunkedBodyResponses(e, bytes)
           new == <<h>> \o chunks
<1>1. h \in Message /\ h.dir = e
  BY MessageTypes DEF Headers
<1>2. chunks \in Seq(Message) /\ \A i \in DOMAIN chunks : chunks[i].dir = e
  BY ChunkedBody
<1> HIDE DEF h, chunks
<1>3. <<h>> \in Seq(Message) /\ \A i \in DOMAIN <<h>> : <<h>>[i].dir = e
  BY <1>1
<1> DEFINE first == <<h>>
<1> HIDE DEF first
<1>4. first \in Seq(Message) /\ (\A i \in DOMAIN first : first[i].dir = e) /\ new = first \o chunks
  BY <1>3 DEF first
<1> HIDE DEF new
<1>5. /\ new \in Seq(Message)
      /\ \A i \in DOMAIN first : new[i] = first[i]
      /\ \A k \in DOMAIN new :
           \/ k \in DOMAIN first
           \/ k - Len(first) \in DOMAIN chunks /\ new[k] = chunks[k - Len(first)]
  BY <1>2, <1>4, JoinElements
<1>6. \A k \in DOMAIN new : new[k].dir # d
  BY <1>2, <1>4, <1>5
<1> QED BY <1>5, <1>6, InertElsewhere DEF new, h, chunks

LEMMA StreamedElsewhere ==
  ASSUME NEW b \in Message, b.dir = "resp", NEW new, Streamed(new, b)
  PROVE  new \in Seq(Message) /\ Inert(new, "req")
<1> DEFINE h == Headers("resp", NoLength)
<1>1. h \in Message /\ h.dir = "resp"
  BY MessageTypes DEF Headers, Directions
<1> HIDE DEF h
<1>2. CASE new = <<>> \o <<b>>
  <2>1. new = <<b>>
    BY <1>2
  <2>2. new \in Seq(Message) /\ \A k \in DOMAIN new : new[k] = b
    BY <2>1
  <2> QED BY <2>2, InertElsewhere
<1>3. CASE new = <<h>> \o <<b>>
  <2>1. new = <<h, b>>
    <3>1. <<h>> \in Seq(Message)
      BY <1>1
    <3>2. Append(<<h>>, b) = <<h>> \o <<b>>
      BY <1>1, <3>1, AppendIsConcat
    <3>3. Append(<<h>>, b) = <<h, b>>
      BY AppendTuples
    <3> QED BY <1>3, <3>2, <3>3
  <2>2. new \in Seq(Message) /\ \A k \in DOMAIN new : new[k] \in {h, b}
    BY <1>1, <2>1
  <2> QED BY <1>1, <2>2, InertElsewhere
<1> QED BY <1>2, <1>3 DEF Streamed, h

(* The bytes of a chunk, of a buffer and of a rewritten body.              *)
LEMMA ChunkNumbered ==
  ASSUME EnvoyType, NEW dir \in Directions, NEW chunk \in NextChunks(dir)
  PROVE  chunk \in Seq(Nat) /\ Len(chunk) \in Nat /\ \A i \in DOMAIN chunk : chunk[i] = envoy.sent[dir] + i
<1>1. PICK n \in ChunkLens : chunk = [i \in 1..n |-> envoy.sent[dir] + i]
  BY DEF NextChunks
<1>2. \A i \in DOMAIN chunk : chunk[i] = envoy.sent[dir] + i
  BY <1>1
<1> QED BY <1>2, NextChunkType, LenProperties

LEMMA BufferGrows ==
  ASSUME NEW bytes \in Seq(Nat), NEW n \in Nat, Buffered(bytes, n),
         NEW chunk \in Seq(Nat), \A i \in DOMAIN chunk : chunk[i] = n + i
  PROVE  Buffered(bytes \o chunk, n + Len(chunk))
<1> DEFINE all == bytes \o chunk
<1>1. Len(all) = Len(bytes) + Len(chunk)
  BY ConcatProperties
<1>2. /\ Len(bytes) \in Nat
      /\ \A i \in DOMAIN bytes : all[i] = bytes[i]
      /\ \A k \in DOMAIN all :
           k \in DOMAIN bytes \/ (k - Len(bytes) \in DOMAIN chunk /\ all[k] = chunk[k - Len(bytes)])
  BY JoinElements
<1>3. DOMAIN all = 1..Len(all) /\ Len(all) \in Nat
  BY ConcatProperties, LenProperties
<1> HIDE DEF all
<1>4. ASSUME NEW k \in DOMAIN all PROVE all[k] = k
  <2>1. CASE k \in DOMAIN bytes
    BY <1>2, <2>1 DEF Buffered
  <2>2. CASE k - Len(bytes) \in DOMAIN chunk /\ all[k] = chunk[k - Len(bytes)]
    <3>1. all[k] = n + (k - Len(bytes)) /\ Len(bytes) = n
      BY <2>2 DEF Buffered
    <3> QED BY <1>3, <3>1
  <2> QED BY <1>2, <2>1, <2>2
<1>5. Len(all) = n + Len(chunk)
  BY <1>1 DEF Buffered
<1> QED BY <1>4, <1>5 DEF Buffered, all

LEMMA MutatedBytes ==
  ASSUME NEW n \in MutatedLens
  PROVE  /\ Mutated(n) \in Seq(Nat) /\ \A i \in DOMAIN Mutated(n) : Mutated(n)[i] = 0
         /\ Len(Mutated(n)) = n /\ (n # 0 => Mutated(n) # <<>>) /\ <<n>> \in Seq(Nat)
<1>1. n \in Nat
  BY BoundAssumption
<1>2. Mutated(n) \in [1..n -> Nat] /\ \A i \in 1..n : Mutated(n)[i] = 0
  BY <1>1 DEF Mutated
<1>3. Mutated(n) \in Seq(Nat) /\ Len(Mutated(n)) = n /\ DOMAIN Mutated(n) = 1..n
  BY <1>1, <1>2, FunctionSeq
<1>4. n # 0 => Mutated(n) # <<>>
  <2>1. Len(<<>>) = 0
    OBVIOUS
  <2> QED BY <1>3, <2>1
<1>5. <<n>> \in Seq(Nat)
  BY <1>1
<1> QED BY <1>2, <1>3, <1>4, <1>5

-----------------------------------------------------------------------------
(* A step that does not touch the body of a direction.                     *)
LEMMA SayElsewhere ==
  ASSUME IInv, AtRecv, NEW d \in Directions, \E body : Account(d, body),
         NEW new \in Seq(Message), Inert(new, d), toSend' = new, out' = out,
         envoy'.got = envoy.got, envoy'.sent[d] = envoy.sent[d],
         d = "resp" => profile' = profile /\ (envoy'.state[d] = "body" => envoy.state[d] = "body")
  PROVE  (\E body : Account(d, body))'
<1>1. PICK body : Account(d, body)
  OBVIOUS
<1>2. envoy.sent[d] \in Nat /\ DataType /\ EnvoyType
  BY DEF IInv, EnvoyType
<1>3. envoy'.sent[d] \in Nat /\ envoy.sent[d] <= envoy'.sent[d]
  BY <1>2
<1>4. Account(d, body)'
  BY <1>1, <1>2, <1>3, SayNoBody
<1> QED BY <1>4

(* A step that touches no body.                                            *)
LEMMA QuietKeeps ==
  ASSUME IInv, BodyInv, AtRecv, NEW new \in Seq(Message), \A d \in Directions : Inert(new, d),
         toSend' = new, out' = out, UNCHANGED reqCtx, envoy'.got = envoy.got, envoy'.sent = envoy.sent,
         envoy'.state["resp"] \in {"start", "body"} => envoy'.state["resp"] = envoy.state["resp"]
  PROVE  BodyInv'
<1>1. /\ requestBody' = requestBody /\ responseBody' = responseBody /\ profile' = profile
  BY DEF reqCtx
<1>2. \A d \in Directions : (\E body : Account(d, body))'
  <2>1. ASSUME NEW d \in Directions PROVE (\E body : Account(d, body))'
    <3>1. \E body : Account(d, body)
      BY DEF BodyInv
    <3>2. Inert(new, d) /\ envoy'.sent[d] = envoy.sent[d]
      OBVIOUS
    <3>3. d = "resp" => profile' = profile /\ (envoy'.state[d] = "body" => envoy.state[d] = "body")
      BY <1>1
    <3> QED BY <3>1, <3>2, <3>3, SayElsewhere
  <2> QED BY <2>1
<1>3. Buffered(requestBody', envoy'.sent["req"]) /\ Buffered(responseBody', envoy'.sent["resp"])
  BY <1>1 DEF BodyInv
<1>4. envoy'.state["resp"] = "start" => envoy'.sent["resp"] = 0
  BY DEF BodyInv
<1> QED BY <1>2, <1>3, <1>4 DEF BodyInv

LEMMA QuietBytes ==
  ASSUME IInv, BodyInv,
         \/ \E eos \in BOOLEAN : RequestHeaders(eos)
         \/ RequestBodyRedelivered \/ ResponseBodyRedelivered
         \/ RequestTrailers \/ ResponseTrailers \/ RecvEnds
  PROVE  BodyInv'
<1> USE DEF IInv
<1>0. "req" \in Directions /\ "resp" \in Directions /\ EnvoyType
  BY DEF Directions
<1>1. ASSUME NEW eos \in BOOLEAN, RequestHeaders(eos) PROVE BodyInv'
  <2>1. /\ AtRecv /\ out' = out /\ UNCHANGED reqCtx
        /\ toSend' \in {<<>>, <<Headers("req", NoLength)>>}
    BY <1>1 DEF RequestHeaders, HandleRequestHeaders, Reply
  <2>2. PICK state \in {"eos", "body"} : EnvoyState("req", state)
    BY <1>1 DEF RequestHeaders
  <2>3. /\ envoy'.state = [envoy.state EXCEPT !["req"] = state]
        /\ envoy'.sent = envoy.sent /\ envoy'.got = envoy.got
    BY <1>0, <2>2, StateMoves
  <2>4. envoy'.state["resp"] = envoy.state["resp"]
    BY <1>0, <2>3 DEF EnvoyType
  <2>5. PICK new \in Seq(Message) : toSend' = new /\ \A d \in Directions : Inert(new, d)
    BY <1>0, <2>1, InertReplies
  <2> QED BY <2>1, <2>3, <2>4, <2>5, QuietKeeps
<1>2. CASE RequestBodyRedelivered \/ ResponseBodyRedelivered
  <2>1. /\ envoy' = [envoy EXCEPT !.dups = @ + 1] /\ AtRecv
        /\ UNCHANGED <<reqCtx, toSend, out>>
    <3>1. CASE RequestBodyRedelivered
      <4>1. requestBodyComplete
        BY <3>1 DEF RequestBodyRedelivered, EnvoyRedelivers, FlowInv, Complete, Directions
      <4> QED BY <3>1, <4>1 DEF RequestBodyRedelivered, EnvoyRedelivers, ProcessRequestBody
    <3>2. CASE ResponseBodyRedelivered
      <4>1. responseBodyComplete
        BY <3>2 DEF ResponseBodyRedelivered, EnvoyRedelivers, FlowInv, Complete, Directions
      <4> QED BY <3>2, <4>1 DEF ResponseBodyRedelivered, EnvoyRedelivers, ProcessResponseBody
    <3> QED BY <1>2, <3>1, <3>2
  <2>2. envoy'.state = envoy.state /\ envoy'.sent = envoy.sent /\ envoy'.got = envoy.got
    BY <1>0, <2>1 DEF EnvoyType
  <2>3. toSend' = <<>>
    BY <2>1 DEF AtRecv
  <2>4. <<>> \in Seq(Message) /\ \A d \in Directions : Inert(<<>>, d)
    BY <1>0, InertReplies
  <2>5. UNCHANGED reqCtx /\ out' = out /\ AtRecv
    BY <2>1
  <2> QED BY <2>2, <2>3, <2>4, <2>5, QuietKeeps
<1>3. ASSUME NEW e \in Directions, AtRecv, EnvoyState(e, "trailers"), HandleTrailers(e), out' = out
      PROVE  BodyInv'
  <2>1. UNCHANGED reqCtx /\ toSend' = <<Trailers(e)>>
    BY <1>3 DEF HandleTrailers, Reply
  <2>2. /\ envoy'.state = [envoy.state EXCEPT ![e] = "trailers"]
        /\ envoy'.sent = envoy.sent /\ envoy'.got = envoy.got
    BY <1>0, <1>3, StateMoves
  <2>3. envoy'.state["resp"] \in {envoy.state["resp"], "trailers"}
    BY <1>0, <2>2 DEF EnvoyType
  <2>4. <<Trailers(e)>> \in Seq(Message) /\ \A d \in Directions : Inert(<<Trailers(e)>>, d)
    BY InertReplies
  <2> QED BY <1>3, <2>1, <2>2, <2>3, <2>4, QuietKeeps
<1>4. CASE RequestTrailers
  BY <1>0, <1>3, <1>4 DEF RequestTrailers
<1>5. CASE ResponseTrailers
  BY <1>0, <1>3, <1>5 DEF ResponseTrailers
<1>6. CASE RecvEnds
  <2>1. AtRecv /\ UNCHANGED reqCtx /\ toSend' = <<>> /\ out' = out /\ envoy' = envoy
    BY <1>6 DEF RecvEnds, AtRecv
  <2>2. <<>> \in Seq(Message) /\ \A d \in Directions : Inert(<<>>, d)
    BY <1>0, InertReplies
  <2> QED BY <2>1, <2>2, QuietKeeps
<1> QED BY <1>1, <1>2, <1>4, <1>5, <1>6

LEMMA ErrInert ==
  ASSUME NEW err, BuildErrResponse(err)
  PROVE  \E new \in Seq(Message) : /\ toSend' = new /\ status' # "open"
                                   /\ \A d \in Directions : Inert(new, d)
<1>1. "req" \in Directions
  BY DEF Directions
<1>2. toSend' \in {<<>>, <<Immediate>>} /\ status' # "open"
  BY DEF BuildErrResponse
<1> QED BY <1>1, <1>2, InertReplies

LEMMA ResponseHeadersBytes ==
  ASSUME IInv, BodyInv, NEW eos \in BOOLEAN, ResponseHeaders(eos)
  PROVE  BodyInv'
<1> USE DEF IInv
<1>0. /\ "req" \in Directions /\ "resp" \in Directions /\ EnvoyType /\ DataType
      /\ AtRecv /\ out' = out /\ UNCHANGED reqCtx /\ envoy.state["resp"] = "start"
  BY DEF ResponseHeaders, HandleResponseHeaders, Directions
<1>1. /\ requestBody' = requestBody /\ responseBody' = responseBody /\ profile' = profile
  BY <1>0 DEF reqCtx
<1>2. /\ envoy'.state = [envoy.state EXCEPT !["resp"] = IF eos THEN "eos" ELSE "body",
                                            !["req"] = IF @ = "body" THEN "dropped" ELSE @]
      /\ envoy'.sent = envoy.sent /\ envoy'.got = envoy.got
  <2>1. envoy' = [envoy EXCEPT !.state["resp"] = IF eos THEN "eos" ELSE "body",
                               !.state["req"] = IF @ = "body" THEN "dropped" ELSE @]
    BY DEF ResponseHeaders
  <2> QED BY <1>0, <2>1 DEF EnvoyType
<1>3. envoy'.state["resp"] # "start" /\ envoy.sent["resp"] = 0
  BY <1>0, <1>2 DEF EnvoyType, BodyInv
<1>4. Silent(out, "resp")
  BY <1>0, ConcatEmptySeq DEF DataType, AtRecv, Said, SaidInv
<1>5. PICK new \in Seq(Message) : toSend' = new /\ \A d \in Directions : Inert(new, d)
  <2>1. CASE \E err \in Errors : BuildErrResponse(err)
    BY <2>1, ErrInert
  <2>2. CASE toSend' \in {<<>>, <<Headers("resp", NoLength)>>}
    BY <1>0, <2>2, InertReplies
  <2> QED BY <2>1, <2>2 DEF ResponseHeaders, HandleResponseHeaders, Reply
<1>6. (\E body : Account("req", body))'
  <2>1. \E body : Account("req", body)
    BY <1>0 DEF BodyInv
  <2> QED BY <1>0, <1>2, <1>5, <2>1, SayElsewhere
<1>7. (\E body : Account("resp", body))'
  <2>1. PICK body : Account("resp", body)
    BY <1>0 DEF BodyInv
  <2>2. envoy'.sent["resp"] = 0 /\ envoy.sent["resp"] = 0 /\ envoy'.sent["resp"] \in Nat
    BY <1>2, <1>3
  <2>3. envoy.sent["resp"] <= envoy'.sent["resp"]
    BY <2>2
  <2>4. Account("resp", body)'
    BY <1>0, <1>1, <1>2, <1>4, <1>5, <2>1, <2>2, <2>3, SayNoBody
  <2> QED BY <2>4
<1>8. Buffered(requestBody', envoy'.sent["req"]) /\ Buffered(responseBody', envoy'.sent["resp"])
  BY <1>1, <1>2 DEF BodyInv
<1>9. \A d \in Directions : d = "req" \/ d = "resp"
  BY DEF Directions
<1> QED BY <1>3, <1>6, <1>7, <1>8, <1>9 DEF BodyInv

LEMMA RequestBodyBytes ==
  ASSUME IInv, BodyInv, NEW eos \in BOOLEAN, NEW chunk \in NextChunks("req"), RequestBody(chunk, eos)
  PROVE  BodyInv'
<1> USE DEF IInv
<1>0. "req" \in Directions /\ "resp" \in Directions /\ EnvoyType /\ DataType
  BY DEF Directions
<1>1. chunk \in Seq(Nat) /\ Len(chunk) \in Nat /\ \A i \in DOMAIN chunk : chunk[i] = envoy.sent["req"] + i
  BY <1>0, ChunkNumbered
<1>2. EnvoyChunk("req", chunk, eos)
  BY DEF RequestBody
<1>3. /\ AtRecv /\ envoy.state["req"] = "body"
      /\ envoy'.state = [envoy.state EXCEPT !["req"] = IF eos THEN "eos" ELSE "body"]
  BY <1>1, ChunkArrives DEF RequestBody, Directions
<1>4. /\ envoy'.got = envoy.got /\ envoy'.sent["req"] = envoy.sent["req"] + Len(chunk)
      /\ envoy'.sent["resp"] = envoy.sent["resp"]
  BY <1>0, <1>1, <1>2, ChunkCounted
<1>5. /\ envoy'.state["req"] = (IF eos THEN "eos" ELSE "body")
      /\ envoy'.state["resp"] = envoy.state["resp"] /\ envoy.state["resp"] = "start"
      /\ ~Over("req") /\ ~requestBodyComplete
  BY <1>0, <1>3 DEF EnvoyType, FlowInv, Over, Complete
<1>6. AppendRequestBody(chunk, eos) /\ out' = out
  BY <1>5 DEF RequestBody, ProcessRequestBody
<1>7. requestBody' = requestBody \o chunk /\ responseBody' = responseBody
  BY <1>6 DEF AppendRequestBody
<1>8. envoy.sent["req"] \in Nat /\ envoy.sent["resp"] \in Nat
  BY <1>0 DEF EnvoyType
<1>9. envoy'.sent["req"] \in Nat /\ envoy.sent["req"] <= envoy'.sent["req"]
  BY <1>1, <1>4, <1>8
<1>10. Buffered(requestBody', envoy'.sent["req"]) /\ requestBody' \in Seq(Nat)
  <2>1. requestBody \in Seq(Nat) /\ Buffered(requestBody, envoy.sent["req"])
    BY DEF DataType, BodyInv
  <2>2. Buffered(requestBody \o chunk, envoy.sent["req"] + Len(chunk))
    BY <1>1, <1>8, <2>1, BufferGrows
  <2>3. requestBody \o chunk \in Seq(Nat)
    BY <1>1, <2>1, ConcatProperties
  <2> QED BY <1>4, <1>7, <2>2, <2>3
<1>11. Buffered(responseBody', envoy'.sent["resp"]) /\ envoy'.sent["resp"] = 0
  BY <1>4, <1>5, <1>7 DEF BodyInv
<1>12. Silent(out, "req") /\ Silent(out, "resp") /\ Unfinished(out, "req")
  <2>1. Silent(out, "req") /\ Silent(out, "resp")
    BY <1>3, <1>5, ConcatEmptySeq DEF DataType, AtRecv, Said, SaidInv
  <2> QED BY <2>1 DEF Silent, Unfinished
<1>13. PICK body : Account("req", body)
  BY <1>0 DEF BodyInv
<1>14. PICK other : Account("resp", other)
  BY <1>0 DEF BodyInv
<1>15. ASSUME NEW new \in Seq(Message), toSend' = new, Inert(new, "resp") PROVE Account("resp", other)'
  <2>1. envoy.sent["resp"] <= envoy'.sent["resp"] /\ envoy'.sent["resp"] \in Nat
    BY <1>4, <1>8
  <2>2. envoy'.state["resp"] # "body"
    BY <1>5
  <2> QED BY <1>0, <1>3, <1>4, <1>6, <1>12, <1>14, <1>15, <2>1, <2>2, SayNoBody
<1>16. ASSUME NEW new \in Seq(Message), toSend' = new, Inert(new, "req") PROVE Account("req", body)'
  BY <1>0, <1>3, <1>4, <1>6, <1>9, <1>12, <1>13, <1>16, SayNoBody
<1>17. (\E b : Account("req", b))' /\ (\E b : Account("resp", b))'
  <2>1. CASE ~eos \/ (\E err \in Errors : BuildErrResponse(err))
    <3>1. PICK new \in Seq(Message) : toSend' = new /\ \A d \in Directions : Inert(new, d)
      <4>1. CASE ~eos
        <5>1. toSend' = <<>>
          BY <1>6, <4>1 DEF AppendRequestBody, Reply
        <5> QED BY <1>0, <5>1, InertReplies
      <4>2. CASE \E err \in Errors : BuildErrResponse(err)
        BY <4>2, ErrInert
      <4> QED BY <2>1, <4>1, <4>2
    <3>2. Account("req", body)' /\ Account("resp", other)'
      BY <1>0, <1>15, <1>16, <3>1
    <3> QED BY <3>2
  <2>2. CASE eos /\ ~(\E err \in Errors : BuildErrResponse(err))
    <3>1. HandleRequestBody(requestBody')
      BY <1>6, <2>2 DEF AppendRequestBody
    <3>2. PICK bytes \in Seq(Nat) : bytes = requestBody'
      BY <1>10
    <3>3. HandleRequestBody(bytes)
      BY <3>1, <3>2
    <3>4. PICK sent \in {bytes} \cup {Mutated(n) : n \in MutatedLens \ {0}} :
            Reply(<<Headers("req", <<Len(sent)>>)>> \o BuildChunkedBodyResponses("req", sent))
      <4>1. "typed" \in Errors
        BY DEF Errors
      <4> QED BY <2>2, <3>3, <4>1 DEF HandleRequestBody, RequestBodyFails
    <3>5. /\ sent \in Seq(Nat) /\ <<Len(sent)>> \in Seq(Nat)
          /\ Buffered(sent, envoy'.sent["req"]) \/ (sent # <<>> /\ \A i \in DOMAIN sent : sent[i] = 0)
      <4>1. CASE sent = bytes
        BY <1>10, <3>2, <4>1, LenProperties
      <4>2. CASE \E n \in MutatedLens \ {0} : sent = Mutated(n)
        BY <4>2, MutatedBytes
      <4> QED BY <4>1, <4>2
    <3>6. toSend' = <<Headers("req", <<Len(sent)>>)>> \o BuildChunkedBodyResponses("req", sent)
      BY <3>4 DEF Reply
    <3>7. Account("req", sent)'
      <4>1. ~ByChunk("req")' /\ envoy'.state["req"] # "body"
        BY <1>5, <2>2 DEF ByChunk
      <4> QED BY <1>0, <1>3, <1>4, <1>6, <1>9, <1>12, <1>13, <3>5, <3>6, <4>1, SayWholeBody
    <3>8. Account("resp", other)'
      <4> DEFINE msgs == <<Headers("req", <<Len(sent)>>)>> \o BuildChunkedBodyResponses("req", sent)
      <4>1. msgs \in Seq(Message) /\ Inert(msgs, "resp")
        BY <1>0, <3>5, WholeElsewhere
      <4> HIDE DEF msgs
      <4>2. toSend' = msgs
        BY <3>6 DEF msgs
      <4> QED BY <1>15, <4>1, <4>2
    <3> QED BY <3>7, <3>8
  <2> QED BY <2>1, <2>2
<1>18. \A d \in Directions : d = "req" \/ d = "resp"
  BY DEF Directions
<1> QED BY <1>10, <1>11, <1>17, <1>18 DEF BodyInv

LEMMA StreamedChunkBytes ==
  ASSUME IInv, AtRecv, NEW body, Account("resp", body), envoy.state["resp"] = "body",
         ~profile.buffering, profile' = profile,
         NEW chunk \in Seq(Nat), \A i \in DOMAIN chunk : chunk[i] = envoy.sent["resp"] + i,
         NEW bytes \in Seq(Nat), NEW eos \in BOOLEAN,
         bytes = chunk \/ (profile.chunkProcessors /\ \A i \in DOMAIN bytes : bytes[i] = 0),
         BuildStreamedChunkResponse(bytes, eos), out' = out, envoy'.got = envoy.got,
         envoy'.sent["resp"] = envoy.sent["resp"] + Len(chunk)
  PROVE  /\ (\E b : Account("resp", b))'
         /\ \E new \in Seq(Message) : toSend' = new /\ Inert(new, "req")
<1>1. toSend' = (IF headersSent THEN <<>> ELSE <<Headers("resp", NoLength)>>)
                  \o <<Body("resp", bytes, eos)>>
  BY DEF BuildStreamedChunkResponse, Reply
<1>2. DataType /\ EnvoyType /\ headersSent \in BOOLEAN
  BY DEF IInv, Flags
<1>3. Unfinished(out, "resp")
  BY ConcatEmptySeq DEF IInv, DataType, AtRecv, Said, SaidInv
<1>4. Account("resp", body \o bytes)'
  BY <1>1, <1>2, <1>3, SayMore
<1>5. body \in Seq(Nat)
  BY DEF Account
<1>6. (\E b : Account("resp", b))'
  <2>1. PICK b : b = body \o bytes
    OBVIOUS
  <2>2. Account("resp", b)'
    BY <1>4, <2>1
  <2> QED BY <2>2
<1>7. \E new \in Seq(Message) : toSend' = new /\ Inert(new, "req")
  <2> DEFINE text == Body("resp", bytes, eos)
  <2>1. text \in Message /\ text.dir = "resp"
    BY MessageTypes DEF Body, Directions
  <2>2. PICK b \in Message : b = text
    BY <2>1
  <2>3. PICK new : new = toSend'
    OBVIOUS
  <2>4. Streamed(new, b) /\ b.dir = "resp"
    BY <1>1, <2>1, <2>2, <2>3 DEF Streamed
  <2>5. new \in Seq(Message) /\ Inert(new, "req")
    BY <2>4, StreamedElsewhere
  <2> QED BY <2>3, <2>5
<1> QED BY <1>6, <1>7

LEMMA ResponseBodyBytes ==
  ASSUME IInv, BodyInv, NEW eos \in BOOLEAN, NEW chunk \in NextChunks("resp"), ResponseBody(chunk, eos)
  PROVE  BodyInv'
<1> USE DEF IInv
<1>0. "req" \in Directions /\ "resp" \in Directions /\ EnvoyType /\ DataType
  BY DEF Directions
<1>1. chunk \in Seq(Nat) /\ Len(chunk) \in Nat /\ \A i \in DOMAIN chunk : chunk[i] = envoy.sent["resp"] + i
  BY <1>0, ChunkNumbered
<1>2. EnvoyChunk("resp", chunk, eos)
  BY DEF ResponseBody
<1>3. /\ AtRecv /\ envoy.state["resp"] = "body"
      /\ envoy'.state = [envoy.state EXCEPT !["resp"] = IF eos THEN "eos" ELSE "body"]
  BY <1>1, ChunkArrives DEF ResponseBody, Directions
<1>4. /\ envoy'.got = envoy.got /\ envoy'.sent["resp"] = envoy.sent["resp"] + Len(chunk)
      /\ envoy'.sent["req"] = envoy.sent["req"]
  BY <1>0, <1>1, <1>2, ChunkCounted
<1>5. envoy'.state["resp"] = (IF eos THEN "eos" ELSE "body") /\ ~responseBodyComplete
  BY <1>0, <1>3 DEF EnvoyType, FlowInv, Over, Complete
<1>6. AppendResponseBody(chunk, eos) /\ out' = out
  BY <1>5 DEF ResponseBody, ProcessResponseBody
<1>7. responseBody' = responseBody \o chunk /\ requestBody' = requestBody /\ profile' = profile
  BY <1>6 DEF AppendResponseBody
<1>8. envoy.sent["resp"] \in Nat /\ envoy.sent["req"] \in Nat
  BY <1>0 DEF EnvoyType
<1>9. envoy'.sent["resp"] \in Nat /\ envoy.sent["resp"] <= envoy'.sent["resp"]
  BY <1>1, <1>4, <1>8
<1>10. Buffered(responseBody', envoy'.sent["resp"]) /\ responseBody' \in Seq(Nat)
  <2>1. responseBody \in Seq(Nat) /\ Buffered(responseBody, envoy.sent["resp"])
    BY DEF DataType, BodyInv
  <2>2. Buffered(responseBody \o chunk, envoy.sent["resp"] + Len(chunk))
    BY <1>1, <1>8, <2>1, BufferGrows
  <2>3. responseBody \o chunk \in Seq(Nat)
    BY <1>1, <2>1, ConcatProperties
  <2> QED BY <1>4, <1>7, <2>2, <2>3
<1>11. Buffered(requestBody', envoy'.sent["req"]) /\ envoy'.state["resp"] # "start"
  BY <1>4, <1>5, <1>7 DEF BodyInv
<1>12. Unfinished(out, "resp") /\ (~headersSent => Silent(out, "resp")) /\ (headersSent => ~profile.buffering)
  BY <1>3, ConcatEmptySeq DEF DataType, AtRecv, Said, SaidInv
<1>13. PICK body : Account("resp", body)
  BY <1>0 DEF BodyInv
<1>14. \E b : Account("req", b)
  BY <1>0 DEF BodyInv
<1>15. ASSUME NEW new \in Seq(Message), toSend' = new, Inert(new, "req") PROVE (\E b : Account("req", b))'
  BY <1>0, <1>3, <1>4, <1>6, <1>14, <1>15, SayElsewhere
<1>16. ASSUME NEW new \in Seq(Message), toSend' = new, Inert(new, "resp"),
              status' # "open" \/ (profile.buffering /\ ~eos)
       PROVE  Account("resp", body)'
  <2>1. status' = "open" => Silent(out, "resp") /\ profile'.buffering
    BY <1>7, <1>12, <1>16
  <2> QED BY <1>0, <1>3, <1>4, <1>6, <1>7, <1>9, <1>12, <1>13, <1>16, <2>1, SayNoBody
<1>17. ASSUME NEW sent \in Seq(Nat), NEW length \in Seq(Nat), length \in {NoLength, <<Len(sent)>>},
              Buffered(sent, envoy'.sent["resp"]) \/ (sent # <<>> /\ \A i \in DOMAIN sent : sent[i] = 0),
              profile.buffering, eos,
              Reply(<<Headers("resp", length)>> \o BuildChunkedBodyResponses("resp", sent))
       PROVE  (\E b : Account("req", b))' /\ (\E b : Account("resp", b))'
  <2> DEFINE msgs == <<Headers("resp", length)>> \o BuildChunkedBodyResponses("resp", sent)
  <2>1. toSend' = msgs
    BY <1>17 DEF Reply
  <2>2. Silent(out, "resp") /\ envoy'.state["resp"] # "body"
    BY <1>5, <1>12, <1>17
  <2>3. ~ByChunk("resp")'
    <3>1. profile \in server.profiles \cup {emptyProfile} /\ server \in Servers
      BY DEF DataType, Profiles
    <3>2. ~profile.chunkProcessors
      BY <1>17, <3>1, ConfigAssumption DEF emptyProfile, ServerSound
    <3> QED BY <1>7, <3>2 DEF ByChunk
  <2>4. Account("resp", sent)'
    BY <1>0, <1>3, <1>4, <1>6, <1>9, <1>13, <1>17, <2>1, <2>2, <2>3, SayWholeBody
  <2>5. msgs \in Seq(Message) /\ Inert(msgs, "req")
    BY <1>0, <1>17, WholeElsewhere
  <2> HIDE DEF msgs
  <2> QED BY <1>15, <2>1, <2>4, <2>5
<1>18. ASSUME NEW new \in Seq(Message), toSend' = new, \A d \in Directions : Inert(new, d),
              status' # "open" \/ (profile.buffering /\ ~eos)
       PROVE  (\E b : Account("req", b))' /\ (\E b : Account("resp", b))'
  <2>1. (\E b : Account("req", b))'
    BY <1>0, <1>15, <1>18
  <2>2. Account("resp", body)'
    BY <1>0, <1>16, <1>18
  <2> QED BY <2>1, <2>2
<1>19. (\E b : Account("req", b))' /\ (\E b : Account("resp", b))'
  <2>1. CASE profile.buffering /\ ~eos
    <3>1. toSend' = <<>>
      BY <1>6, <2>1 DEF AppendResponseBody, Reply
    <3>2. <<>> \in Seq(Message) /\ \A d \in Directions : Inert(<<>>, d)
      BY <1>0, InertReplies
    <3> QED BY <1>18, <2>1, <3>1, <3>2
  <2>2. CASE \E err \in Errors : BuildErrResponse(err)
    <3>1. PICK new \in Seq(Message) : toSend' = new /\ status' # "open" /\ \A d \in Directions : Inert(new, d)
      BY <2>2, ErrInert
    <3> QED BY <1>18, <3>1
  <2>3. CASE profile.buffering /\ eos /\ ~(\E err \in Errors : BuildErrResponse(err))
    <3>1. HandleResponseBody(responseBody')
      BY <1>6, <2>3 DEF AppendResponseBody
    <3>2. PICK bytes \in Seq(Nat) : bytes = responseBody'
      BY <1>10
    <3>3. HandleResponseBody(bytes)
      BY <3>1, <3>2
    <3>4. \/ Reply(<<Headers("resp", NoLength)>> \o BuildChunkedBodyResponses("resp", bytes))
          \/ \E n \in MutatedLens \ {0} :
               Reply(<<Headers("resp", <<n>>)>> \o BuildChunkedBodyResponses("resp", Mutated(n)))
      BY <2>3, <3>3 DEF HandleResponseBody
    <3>5. CASE Reply(<<Headers("resp", NoLength)>> \o BuildChunkedBodyResponses("resp", bytes))
      <4>1. NoLength \in Seq(Nat) /\ Buffered(bytes, envoy'.sent["resp"])
        BY <1>10, <3>2 DEF NoLength
      <4> QED BY <1>17, <2>3, <3>5, <4>1
    <3>6. CASE \E n \in MutatedLens \ {0} :
                 Reply(<<Headers("resp", <<n>>)>> \o BuildChunkedBodyResponses("resp", Mutated(n)))
      <4>1. PICK n \in MutatedLens \ {0} :
              Reply(<<Headers("resp", <<n>>)>> \o BuildChunkedBodyResponses("resp", Mutated(n)))
        BY <3>6
      <4>2. PICK sent \in Seq(Nat) : sent = Mutated(n)
        BY MutatedBytes
      <4>3. sent # <<>> /\ (\A i \in DOMAIN sent : sent[i] = 0) /\ <<n>> = <<Len(sent)>> /\ <<n>> \in Seq(Nat)
        BY <4>2, MutatedBytes
      <4>4. Reply(<<Headers("resp", <<n>>)>> \o BuildChunkedBodyResponses("resp", sent))
        BY <4>1, <4>2
      <4> QED BY <1>17, <2>3, <4>3, <4>4
    <3> QED BY <3>4, <3>5, <3>6
  <2>4. CASE ~profile.buffering /\ ~(\E err \in Errors : BuildErrResponse(err))
    <3>1. HandleResponseChunk(chunk, eos)
      BY <1>6, <2>4 DEF AppendResponseBody
    <3>2. \/ BuildStreamedChunkResponse(chunk, eos)
          \/ profile.chunkProcessors /\ \E n \in MutatedLens : BuildStreamedChunkResponse(Mutated(n), eos)
      BY <2>4, <3>1 DEF HandleResponseChunk
    <3>3. PICK bytes \in Seq(Nat) :
            /\ bytes = chunk \/ (profile.chunkProcessors /\ \A i \in DOMAIN bytes : bytes[i] = 0)
            /\ BuildStreamedChunkResponse(bytes, eos)
      <4>1. CASE BuildStreamedChunkResponse(chunk, eos)
        BY <1>1, <4>1
      <4>2. CASE profile.chunkProcessors /\ \E n \in MutatedLens : BuildStreamedChunkResponse(Mutated(n), eos)
        BY <4>2, MutatedBytes
      <4> QED BY <3>2, <4>1, <4>2
    <3>4. /\ (\E b : Account("resp", b))'
          /\ \E new \in Seq(Message) : toSend' = new /\ Inert(new, "req")
      BY <1>1, <1>3, <1>4, <1>6, <1>7, <1>13, <2>4, <3>3, StreamedChunkBytes
    <3> QED BY <1>15, <3>4
  <2> QED BY <2>1, <2>2, <2>3, <2>4
<1>20. \A d \in Directions : d = "req" \/ d = "resp"
  BY DEF Directions
<1> QED BY <1>10, <1>11, <1>19, <1>20 DEF BodyInv

LEMMA SendBytes ==
  ASSUME IInv, BodyInv, Send \/ SendFails
  PROVE  BodyInv'
<1>1. /\ requestBody' = requestBody /\ responseBody' = responseBody
      /\ envoy'.state = envoy.state /\ envoy'.sent = envoy.sent
  <2>1. CASE Send
    BY <2>1, SendDelivers DEF IInv, DataType, Send, reqCtx
  <2>2. CASE SendFails
    BY <2>2 DEF SendFails, reqCtx
  <2> QED BY <2>1, <2>2
<1>2. ASSUME NEW d \in Directions PROVE (\E body : Account(d, body))'
  <2>1. PICK body : Account(d, body)
    BY DEF BodyInv
  <2>2. CASE Send
    <3>1. Account(d, body)'
      BY <2>1, <2>2, SendAccount
    <3> QED BY <3>1
  <2>3. CASE SendFails
    <3>1. PICK bytes : Account(d, bytes)'
      BY <2>1, <2>3, SendFailsAccount
    <3> QED BY <3>1
  <2> QED BY <2>2, <2>3
<1> QED BY <1>1, <1>2 DEF BodyInv

LEMMA InitBytes == Init => BodyInv
<1> SUFFICES ASSUME Init PROVE BodyInv
  OBVIOUS
<1>1. IInv /\ AtRecv /\ EnvoyType /\ out = <<>> /\ toSend = <<>> /\ Said = <<>>
  BY InitHolds DEF Init, AtRecv, IInv, Said
<1>2. \A d \in Directions : envoy.sent[d] = 0 /\ envoy.got[d] = <<>> /\ envoy.state[d] = "start"
  BY DEF Init, EnvoyInit
<1>3. ASSUME NEW d \in Directions PROVE Account(d, <<>>)
  <2>1. <<>> \in Seq(Message) /\ Inert(<<>>, d) /\ <<>> \in Seq(Nat)
    BY DEF Inert
  <2>2. \E off : Layout(off, toSend, d, Len(envoy.got[d]), <<>>)
    BY <1>1, <1>2, <2>1, InertLayout
  <2>3. ~Finished(<<>>, d)
    BY DEF Finished
  <2>4. Rising(<<>>, 0) /\ Promised(<<>>, d, <<>>) /\ Whole(<<>>, <<>>, d)
    BY <1>2, <2>3 DEF Rising, Promised, Whole
  <2> QED BY <1>1, <1>2, <2>2, <2>3, <2>4 DEF Account
<1>4. requestBody = <<>> /\ responseBody = <<>> /\ Buffered(<<>>, 0)
  BY DEF Init, Buffered
<1> QED BY <1>2, <1>3, <1>4 DEF BodyInv, Directions

(* Every step of the loop keeps the account of the bytes.                  *)
THEOREM BodyInvariance == Spec => []BodyInv
<1>1. IInv /\ BodyInv /\ [Next]_vars => BodyInv'
  <2> SUFFICES ASSUME IInv, BodyInv, [Next]_vars PROVE BodyInv'
    OBVIOUS
  <2>1. CASE \/ \E eos \in BOOLEAN : RequestHeaders(eos)
             \/ RequestBodyRedelivered \/ ResponseBodyRedelivered
             \/ RequestTrailers \/ ResponseTrailers \/ RecvEnds
    BY <2>1, QuietBytes
  <2>2. ASSUME NEW eos \in BOOLEAN, ResponseHeaders(eos) PROVE BodyInv'
    BY <2>2, ResponseHeadersBytes
  <2>3. ASSUME NEW eos \in BOOLEAN, NEW chunk \in NextChunks("req"), RequestBody(chunk, eos)
        PROVE  BodyInv'
    BY <2>3, RequestBodyBytes
  <2>4. ASSUME NEW eos \in BOOLEAN, NEW chunk \in NextChunks("resp"), ResponseBody(chunk, eos)
        PROVE  BodyInv'
    BY <2>4, ResponseBodyBytes
  <2>5. CASE Send \/ SendFails
    BY <2>5, SendBytes
  <2>6. CASE UNCHANGED vars
    <3>1. /\ envoy' = envoy /\ toSend' = toSend /\ out' = out /\ status' = status /\ profile' = profile
          /\ requestBody' = requestBody /\ responseBody' = responseBody
      BY <2>6 DEF vars, reqCtx
    <3>2. ASSUME NEW d \in Directions PROVE (\E body : Account(d, body))'
      <4>1. PICK body : Account(d, body)
        BY DEF BodyInv
      <4>2. Account(d, body)'
        BY <3>1, <4>1 DEF Account, Whole, Intact, ByChunk, Said
      <4> QED BY <4>2
    <3> QED BY <3>1, <3>2 DEF BodyInv
  <2> QED BY <2>1, <2>2, <2>3, <2>4, <2>5, <2>6 DEF Next
<1> QED BY <1>1, Invariance, InitBytes, PTL DEF Spec

(* For any chunk sizes and limit, any rewriting, failure and re-delivery:  *)
(* Envoy gets back its own bytes, once and in order, except where a plugin *)
(* rewrote them, and all of them before EndOfStream (the buffers of        *)
(* Process, BuildChunkedBodyResponses, buildStreamedChunkResponse).        *)
THEOREM BodyPreserved == Spec => []BodyFidelity
<1>1. IInv /\ BodyInv => BodyFidelity
  <2> SUFFICES ASSUME IInv, BodyInv, NEW d \in Directions
               PROVE  LET bytes == envoy.got[d]
                      IN /\ \A i, j \in DOMAIN bytes : i < j /\ bytes[i] # 0 /\ bytes[j] # 0 => bytes[i] < bytes[j]
                         /\ Intact(bytes, out, d) => /\ Len(bytes) <= envoy.sent[d]
                                                     /\ \A i \in DOMAIN bytes : bytes[i] = i
                                                     /\ Ended(d) => Len(bytes) = envoy.sent[d]
    BY DEF BodyFidelity
  <2>1. PICK body : Account(d, body)
    BY DEF BodyInv
  <2>2. envoy.got[d] \in Seq(Nat) /\ body \in Seq(Nat)
    BY <2>1 DEF IInv, EnvoyType, Account
  <2>3. \A i \in DOMAIN envoy.got[d] : i \in DOMAIN body /\ envoy.got[d][i] = body[i]
    BY <2>1, <2>2, LenProperties DEF Account
  <2>4. Finished(out, d) <=> Ended(d)
    BY DEF Finished, Ended
  <2>5. Rising(body, envoy.sent[d]) /\ Whole(envoy.got[d], out, d)
    BY <2>1 DEF Account
  <2> QED BY <2>3, <2>4, <2>5 DEF Rising, Whole
<1> QED BY <1>1, Invariance, BodyInvariance, PTL

(* For any body and limit: a Content-Length said with the headers is the   *)
(* number of bytes that follow, and no chunk is over the limit             *)
(* (HandleRequestBody, HandleResponseBody, BuildChunkedBodyResponses).     *)
THEOREM LengthsHonoured == Spec => []ContentLengthHonoured
<1>1. IInv /\ BodyInv => ContentLengthHonoured
  <2> SUFFICES ASSUME IInv, BodyInv, NEW d \in Directions, NEW h \in DOMAIN out,
                      Opens(out[h], d), out[h].length # NoLength
               PROVE  /\ Len(envoy.got[d]) <= out[h].length[1]
                      /\ Ended(d) => Len(envoy.got[d]) = out[h].length[1]
                      /\ \A i \in DOMAIN out : Carries(out[i], d) => Len(out[i].body) <= BodyByteLimit
    BY DEF ContentLengthHonoured
  <2>1. PICK body : Account(d, body)
    BY DEF BodyInv
  <2>2. out \in Seq(Message) /\ toSend \in Seq(Message) /\ envoy.got[d] \in Seq(Nat) /\ body \in Seq(Nat)
    BY <2>1 DEF IInv, DataType, EnvoyType, Account
  <2>3. \A i \in DOMAIN out : i \in DOMAIN Said /\ Said[i] = out[i]
    BY <2>2, JoinElements DEF Said
  <2>4. Ended(d) => Finished(out, d) /\ Finished(Said, d)
    BY <2>3 DEF Finished, Ended
  <2>5. /\ Len(body) <= out[h].length[1]
        /\ Finished(Said, d) => Len(body) = out[h].length[1]
        /\ \A i \in DOMAIN Said : Carries(Said[i], d) => Len(Said[i].body) <= BodyByteLimit
    BY <2>1, <2>3 DEF Account, Promised
  <2>6. out[h].length[1] \in Nat
    <3>1. out[h] \in Message
      BY <2>2, ElementOfSeq, LenProperties
    <3>2. out[h].length \in Seq(Nat)
      BY <3>1 DEF Message
    <3>3. 1 \in 1..Len(out[h].length)
      BY <3>2, EmptySeq, LenProperties DEF NoLength
    <3> QED BY <3>2, <3>3, ElementOfSeq
  <2>7. /\ Len(envoy.got[d]) <= Len(body) /\ Len(envoy.got[d]) \in Nat /\ Len(body) \in Nat
        /\ Finished(out, d) => Len(envoy.got[d]) = Len(body)
    BY <2>1, <2>2, LenProperties DEF Account
  <2>8. Len(envoy.got[d]) <= out[h].length[1]
    BY <2>5, <2>6, <2>7
  <2> QED BY <2>3, <2>4, <2>5, <2>7, <2>8
<1> QED BY <1>1, Invariance, BodyInvariance, PTL

-----------------------------------------------------------------------------
(* A set of naturals has a least element, a bounded one a greatest.        *)
LEMMA NatMin ==
  ASSUME NEW S, S \subseteq Nat, S # {}
  PROVE  \E n \in S : \A m \in S : n <= m
<1> DEFINE R == OpToRel(<, Nat)
<1>1. IsWellFoundedOn(R, Nat)
  BY NatLessThanWellFounded
<1>2. \A x, y \in Nat : y < x => <<y, x>> \in R
  BY DEF OpToRel
<1> HIDE DEF R
<1>3. PICK x \in S : \A y \in S : ~(<<y, x>> \in R)
  BY <1>1, WFMin
<1>4. \A y \in S : ~(y < x)
  BY <1>2, <1>3
<1>5. \A y \in S : x <= y
  BY <1>4 DEF R
<1> QED BY <1>5

LEMMA NatMax ==
  ASSUME NEW n \in Nat, NEW S, S \subseteq 1..n, S # {}
  PROVE  \E i \in S : \A j \in S : j <= i
<1> DEFINE T == {n - i : i \in S}
<1>1. T \subseteq Nat
  <2> SUFFICES ASSUME NEW i \in S PROVE n - i \in Nat
    OBVIOUS
  <2> QED OBVIOUS
<1>6. T # {}
  <2>1. PICK i \in S : TRUE
    OBVIOUS
  <2>2. n - i \in T
    OBVIOUS
  <2> QED BY <2>2
<1>2. PICK t \in T : \A u \in T : t <= u
  <2> HIDE DEF T
  <2> QED BY <1>1, <1>6, NatMin
<1>3. PICK i \in S : t = n - i
  OBVIOUS
<1>4. \A j \in S : n - i <= n - j
  BY <1>2, <1>3
<1>5. \A j \in S : j <= i
  BY <1>4
<1> QED BY <1>5

-----------------------------------------------------------------------------
(***************************************************************************)
(* ResponsePayload: what parseSSEResponseBody makes of any lines.  The     *)
(* inductions over the lines go by a least line after which the claim      *)
(* fails.                                                                  *)
(***************************************************************************)
(* The bodies that parseSSEResponseBody goes through, line by line.        *)
Merges(f, lines, N) ==
    f = [n \in 0..N |-> IF n = 0 THEN NoBody ELSE MergeLine(f[n - 1], lines[n])]

LEMMA MergesExist ==
  ASSUME NEW lines, NEW N \in Nat
  PROVE  \E f : Merges(f, lines, N)
<1> DEFINE S == {n \in Nat : ~\E f : Merges(f, lines, n)}
<1> SUFFICES ASSUME S # {} PROVE FALSE
  OBVIOUS
<1>1. S \subseteq Nat
  OBVIOUS
<1>2. PICK n \in S : \A m \in S : n <= m
  <2> HIDE DEF S
  <2> QED BY <1>1, NatMin
<1>3. CASE n = 0
  <2> DEFINE f == [k \in 0..0 |-> NoBody]
  <2>1. \A k \in 0..0 : k = 0
    OBVIOUS
  <2>2. Merges(f, lines, 0)
    BY <2>1 DEF Merges
  <2> QED BY <1>3, <2>2
<1>4. CASE n # 0
  <2>1. n - 1 \in Nat /\ n - 1 \notin S
    BY <1>2, <1>4
  <2>2. PICK g : Merges(g, lines, n - 1)
    BY <2>1
  <2> DEFINE f == [k \in 0..n |-> IF k = n THEN MergeLine(g[n - 1], lines[n]) ELSE g[k]]
  <2>3. \A k \in 0..n - 1 : g[k] = IF k = 0 THEN NoBody ELSE MergeLine(g[k - 1], lines[k])
    BY <2>2 DEF Merges
  <2>4. \A k \in 0..n : f[k] = IF k = 0 THEN NoBody ELSE MergeLine(f[k - 1], lines[k])
    <3> TAKE k \in 0..n
    <3>1. CASE k = n
      <4>1. f[n] = MergeLine(g[n - 1], lines[n]) /\ f[n - 1] = g[n - 1]
        BY <1>4
      <4> QED BY <1>4, <3>1, <4>1
    <3>2. CASE k # n
      <4>1. k \in 0..n - 1 /\ f[k] = g[k] /\ (k # 0 => f[k - 1] = g[k - 1])
        BY <3>2
      <4> QED BY <2>3, <4>1
    <3> QED BY <3>1, <3>2
  <2>5. f = [k \in 0..n |-> f[k]]
    OBVIOUS
  <2> HIDE DEF f
  <2>6. Merges(f, lines, n)
    BY <2>4, <2>5 DEF Merges
  <2> QED BY <2>6
<1> QED BY <1>3, <1>4

LEMMA Parsed ==
  ASSUME NEW lines, Len(lines) \in Nat
  PROVE  \E f : /\ Merges(f, lines, Len(lines))
                /\ parseSSEResponseBody(lines) =
                     IF f[Len(lines)].model = None /\ f[Len(lines)].usage = None
                     THEN NoBody ELSE f[Len(lines)]
<1> DEFINE f == CHOOSE g : g = [n \in 0..Len(lines) |->
                                  IF n = 0 THEN NoBody ELSE MergeLine(g[n - 1], lines[n])]
<1>1. Merges(f, lines, Len(lines))
  BY MergesExist DEF Merges
<1>2. parseSSEResponseBody(lines) =
        IF f[Len(lines)].model = None /\ f[Len(lines)].usage = None THEN NoBody ELSE f[Len(lines)]
  BY DEF parseSSEResponseBody
<1> QED BY <1>1, <1>2

(* Flattened(f, seqs): f[i] is what FlattenSeq has joined up to i.         *)
Joins(f, seqs) == f = [i \in 1..Len(seqs) |-> IF i = 1 THEN seqs[i] ELSE f[i - 1] \o seqs[i]]

LEMMA Flattens ==
  ASSUME NEW seqs, Len(seqs) \in Nat \ {0}, NEW f, Joins(f, seqs)
  PROVE  FlattenSeq(seqs) = f[Len(seqs)]
<1> DEFINE N == Len(seqs)
           g == CHOOSE h : h = [i \in 1..N |-> IF i = 1 THEN seqs[i] ELSE h[i - 1] \o seqs[i]]
<1>1. g = [i \in 1..N |-> IF i = 1 THEN seqs[i] ELSE g[i - 1] \o seqs[i]]
  BY DEF Joins
<1>2. FlattenSeq(seqs) = g[N]
  BY DEF FlattenSeq
<1> HIDE DEF N, g
<1>3. f = [i \in 1..N |-> IF i = 1 THEN seqs[i] ELSE f[i - 1] \o seqs[i]] /\ N \in Nat \ {0}
  BY DEF Joins, N
<1> DEFINE S == {i \in 1..N : f[i] # g[i]}
<1>4. S = {}
  <2> SUFFICES ASSUME S # {} PROVE FALSE
    OBVIOUS
  <2>1. PICK i \in S : \A j \in S : i <= j
    <3>1. S \subseteq Nat
      BY <1>3
    <3> HIDE DEF S
    <3> QED BY <3>1, NatMin
  <2>2. f[i] = (IF i = 1 THEN seqs[i] ELSE f[i - 1] \o seqs[i])
        /\ g[i] = (IF i = 1 THEN seqs[i] ELSE g[i - 1] \o seqs[i])
    BY <1>1, <1>3
  <2>3. i # 1 => f[i - 1] = g[i - 1]
    BY <1>3, <2>1
  <2> QED BY <2>2, <2>3
<1>5. f[N] = g[N]
  <2>1. N \in 1..N
    BY <1>3
  <2> QED BY <1>4, <2>1
<1> QED BY <1>2, <1>5 DEF N

-----------------------------------------------------------------------------
(* What a line says.                                                       *)
Names(l) == l # Skipped /\ ModelOf(l) # None
Stops(l) == l # Skipped /\ l.stop # None
Uses(l) == l # Skipped /\ UsageOf(l) # None
Reports(l, k) == Uses(l) /\ k \in DOMAIN UsageOf(l)
TextOf(l) == IF l # Skipped THEN l.text ELSE <<>>

LEMMA UsageOfLine ==
  ASSUME NEW l, IsLine(l), l # Skipped
  PROVE  IsUsage(UsageOf(l))
BY DEF IsLine, UsageOf, IsUsage

LEMMA IsFunction ==
  ASSUME NEW u, IsUsage(u), u # None
  PROVE  /\ u = [k \in DOMAIN u |-> u[k]] /\ DOMAIN u \subseteq UsageKeys
         /\ \A k \in DOMAIN u : u[k] \in Nat
BY DEF IsUsage

(* Usage is merged key by key: the newer count of a key stays.             *)
LEMMA UsageMerged ==
  ASSUME NEW old, NEW new, IsUsage(old), IsUsage(new), NEW m, m = MergeUsage(old, new)
  PROVE  /\ IsUsage(m)
         /\ new = None => m = old
         /\ new # None =>
              /\ m # None
              /\ \A k : k \in DOMAIN m <=> k \in DOMAIN new \/ (old # None /\ k \in DOMAIN old)
              /\ \A k \in DOMAIN new : m[k] = new[k]
              /\ old # None => \A k \in DOMAIN old : k \notin DOMAIN new => m[k] = old[k]
<1>1. CASE new = None
  BY <1>1 DEF MergeUsage
<1>2. CASE new # None /\ old = None
  BY <1>2 DEF MergeUsage
<1>3. CASE new # None /\ old # None
  <2>1. m = [k \in DOMAIN old \cup DOMAIN new |-> IF k \in DOMAIN new THEN new[k] ELSE old[k]]
    BY <1>3 DEF MergeUsage
  <2>2. m \in [DOMAIN old \cup DOMAIN new -> Nat] /\ DOMAIN old \cup DOMAIN new \in SUBSET UsageKeys
    BY <1>3, <2>1, IsFunction
  <2>3. IsUsage(m) /\ m # None
    BY <2>2, AbsentAssumption DEF IsUsage
  <2> QED BY <1>3, <2>1, <2>3
<1> QED BY <1>1, <1>2, <1>3

(* What the body has after n lines.                                        *)
ModelSaid(b, lines, n) ==
    /\ (\A i \in 1..n : ~Names(lines[i])) => b.model = None
    /\ \A i \in 1..n : Names(lines[i]) /\ (\A j \in 1..n : Names(lines[j]) => j <= i) =>
        b.model = ModelOf(lines[i])
StopSaid(b, lines, n) ==
    /\ (\A i \in 1..n : ~Stops(lines[i])) => b.stop = None
    /\ \A i \in 1..n : Stops(lines[i]) /\ (\A j \in 1..n : Stops(lines[j]) => j <= i) =>
        b.stop = lines[i].stop
UsageSaid(b, lines, n) ==
    /\ IsUsage(b.usage)
    /\ b.usage = None <=> \A i \in 1..n : ~Uses(lines[i])
    /\ b.usage # None => \A k : k \in DOMAIN b.usage <=> \E i \in 1..n : Reports(lines[i], k)
    /\ \A i \in 1..n : \A k : Reports(lines[i], k) /\ (\A j \in 1..n : Reports(lines[j], k) => j <= i) =>
        b.usage[k] = UsageOf(lines[i])[k]
BodyShape(b) ==
    DOMAIN b = {"model", "usage", "usageMetadata", "text", "stop"} /\ b.usageMetadata = None

LEMMA MergeOne ==
  ASSUME NEW lines, NEW n \in Nat \ {0}, NEW b, NEW c, IsLine(lines[n]), c = MergeLine(b, lines[n]),
         BodyShape(b), ModelSaid(b, lines, n - 1), StopSaid(b, lines, n - 1), UsageSaid(b, lines, n - 1)
  PROVE  /\ BodyShape(c) /\ ModelSaid(c, lines, n) /\ StopSaid(c, lines, n) /\ UsageSaid(c, lines, n)
         /\ c.text = IF lines[n] = Skipped THEN b.text ELSE b.text \o lines[n].text
<1> DEFINE e == lines[n]
<1>1. \A i \in 1..n : i = n \/ i \in 1..n - 1
  OBVIOUS
<1>2. n \in 1..n /\ \A i \in 1..n - 1 : i \in 1..n /\ i < n /\ ~(n <= i)
  OBVIOUS
<1>3. CASE e = Skipped
  <2>1. c = b
    BY <1>3 DEF MergeLine
  <2>2. ~Names(e) /\ ~Stops(e) /\ ~Uses(e) /\ \A k : ~Reports(e, k)
    BY <1>3 DEF Names, Stops, Uses, Reports
  <2>3. ModelSaid(c, lines, n)
    BY <1>1, <1>2, <2>1, <2>2 DEF ModelSaid
  <2>4. StopSaid(c, lines, n)
    BY <1>1, <1>2, <2>1, <2>2 DEF StopSaid
  <2>5. UsageSaid(c, lines, n)
    BY <1>1, <1>2, <2>1, <2>2 DEF UsageSaid
  <2> QED BY <1>3, <2>1, <2>3, <2>4, <2>5
<1>4. CASE e # Skipped
  <2>1. /\ c.model = Or(ModelOf(e), b.model) /\ c.text = b.text \o e.text /\ c.stop = Or(e.stop, b.stop)
        /\ c.usage = MergeUsage(b.usage, UsageOf(e)) /\ BodyShape(c)
    BY <1>4 DEF MergeLine, BodyShape
  <2>2. ModelSaid(c, lines, n)
    <3>1. CASE ~Names(e)
      <4>1. c.model = b.model
        BY <1>4, <2>1, <3>1 DEF Names, Or
      <4> QED BY <1>1, <1>2, <3>1, <4>1 DEF ModelSaid
    <3>2. CASE Names(e)
      <4>1. c.model = ModelOf(e)
        BY <2>1, <3>2 DEF Names, Or
      <4> QED BY <1>1, <1>2, <3>2, <4>1 DEF ModelSaid
    <3> QED BY <3>1, <3>2
  <2>3. StopSaid(c, lines, n)
    <3>1. CASE ~Stops(e)
      <4>1. c.stop = b.stop
        BY <1>4, <2>1, <3>1 DEF Stops, Or
      <4> QED BY <1>1, <1>2, <3>1, <4>1 DEF StopSaid
    <3>2. CASE Stops(e)
      <4>1. c.stop = e.stop
        BY <2>1, <3>2 DEF Stops, Or
      <4> QED BY <1>1, <1>2, <3>2, <4>1 DEF StopSaid
    <3> QED BY <3>1, <3>2
  <2>4. UsageSaid(c, lines, n)
    <3> DEFINE u == UsageOf(e)
               old == b.usage
               m == c.usage
    <3>1. IsUsage(u) /\ IsUsage(old) /\ m = MergeUsage(old, u)
      BY <1>4, <2>1, UsageOfLine DEF UsageSaid
    <3>2. /\ IsUsage(m)
          /\ u = None => m = old
          /\ u # None =>
              /\ m # None
              /\ \A k : k \in DOMAIN m <=> k \in DOMAIN u \/ (old # None /\ k \in DOMAIN old)
              /\ \A k \in DOMAIN u : m[k] = u[k]
              /\ old # None => \A k \in DOMAIN old : k \notin DOMAIN u => m[k] = old[k]
      BY <3>1, UsageMerged
    <3>3. Uses(e) <=> u # None
      BY <1>4 DEF Uses
    <3>4. \A k : Reports(e, k) <=> u # None /\ k \in DOMAIN u
      BY <3>3 DEF Reports
    <3>5. /\ old = None <=> \A i \in 1..n - 1 : ~Uses(lines[i])
          /\ old # None => \A k : k \in DOMAIN old <=> \E i \in 1..n - 1 : Reports(lines[i], k)
          /\ \A i \in 1..n - 1 : \A k :
              Reports(lines[i], k) /\ (\A j \in 1..n - 1 : Reports(lines[j], k) => j <= i) =>
                old[k] = UsageOf(lines[i])[k]
      BY DEF UsageSaid
    <3> HIDE DEF u, old, m
    <3>6. CASE u = None
      <4>1. ~Uses(e) /\ \A k : ~Reports(e, k)
        BY <3>3, <3>4, <3>6
      <4> QED BY <1>1, <1>2, <3>2, <3>5, <3>6, <4>1 DEF UsageSaid, m
    <3>7. CASE u # None
      <4>1. m # None /\ Uses(e)
        BY <3>2, <3>3, <3>7
      <4>2. ASSUME NEW k PROVE k \in DOMAIN m <=> \E i \in 1..n : Reports(lines[i], k)
        <5>1. k \in DOMAIN m <=> Reports(e, k) \/ \E i \in 1..n - 1 : Reports(lines[i], k)
          <6>1. old = None => \A i \in 1..n - 1 : ~Reports(lines[i], k)
            BY <3>5 DEF Reports
          <6> QED BY <3>2, <3>4, <3>5, <3>7, <6>1
        <5> QED BY <1>1, <1>2, <5>1
      <4>3. ASSUME NEW i \in 1..n, NEW k, Reports(lines[i], k),
                   \A j \in 1..n : Reports(lines[j], k) => j <= i
            PROVE  m[k] = UsageOf(lines[i])[k]
        <5>1. CASE i = n
          BY <3>2, <3>4, <3>7, <4>3, <5>1 DEF u
        <5>2. CASE i # n
          <6>1. i \in 1..n - 1 /\ ~Reports(e, k)
            BY <1>1, <1>2, <4>3, <5>2
          <6>2. old # None /\ k \in DOMAIN old /\ old[k] = UsageOf(lines[i])[k]
            BY <1>2, <3>5, <4>3, <6>1 DEF Reports
          <6> QED BY <3>2, <3>4, <3>7, <6>1, <6>2
        <5> QED BY <5>1, <5>2
      <4>4. ~\A i \in 1..n : ~Uses(lines[i])
        BY <1>2, <4>1
      <4> QED BY <3>2, <4>1, <4>2, <4>3, <4>4 DEF UsageSaid, m
    <3> QED BY <3>6, <3>7
  <2> QED BY <1>4, <2>1, <2>2, <2>3, <2>4
<1> QED BY <1>3, <1>4

LEMMA TextOfLine ==
  ASSUME NEW l, IsLine(l)
  PROVE  TextOf(l) \in Seq(ToSet(TextOf(l)))
<1>1. CASE l = Skipped
  BY <1>1 DEF TextOf
<1>2. CASE l # Skipped
  BY <1>2 DEF TextOf, IsLine
<1> QED BY <1>1, <1>2

(* ... and after all of them, by a least line after which it is wrong.     *)
LEMMA MergeAll ==
  ASSUME NEW X, NEW lines \in Seq(X), \A i \in DOMAIN lines : IsLine(lines[i]),
         NEW f, Merges(f, lines, Len(lines))
  PROVE  /\ \A n \in 0..Len(lines) :
              /\ BodyShape(f[n]) /\ ModelSaid(f[n], lines, n) /\ StopSaid(f[n], lines, n)
              /\ UsageSaid(f[n], lines, n)
         /\ \A n \in 1..Len(lines) :
              f[n].text = IF n = 1 THEN TextOf(lines[n]) ELSE f[n - 1].text \o TextOf(lines[n])
<1> DEFINE N == Len(lines)
           T == UNION {ToSet(TextOf(lines[i])) : i \in DOMAIN lines}
           Right(n) == /\ BodyShape(f[n]) /\ ModelSaid(f[n], lines, n) /\ StopSaid(f[n], lines, n)
                      /\ UsageSaid(f[n], lines, n) /\ f[n].text \in Seq(T)
<1>1. N \in Nat /\ DOMAIN lines = 1..N
  OBVIOUS
<1>2. f[0] = NoBody /\ \A n \in 1..N : f[n] = MergeLine(f[n - 1], lines[n])
  BY <1>1 DEF Merges
<1>3. \A n \in 1..N : IsLine(lines[n]) /\ TextOf(lines[n]) \in Seq(T)
  <2> TAKE n \in 1..N
  <2>1. IsLine(lines[n]) /\ ToSet(TextOf(lines[n])) \subseteq T
    BY <1>1
  <2>2. TextOf(lines[n]) \in Seq(ToSet(TextOf(lines[n])))
    BY <2>1, TextOfLine
  <2> HIDE DEF T
  <2> QED BY <2>1, <2>2
<1> HIDE DEF N, T
<1>4. Right(0)
  <2>1. /\ BodyShape(NoBody) /\ ModelSaid(NoBody, lines, 0) /\ StopSaid(NoBody, lines, 0)
        /\ UsageSaid(NoBody, lines, 0) /\ NoBody.text = <<>>
    BY DEF NoBody, BodyShape, ModelSaid, StopSaid, UsageSaid, IsUsage
  <2> QED BY <1>2, <2>1
<1>5. ASSUME NEW n \in 1..N, Right(n - 1)
      PROVE  Right(n) /\ f[n].text = f[n - 1].text \o TextOf(lines[n])
  <2>1. /\ BodyShape(f[n]) /\ ModelSaid(f[n], lines, n) /\ StopSaid(f[n], lines, n)
        /\ UsageSaid(f[n], lines, n)
        /\ f[n].text = IF lines[n] = Skipped THEN f[n - 1].text ELSE f[n - 1].text \o lines[n].text
    <3>1. n \in Nat \ {0} /\ IsLine(lines[n]) /\ f[n] = MergeLine(f[n - 1], lines[n])
      BY <1>1, <1>2, <1>3
    <3> QED BY <1>5, <3>1, MergeOne
  <2>2. f[n].text = f[n - 1].text \o TextOf(lines[n])
    <3>1. f[n - 1].text \o <<>> = f[n - 1].text
      BY <1>5, ConcatEmptySeq
    <3> QED BY <2>1, <3>1 DEF TextOf
  <2>3. f[n].text \in Seq(T)
    BY <1>3, <1>5, <2>2
  <2> QED BY <2>1, <2>2, <2>3
<1> HIDE DEF Right
<1>6. \A n \in 0..N : Right(n)
  <2> DEFINE S == {n \in 0..N : ~Right(n)}
  <2> SUFFICES ASSUME S # {} PROVE FALSE
    OBVIOUS
  <2>1. S \subseteq Nat
    BY <1>1
  <2>2. PICK n \in S : \A m \in S : n <= m
    <3> HIDE DEF S
    <3> QED BY <2>1, NatMin
  <2>3. n # 0 /\ n \in 0..N /\ ~Right(n)
    BY <1>4
  <2>4. n \in 1..N /\ n - 1 \in 0..N /\ n - 1 \notin S
    BY <1>1, <2>2, <2>3
  <2> QED BY <1>5, <2>3, <2>4
<1>7. ASSUME NEW n \in 1..N
      PROVE  f[n].text = IF n = 1 THEN TextOf(lines[n]) ELSE f[n - 1].text \o TextOf(lines[n])
  <2>1. n - 1 \in 0..N
    BY <1>1
  <2>2. f[n].text = f[n - 1].text \o TextOf(lines[n])
    BY <1>5, <1>6, <2>1
  <2>3. n = 1 => f[n - 1].text = <<>>
    BY <1>2 DEF NoBody
  <2>4. <<>> \o TextOf(lines[n]) = TextOf(lines[n])
    BY <1>3, ConcatEmptySeq
  <2> QED BY <2>2, <2>3, <2>4
<1> QED BY <1>6, <1>7 DEF N, Right

(* The last of some lines.                                                 *)
LEMMA LatestOf ==
  ASSUME NEW N \in Nat, NEW S, S \subseteq 1..N, S # {}
  PROVE  LET i == CHOOSE i \in S : \A j \in S : j <= i IN i \in S /\ \A j \in S : j <= i
BY NatMax

(* parseSSEResponseBody computes what AmountsTo says, for any lines.       *)
LEMMA ParseAmounts ==
  ASSUME NEW X, NEW lines \in Seq(X), \A i \in DOMAIN lines : IsLine(lines[i])
  PROVE  AmountsTo(lines, parseSSEResponseBody(lines))
<1> DEFINE N == Len(lines)
           body == parseSSEResponseBody(lines)
           events == {i \in DOMAIN lines : lines[i] # Skipped}
           Naming == {i \in events : ModelOf(lines[i]) # None}
           Using == {i \in events : UsageOf(lines[i]) # None}
           Stopping == {i \in events : lines[i].stop # None}
           Reporting(k) == {i \in Using : k \in DOMAIN UsageOf(lines[i])}
           Latest(S) == lines[CHOOSE i \in S : \A j \in S : j <= i]
           Reported == UNION {DOMAIN UsageOf(lines[i]) : i \in Using}
           Final(k) == UsageOf(Latest(Reporting(k)))[k]
           Known(keys) == \A i \in 1..2 : keys[i] \in Reported /\ Final(keys[i]) > 0
<1>1. N \in Nat /\ DOMAIN lines = 1..N
  OBVIOUS
<1>2. PICK f : /\ Merges(f, lines, N)
               /\ body = IF f[N].model = None /\ f[N].usage = None THEN NoBody ELSE f[N]
  BY <1>1, Parsed
<1> HIDE DEF body
<1>3. /\ BodyShape(f[N]) /\ ModelSaid(f[N], lines, N) /\ StopSaid(f[N], lines, N)
      /\ UsageSaid(f[N], lines, N)
      /\ \A n \in 1..N : f[n].text = IF n = 1 THEN TextOf(lines[n]) ELSE f[n - 1].text \o TextOf(lines[n])
  BY <1>1, <1>2, MergeAll
<1> HIDE DEF N
<1>4. /\ \A i \in 1..N : i \in Naming <=> Names(lines[i])
      /\ \A i \in 1..N : i \in Stopping <=> Stops(lines[i])
      /\ \A i \in 1..N : i \in Using <=> Uses(lines[i])
      /\ \A k : \A i \in 1..N : i \in Reporting(k) <=> Reports(lines[i], k)
  BY <1>1 DEF Names, Stops, Uses, Reports
<1>5. /\ Naming \subseteq 1..N /\ Stopping \subseteq 1..N /\ Using \subseteq 1..N
      /\ \A k : Reporting(k) \subseteq 1..N
  BY <1>1
<1>6. ASSUME NEW k PROVE k \in Reported <=> \E i \in 1..N : Reports(lines[i], k)
  <2>1. k \in Reported <=> \E i \in Using : k \in DOMAIN UsageOf(lines[i])
    <3> HIDE DEF Using
    <3> QED BY Zenon
  <2>2. \A i \in Using : i \in 1..N /\ Uses(lines[i])
    BY <1>4, <1>5
  <2>3. \A i \in 1..N : Uses(lines[i]) => i \in Using
    BY <1>4
  <2> HIDE DEF Using, Reported
  <2> QED BY <2>1, <2>2, <2>3 DEF Reports
<1> HIDE DEF Naming, Stopping, Using, Reporting, Reported
<1>7. f[N].model = IF Naming = {} THEN None ELSE ModelOf(Latest(Naming))
  <2>1. CASE Naming = {}
    BY <1>3, <1>4, <2>1 DEF ModelSaid
  <2>2. CASE Naming # {}
    <3> DEFINE i == CHOOSE i \in Naming : \A j \in Naming : j <= i
    <3>1. i \in Naming /\ \A j \in Naming : j <= i
      BY <1>1, <1>5, <2>2, LatestOf
    <3> HIDE DEF i
    <3>2. f[N].model = ModelOf(lines[i])
      BY <1>3, <1>4, <1>5, <3>1 DEF ModelSaid
    <3> QED BY <2>2, <3>2 DEF i
  <2> QED BY <2>1, <2>2
<1>8. f[N].stop = IF Stopping = {} THEN None ELSE Latest(Stopping).stop
  <2>1. CASE Stopping = {}
    BY <1>3, <1>4, <2>1 DEF StopSaid
  <2>2. CASE Stopping # {}
    <3> DEFINE i == CHOOSE i \in Stopping : \A j \in Stopping : j <= i
    <3>1. i \in Stopping /\ \A j \in Stopping : j <= i
      BY <1>1, <1>5, <2>2, LatestOf
    <3> HIDE DEF i
    <3>2. f[N].stop = lines[i].stop
      BY <1>3, <1>4, <1>5, <3>1 DEF StopSaid
    <3> QED BY <2>2, <3>2 DEF i
  <2> QED BY <2>1, <2>2
<1>9. f[N].usage = None <=> Using = {}
  BY <1>3, <1>4, <1>5 DEF UsageSaid
<1>10. ASSUME Using # {}
       PROVE  /\ f[N].usage = [k \in Reported |-> Final(k)]
              /\ \A k \in Reported : f[N].usage[k] = Final(k) /\ Final(k) \in Nat
  <2> DEFINE u == f[N].usage
  <2>1. IsUsage(u) /\ u # None
    BY <1>3, <1>9, <1>10 DEF UsageSaid
  <2>2. DOMAIN u = Reported
    BY <1>3, <1>6, <2>1 DEF UsageSaid
  <2>3. ASSUME NEW k \in Reported PROVE u[k] = Final(k)
    <3> DEFINE i == CHOOSE i \in Reporting(k) : \A j \in Reporting(k) : j <= i
    <3>1. Reporting(k) # {}
      BY <1>4, <1>6
    <3>2. i \in Reporting(k) /\ \A j \in Reporting(k) : j <= i
      BY <1>1, <1>5, <3>1, LatestOf
    <3> HIDE DEF i
    <3>3. u[k] = UsageOf(lines[i])[k]
      BY <1>3, <1>4, <1>5, <3>2 DEF UsageSaid
    <3> QED BY <3>3 DEF i
  <2>4. u = [k \in DOMAIN u |-> u[k]] /\ \A k \in DOMAIN u : u[k] \in Nat
    BY <2>1, IsFunction
  <2> HIDE DEF u, Final
  <2>5. u = [k \in Reported |-> Final(k)]
    BY <2>2, <2>3, <2>4
  <2> QED BY <2>2, <2>3, <2>4, <2>5 DEF u
<1>11. Using = {} => Reported = {}
  BY <1>4, <1>6 DEF Reports
<1>12. CASE Naming \cup Using = {}
  <2>1. body = NoBody
    BY <1>2, <1>7, <1>9, <1>12
  <2> QED BY <1>12, <2>1 DEF AmountsTo, body, Naming, Using
<1>13. CASE Naming \cup Using # {}
  <2>1. body = f[N]
    <3>1. Naming # {} => f[N].model # None
      <4> SUFFICES ASSUME Naming # {} PROVE f[N].model # None
        OBVIOUS
      <4> DEFINE i == CHOOSE i \in Naming : \A j \in Naming : j <= i
      <4>1. i \in Naming
        BY <1>1, <1>5, LatestOf
      <4>2. f[N].model = ModelOf(lines[i])
        BY <1>7
      <4> HIDE DEF i
      <4> QED BY <1>4, <1>5, <4>1, <4>2 DEF Names
    <3> QED BY <1>2, <1>9, <1>13, <3>1
  <2>2. f[N].text = FlattenSeq([i \in DOMAIN lines |-> IF i \in events THEN lines[i].text ELSE <<>>])
    <3> DEFINE texts == [i \in DOMAIN lines |-> IF i \in events THEN lines[i].text ELSE <<>>]
               joined == [i \in 1..N |-> f[i].text]
    <3>1. DOMAIN texts = 1..N /\ \A i \in 1..N : texts[i] = TextOf(lines[i])
      BY <1>1 DEF TextOf
    <3>2. Len(texts) = N
      BY <1>1, <3>1
    <3>3. N # 0
      <4>1. PICK i \in Naming \cup Using : TRUE
        BY <1>13
      <4>2. i \in 1..N
        BY <1>5, <4>1
      <4> QED BY <1>1, <4>2
    <3> HIDE DEF texts
    <3>4. \A i \in 1..N : joined[i] = IF i = 1 THEN texts[i] ELSE joined[i - 1] \o texts[i]
      <4> TAKE i \in 1..N
      <4>1. joined[i] = f[i].text /\ (i # 1 => joined[i - 1] = f[i - 1].text)
        BY <1>1
      <4> HIDE DEF joined
      <4> QED BY <1>3, <3>1, <4>1
    <3>5. joined = [i \in 1..N |-> joined[i]]
      OBVIOUS
    <3>6. joined[N] = f[N].text
      BY <1>1, <3>3
    <3> HIDE DEF joined
    <3>7. Joins(joined, texts)
      BY <3>2, <3>4, <3>5 DEF Joins
    <3>8. FlattenSeq(texts) = joined[N]
      BY <1>1, <3>2, <3>3, <3>7, Flattens
    <3> QED BY <3>6, <3>8 DEF texts
  <2>3. (extractTokenCounts(f[N]) # None) <=>
          \/ Known(OpenAITokens)
          \/ "prompt_tokens" \notin Reported /\ Known(AnthropicTokens)
    <3> DEFINE u == f[N].usage
    <3>1. f[N].usageMetadata = None
      BY <1>3 DEF BodyShape
    <3>2. CASE Using = {}
      <4>1. extractTokenCounts(f[N]) = None
        BY <1>9, <3>1, <3>2 DEF extractTokenCounts
      <4>2. Reported = {}
        BY <1>11, <3>2
      <4> QED BY <4>1, <4>2
    <3>3. CASE Using # {}
      <4>1. u # None /\ DOMAIN u = Reported /\ \A k \in Reported : u[k] = Final(k) /\ u[k] \in Nat
        BY <1>9, <1>10, <3>3
      <4> HIDE DEF u, Final
      <4>2. ASSUME NEW keys PROVE Counts(u, keys) # None <=> Known(keys)
        <5>1. CASE Known(keys)
          <6>1. \A i \in 1..2 : keys[i] \in DOMAIN u /\ u[keys[i]] > 0 /\ u[keys[i]] \in Nat
            BY <4>1, <5>1
          <6>2. u[keys[1]] \in Nat /\ u[keys[2]] \in Nat
            BY <6>1
          <6>3. Counts(u, keys) = <<u[keys[1]], u[keys[2]]>>
            BY <6>1 DEF Counts
          <6>4. <<u[keys[1]], u[keys[2]]>> \in Nat \X Nat
            BY <6>2
          <6> QED BY <5>1, <6>3, <6>4, AbsentAssumption
        <5>2. CASE ~Known(keys)
          <6>1. ~\A i \in 1..2 : keys[i] \in DOMAIN u /\ u[keys[i]] > 0
            BY <4>1, <5>2
          <6> QED BY <5>2, <6>1 DEF Counts
        <5> QED BY <5>1, <5>2
      <4>3. /\ Known(OpenAITokens) => "prompt_tokens" \in Reported
            /\ Known(AnthropicTokens) => "input_tokens" \in Reported
        BY DEF OpenAITokens, AnthropicTokens
      <4>4. extractTokenCounts(f[N]) =
              CASE "prompt_tokens" \in Reported -> Counts(u, OpenAITokens)
                [] "prompt_tokens" \notin Reported /\ "input_tokens" \in Reported -> Counts(u, AnthropicTokens)
                [] OTHER -> None
        BY <3>1, <4>1 DEF extractTokenCounts, u
      <4> HIDE DEF Known
      <4>5. CASE "prompt_tokens" \in Reported
        BY <4>2, <4>3, <4>4, <4>5
      <4>6. CASE "prompt_tokens" \notin Reported /\ "input_tokens" \in Reported
        BY <4>2, <4>3, <4>4, <4>6
      <4>7. CASE "prompt_tokens" \notin Reported /\ "input_tokens" \notin Reported
        BY <4>3, <4>4, <4>7
      <4> QED BY <4>5, <4>6, <4>7
    <3> QED BY <3>2, <3>3
  <2>4. f[N].usage = IF Using = {} THEN None ELSE [k \in Reported |-> Final(k)]
    BY <1>9, <1>10
  <2> QED BY <1>7, <1>8, <1>13, <2>1, <2>2, <2>3, <2>4
          DEF AmountsTo, body, Naming, Using, Stopping, Reporting, Reported
<1> QED BY <1>12, <1>13

(* The ResponseEvent of a response that was streamed says what the lines   *)
(* that Envoy sent amount to, however they were cut into chunks and        *)
(* whatever was delivered again: Process accumulates every byte once, and  *)
(* parseSSEResponseBody merges what the events spread.                     *)
THEOREM EventReports == Spec => []EventReportsResponse
<1>1. DataType /\ EnvoyType /\ BodyInv => EventReportsResponse
  <2> SUFFICES ASSUME DataType, EnvoyType, BodyInv, NEW lines \in Streams,
                      envoy.sent["resp"] <= Len(lines)
               PROVE  AmountsTo(SubSeq(lines, 1, envoy.sent["resp"]), ResponseEventBody(lines))
    BY DEF EventReportsResponse
  <2> DEFINE n == envoy.sent["resp"]
             sub == SubSeq(lines, 1, n)
             read == [i \in DOMAIN responseBody |-> lines[responseBody[i]]]
  <2>1. lines \in Seq(ToSet(lines)) /\ \A i \in DOMAIN lines : IsLine(lines[i])
    BY ConfigAssumption
  <2>2. n \in Nat
    BY DEF EnvoyType, Directions
  <2>3. sub \in Seq(ToSet(lines)) /\ Len(sub) = n /\ \A i \in 1..n : sub[i] = lines[i]
    <3> HIDE DEF n
    <3> QED BY <2>1, <2>2, SubSeqProperties DEF n
  <2>4. DOMAIN responseBody = 1..n /\ \A i \in 1..n : responseBody[i] = i
    BY <2>2 DEF DataType, BodyInv, Buffered
  <2>5. DOMAIN sub = 1..n /\ sub = [i \in 1..n |-> sub[i]]
    <3> HIDE DEF n, sub
    <3> QED BY <2>2, <2>3
  <2>6. read = sub
    <3> HIDE DEF n, sub
    <3> QED BY <2>3, <2>4, <2>5
  <2>7. \A i \in DOMAIN sub : IsLine(sub[i])
    <3>1. \A i \in 1..n : i \in DOMAIN lines
      BY <2>1, <2>2, LenProperties
    <3> HIDE DEF n, sub
    <3> QED BY <2>1, <2>3, <2>5, <3>1
  <2>8. ResponseEventBody(lines) = parseSSEResponseBody(read)
    BY DEF ResponseEventBody, EventBody
  <2> HIDE DEF sub, read, n
  <2>9. AmountsTo(sub, parseSSEResponseBody(sub))
    BY <2>3, <2>7, ParseAmounts
  <2> QED BY <2>6, <2>8, <2>9 DEF sub, n
<1>2. IInv => DataType /\ EnvoyType
  BY DEF IInv
<1> QED BY <1>1, <1>2, Invariance, BodyInvariance, PTL

-----------------------------------------------------------------------------
(***************************************************************************)
(* ConfigLoader: LoadConfiguration, for any configurations and any         *)
(* registry of plugin types, and the server that it hands to the streams.  *)
(***************************************************************************)
(* The elements at some places of a list are a list.                       *)
LEMMA AtIsList ==
  ASSUME NEW s, IsList(s), NEW I \in SUBSET DOMAIN s
  PROVE  IsList(At(s, I))
<1>1. DOMAIN s = 1..Len(s) /\ Len(s) \in Nat
  BY DEF IsList
<1>2. IsFiniteSet(1..Len(s))
  BY <1>1, FS_Interval
<1>3. Cardinality(I) \in Nat
  BY <1>1, <1>2, FS_Subset, FS_CardinalityType
<1> DEFINE n == Cardinality(I)
           a == [k \in 1..n |-> s[Nth(I, k)]]
<1>4. At(s, I) = a
  BY DEF At
<1> HIDE DEF n
<1>5. a \in [1..n -> {a[k] : k \in DOMAIN a}]
  OBVIOUS
<1>6. n \in Nat
  BY <1>3 DEF n
<1> HIDE DEF a
<1>7. a \in Seq({a[k] : k \in DOMAIN a})
  BY <1>5, <1>6
<1> QED BY <1>4, <1>7 DEF IsList, ToSet

LEMMA ListDomain ==
  ASSUME NEW s, IsList(s)
  PROVE  DOMAIN s = 1..Len(s) /\ Len(s) \in Nat
BY DEF IsList

LEMMA ThoseAreLists ==
  ASSUME NEW s, IsList(s), NEW x
  PROVE  /\ IsList(Those(s, x)) /\ IsList(Rest(s, x))
         /\ PluginRefs(Those(s, x)) \in Seq({r.pluginRef : r \in ToSet(Those(s, x))})
<1>1. Places(s, x) \in SUBSET DOMAIN s
  BY DEF Places
<1>2. IsList(Those(s, x)) /\ IsList(Rest(s, x))
  BY <1>1, AtIsList DEF Those, Rest
<1> DEFINE t == Those(s, x)
<1> HIDE DEF t
<1>3. DOMAIN t = 1..Len(t) /\ Len(t) \in Nat
  BY <1>2, ListDomain DEF t
<1>4. PluginRefs(t) \in Seq({r.pluginRef : r \in ToSet(t)})
  BY <1>3 DEF PluginRefs, ToSet
<1> QED BY <1>2, <1>4 DEF t

-----------------------------------------------------------------------------
(* How far the load is; a failed one has nothing to show.                  *)
Done(p) == CASE p = "applyPluginDefaults" -> 1 [] p = "profilePicker" -> 2 [] p = "buildProfiles" -> 3
             [] p = "buildPreProcessors" -> 4 [] p = "buildPostProcessors" -> 5
             [] p = "buildDatalayerSources" -> 6 [] p = "buildModelSelector" -> 7 [] p = "loaded" -> 8
             [] OTHER -> 0
NotYet(k) == phase # "failed" /\ Done(phase) < k

HandleInv ==
    /\ phase \in Phases
    /\ \A n \in DOMAIN handle : handle[n] \in Registry
    /\ Nil \notin DOMAIN handle
    /\ {"profilePicker", "profiles", "datalayer"} \subseteq DOMAIN raw
    /\ IsList(raw.datalayer) /\ IsList(raw.profiles)
    /\ \A i \in DOMAIN raw.profiles :
        IsList(raw.profiles[i].request) /\ IsList(raw.profiles[i].response)
PickerInv ==
    /\ profilePicker = Nil \/ Is(profilePicker, "ProfilePicker")
    /\ Done(phase) >= 2 => raw.profilePicker # Nil
    /\ Done(phase) >= 3 /\ profilePicker = Nil => ~Is(raw.profilePicker, "ProfilePicker")
    /\ NotYet(3) => profilePicker = Nil
Fields == {"request", "selector", "response", "chunk", "buffering"}
ProfilesInv ==
    Done(phase) >= 4 =>
        /\ \A i \in DOMAIN raw.profiles :
            /\ \A k \in DOMAIN raw.profiles[i].request :
                IsAny(raw.profiles[i].request[k].pluginRef,
                             SelectorRoles \cup {"RequestProcessor"})
            /\ \A k \in DOMAIN raw.profiles[i].response :
                IsAny(raw.profiles[i].response[k].pluginRef,
                             {"ResponseProcessor", "ResponseChunkProcessor"})
        /\ DOMAIN profiles # {} /\ Nil \notin DOMAIN profiles
        /\ \A n \in DOMAIN profiles :
            /\ DOMAIN profiles[n] = Fields
            /\ IsList(profiles[n].request) /\ IsList(profiles[n].selector)
SoundInv ==
    /\ NotYet(6) => postProcessors = <<>>
    /\ Done(phase) >= 4 => \A n \in DOMAIN profiles :
        /\ profiles[n].buffering = (profiles[n].response # <<>> \/ postProcessors # <<>>)
        /\ profiles[n].buffering => profiles[n].chunk = <<>>
SectionsInv ==
    /\ Done(phase) >= 5 => \A i \in DOMAIN raw.preProcessing :
            Is(raw.preProcessing[i].pluginRef, "RequestProcessor")
    /\ Done(phase) >= 6 => \A i \in DOMAIN raw.postProcessing :
            IsAny(raw.postProcessing[i].pluginRef, {"ResponseProcessor", "ResponseHeadersProcessor"})
    /\ Done(phase) >= 7 => registered = {raw.datalayer[i] : i \in DOMAIN raw.datalayer}
    /\ NotYet(7) => registered = {}
    /\ \A r \in registered : Is(r.pluginRef, r.section)
(* A place of a model selector has been passed.                            *)
Passed(n, i) == n \notin unwired /\ (current = n => i < next)
SelectorInv ==
    \A ms \in DOMAIN pipelines, n \in DOMAIN profiles :
        UsersOf(ms) = {n} /\ UsedOnce(ms, n) =>
            \A i \in DOMAIN profiles[n].request :
                profiles[n].request[i].pluginRef = ms =>
                    pipelines[ms] = IF Passed(n, i) THEN Pipeline(n) ELSE NewPipeline
WiringInv ==
    /\ unwired \subseteq DOMAIN profiles /\ current \in DOMAIN profiles \cup {Nil} /\ next \in Nat \ {0}
    /\ \A ms \in DOMAIN pipelines : Is(ms, "ModelSelector")
    /\ NotYet(7) => unwired = {} /\ current = Nil /\ DOMAIN pipelines = {}
    /\ phase = "loaded" => unwired = {} /\ current = Nil
    /\ Done(phase) >= 7 =>
        /\ DOMAIN pipelines = {x \in DOMAIN handle : Is(x, "ModelSelector")}
        /\ current \notin unwired /\ SelectorInv
LoaderInv == HandleInv /\ PickerInv /\ ProfilesInv /\ SoundInv /\ SectionsInv /\ WiringInv

LEMMA LoaderInit ==
  ASSUME LInit
  PROVE  LoaderInv
<1> USE LoaderAssumption DEF LInit, Done, NotYet
<1>1. HandleInv
  BY DEF HandleInv, Nothing, Phases
<1>2. PickerInv /\ ProfilesInv /\ SoundInv /\ SectionsInv
  BY DEF PickerInv, ProfilesInv, SoundInv, SectionsInv
<1>3. WiringInv
  BY DEF WiringInv, Nothing
<1> QED BY <1>1, <1>2, <1>3 DEF LoaderInv

LEMMA Instantiates ==
  ASSUME LoaderInv, instantiatePlugins
  PROVE  LoaderInv'
<1> USE DEF Done, NotYet
<1>1. /\ phase = "instantiatePlugins"
      /\ UNCHANGED <<raw, profilePicker, profiles, postProcessors, registered, unwired, current, next, pipelines>>
  BY DEF instantiatePlugins, wiringVars
<1> DEFINE specs == raw.plugins
<1>2. \/ phase' = "failed" /\ handle' = handle
      \/ /\ phase' = "applyPluginDefaults"
         /\ \A i \in DOMAIN specs : specs[i].type \in Registry
         /\ handle' = [n \in {NameOf(specs[i]) : i \in DOMAIN specs} |->
                         (CHOOSE s \in ToSet(specs) : NameOf(s) = n).type]
  BY DEF instantiatePlugins, Fail
<1>3. CASE phase' = "failed" /\ handle' = handle
  BY <1>1, <1>3 DEF LoaderInv, HandleInv, PickerInv, ProfilesInv, SoundInv, SectionsInv, WiringInv,
                    Is, Phases
<1>4. CASE /\ phase' = "applyPluginDefaults"
           /\ \A i \in DOMAIN specs : specs[i].type \in Registry
           /\ handle' = [n \in {NameOf(specs[i]) : i \in DOMAIN specs} |->
                           (CHOOSE s \in ToSet(specs) : NameOf(s) = n).type]
  <2>1. ASSUME NEW n \in DOMAIN handle' PROVE handle'[n] \in Registry /\ n # Nil
    <3> DEFINE s == CHOOSE x \in ToSet(specs) : NameOf(x) = n
    <3>1. s \in ToSet(specs) /\ NameOf(s) = n
      BY <1>4, <2>1 DEF ToSet
    <3>2. s.type \in Registry
      BY <3>1, <1>4 DEF ToSet
    <3>3. handle'[n] = s.type
      BY <1>4, <2>1
    <3> HIDE DEF s
    <3>4. n # Nil
      BY <3>1, <3>2, LoaderAssumption DEF NameOf
    <3> QED BY <3>2, <3>3, <3>4
  <2>2. HandleInv'
    BY <1>1, <1>4, <2>1 DEF LoaderInv, HandleInv, Phases
  <2>3. PickerInv' /\ ProfilesInv' /\ SoundInv' /\ SectionsInv'
    BY <1>1, <1>4 DEF LoaderInv, PickerInv, ProfilesInv, SoundInv, SectionsInv
  <2>4. WiringInv'
    BY <1>1, <1>4 DEF LoaderInv, WiringInv
  <2> QED BY <2>2, <2>3, <2>4 DEF LoaderInv
<1> QED BY <1>2, <1>3, <1>4

(* A load that fails keeps what it has built.                              *)
LEMMA Fails ==
  ASSUME LoaderInv, phase' = "failed",
         UNCHANGED <<raw, handle, profilePicker, profiles, postProcessors, registered,
                     unwired, current, pipelines>>,
         next' \in Nat \ {0}
  PROVE  LoaderInv'
BY DEF LoaderInv, HandleInv, PickerInv, ProfilesInv, SoundInv, SectionsInv, WiringInv,
       Done, NotYet, Is, Phases

LEMMA AppliesDefaults ==
  ASSUME LoaderInv, applyPluginDefaults
  PROVE  LoaderInv'
<1> USE DEF Done, NotYet
<1>1. /\ phase = "applyPluginDefaults"
      /\ UNCHANGED <<profilePicker, profiles, postProcessors, registered, unwired, current, next, pipelines>>
  BY DEF applyPluginDefaults, wiringVars
<1>2. \/ phase' = "profilePicker" /\ raw.profilePicker # Nil /\ UNCHANGED <<raw, handle>>
      \/ /\ phase' = "profilePicker" /\ UNCHANGED handle
         /\ \E p \in DOMAIN handle : raw' = [raw EXCEPT !.profilePicker = p]
      \/ /\ phase' = "profilePicker" /\ raw' = [raw EXCEPT !.profilePicker = SinglePicker]
         /\ handle' = [n \in DOMAIN handle \cup {SinglePicker} |->
                         IF n = SinglePicker THEN SinglePicker ELSE handle[n]]
      \/ phase' = "failed" /\ UNCHANGED <<raw, handle>>
  BY DEF applyPluginDefaults, Fail
<1>3. HandleInv /\ next \in Nat \ {0}
  BY DEF LoaderInv, WiringInv
<1>4. CASE phase' = "failed" /\ UNCHANGED <<raw, handle>>
  BY <1>1, <1>3, <1>4, Fails
<1>5. CASE phase' = "profilePicker"
  <2>1. /\ {"profilePicker", "profiles", "datalayer"} \subseteq DOMAIN raw'
        /\ raw'.profilePicker # Nil /\ raw'.profiles = raw.profiles /\ raw'.datalayer = raw.datalayer
    BY <1>2, <1>3, <1>5, LoaderAssumption DEF HandleInv
  <2>2. Nil \notin DOMAIN handle' /\ \A n \in DOMAIN handle' : handle'[n] \in Registry
    BY <1>2, <1>3, <1>5, LoaderAssumption DEF HandleInv
  <2>3. HandleInv'
    BY <1>3, <1>5, <2>1, <2>2 DEF HandleInv, Phases
  <2>4. PickerInv'
    BY <1>1, <1>5, <2>1 DEF LoaderInv, PickerInv
  <2>5. ProfilesInv' /\ SoundInv' /\ SectionsInv'
    BY <1>1, <1>5 DEF LoaderInv, ProfilesInv, SoundInv, SectionsInv
  <2>6. WiringInv'
    BY <1>1, <1>5 DEF LoaderInv, WiringInv
  <2> QED BY <2>3, <2>4, <2>5, <2>6 DEF LoaderInv
<1> QED BY <1>2, <1>4, <1>5

LEMMA ResolvesPicker ==
  ASSUME LoaderInv, resolveProfilePicker
  PROVE  LoaderInv'
<1> USE DEF Done, NotYet
<1>1. /\ phase = "profilePicker" /\ phase' = "buildProfiles"
      /\ profilePicker' = IF Is(raw.profilePicker, "ProfilePicker") THEN raw.profilePicker ELSE Nil
      /\ UNCHANGED <<raw, handle, profiles, postProcessors, registered, unwired, current, next, pipelines>>
  BY DEF resolveProfilePicker, wiringVars
<1>2. HandleInv'
  BY <1>1 DEF LoaderInv, HandleInv, Phases
<1>3. PickerInv'
  BY <1>1 DEF LoaderInv, PickerInv, Is
<1>4. ProfilesInv' /\ SoundInv' /\ SectionsInv' /\ WiringInv'
  BY <1>1 DEF LoaderInv, ProfilesInv, SoundInv, SectionsInv, WiringInv
<1> QED BY <1>2, <1>3, <1>4 DEF LoaderInv

(* Some profile is the last one of its name.                               *)
LEMMA LastOfName ==
  ASSUME NEW ps, IsList(ps), NEW k \in DOMAIN ps
  PROVE  \E i \in DOMAIN ps :
            ps[i].name = ps[k].name /\ \A j \in DOMAIN ps : ps[j].name = ps[k].name => j <= i
<1>1. DOMAIN ps = 1..Len(ps) /\ Len(ps) \in Nat
  BY ListDomain
<1> DEFINE S == {i \in DOMAIN ps : ps[i].name = ps[k].name}
<1>2. S \subseteq 1..Len(ps) /\ S # {}
  BY <1>1
<1>3. PICK i \in S : \A j \in S : j <= i
  <2> HIDE DEF S
  <2> QED BY <1>1, <1>2, NatMax
<1> QED BY <1>3

LEMMA BuildsProfiles ==
  ASSUME LoaderInv, buildProfiles
  PROVE  LoaderInv'
<1> USE DEF Done, NotYet
<1> DEFINE ps == raw.profiles
           LastOf(n) == CHOOSE i \in DOMAIN ps :
                          ps[i].name = n /\ \A j \in DOMAIN ps : ps[j].name = n => j <= i
<1>1. /\ phase = "buildProfiles"
      /\ UNCHANGED <<raw, handle, profilePicker, postProcessors, registered, unwired, current, next, pipelines>>
  BY DEF buildProfiles, wiringVars
<1>2. \/ phase' = "failed" /\ UNCHANGED profiles
      \/ /\ phase' = "buildPreProcessors" /\ ps # <<>> /\ \A p \in ToSet(ps) : ProfileOK(p)
         /\ profiles' = [n \in {p.name : p \in ToSet(ps)} |-> BuildProfile(ps[LastOf(n)])]
  BY DEF buildProfiles, Fail
<1>3. HandleInv /\ next \in Nat \ {0}
  BY DEF LoaderInv, WiringInv
<1>4. CASE phase' = "failed" /\ UNCHANGED profiles
  BY <1>1, <1>3, <1>4, Fails
<1>5. CASE /\ phase' = "buildPreProcessors" /\ ps # <<>> /\ \A p \in ToSet(ps) : ProfileOK(p)
           /\ profiles' = [n \in {p.name : p \in ToSet(ps)} |-> BuildProfile(ps[LastOf(n)])]
  <2>1. IsList(ps) /\ \A i \in DOMAIN ps : IsList(ps[i].request) /\ IsList(ps[i].response)
    BY <1>3 DEF HandleInv
  <2>2. \A i \in DOMAIN ps : ps[i] \in ToSet(ps) /\ ProfileOK(ps[i])
    BY <1>5 DEF ToSet
  <2>3. DOMAIN profiles' = {ps[i].name : i \in DOMAIN ps}
    BY <1>5 DEF ToSet
  <2>4. ASSUME NEW n \in DOMAIN profiles'
        PROVE  \E i \in DOMAIN ps : profiles'[n] = BuildProfile(ps[i]) /\ n # Nil
    <3>1. PICK k \in DOMAIN ps : ps[k].name = n
      BY <2>3
    <3>2. \E i \in DOMAIN ps : ps[i].name = n /\ \A j \in DOMAIN ps : ps[j].name = n => j <= i
      BY <2>1, <3>1, LastOfName
    <3>3. LastOf(n) \in DOMAIN ps
      BY <3>2
    <3>4. profiles'[n] = BuildProfile(ps[LastOf(n)])
      BY <1>5
    <3>5. n # Nil
      BY <2>2, <3>1 DEF ProfileOK
    <3> QED BY <3>3, <3>4, <3>5
  <2>5. DOMAIN profiles' # {} /\ Nil \notin DOMAIN profiles'
    <3>1. DOMAIN ps # {}
      BY <1>5, <2>1 DEF IsList
    <3> QED BY <2>3, <2>4, <3>1
  <2>6. ASSUME NEW i \in DOMAIN ps, NEW b, b = BuildProfile(ps[i])
        PROVE  /\ DOMAIN b = Fields /\ IsList(b.request) /\ IsList(b.selector)
               /\ b.buffering = (b.response # <<>>) /\ (b.buffering => b.chunk = <<>>)
    <3>1. DOMAIN b = Fields
      BY <2>6 DEF BuildProfile, Fields
    <3>2. /\ b.request = Those(ps[i].request, "RequestProcessor")
          /\ b.selector = Rest(ps[i].request, "RequestProcessor")
          /\ b.response = Those(ps[i].response, "ResponseProcessor")
          /\ b.chunk = Rest(ps[i].response, "ResponseProcessor")
          /\ b.buffering = (b.response # <<>>)
      BY <2>6 DEF BuildProfile
    <3>3. b.response = <<>> \/ b.chunk = <<>>
      BY <2>2, <3>2 DEF ProfileOK
    <3>4. IsList(b.request) /\ IsList(b.selector)
      BY <2>1, <3>2, ThoseAreLists
    <3> QED BY <3>1, <3>2, <3>3, <3>4
  <2>7. \A n \in DOMAIN profiles' :
          /\ DOMAIN profiles'[n] = Fields
          /\ IsList(profiles'[n].request) /\ IsList(profiles'[n].selector)
          /\ profiles'[n].buffering = (profiles'[n].response # <<>>)
          /\ profiles'[n].buffering => profiles'[n].chunk = <<>>
    <3> SUFFICES ASSUME NEW n \in DOMAIN profiles'
                 PROVE  /\ DOMAIN profiles'[n] = Fields
                        /\ IsList(profiles'[n].request) /\ IsList(profiles'[n].selector)
                        /\ profiles'[n].buffering = (profiles'[n].response # <<>>)
                        /\ profiles'[n].buffering => profiles'[n].chunk = <<>>
      OBVIOUS
    <3>1. PICK i \in DOMAIN ps : profiles'[n] = BuildProfile(ps[i])
      BY <2>4
    <3> QED BY <2>6, <3>1
  <2>8. ASSUME NEW i \in DOMAIN ps
        PROVE  /\ \A k \in DOMAIN ps[i].request :
                    IsAny(ps[i].request[k].pluginRef, SelectorRoles \cup {"RequestProcessor"})
               /\ \A k \in DOMAIN ps[i].response :
                    IsAny(ps[i].response[k].pluginRef, {"ResponseProcessor", "ResponseChunkProcessor"})
    BY <2>2 DEF ProfileOK, ToSet, IsAny
  <2>9. HandleInv' /\ PickerInv' /\ SectionsInv' /\ WiringInv'
    BY <1>1, <1>5 DEF LoaderInv, HandleInv, PickerInv, SectionsInv, WiringInv, Phases, Is
  <2>10. ProfilesInv'
    <3>1. \A n, x : Is(n, x)' <=> Is(n, x)
      BY <1>1 DEF Is
    <3>2. \A i \in DOMAIN ps :
            /\ \A k \in DOMAIN ps[i].request :
                 IsAny(ps[i].request[k].pluginRef, SelectorRoles \cup {"RequestProcessor"})'
            /\ \A k \in DOMAIN ps[i].response :
                 IsAny(ps[i].response[k].pluginRef, {"ResponseProcessor", "ResponseChunkProcessor"})'
      BY <1>1, <2>8 DEF IsAny, Is
    <3> QED BY <1>1, <2>5, <2>7, <3>2 DEF ProfilesInv
  <2>11. SoundInv'
    <3>1. postProcessors' = <<>>
      BY <1>1 DEF LoaderInv, SoundInv
    <3>2. \A n \in DOMAIN profiles' :
            profiles'[n].buffering = (profiles'[n].response # <<>> \/ postProcessors' # <<>>)
      <4> SUFFICES ASSUME NEW n \in DOMAIN profiles'
                   PROVE  profiles'[n].buffering = (profiles'[n].response # <<>> \/ postProcessors' # <<>>)
        OBVIOUS
      <4>1. profiles'[n].buffering = (profiles'[n].response # <<>>)
        BY <2>7
      <4>2. (profiles'[n].response # <<>>) = (profiles'[n].response # <<>> \/ postProcessors' # <<>>)
        BY <3>1
      <4> QED BY <4>1, <4>2, Zenon
    <3> QED BY <3>1, <3>2, <2>7, Zenon DEF SoundInv
  <2> QED BY <2>9, <2>10, <2>11 DEF LoaderInv
<1> QED BY <1>2, <1>4, <1>5

LEMMA BuildsPreProcessors ==
  ASSUME LoaderInv, buildPreProcessors
  PROVE  LoaderInv'
<1> USE DEF Done, NotYet
<1>1. /\ phase = "buildPreProcessors"
      /\ UNCHANGED <<raw, handle, profilePicker, profiles, postProcessors, registered, unwired, current, next, pipelines>>
  BY DEF buildPreProcessors, wiringVars
<1>2. \/ phase' = "failed"
      \/ /\ phase' = "buildPostProcessors"
         /\ \A r \in ToSet(raw.preProcessing) : Is(r.pluginRef, "RequestProcessor")
  BY DEF buildPreProcessors
<1>3. CASE phase' = "failed"
  <2>1. next' \in Nat \ {0}
    BY <1>1 DEF LoaderInv, WiringInv
  <2> QED BY <1>1, <1>3, <2>1, Fails
<1>4. CASE /\ phase' = "buildPostProcessors"
           /\ \A r \in ToSet(raw.preProcessing) : Is(r.pluginRef, "RequestProcessor")
  <2>1. HandleInv' /\ PickerInv' /\ WiringInv'
    BY <1>1, <1>4 DEF LoaderInv, HandleInv, PickerInv, WiringInv, Phases, Is
  <2>2. ProfilesInv'
    BY <1>1, <1>4 DEF LoaderInv, ProfilesInv, IsAny, Is
  <2>3. SoundInv'
    BY <1>1, <1>4 DEF LoaderInv, SoundInv
  <2>4. SectionsInv'
    BY <1>1, <1>4 DEF LoaderInv, SectionsInv, Is, ToSet
  <2> QED BY <2>1, <2>2, <2>3, <2>4 DEF LoaderInv
<1> QED BY <1>2, <1>3, <1>4

LEMMA BuildsPostProcessors ==
  ASSUME LoaderInv, buildPostProcessors
  PROVE  LoaderInv'
<1> USE DEF Done, NotYet
<1> DEFINE body == Those(raw.postProcessing, "ResponseProcessor")
           fits == \A r \in ToSet(raw.postProcessing) :
                     IsAny(r.pluginRef, {"ResponseProcessor", "ResponseHeadersProcessor"})
<1>1. /\ phase = "buildPostProcessors"
      /\ UNCHANGED <<raw, handle, profilePicker, registered, unwired, current, next, pipelines>>
  BY DEF buildPostProcessors, wiringVars
<1>2. \/ phase' = "failed" /\ UNCHANGED <<postProcessors, profiles>>
      \/ /\ phase' = "buildDatalayerSources" /\ fits /\ postProcessors' = body
         /\ body = <<>> \/ \A n \in DOMAIN profiles : profiles[n].chunk = <<>>
         /\ profiles' = [n \in DOMAIN profiles |-> [profiles[n] EXCEPT !.buffering = @ \/ body # <<>>]]
  BY DEF buildPostProcessors, Fail
<1>3. CASE phase' = "failed" /\ UNCHANGED <<postProcessors, profiles>>
  <2>1. next' \in Nat \ {0}
    BY <1>1 DEF LoaderInv, WiringInv
  <2> QED BY <1>1, <1>3, <2>1, Fails
<1>4. CASE /\ phase' = "buildDatalayerSources" /\ fits /\ postProcessors' = body
           /\ body = <<>> \/ \A n \in DOMAIN profiles : profiles[n].chunk = <<>>
           /\ profiles' = [n \in DOMAIN profiles |-> [profiles[n] EXCEPT !.buffering = @ \/ body # <<>>]]
  <2>1. postProcessors = <<>>
    BY <1>1 DEF LoaderInv, SoundInv
  <2>2. ASSUME NEW n \in DOMAIN profiles
        PROVE  /\ profiles'[n] = [profiles[n] EXCEPT !.buffering = @ \/ body # <<>>]
               /\ DOMAIN profiles[n] = Fields
               /\ IsList(profiles[n].request) /\ IsList(profiles[n].selector)
               /\ profiles[n].buffering = (profiles[n].response # <<>>)
               /\ profiles[n].buffering => profiles[n].chunk = <<>>
    <3>1. profiles'[n] = [profiles[n] EXCEPT !.buffering = @ \/ body # <<>>]
      BY <1>4
    <3>2. /\ DOMAIN profiles[n] = Fields
          /\ IsList(profiles[n].request) /\ IsList(profiles[n].selector)
      BY <1>1 DEF LoaderInv, ProfilesInv
    <3>3. /\ profiles[n].buffering = (profiles[n].response # <<>> \/ postProcessors # <<>>)
          /\ profiles[n].buffering => profiles[n].chunk = <<>>
      BY <1>1 DEF LoaderInv, SoundInv
    <3>4. (profiles[n].response # <<>> \/ postProcessors # <<>>) = (profiles[n].response # <<>>)
      BY <2>1
    <3> QED BY <3>1, <3>2, <3>3, <3>4, Zenon
  <2>3. DOMAIN profiles' = DOMAIN profiles
    BY <1>4
  <2>4. ASSUME NEW n \in DOMAIN profiles
        PROVE  /\ DOMAIN profiles'[n] = Fields
               /\ profiles'[n].request = profiles[n].request /\ profiles'[n].selector = profiles[n].selector
               /\ profiles'[n].response = profiles[n].response /\ profiles'[n].chunk = profiles[n].chunk
               /\ profiles'[n].buffering = (profiles[n].buffering \/ body # <<>>)
    <3> HIDE DEF body
    <3> QED BY <2>2 DEF Fields
  <2>5. HandleInv' /\ PickerInv'
    BY <1>1, <1>4 DEF LoaderInv, HandleInv, PickerInv, Phases, Is
  <2>6. WiringInv'
    BY <1>1, <1>4, <2>3 DEF LoaderInv, WiringInv, Is
  <2>7. SectionsInv'
    BY <1>1, <1>4 DEF LoaderInv, SectionsInv, IsAny, Is, ToSet
  <2>8. ProfilesInv'
    <3>1. \A n \in DOMAIN profiles' :
            /\ DOMAIN profiles'[n] = Fields
            /\ IsList(profiles'[n].request) /\ IsList(profiles'[n].selector)
      BY <2>2, <2>3, <2>4
    <3> QED BY <1>1, <1>4, <2>3, <3>1 DEF LoaderInv, ProfilesInv, IsAny, Is
  <2>9. SoundInv'
    <3>1. ASSUME NEW n \in DOMAIN profiles'
          PROVE  /\ profiles'[n].buffering = (profiles'[n].response # <<>> \/ postProcessors' # <<>>)
                 /\ profiles'[n].buffering => profiles'[n].chunk = <<>>
      <4> HIDE DEF body
      <4>1. /\ profiles'[n].buffering = (profiles[n].buffering \/ body # <<>>)
            /\ profiles'[n].response = profiles[n].response /\ profiles'[n].chunk = profiles[n].chunk
            /\ profiles[n].buffering = (profiles[n].response # <<>>)
            /\ profiles[n].buffering => profiles[n].chunk = <<>>
            /\ postProcessors' = body /\ (body = <<>> \/ profiles[n].chunk = <<>>)
        BY <1>4, <2>2, <2>3, <2>4
      <4>2. profiles'[n].buffering = (profiles'[n].response # <<>> \/ postProcessors' # <<>>)
        BY <4>1, Zenon
      <4>3. profiles'[n].buffering => profiles'[n].chunk = <<>>
        BY <4>1
      <4> QED BY <4>2, <4>3
    <3>2. ~NotYet(6)'
      BY <1>4
    <3> QED BY <3>1, <3>2, Zenon DEF SoundInv
  <2> QED BY <2>5, <2>6, <2>7, <2>8, <2>9 DEF LoaderInv
<1> QED BY <1>2, <1>3, <1>4

LEMMA BuildsDatalayer ==
  ASSUME LoaderInv, buildDatalayerSources
  PROVE  LoaderInv'
<1> USE DEF Done, NotYet
<1> DEFINE refs == raw.datalayer
           bad == {i \in DOMAIN refs : ~Is(refs[i].pluginRef, refs[i].section)}
           good == {j \in DOMAIN refs : \A k \in bad : j < k}
<1>1. /\ phase = "buildDatalayerSources" /\ unwired' = DOMAIN profiles
      /\ registered' = {refs[i] : i \in good}
      /\ phase' = IF bad = {} THEN "buildModelSelector" ELSE "failed"
      /\ pipelines' = [n \in {x \in DOMAIN handle : Is(x, "ModelSelector")} |-> NewPipeline]
      /\ UNCHANGED <<raw, handle, profilePicker, profiles, postProcessors, current, next>>
  BY DEF buildDatalayerSources
<1>2. HandleInv /\ PickerInv /\ ProfilesInv /\ SoundInv /\ SectionsInv /\ WiringInv
  BY DEF LoaderInv
<1>3. DOMAIN refs \subseteq Nat
  BY <1>2, ListDomain DEF HandleInv
<1>4. \A i \in good : Is(refs[i].pluginRef, refs[i].section)
  BY <1>3
<1>5. bad = {} => registered' = {refs[i] : i \in DOMAIN refs}
  BY <1>1
<1>6. HandleInv' /\ PickerInv' /\ ProfilesInv'
  BY <1>1, <1>2 DEF HandleInv, PickerInv, ProfilesInv, Phases, IsAny, Is
<1>7. SoundInv'
  BY <1>1, <1>2 DEF SoundInv
<1>8. SectionsInv'
  <2>1. \A r \in registered' : Is(r.pluginRef, r.section)
    BY <1>1, <1>4
  <2>2. phase' = "buildModelSelector" => registered' = {raw'.datalayer[i] : i \in DOMAIN raw'.datalayer}
    BY <1>1, <1>5
  <2>3. ~NotYet(7)'
    BY <1>1
  <2>4. Done(phase') >= 5 => phase' = "buildModelSelector"
    BY <1>1
  <2> HIDE DEF bad, good
  <2> QED BY <1>1, <1>2, <2>1, <2>2, <2>3, <2>4 DEF SectionsInv, IsAny, Is
<1>9. WiringInv'
  <2>1. DOMAIN pipelines' = {x \in DOMAIN handle : Is(x, "ModelSelector")}
    BY <1>1
  <2>2. SelectorInv'
    BY <1>1 DEF SelectorInv, Passed
  <2>3. current' = Nil /\ Nil \notin DOMAIN profiles
    BY <1>1, <1>2 DEF WiringInv, ProfilesInv
  <2> HIDE DEF bad, good
  <2> QED BY <1>1, <1>2, <2>1, <2>2, <2>3 DEF WiringInv, Is
<1> QED BY <1>6, <1>7, <1>8, <1>9 DEF LoaderInv

-----------------------------------------------------------------------------
(* The model selectors are wired.  What a profile and its selectors are    *)
(* does not change any more.                                               *)
LEMMA WiringKeeps ==
  ASSUME LoaderInv, phase = "buildModelSelector", phase' \in {"buildModelSelector", "loaded"},
         UNCHANGED <<raw, handle, profilePicker, profiles, postProcessors, registered>>,
         DOMAIN pipelines' = DOMAIN pipelines,
         unwired' \subseteq DOMAIN profiles, current' \in DOMAIN profiles \cup {Nil},
         next' \in Nat \ {0}, current' \notin unwired', SelectorInv',
         phase' = "loaded" => unwired' = {} /\ current' = Nil
  PROVE  LoaderInv'
<1> USE DEF Done, NotYet
<1>1. HandleInv' /\ PickerInv'
  BY DEF LoaderInv, HandleInv, PickerInv, Phases, Is
<1>2. ProfilesInv'
  BY DEF LoaderInv, ProfilesInv, IsAny, Is
<1>3. SoundInv'
  BY DEF LoaderInv, SoundInv
<1>4. SectionsInv'
  BY DEF LoaderInv, SectionsInv, IsAny, Is
<1>5. WiringInv'
  BY DEF LoaderInv, WiringInv, Is
<1> QED BY <1>1, <1>2, <1>3, <1>4, <1>5 DEF LoaderInv

(* What SelectorInv says of a step that leaves handle and profiles.        *)
LEMMA SelectorStep ==
  ASSUME UNCHANGED <<handle, profiles>>, SelectorInv, DOMAIN pipelines' = DOMAIN pipelines,
         \A ms \in DOMAIN pipelines, n \in DOMAIN profiles : \A i \in DOMAIN profiles[n].request :
             /\ UsersOf(ms) = {n} /\ UsedOnce(ms, n) /\ profiles[n].request[i].pluginRef = ms
             /\ pipelines[ms] = IF Passed(n, i) THEN Pipeline(n) ELSE NewPipeline
             => pipelines'[ms] = IF Passed(n, i)' THEN Pipeline(n) ELSE NewPipeline
  PROVE  SelectorInv'
<1>1. \A ms, n : /\ UsersOf(ms)' = UsersOf(ms)
                 /\ UsedOnce(ms, n)' <=> UsedOnce(ms, n)
  BY DEF UsersOf, UsedOnce, ToSet
<1>2. \A n : Pipeline(n)' = Pipeline(n)
  BY DEF Pipeline, Those, Places, Is
<1>3. NewPipeline' = NewPipeline
  BY DEF NewPipeline
<1> SUFFICES ASSUME NEW ms \in DOMAIN pipelines, NEW n \in DOMAIN profiles,
                    UsersOf(ms) = {n}, UsedOnce(ms, n),
                    NEW i \in DOMAIN profiles[n].request, profiles[n].request[i].pluginRef = ms
             PROVE  pipelines'[ms] = IF Passed(n, i)' THEN Pipeline(n) ELSE NewPipeline
  BY <1>1, <1>2, <1>3 DEF SelectorInv
<1>4. pipelines[ms] = IF Passed(n, i) THEN Pipeline(n) ELSE NewPipeline
  BY DEF SelectorInv
<1> QED BY <1>4

LEMMA NextProfile ==
  ASSUME LoaderInv, NEW m \in DOMAIN profiles, buildModelSelector(m)
  PROVE  LoaderInv'
<1>1. /\ phase = "buildModelSelector" /\ current = Nil /\ m \in unwired
      /\ unwired' = unwired \ {m} /\ current' = m /\ next' = 1
      /\ UNCHANGED <<raw, phase, handle, profilePicker, profiles, postProcessors, registered, pipelines>>
  BY DEF buildModelSelector
<1>2. SelectorInv /\ unwired \subseteq DOMAIN profiles
  BY <1>1 DEF LoaderInv, WiringInv, Done
<1>3. /\ Nil \notin DOMAIN profiles
      /\ \A n \in DOMAIN profiles : IsList(profiles[n].request)
  BY <1>1 DEF LoaderInv, ProfilesInv, Done
<1>4. ASSUME NEW n \in DOMAIN profiles, NEW i \in DOMAIN profiles[n].request
      PROVE  Passed(n, i)' <=> Passed(n, i)
  <2>1. i \in Nat /\ ~(i < 1)
    BY <1>3, ListDomain
  <2> QED BY <1>1, <1>3, <2>1 DEF Passed
<1>5. SelectorInv'
  BY <1>1, <1>2, <1>4, SelectorStep
<1>6. current' \notin unwired'
  BY <1>1, <1>2, <1>3
<1> QED BY <1>1, <1>2, <1>5, <1>6, WiringKeeps

LEMMA WiresPlugin ==
  ASSUME LoaderInv, wirePlugin
  PROVE  LoaderInv'
<1> DEFINE ms == profiles[current].request[next].pluginRef
           wired == AddPlugins(pipelines[ms], profiles[current].selector)
<1>1. /\ phase = "buildModelSelector" /\ current # Nil /\ next <= Len(profiles[current].request)
      /\ next' = next + 1
      /\ UNCHANGED <<raw, handle, profilePicker, profiles, postProcessors, registered, unwired, current>>
  BY DEF wirePlugin
<1>2. \/ ~Is(ms, "ModelSelector") /\ UNCHANGED <<phase, pipelines>>
      \/ /\ wired # Nil /\ UNCHANGED phase
         /\ pipelines' = [pipelines EXCEPT ![ms] = wired]
      \/ phase' = "failed" /\ UNCHANGED pipelines
  BY DEF wirePlugin, Fail
<1>3. /\ SelectorInv /\ unwired \subseteq DOMAIN profiles /\ current \in DOMAIN profiles \cup {Nil}
      /\ next \in Nat \ {0} /\ DOMAIN pipelines = {x \in DOMAIN handle : Is(x, "ModelSelector")}
      /\ current \notin unwired
  BY <1>1 DEF LoaderInv, WiringInv, Done
<1>4. current \in DOMAIN profiles
  BY <1>1, <1>3
<1>5. next \in DOMAIN profiles[current].request /\ IsList(profiles[current].request)
      /\ IsList(profiles[current].selector)
  <2>1. IsList(profiles[current].request) /\ IsList(profiles[current].selector)
    BY <1>1, <1>4 DEF LoaderInv, ProfilesInv, Done
  <2> QED BY <1>1, <1>3, <2>1, ListDomain
<1>6. CASE phase' = "failed" /\ UNCHANGED pipelines
  BY <1>1, <1>3, <1>6, Fails
<1>7. CASE phase' = phase
  <2>1. DOMAIN pipelines' = DOMAIN pipelines
    BY <1>2, <1>7, <1>1
  <2>2. ASSUME NEW s \in DOMAIN pipelines, NEW n \in DOMAIN profiles, NEW i \in DOMAIN profiles[n].request,
               UsersOf(s) = {n}, UsedOnce(s, n), profiles[n].request[i].pluginRef = s,
               pipelines[s] = IF Passed(n, i) THEN Pipeline(n) ELSE NewPipeline
        PROVE  pipelines'[s] = IF Passed(n, i)' THEN Pipeline(n) ELSE NewPipeline
    <3>1. current \in UsersOf(ms)
      BY <1>4, <1>5 DEF UsersOf, ToSet
    <3>2. CASE ~(n = current /\ i = next)
      <4>1. s # ms
        BY <1>5, <2>2, <3>1, <3>2 DEF UsedOnce
      <4>2. pipelines'[s] = pipelines[s]
        BY <1>1, <1>2, <1>7, <4>1
      <4>3. n = current => i \in Nat /\ i # next
        BY <1>5, <3>2, ListDomain
      <4>4. Passed(n, i)' <=> Passed(n, i)
        BY <1>1, <1>3, <4>3 DEF Passed
      <4> QED BY <2>2, <4>2, <4>4
    <3>3. CASE n = current /\ i = next
      <4>1. s = ms /\ Is(ms, "ModelSelector")
        BY <1>3, <2>2, <3>3
      <4>2. wired # Nil /\ pipelines' = [pipelines EXCEPT ![ms] = wired]
        BY <1>1, <1>2, <1>7, <4>1
      <4>3. ~Passed(n, i) /\ Passed(n, i)'
        BY <1>1, <1>3, <3>3 DEF Passed
      <4>4. pipelines[ms] = NewPipeline
        BY <2>2, <4>1, <4>3
      <4>5. wired = Pipeline(n)
        <5> DEFINE refs == profiles[current].selector
                   filters == PluginRefs(Those(refs, "Filter"))
                   scorers == PluginRefs(Those(refs, "Scorer"))
                   pickers == PluginRefs(Those(refs, "Picker"))
        <5>1. \E S : filters \in Seq(S)
          BY <1>5, ThoseAreLists
        <5>2. \E S : scorers \in Seq(S)
          BY <1>5, ThoseAreLists
        <5>3. /\ pipelines[ms].filters = <<>> /\ pipelines[ms].scorers = <<>>
              /\ pipelines[ms].picker = Nil
          BY <4>4 DEF NewPipeline
        <5>4. wired = [filters |-> pipelines[ms].filters \o filters,
                       scorers |-> pipelines[ms].scorers \o scorers,
                       picker |-> CASE pickers # <<>> -> Head(pickers)
                                    [] pickers = <<>> /\ pipelines[ms].picker = Nil -> DefaultPicker
                                    [] OTHER -> pipelines[ms].picker]
          BY <4>2 DEF AddPlugins
        <5>5. Pipeline(n) = [filters |-> filters, scorers |-> scorers,
                                    picker |-> IF pickers = <<>> THEN DefaultPicker ELSE Head(pickers)]
          BY <3>3 DEF Pipeline
        <5> HIDE DEF filters, scorers, pickers
        <5>6. <<>> \o filters = filters
          BY <5>1, ConcatEmptySeq
        <5>7. <<>> \o scorers = scorers
          BY <5>2, ConcatEmptySeq
        <5> HIDE DEF wired
        <5> QED BY <5>3, <5>4, <5>5, <5>6, <5>7
      <4>6. pipelines'[ms] = wired
        BY <4>1, <4>2
      <4> QED BY <4>1, <4>3, <4>5, <4>6
    <3> QED BY <3>2, <3>3
  <2>3. SelectorInv'
    BY <1>1, <1>3, <2>1, <2>2, SelectorStep
  <2>4. next' \in Nat \ {0}
    BY <1>1, <1>3
  <2> QED BY <1>1, <1>3, <1>7, <2>1, <2>3, <2>4, WiringKeeps
<1> QED BY <1>2, <1>6, <1>7

LEMMA EndsProfile ==
  ASSUME LoaderInv, endOfProfile
  PROVE  LoaderInv'
<1>1. /\ phase = "buildModelSelector" /\ current # Nil /\ next > Len(profiles[current].request)
      /\ current' = Nil /\ phase' = IF unwired = {} THEN "loaded" ELSE phase
      /\ UNCHANGED <<raw, handle, profilePicker, profiles, postProcessors, registered, unwired, next, pipelines>>
  BY DEF endOfProfile
<1>2. /\ SelectorInv /\ unwired \subseteq DOMAIN profiles /\ current \in DOMAIN profiles \cup {Nil}
      /\ next \in Nat \ {0}
  BY <1>1 DEF LoaderInv, WiringInv, Done
<1>3. /\ Nil \notin DOMAIN profiles
      /\ \A n \in DOMAIN profiles : IsList(profiles[n].request)
  BY <1>1 DEF LoaderInv, ProfilesInv, Done
<1>4. ASSUME NEW n \in DOMAIN profiles, NEW i \in DOMAIN profiles[n].request
      PROVE  Passed(n, i)' <=> Passed(n, i)
  <2>1. n = current => i \in Nat /\ i < next
    BY <1>1, <1>2, <1>3, ListDomain
  <2> QED BY <1>1, <1>3, <2>1 DEF Passed
<1>5. SelectorInv'
  BY <1>1, <1>2, <1>4, SelectorStep
<1>6. current' \notin unwired'
  BY <1>1, <1>2, <1>3
<1> QED BY <1>1, <1>2, <1>5, <1>6, WiringKeeps

LEMMA LoaderStep ==
  ASSUME LoaderInv, [LNext]_(lvars)
  PROVE  LoaderInv'
<1>1. CASE instantiatePlugins
  BY <1>1, Instantiates
<1>2. CASE applyPluginDefaults
  BY <1>2, AppliesDefaults
<1>3. CASE resolveProfilePicker
  BY <1>3, ResolvesPicker
<1>4. CASE buildProfiles
  BY <1>4, BuildsProfiles
<1>5. CASE buildPreProcessors
  BY <1>5, BuildsPreProcessors
<1>6. CASE buildPostProcessors
  BY <1>6, BuildsPostProcessors
<1>7. CASE buildDatalayerSources
  BY <1>7, BuildsDatalayer
<1>8. CASE \E n \in DOMAIN profiles : buildModelSelector(n)
  BY <1>8, NextProfile
<1>9. CASE wirePlugin
  BY <1>9, WiresPlugin
<1>10. CASE endOfProfile
  BY <1>10, EndsProfile
<1>11. CASE UNCHANGED lvars
  <2>1. UNCHANGED <<raw, phase, handle, profilePicker, profiles, postProcessors, registered,
                    unwired, current, next, pipelines>>
    BY <1>11 DEF lvars, wiringVars
  <2>2. HandleInv' /\ PickerInv'
    BY <2>1 DEF LoaderInv, HandleInv, PickerInv, Is, Done, NotYet
  <2>3. ProfilesInv' /\ SoundInv'
    <3>1. ProfilesInv'
      BY <2>1 DEF LoaderInv, ProfilesInv, IsAny, Is
    <3>2. SoundInv'
      BY <2>1 DEF LoaderInv, SoundInv, NotYet
    <3> QED BY <3>1, <3>2
  <2>4. SectionsInv'
    BY <2>1 DEF LoaderInv, SectionsInv, IsAny, Is, Done, NotYet
  <2>5. SelectorInv => SelectorInv'
    <3>1. \A n, i : Passed(n, i)' <=> Passed(n, i)
      BY <2>1 DEF Passed
    <3> QED BY <2>1, <3>1, SelectorStep
  <2>6. WiringInv'
    BY <2>1, <2>5 DEF LoaderInv, WiringInv, Is, Done, NotYet
  <2> QED BY <2>2, <2>3, <2>4, <2>6 DEF LoaderInv
<1> QED BY <1>1, <1>2, <1>3, <1>4, <1>5, <1>6, <1>7, <1>8, <1>9, <1>10, <1>11 DEF LNext

(* A load keeps the inductive invariant, whatever is configured.           *)
THEOREM LoaderInvariance ==
  LSpec => []LoaderInv
<1>1. LInit => LoaderInv
  BY LoaderInit
<1>2. LoaderInv /\ [LNext]_(lvars) => LoaderInv'
  BY LoaderStep
<1> QED BY <1>1, <1>2, PTL DEF LSpec

(* The plugins, the profile picker, the model selectors and what the data  *)
(* layer was given are of the kinds that their places ask for, at every    *)
(* step of LoadConfiguration.                                              *)
THEOREM LoaderTypes ==
  LSpec => []LTypeOK
<1>1. LoaderInv => LTypeOK
  BY DEF LoaderInv, HandleInv, PickerInv, SectionsInv, WiringInv, LTypeOK
<1> QED BY <1>1, LoaderInvariance, PTL

(* In any configuration that LoadConfiguration returns, every reference of *)
(* the profiles, of pre- and post-processing and of the data layer is to a *)
(* plugin that fits its place.  Not so the profilePicker: one that is none *)
(* loads, with a nil picker, and that is the only way to a nil picker.     *)
THEOREM LoadedReferencesServed ==
  LSpec => []ReferencesServed
<1>1. LoaderInv => ReferencesServed
  <2> SUFFICES ASSUME LoaderInv, phase = "loaded" PROVE ReferencesServed
    BY DEF ReferencesServed, Loaded
  <2>1. \A p \in ToSet(raw.profiles) :
          /\ \A r \in ToSet(p.request) :
               IsAny(r.pluginRef, SelectorRoles \cup {"RequestProcessor"})
          /\ \A r \in ToSet(p.response) :
               IsAny(r.pluginRef, {"ResponseProcessor", "ResponseChunkProcessor"})
    <3>1. \A i \in DOMAIN raw.profiles :
            /\ \A k \in DOMAIN raw.profiles[i].request :
                 IsAny(raw.profiles[i].request[k].pluginRef,
                              SelectorRoles \cup {"RequestProcessor"})
            /\ \A k \in DOMAIN raw.profiles[i].response :
                 IsAny(raw.profiles[i].response[k].pluginRef,
                              {"ResponseProcessor", "ResponseChunkProcessor"})
      <4>1. Done(phase) >= 4
        BY DEF Done
      <4> QED BY <4>1 DEF LoaderInv, ProfilesInv
    <3> QED BY <3>1, Zenon DEF ToSet
  <2>2. /\ \A r \in ToSet(raw.preProcessing) : Is(r.pluginRef, "RequestProcessor")
        /\ \A r \in ToSet(raw.postProcessing) :
             IsAny(r.pluginRef, {"ResponseProcessor", "ResponseHeadersProcessor"})
        /\ registered = ToSet(raw.datalayer)
    BY DEF LoaderInv, SectionsInv, ToSet, Done
  <2>3. raw.profilePicker # Nil /\ (profilePicker = Nil => ~Is(raw.profilePicker, "ProfilePicker"))
    BY DEF LoaderInv, PickerInv, Done
  <2> QED BY <2>1, <2>2, <2>3 DEF ReferencesServed
<1> QED BY <1>1, LoaderInvariance, PTL

(* In a configuration that LoadConfiguration returns, a profile buffers    *)
(* exactly when it, or the server, has body processors, and then has no    *)
(* chunk processors.                                                       *)
THEOREM LoadedStreamsSound ==
  LSpec => []StreamsSound
<1>1. LoaderInv => StreamsSound
  BY DEF LoaderInv, SoundInv, StreamsSound, Loaded, Done
<1> QED BY <1>1, LoaderInvariance, PTL

(* A model selector that one profile refers to, once, runs exactly the     *)
(* selector plugins of that profile, in whatever order the map of profiles *)
(* was iterated.                                                           *)
THEOREM LoadedSelectorComplete ==
  LSpec => []SoleSelectorComplete
<1>1. LoaderInv => SoleSelectorComplete
  <2> SUFFICES ASSUME LoaderInv, phase = "loaded",
                      NEW ms \in DOMAIN pipelines, NEW n \in DOMAIN profiles,
                      UsersOf(ms) = {n}, UsedOnce(ms, n)
               PROVE  pipelines[ms] = Pipeline(n)
    BY DEF SoleSelectorComplete, Loaded
  <2>1. SelectorInv /\ unwired = {} /\ current = Nil /\ Nil \notin DOMAIN profiles
    BY DEF LoaderInv, WiringInv, ProfilesInv, Done
  <2>2. PICK i \in DOMAIN profiles[n].request : profiles[n].request[i].pluginRef = ms
    BY DEF UsersOf, ToSet
  <2>3. Passed(n, i)
    BY <2>1 DEF Passed
  <2> QED BY <2>1, <2>2, <2>3 DEF SelectorInv
<1> QED BY <1>1, LoaderInvariance, PTL

-----------------------------------------------------------------------------
(* The server that a loaded configuration makes, as a stream sees it.      *)
BuiltServer ==
    [postProcessors |-> postProcessors # <<>>,
     profiles |-> {[plugins |-> profiles[n].response # <<>>, chunkProcessors |-> profiles[n].chunk # <<>>,
                    buffering |-> profiles[n].buffering] : n \in DOMAIN profiles}]

(* What the stream's proofs assume of a server (ServerSound, in            *)
(* ConfigAssumption) holds of every server that LoadConfiguration returns: *)
(* the theorems about streams are theorems about loaded configurations.    *)
THEOREM BuiltServerSound ==
  LSpec => [](Loaded => ServerSound(BuiltServer))
<1>1. LoaderInv => (Loaded => ServerSound(BuiltServer))
  <2> SUFFICES ASSUME LoaderInv, phase = "loaded" PROVE ServerSound(BuiltServer)
    BY DEF Loaded
  <2>1. Done(phase) >= 4
    BY DEF Done
  <2>2. DOMAIN profiles # {}
    BY <2>1 DEF LoaderInv, ProfilesInv
  <2>3. BuiltServer.postProcessors = (postProcessors # <<>>) /\ BuiltServer.profiles # {}
    <3> DEFINE view(n) == [plugins |-> profiles[n].response # <<>>,
                           chunkProcessors |-> profiles[n].chunk # <<>>,
                           buffering |-> profiles[n].buffering]
    <3>1. PICK n \in DOMAIN profiles : TRUE
      BY <2>2
    <3>2. BuiltServer.profiles = {view(m) : m \in DOMAIN profiles}
      BY DEF BuiltServer
    <3>3. BuiltServer.postProcessors = (postProcessors # <<>>)
      BY DEF BuiltServer
    <3> HIDE DEF view
    <3>4. view(n) \in BuiltServer.profiles
      BY <3>1, <3>2
    <3> QED BY <3>3, <3>4
  <2>4. ASSUME NEW p \in BuiltServer.profiles
        PROVE  /\ p \in [plugins : BOOLEAN, chunkProcessors : BOOLEAN, buffering : BOOLEAN]
               /\ p.buffering = (p.plugins \/ postProcessors # <<>>)
               /\ p.buffering => ~p.chunkProcessors
    <3>1. PICK n \in DOMAIN profiles :
            p = [plugins |-> profiles[n].response # <<>>, chunkProcessors |-> profiles[n].chunk # <<>>,
                 buffering |-> profiles[n].buffering]
      BY DEF BuiltServer
    <3>2. /\ profiles[n].buffering = (profiles[n].response # <<>> \/ postProcessors # <<>>)
          /\ profiles[n].buffering => profiles[n].chunk = <<>>
      BY <2>1 DEF LoaderInv, SoundInv
    <3>3. profiles[n].buffering \in BOOLEAN
      BY <3>2
    <3>4. p \in [plugins : BOOLEAN, chunkProcessors : BOOLEAN, buffering : BOOLEAN]
      BY <3>1, <3>3
    <3>5. /\ p.buffering = profiles[n].buffering /\ p.plugins = (profiles[n].response # <<>>)
          /\ p.chunkProcessors = (profiles[n].chunk # <<>>)
      BY <3>1
    <3>6. p.buffering = (p.plugins \/ postProcessors # <<>>)
      BY <3>2, <3>5, Zenon
    <3>7. p.buffering => ~p.chunkProcessors
      BY <3>2, <3>5
    <3> QED BY <3>4, <3>6, <3>7
  <2> HIDE DEF BuiltServer
  <2>5. \A p \in BuiltServer.profiles : p.buffering = (p.plugins \/ BuiltServer.postProcessors)
    BY <2>3, <2>4, Zenon
  <2>6. BuiltServer.postProcessors \in BOOLEAN
    BY <2>3
  <2> QED BY <2>3, <2>4, <2>5, <2>6, Zenon DEF ServerSound
<1> QED BY <1>1, LoaderInvariance, PTL
=============================================================================
