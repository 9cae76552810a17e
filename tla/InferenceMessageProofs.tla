------------------------ MODULE InferenceMessageProofs ------------------------
(***************************************************************************)
(* Proofs about InferenceMessage, for any header names, values and keys,   *)
(* and any number of changes; and about SessionAffinity, whose session id  *)
(* travels in such a header.                                               *)
(***************************************************************************)
EXTENDS InferenceMessage, SessionAffinity, SequenceTheorems, FiniteSetTheorems, TLAPS

(* <<H, M, R>> is a message whose list of changes describes its headers.   *)
Sound(H, M, R) ==
    /\ H \in [Keys -> Values \cup {None}] /\ M \in [Keys -> Values \cup {None}]
    /\ R \subseteq Keys
    /\ \A k \in Keys : /\ k \in R => H[k] = None
                       /\ M[k] # None => M[k] = H[k]

(* SetHeader keeps a message sound: it takes a key that it sets out of the *)
(* removed ones.                                                           *)
LEMMA SetHeaderSound ==
  ASSUME NEW H, NEW M, NEW R, Sound(H, M, R),
         NEW k \in Keys, NEW v \in Values,
         Update(SetHeader(H, M, R, k, v))
  PROVE  Sound(Headers, mutatedHeaders, removedHeaders)'
<1>1. CASE H[k] = v
  BY <1>1 DEF Sound, SetHeader, Update
<1>2. CASE H[k] # v
  BY <1>2 DEF Sound, SetHeader, Update
<1> QED BY <1>1, <1>2

(* RemoveHeader keeps it, too: the value set before is forgotten.          *)
LEMMA RemoveHeaderSound ==
  ASSUME NEW H, NEW M, NEW R, Sound(H, M, R), NEW k \in Keys,
         Update(RemoveHeader(H, M, R, k))
  PROVE  Sound(Headers, mutatedHeaders, removedHeaders)'
<1>1. CASE H[k] = None
  BY <1>1 DEF Sound, RemoveHeader, Update
<1>2. CASE H[k] # None
  BY <1>2 DEF Sound, RemoveHeader, Update
<1> QED BY <1>1, <1>2

(* What the invariant needs besides: before the headers arrive the message *)
(* has no changes, so that replacing all its headers at once is harmless.  *)
IInv ==
    /\ TypeOK /\ SetOrRemoved
    /\ phase = "new" => /\ mutatedHeaders = [k \in Keys |-> None]
                        /\ removedHeaders = {}

(* The invariant's two parts in the terms of the lemmas above.             *)
LEMMA SoundIsInv ==
  TypeOK /\ SetOrRemoved => Sound(Headers, mutatedHeaders, removedHeaders)
BY DEF TypeOK, SetOrRemoved, Sound

(* Every step keeps it.                                                    *)
LEMMA StepPreserves == IInv /\ [Next]_vars => IInv'
<1> SUFFICES ASSUME IInv, [Next]_vars PROVE IInv'
  OBVIOUS
<1> USE MessageAssumption
<1>0. Sound(Headers, mutatedHeaders, removedHeaders)
  BY SoundIsInv DEF IInv
<1>1. ASSUME NEW v \in Values, NEW recording \in BOOLEAN, HandleRequestHeaders(recording, v)
      PROVE  IInv'
  <2> DEFINE received == [k \in Keys |-> IF k = ToLower(k) THEN upstream[k[1]] ELSE None]
  <2>1. \A k \in Keys : k[1] \in Names
    BY DEF Keys
  <2>2. received \in [Keys -> Values \cup {None}]
    BY <2>1 DEF IInv, TypeOK
  <2>3. Sound(received, mutatedHeaders, removedHeaders)
    BY <1>1, <2>2, <1>0 DEF Sound, IInv, HandleRequestHeaders
  <2>4. <<TraceHeader, "lower">> \in Keys
    BY DEF Keys
  <2>5. Sound(Headers, mutatedHeaders, removedHeaders)'
    <3> HIDE DEF received
    <3>1. CASE recording
      <4>1. Update(SetHeader(received, mutatedHeaders, removedHeaders, <<TraceHeader, "lower">>, v))
        BY <1>1, <3>1 DEF HandleRequestHeaders, received
      <4> QED BY <4>1, <2>3, <2>4, SetHeaderSound
    <3>2. CASE ~recording
      <4>1. Update(<<received, mutatedHeaders, removedHeaders>>)
        BY <1>1, <3>2 DEF HandleRequestHeaders, received
      <4> QED BY <4>1, <2>3 DEF Update, Sound
    <3> QED BY <3>1, <3>2
  <2>6. /\ phase' = "plugins" /\ steps' \in 0..MaxSteps
        /\ upstream' \in [Names -> Values \cup {None}]
        /\ intended' \in [Names -> Values \cup {None}]
    BY <1>1 DEF HandleRequestHeaders, IInv, TypeOK
  <2> QED BY <2>5, <2>6 DEF IInv, TypeOK, SetOrRemoved, Sound
<1>2. ASSUME NEW v \in Values, NEW k \in SetKeys, PluginSets(k, v)
      PROVE  IInv'
  <2>1. Sound(Headers, mutatedHeaders, removedHeaders)'
    BY <1>2, <1>0, SetHeaderSound DEF PluginSets
  <2>2. k[1] \in Names
    BY DEF Keys
  <2>3. /\ phase' = "plugins" /\ steps' \in 0..MaxSteps
        /\ upstream' \in [Names -> Values \cup {None}]
        /\ intended' \in [Names -> Values \cup {None}]
    BY <1>2, <2>2 DEF PluginSets, IInv, TypeOK
  <2> QED BY <2>1, <2>3 DEF IInv, TypeOK, SetOrRemoved, Sound
<1>3. ASSUME NEW k \in RemoveKeys, PluginRemoves(k)
      PROVE  IInv'
  <2>1. Sound(Headers, mutatedHeaders, removedHeaders)'
    BY <1>3, <1>0, RemoveHeaderSound DEF PluginRemoves
  <2>2. k[1] \in Names
    BY DEF Keys
  <2>3. /\ phase' = "plugins" /\ steps' \in 0..MaxSteps
        /\ upstream' \in [Names -> Values \cup {None}]
        /\ intended' \in [Names -> Values \cup {None}]
    BY <1>3, <2>2 DEF PluginRemoves, IInv, TypeOK
  <2> QED BY <2>1, <2>3 DEF IInv, TypeOK, SetOrRemoved, Sound
<1>4. ASSUME NEW v \in Values, HandleRequestBody(v)
      PROVE  IInv'
  <2>1. <<ContentLength, "mixed">> \in Keys
    BY DEF Keys
  <2>2. Sound(Headers, mutatedHeaders, removedHeaders)'
    BY <1>4, <1>0, <2>1, SetHeaderSound DEF HandleRequestBody
  <2>3. upstream' \in [Names -> Values \cup {None}]
    BY <1>4 DEF HandleRequestBody, Applied
  <2>4. /\ phase' = "sent" /\ steps' \in 0..MaxSteps
        /\ intended' \in [Names -> Values \cup {None}]
    BY <1>4 DEF HandleRequestBody, IInv, TypeOK
  <2> QED BY <2>2, <2>3, <2>4 DEF IInv, TypeOK, SetOrRemoved, Sound
<1>5. CASE UNCHANGED vars
  BY <1>5 DEF vars, msgVars, IInv, TypeOK, SetOrRemoved
<1> QED BY <1>1, <1>2, <1>3, <1>4, <1>5 DEF Next

(* It is an invariant of the specification.                                *)
LEMMA Invariance == Spec => []IInv
<1>1. Init => IInv
  BY MessageAssumption DEF Init, IInv, TypeOK, SetOrRemoved
<1> QED BY <1>1, StepPreserves, PTL DEF Spec

(* Every message keeps its types, whatever plugins do to its headers.      *)
THEOREM TypeCorrect == Spec => []TypeOK
<1>1. IInv => TypeOK
  BY DEF IInv
<1> QED BY <1>1, Invariance, PTL

(* However plugins set, remove and restore headers, in any spelling, no    *)
(* key is sent both to be set and to be removed, and what is sent for a    *)
(* key is the value the last plugin gave it.                               *)
THEOREM ChangesDescribeHeaders == Spec => []SetOrRemoved
<1>1. IInv => SetOrRemoved
  BY DEF IInv
<1> QED BY <1>1, Invariance, PTL

-----------------------------------------------------------------------------
(* What the changes <<M, R>> make of a header n that Envoy has with value  *)
(* u, and the message with headers H: the plugins read it as H says when   *)
(* it is spelled in lower case, and have set it, or not, when it is mixed. *)
Tracks(n, H, M, R, u, i) ==
    LET low == <<n, "lower">>
        mix == <<n, "mixed">>
    IN /\ mix \notin R
       /\ n \notin MixedNames =>
            /\ M[mix] = None /\ i = H[low]
            /\ M[low] = None => i = IF low \in R THEN None ELSE u
       /\ n \in MixedNames =>
            /\ M[low] = None /\ low \notin R /\ H[mix] = M[mix]
            /\ i = IF M[mix] # None THEN M[mix] ELSE u

AllTrack == \A n \in Names :
    Tracks(n, Headers, mutatedHeaders, removedHeaders, upstream[n], intended[n])

AgreeInv ==
    /\ IInv
    /\ phase = "new" => intended = upstream
    /\ phase = "plugins" => AllTrack
    /\ phase = "sent" => upstream = intended

(* A header that is set stays tracked, and so do all the others.           *)
LEMMA SetTracks ==
  ASSUME OneSpelling, NEW H, NEW M, NEW R, Sound(H, M, R),
         NEW U \in [Names -> Values \cup {None}], NEW I \in [Names -> Values \cup {None}],
         \A n \in Names : Tracks(n, H, M, R, U[n], I[n]),
         NEW k \in KeysSet, NEW v \in Values,
         Update(SetHeader(H, M, R, k, v))
  PROVE  \A n \in Names : Tracks(n, Headers', mutatedHeaders', removedHeaders',
                                 U[n], [I EXCEPT ![k[1]] = v][n])
<1> USE MessageAssumption
<1> SUFFICES ASSUME NEW n \in Names
             PROVE  Tracks(n, Headers', mutatedHeaders', removedHeaders',
                           U[n], [I EXCEPT ![k[1]] = v][n])
  OBVIOUS
<1>1. k \in Keys /\ <<n, "lower">> \in Keys /\ <<n, "mixed">> \in Keys
  BY DEF KeysSet, Keys
<1>2. k = <<k[1], k[2]>> /\ k[1] \in Names /\ k[2] \in {"lower", "mixed"}
  BY <1>1 DEF Keys
<1>3. Tracks(n, H, M, R, U[n], I[n])
  OBVIOUS
<1>4. CASE k[1] # n
  <2>1. k # <<n, "lower">> /\ k # <<n, "mixed">>
    BY <1>4
  <2>2. [I EXCEPT ![k[1]] = v][n] = I[n]
    BY <1>4
  <2> QED BY <1>1, <1>3, <2>1, <2>2 DEF Tracks, SetHeader, Update, Sound
<1>5. CASE k = <<n, "lower">>
  <2>1. n \notin MixedNames
    BY <1>5 DEF OneSpelling
  <2>2. [I EXCEPT ![k[1]] = v][n] = v
    BY <1>5
  <2>3. <<n, "mixed">> # k
    BY <1>5
  <2> QED BY <1>1, <1>3, <1>5, <2>1, <2>2, <2>3 DEF Tracks, SetHeader, Update, Sound
<1>6. CASE k = <<n, "mixed">>
  <2>1. n \in MixedNames
    BY <1>6 DEF MixedNames
  <2>2. [I EXCEPT ![k[1]] = v][n] = v
    BY <1>6
  <2>3. <<n, "lower">> # k
    BY <1>6
  <2> QED BY <1>1, <1>3, <1>6, <2>1, <2>2, <2>3 DEF Tracks, SetHeader, Update, Sound
<1> QED BY <1>2, <1>4, <1>5, <1>6

(* So does a header that is removed.                                       *)
LEMMA RemoveTracks ==
  ASSUME OneSpelling, NEW H, NEW M, NEW R, Sound(H, M, R),
         NEW U \in [Names -> Values \cup {None}], NEW I \in [Names -> Values \cup {None}],
         \A n \in Names : Tracks(n, H, M, R, U[n], I[n]),
         NEW k \in RemoveKeys,
         Update(RemoveHeader(H, M, R, k))
  PROVE  \A n \in Names : Tracks(n, Headers', mutatedHeaders', removedHeaders',
                                 U[n], [I EXCEPT ![k[1]] = None][n])
<1> USE MessageAssumption
<1> SUFFICES ASSUME NEW n \in Names
             PROVE  Tracks(n, Headers', mutatedHeaders', removedHeaders',
                           U[n], [I EXCEPT ![k[1]] = None][n])
  OBVIOUS
<1>1. k \in Keys /\ <<n, "lower">> \in Keys /\ <<n, "mixed">> \in Keys
  BY DEF Keys
<1>2. k = <<k[1], "lower">> /\ k[1] \in Names
  BY DEF OneSpelling
<1>3. Tracks(n, H, M, R, U[n], I[n])
  OBVIOUS
<1>4. CASE k[1] # n
  <2>1. k # <<n, "lower">> /\ k # <<n, "mixed">>
    BY <1>4
  <2>2. [I EXCEPT ![k[1]] = None][n] = I[n]
    BY <1>4
  <2> QED BY <1>1, <1>3, <2>1, <2>2 DEF Tracks, RemoveHeader, Update, Sound
<1>5. CASE k = <<n, "lower">>
  <2>1. n \notin MixedNames
    BY <1>5 DEF OneSpelling
  <2>2. [I EXCEPT ![k[1]] = None][n] = None
    BY <1>5
  <2>3. <<n, "mixed">> # k
    BY <1>5
  <2> QED BY <1>1, <1>3, <1>5, <2>1, <2>2, <2>3 DEF Tracks, RemoveHeader, Update, Sound
<1> QED BY <1>2, <1>4, <1>5

(* Envoy makes of a tracked message what was intended.                     *)
LEMMA AppliedAgrees ==
  ASSUME NEW M \in [Keys -> Values \cup {None}], NEW R, NEW H,
         upstream \in [Names -> Values \cup {None}],
         NEW I \in [Names -> Values \cup {None}],
         \A n \in Names : Tracks(n, H, M, R, upstream[n], I[n]),
         Sound(H, M, R),
         NEW h \in Applied(M, R)
  PROVE  h = I
<1> SUFFICES ASSUME NEW n \in Names PROVE h[n] = I[n]
  BY DEF Applied
<1> DEFINE low == <<n, "lower">>
           mix == <<n, "mixed">>
           set == {M[k] : k \in {n} \X {"lower", "mixed"}} \ {None}
<1>1. IF set # {} THEN h[n] \in set
      ELSE h[n] = IF \E k \in R : k[1] = n THEN None ELSE upstream[n]
  BY DEF Applied
<1>2. {n} \X {"lower", "mixed"} = {low, mix}
  OBVIOUS
<1>3. set = {M[low], M[mix]} \ {None}
  BY <1>2
<1>4. (\E k \in R : k[1] = n) <=> low \in R \/ mix \in R
  <2>1. R \subseteq Keys
    BY DEF Sound
  <2>2. \A k \in Keys : k[1] = n => k = low \/ k = mix
    BY DEF Keys
  <2> QED BY <2>1, <2>2
<1>5. Tracks(n, H, M, R, upstream[n], I[n])
  OBVIOUS
<1>6. low \in Keys /\ mix \in Keys
  BY DEF Keys
<1> HIDE DEF set
<1>7. CASE n \in MixedNames
  BY <1>1, <1>3, <1>4, <1>5, <1>7 DEF Tracks
<1>8. CASE n \notin MixedNames
  BY <1>1, <1>3, <1>4, <1>5, <1>6, <1>8 DEF Tracks, Sound
<1> QED BY <1>7, <1>8

(* Every step keeps what is sent in agreement with what was intended.      *)
LEMMA StepAgrees == OneSpelling /\ AgreeInv /\ [Next]_vars => AgreeInv'
<1> SUFFICES ASSUME OneSpelling, AgreeInv, [Next]_vars PROVE AgreeInv'
  OBVIOUS
<1> USE MessageAssumption
<1>0. /\ IInv' /\ Sound(Headers, mutatedHeaders, removedHeaders)
      /\ upstream \in [Names -> Values \cup {None}]
      /\ intended \in [Names -> Values \cup {None}]
  BY StepPreserves, SoundIsInv DEF AgreeInv, IInv, TypeOK
<1>1. ASSUME NEW v \in Values, NEW recording \in BOOLEAN, HandleRequestHeaders(recording, v)
      PROVE  AgreeInv'
  <2> DEFINE received == [k \in Keys |-> IF k = ToLower(k) THEN upstream[k[1]] ELSE None]
             key == <<TraceHeader, "lower">>
  <2>1. \A n \in Names : /\ <<n, "lower">> \in Keys /\ <<n, "mixed">> \in Keys
                         /\ received[<<n, "lower">>] = upstream[n]
                         /\ received[<<n, "mixed">>] = None
    BY DEF Keys, ToLower
  <2>2. Sound(received, mutatedHeaders, removedHeaders)
    <3>1. \A k \in Keys : k[1] \in Names
      BY DEF Keys
    <3>2. received \in [Keys -> Values \cup {None}]
      BY <1>0, <3>1
    <3> QED BY <1>0, <1>1, <3>2 DEF Sound, AgreeInv, IInv, HandleRequestHeaders
  <2>3. /\ mutatedHeaders = [k \in Keys |-> None] /\ removedHeaders = {}
        /\ intended = upstream
    BY <1>1 DEF AgreeInv, IInv, HandleRequestHeaders
  <2> HIDE DEF received
  <2>4. \A n \in Names : Tracks(n, received, mutatedHeaders, removedHeaders,
                                upstream[n], intended[n])
    BY <2>1, <2>3 DEF Tracks
  <2>5. phase' = "plugins" /\ upstream' = upstream
    BY <1>1 DEF HandleRequestHeaders
  <2>6. CASE recording
    <3>1. /\ Update(SetHeader(received, mutatedHeaders, removedHeaders, key, v))
          /\ intended' = [intended EXCEPT ![TraceHeader] = v]
      BY <1>1, <2>6 DEF HandleRequestHeaders, received
    <3>2. key \in KeysSet /\ key[1] = TraceHeader
      BY DEF KeysSet
    <3>3. \A n \in Names : Tracks(n, Headers', mutatedHeaders', removedHeaders',
                                  upstream[n], [intended EXCEPT ![key[1]] = v][n])
      BY <1>0, <2>2, <2>4, <3>1, <3>2, SetTracks
    <3> QED BY <1>0, <2>5, <3>1, <3>2, <3>3 DEF AgreeInv, AllTrack
  <2>7. CASE ~recording
    <3>1. /\ Update(<<received, mutatedHeaders, removedHeaders>>)
          /\ intended' = intended
      BY <1>1, <2>7 DEF HandleRequestHeaders, received
    <3> QED BY <1>0, <2>4, <2>5, <3>1 DEF AgreeInv, AllTrack, Update
  <2> QED BY <2>6, <2>7
<1>2. ASSUME NEW v \in Values, NEW k \in SetKeys, PluginSets(k, v)
      PROVE  AgreeInv'
  <2>1. /\ AllTrack /\ Update(SetHeader(Headers, mutatedHeaders, removedHeaders, k, v))
        /\ intended' = [intended EXCEPT ![k[1]] = v]
        /\ phase' = "plugins" /\ upstream' = upstream
    BY <1>2 DEF PluginSets, AgreeInv
  <2>2. k \in KeysSet
    BY DEF KeysSet
  <2>3. \A n \in Names : Tracks(n, Headers', mutatedHeaders', removedHeaders',
                                upstream[n], [intended EXCEPT ![k[1]] = v][n])
    BY <1>0, <2>1, <2>2, SetTracks DEF AllTrack
  <2> QED BY <1>0, <2>1, <2>3 DEF AgreeInv, AllTrack
<1>3. ASSUME NEW k \in RemoveKeys, PluginRemoves(k)
      PROVE  AgreeInv'
  <2>1. /\ AllTrack /\ Update(RemoveHeader(Headers, mutatedHeaders, removedHeaders, k))
        /\ intended' = [intended EXCEPT ![k[1]] = None]
        /\ phase' = "plugins" /\ upstream' = upstream
    BY <1>3 DEF PluginRemoves, AgreeInv
  <2>2. \A n \in Names : Tracks(n, Headers', mutatedHeaders', removedHeaders',
                                upstream[n], [intended EXCEPT ![k[1]] = None][n])
    BY <1>0, <2>1, RemoveTracks DEF AllTrack
  <2> QED BY <1>0, <2>1, <2>2 DEF AgreeInv, AllTrack
<1>4. ASSUME NEW v \in Values, HandleRequestBody(v)
      PROVE  AgreeInv'
  <2> DEFINE key == <<ContentLength, "mixed">>
  <2>1. /\ AllTrack /\ Update(SetHeader(Headers, mutatedHeaders, removedHeaders, key, v))
        /\ intended' = [intended EXCEPT ![ContentLength] = v]
        /\ phase' = "sent" /\ upstream' \in Applied(mutatedHeaders', removedHeaders')
    BY <1>4 DEF HandleRequestBody, AgreeInv
  <2>2. key \in KeysSet /\ key[1] = ContentLength /\ key \in Keys
    BY DEF KeysSet, Keys
  <2>3. \A n \in Names : Tracks(n, Headers', mutatedHeaders', removedHeaders',
                                upstream[n], [intended EXCEPT ![key[1]] = v][n])
    BY <1>0, <2>1, <2>2, SetTracks DEF AllTrack
  <2>4. Sound(Headers', mutatedHeaders', removedHeaders')
    BY <1>0, <2>1, <2>2, SetHeaderSound DEF Sound
  <2>5. /\ mutatedHeaders' \in [Keys -> Values \cup {None}]
        /\ intended' \in [Names -> Values \cup {None}]
    BY <1>0, <2>1, <2>4 DEF Sound
  <2>6. upstream' = intended'
    BY <1>0, <2>1, <2>2, <2>3, <2>4, <2>5, AppliedAgrees
  <2> QED BY <1>0, <2>1, <2>6 DEF AgreeInv
<1>5. CASE UNCHANGED vars
  BY <1>0, <1>5 DEF vars, msgVars, AgreeInv, AllTrack
<1> QED BY <1>1, <1>2, <1>3, <1>4, <1>5 DEF Next

(* For any names, values and plugins that spell each header in one way,    *)
(* Envoy ends up with the headers the plugins made, whatever the order in  *)
(* which they set, removed and restored them and in which Envoy applies    *)
(* the changes.                                                            *)
THEOREM HeadersArrive == Spec => []EnvoyAgrees
<1>1. CASE ~OneSpelling
  <2>1. EnvoyAgrees
    BY <1>1 DEF EnvoyAgrees
  <2> QED BY <2>1, PTL
<1>2. CASE OneSpelling
  <2>1. Init => AgreeInv
    BY MessageAssumption DEF Init, AgreeInv, IInv, TypeOK, SetOrRemoved
  <2>2. AgreeInv /\ [Next]_vars => AgreeInv'
    BY <1>2, StepAgrees
  <2>3. AgreeInv => EnvoyAgrees
    BY DEF AgreeInv, EnvoyAgrees
  <2> QED BY <2>1, <2>2, <2>3, PTL DEF Spec
<1> QED BY <1>1, <1>2

-----------------------------------------------------------------------------
(***************************************************************************)
(* SessionAffinity: the scorer that keeps a session on its model, for any  *)
(* clients, ids and models, any number of sessions in the cache and any    *)
(* order of turns, expiries and changes of the candidates.                 *)
(***************************************************************************)
Entries == [id : Ids, model : Models]
Turns == [phase : {"idle", "routed", "answered"}, cycle : Ids \cup {Nil},
          routed : Models \cup {Nil}, echo : Ids \cup {Nil}]
OneEach(s) == \A i, j \in DOMAIN s : s[i].id = s[j].id => i = j
Has(s, id) == \E i \in DOMAIN s : s[i].id = id

LEMMA Removed ==
  ASSUME NEW S, NEW s \in Seq(S), NEW i \in 1..Len(s)
  PROVE  /\ RemoveAt(s, i) \in Seq(S)
         /\ Len(RemoveAt(s, i)) = Len(s) - 1
         /\ \A k \in 1..(Len(s) - 1) :
              RemoveAt(s, i)[k] = IF k < i THEN s[k] ELSE s[k + 1]
<1> DEFINE a == SubSeq(s, 1, i - 1)
           b == SubSeq(s, i + 1, Len(s))
<1>1. /\ a \in Seq(S) /\ Len(a) = i - 1
      /\ \A k \in 1..(i - 1) : a[k] = s[k]
  BY SubSeqProperties
<1>2. /\ b \in Seq(S) /\ Len(b) = Len(s) - i
      /\ \A k \in 1..(Len(s) - i) : b[k] = s[i + k]
  BY SubSeqProperties
<1> HIDE DEF a, b
<1>3. /\ a \o b \in Seq(S) /\ Len(a \o b) = Len(s) - 1
      /\ \A k \in 1..(Len(s) - 1) : (a \o b)[k] = IF k < i THEN a[k] ELSE b[k - (i - 1)]
  <2>1. /\ a \o b \in Seq(S) /\ Len(a \o b) = Len(a) + Len(b)
        /\ \A k \in 1..Len(a) + Len(b) :
              (a \o b)[k] = IF k <= Len(a) THEN a[k] ELSE b[k - Len(a)]
    BY <1>1, <1>2, ConcatProperties
  <2>2. Len(a) + Len(b) = Len(s) - 1 /\ \A k \in 1..(Len(s) - 1) : k <= Len(a) <=> k < i
    BY <1>1, <1>2
  <2> QED BY <1>1, <2>1, <2>2
<1>4. \A k \in 1..(Len(s) - 1) : (a \o b)[k] = IF k < i THEN s[k] ELSE s[k + 1]
  <2> TAKE k \in 1..(Len(s) - 1)
  <2>1. CASE k < i
    BY <2>1, <1>1, <1>3
  <2>2. CASE ~(k < i)
    <3>1. k - (i - 1) \in 1..(Len(s) - i)
      BY <2>2
    <3>2. b[k - (i - 1)] = s[i + (k - (i - 1))]
      BY <3>1, <1>2
    <3>3. i + (k - (i - 1)) = k + 1
      BY <2>2
    <3> QED BY <2>2, <3>2, <3>3, <1>3
  <2> QED BY <2>1, <2>2
<1> QED BY <1>3, <1>4 DEF a, b, RemoveAt

LEMMA OthersAre ==
  ASSUME cache \in Seq(Entries), OneEach(cache), NEW id
  PROVE  LET others == Others(id)
         IN  /\ others \in Seq(Entries) /\ OneEach(others)
             /\ Len(others) <= Len(cache) /\ (Known(id) => Len(others) = Len(cache) - 1)
             /\ \A k \in DOMAIN others : others[k].id # id /\ \E j \in DOMAIN cache : others[k] = cache[j]
             /\ \A j \in DOMAIN cache : cache[j].id # id => \E k \in DOMAIN others : others[k] = cache[j]
             /\ \A i, j \in DOMAIN others : i < j =>
                  \E p, q \in DOMAIN cache : p < q /\ others[i] = cache[p] /\ others[j] = cache[q]
<1>1. CASE ~Known(id)
  BY <1>1 DEF Others, Known, OneEach
<1>2. CASE Known(id)
  <2> DEFINE p == Place(id)
             rest == RemoveAt(cache, p)
  <2>1. p \in 1..Len(cache) /\ cache[p].id = id
    BY <1>2 DEF Known, Place
  <2>2. Others(id) = rest
    BY <1>2 DEF Others
  <2> HIDE DEF p
  <2>3. /\ rest \in Seq(Entries) /\ Len(rest) = Len(cache) - 1
        /\ \A k \in 1..(Len(cache) - 1) : rest[k] = IF k < p THEN cache[k] ELSE cache[k + 1]
    BY <2>1, Removed
  <2> HIDE DEF rest
  <2>4. \A k \in DOMAIN rest : rest[k].id # id /\ \E j \in DOMAIN cache : rest[k] = cache[j]
    <3> SUFFICES ASSUME NEW k \in 1..(Len(cache) - 1)
                 PROVE  rest[k].id # id /\ \E j \in DOMAIN cache : rest[k] = cache[j]
      BY <2>3
    <3>1. CASE k < p
      BY <3>1, <2>1, <2>3 DEF OneEach
    <3>2. CASE ~(k < p)
      <4>1. k + 1 \in DOMAIN cache /\ rest[k] = cache[k + 1] /\ k + 1 # p
        BY <3>2, <2>1, <2>3
      <4> QED BY <4>1, <2>1 DEF OneEach
    <3> QED BY <3>1, <3>2
  <2>5. ASSUME NEW j \in DOMAIN cache, cache[j].id # id
        PROVE  \E k \in DOMAIN rest : rest[k] = cache[j]
    <3>1. CASE j < p
      BY <3>1, <2>1, <2>3
    <3>2. CASE j > p
      <4>1. j - 1 \in DOMAIN rest /\ rest[j - 1] = cache[j]
        BY <3>2, <2>1, <2>3
      <4> QED BY <4>1
    <3> QED BY <3>1, <3>2, <2>1, <2>5
  <2>6. OneEach(rest)
    <3> SUFFICES ASSUME NEW i \in 1..(Len(cache) - 1), NEW j \in 1..(Len(cache) - 1), rest[i].id = rest[j].id
                 PROVE  i = j
      BY <2>3 DEF OneEach
    <3>1. /\ rest[i] = cache[IF i < p THEN i ELSE i + 1] /\ rest[j] = cache[IF j < p THEN j ELSE j + 1]
      BY <2>3
    <3>2. (IF i < p THEN i ELSE i + 1) = (IF j < p THEN j ELSE j + 1)
      BY <3>1 DEF OneEach
    <3> QED BY <3>2, <2>1
  <2>7. ASSUME NEW i \in DOMAIN rest, NEW j \in DOMAIN rest, i < j
        PROVE  \E k, l \in DOMAIN cache : k < l /\ rest[i] = cache[k] /\ rest[j] = cache[l]
    <3> DEFINE k == IF i < p THEN i ELSE i + 1
               l == IF j < p THEN j ELSE j + 1
    <3>1. k \in DOMAIN cache /\ l \in DOMAIN cache /\ k < l
      BY <2>1, <2>3, <2>7
    <3>2. rest[i] = cache[k] /\ rest[j] = cache[l]
      BY <2>3, <2>7
    <3> QED BY <3>1, <3>2
  <2> QED BY <1>2, <2>2, <2>3, <2>4, <2>5, <2>6, <2>7
<1> QED BY <1>1, <1>2

LEMMA InFront ==
  ASSUME NEW e \in Entries, NEW s \in Seq(Entries)
  PROVE  /\ <<e>> \o s \in Seq(Entries) /\ Len(<<e>> \o s) = Len(s) + 1
         /\ (<<e>> \o s)[1] = e /\ \A k \in 1..Len(s) : (<<e>> \o s)[k + 1] = s[k]
         /\ \A k \in 2..(Len(s) + 1) : (<<e>> \o s)[k] = s[k - 1]
<1>1. <<e>> \in Seq(Entries) /\ Len(<<e>>) = 1 /\ <<e>>[1] = e
  OBVIOUS
<1> QED BY <1>1, ConcatProperties

(* A cache with one entry per session, in the order of their last use; a   *)
(* session that was recorded and has no entry has waited too long.         *)
InOrder(s, w) == \A i, j \in DOMAIN s : i < j => s[i].id \in w[s[j].id]
CacheInv ==
    /\ cache \in Seq(Entries) /\ OneEach(cache) /\ Len(cache) <= maxSessions
    /\ since \in [Ids -> SUBSET Ids] /\ \A x \in Ids : IsFiniteSet(since[x])
    /\ InOrder(cache, since)
    /\ \A x \in Ids \ absent : Has(cache, x) \/ Cardinality(since[x]) >= maxSessions

(* The session a client has, or will have when the response reaches it.    *)
Session(c) == IF turn[c].echo # Nil THEN turn[c].echo ELSE sessionId[c]
Owner(c) == \A d \in Clients \ {c} : sessionId[d] # Session(c) /\ turn[d].cycle # Session(c)

(* What a client sends it was given; what its turn carries it had sent;    *)
(* and its session, if it has it to itself, is recorded with the model     *)
(* that its last response named.                                           *)
ClientInv ==
    /\ \A c \in Clients : Session(c) # Nil => Session(c) \in used
    /\ \A c \in Clients : sessionId[c] # Nil => sessionId[c] \in used
    /\ \A c \in Clients : turn[c].phase = "idle" => turn[c].cycle = Nil
    /\ \A c \in Clients : turn[c].phase # "idle" => turn[c].cycle = sessionId[c]
    /\ \A c \in Clients : turn[c].echo # Nil =>
        turn[c].phase = "answered" /\ turn[c].cycle \in {Nil, turn[c].echo}
    /\ \A c \in Clients : lastModel[c] # Nil /\ Owner(c) =>
        \A i \in DOMAIN cache : cache[i].id = Session(c) => cache[i].model = lastModel[c]
AffinityInv == ATypeOK /\ CacheInv /\ ClientInv

LEMMA AffinityInit ==
  ASSUME AInit
  PROVE  AffinityInv
<1> USE AffinityAssumption DEF AInit
<1>1. turn \in [Clients -> Turns]
  BY DEF NoTurn, Turns
<1>2. ATypeOK
  BY <1>1 DEF ATypeOK, Turns
<1>3. CacheInv
  <2>1. \A x \in Ids : IsFiniteSet(since[x])
    BY FS_EmptySet
  <2> QED BY <2>1 DEF CacheInv, OneEach, InOrder
<1>4. ClientInv
  BY DEF ClientInv, NoTurn, Session
<1> QED BY <1>2, <1>3, <1>4 DEF AffinityInv

(* The sessions used after one, when one more is used.                     *)
LEMMA WaitGrows ==
  ASSUME CacheInv, NEW id \in Ids, Use(id)
  PROVE  /\ since' \in [Ids -> SUBSET Ids] /\ \A x \in Ids : IsFiniteSet(since'[x])
         /\ \A x \in Ids \ {id} : since'[x] = since[x] \cup {id}
         /\ \A x \in Ids \ {id} : Cardinality(since'[x]) >= Cardinality(since[x])
<1>1. /\ since' \in [Ids -> SUBSET Ids] /\ since'[id] = {}
      /\ \A x \in Ids \ {id} : since'[x] = since[x] \cup {id}
  BY DEF CacheInv, Use
<1>2. \A x \in Ids : IsFiniteSet(since[x])
  BY DEF CacheInv
<1>3. ASSUME NEW x \in Ids \ {id}
      PROVE  IsFiniteSet(since'[x]) /\ Cardinality(since'[x]) >= Cardinality(since[x])
  <2> DEFINE S == since[x]
             T == since'[x]
  <2>1. IsFiniteSet(S) /\ T = S \cup {id}
    BY <1>1, <1>2
  <2> HIDE DEF S, T
  <2>2. IsFiniteSet(S \cup {id}) /\ Cardinality(S) \in Nat
        /\ (Cardinality(S \cup {id}) = IF id \in S THEN Cardinality(S) ELSE Cardinality(S) + 1)
    BY <2>1, FS_AddElement, FS_CardinalityType
  <2>3. IsFiniteSet(T) /\ Cardinality(T) >= Cardinality(S)
    BY <2>1, <2>2
  <2> QED BY <2>3 DEF S, T
<1>4. IsFiniteSet(since'[id])
  BY <1>1, FS_EmptySet
<1> QED BY <1>1, <1>3, <1>4

(* An entry put in front of the others.                                    *)
LEMMA PutInFront ==
  ASSUME CacheInv, NEW id \in Ids, NEW e \in Entries, e.id = id, Use(id)
  PROVE  LET entries == <<e>> \o Others(id)
         IN  /\ entries \in Seq(Entries) /\ OneEach(entries) /\ InOrder(entries, since')
             /\ Len(entries) = Len(Others(id)) + 1 /\ Len(entries) \in Nat \ {0} /\ entries[1] = e
             /\ \A k \in 1..Len(entries) : k # 1 =>
                  \E j \in DOMAIN cache : entries[k] = cache[j] /\ cache[j].id # id
             /\ \A x : x # id /\ Has(cache, x) => \E k \in 1..Len(entries) : entries[k].id = x
<1> DEFINE others == Others(id)
           entries == <<e>> \o others
<1>1. /\ others \in Seq(Entries) /\ OneEach(others)
      /\ \A k \in DOMAIN others : others[k].id # id /\ \E j \in DOMAIN cache : others[k] = cache[j]
      /\ \A j \in DOMAIN cache : cache[j].id # id => \E k \in DOMAIN others : others[k] = cache[j]
      /\ \A i, j \in DOMAIN others : i < j =>
           \E p, q \in DOMAIN cache : p < q /\ others[i] = cache[p] /\ others[j] = cache[q]
  BY OthersAre DEF CacheInv
<1> HIDE DEF others
<1>2. /\ entries \in Seq(Entries) /\ Len(entries) = Len(others) + 1 /\ entries[1] = e
      /\ \A k \in 1..Len(others) : entries[k + 1] = others[k]
      /\ \A k \in 2..(Len(others) + 1) : entries[k] = others[k - 1]
  BY <1>1, InFront
<1> HIDE DEF entries
<1>3. /\ DOMAIN entries = 1..Len(entries) /\ DOMAIN others = 1..Len(others) /\ Len(others) \in Nat
      /\ Len(entries) \in Nat \ {0}
      /\ \A k \in DOMAIN entries : k # 1 => k - 1 \in DOMAIN others /\ entries[k] = others[k - 1]
  <2>1. DOMAIN entries = 1..Len(entries) /\ DOMAIN others = 1..Len(others) /\ Len(others) \in Nat
    BY <1>1, <1>2
  <2>2. \A k \in DOMAIN entries : k # 1 => k - 1 \in DOMAIN others /\ k \in 2..(Len(others) + 1)
    BY <1>2, <2>1
  <2> QED BY <1>2, <2>1, <2>2
<1>4. ASSUME NEW i \in DOMAIN entries, NEW j \in DOMAIN entries, entries[i].id = entries[j].id
      PROVE  i = j
  <2>1. CASE i = 1 \/ j = 1
    BY <1>1, <1>2, <1>3, <1>4, <2>1
  <2>2. CASE i # 1 /\ j # 1
    <3>1. /\ i - 1 \in DOMAIN others /\ entries[i] = others[i - 1]
          /\ j - 1 \in DOMAIN others /\ entries[j] = others[j - 1]
      BY <1>3, <2>2
    <3>2. i - 1 = j - 1
      BY <1>1, <1>4, <3>1 DEF OneEach
    <3> QED BY <1>3, <3>2
  <2> QED BY <2>1, <2>2
<1>5. ASSUME NEW i \in DOMAIN entries, NEW j \in DOMAIN entries, i < j
      PROVE  entries[i].id \in since'[entries[j].id]
  <2>1. j # 1 /\ j - 1 \in DOMAIN others /\ entries[j] = others[j - 1]
    BY <1>3, <1>5
  <2>2. entries[j].id \in Ids \ {id}
    <3>1. others[j - 1] \in Entries /\ others[j - 1].id # id
      BY <1>1, <2>1
    <3> QED BY <2>1, <3>1 DEF Entries
  <2>3. since'[entries[j].id] = since[entries[j].id] \cup {id}
    BY <2>2, WaitGrows
  <2>4. CASE i = 1
    BY <1>2, <2>3, <2>4
  <2>5. CASE i # 1
    <3>1. i - 1 \in DOMAIN others /\ entries[i] = others[i - 1] /\ i - 1 < j - 1
      BY <1>3, <1>5, <2>5
    <3>2. PICK p \in DOMAIN cache, q \in DOMAIN cache :
            p < q /\ others[i - 1] = cache[p] /\ others[j - 1] = cache[q]
      BY <1>1, <2>1, <3>1
    <3>3. cache[p].id \in since[cache[q].id]
      BY <3>2 DEF CacheInv, InOrder
    <3> QED BY <2>1, <2>3, <3>1, <3>2, <3>3
  <2> QED BY <2>4, <2>5
<1>6. ASSUME NEW k \in 1..Len(entries), k # 1
      PROVE  \E j \in DOMAIN cache : entries[k] = cache[j] /\ cache[j].id # id
  <2>1. k - 1 \in DOMAIN others /\ entries[k] = others[k - 1]
    BY <1>3, <1>6
  <2>2. PICK j \in DOMAIN cache : others[k - 1] = cache[j]
    BY <1>1, <2>1
  <2> QED BY <1>1, <2>1, <2>2
<1>7. ASSUME NEW x, x # id, Has(cache, x)
      PROVE  \E k \in 1..Len(entries) : entries[k].id = x
  <2>1. PICK j \in DOMAIN cache : cache[j].id = x
    BY <1>7 DEF Has
  <2>2. PICK k \in DOMAIN others : others[k] = cache[j]
    BY <1>1, <1>7, <2>1
  <2>3. k + 1 \in 1..Len(entries) /\ entries[k + 1] = others[k]
    BY <1>2, <1>3, <2>2
  <2> QED BY <2>1, <2>2, <2>3
<1>8. OneEach(entries) /\ InOrder(entries, since')
  BY <1>4, <1>5 DEF OneEach, InOrder
<1> QED BY <1>2, <1>3, <1>6, <1>7, <1>8 DEF entries, others

(* As many sessions as there are entries in front of one.                  *)
LEMMA ManyInFront ==
  ASSUME NEW s \in Seq(Entries), OneEach(s), NEW n \in Nat, n <= Len(s),
         NEW T, IsFiniteSet(T), \A i \in 1..n : s[i].id \in T
  PROVE  Cardinality(T) >= n
<1> SUFFICES ASSUME ~(Cardinality(T) >= n) PROVE FALSE
  OBVIOUS
<1> DEFINE S == 1..n
           f == [i \in S |-> s[i].id]
<1>1. IsFiniteSet(S) /\ Cardinality(S) = n
  <2>1. IsFiniteSet(1..n) /\ Cardinality(1..n) = IF 1 > n THEN 0 ELSE n - 1 + 1
    BY FS_Interval
  <2> QED BY <2>1
<1>2. f \in [S -> T]
  OBVIOUS
<1>3. Cardinality(T) < Cardinality(S)
  BY <1>1, FS_CardinalityType
<1>4. \A i \in S : f[i] = s[i].id /\ i \in DOMAIN s
  OBVIOUS
<1> HIDE DEF S, f
<1>5. \E i, j \in S : i # j /\ f[i] = f[j]
  BY <1>1, <1>2, <1>3, FS_PigeonHole
<1> QED BY <1>4, <1>5 DEF OneEach

(* Add.                                                                    *)
LEMMA Added ==
  ASSUME CacheInv, NEW id \in Ids, NEW m \in Models, CacheAdd(id, m)
  PROVE  /\ CacheInv'
         /\ \A i \in DOMAIN cache' :
              \/ cache'[i] = [id |-> id, model |-> m]
              \/ \E j \in DOMAIN cache : cache'[i] = cache[j] /\ cache[j].id # id
<1> DEFINE e == [id |-> id, model |-> m]
           entries == <<e>> \o Others(id)
           kept == IF Len(entries) > maxSessions THEN maxSessions ELSE Len(entries)
<1>1. cache' = SubSeq(entries, 1, kept) /\ Use(id) /\ absent' = absent \ {id}
  BY DEF CacheAdd
<1>2. e \in Entries /\ e.id = id
  BY DEF Entries
<1> HIDE DEF e
<1>3. /\ entries \in Seq(Entries) /\ OneEach(entries) /\ InOrder(entries, since')
      /\ Len(entries) \in Nat \ {0} /\ entries[1] = e
      /\ \A k \in 1..Len(entries) : k # 1 =>
           \E j \in DOMAIN cache : entries[k] = cache[j] /\ cache[j].id # id
      /\ \A x : x # id /\ Has(cache, x) => \E k \in 1..Len(entries) : entries[k].id = x
  BY <1>1, <1>2, PutInFront
<1> HIDE DEF entries
<1>4. kept \in 1..Len(entries) /\ kept <= maxSessions /\ (kept < Len(entries) => kept = maxSessions)
  BY <1>3, AffinityAssumption
<1> HIDE DEF kept
<1>5. /\ cache' \in Seq(Entries) /\ Len(cache') = kept /\ DOMAIN cache' = 1..kept
      /\ \A i \in 1..kept : cache'[i] = entries[i] /\ i \in DOMAIN entries
  BY <1>1, <1>3, <1>4, SubSeqProperties
<1>6. OneEach(cache') /\ InOrder(cache', since')
  BY <1>3, <1>5 DEF OneEach, InOrder
<1>7. /\ since' \in [Ids -> SUBSET Ids] /\ \A x \in Ids : IsFiniteSet(since'[x])
      /\ \A x \in Ids \ {id} : Cardinality(since'[x]) >= Cardinality(since[x])
  BY <1>1, WaitGrows
<1>8. ASSUME NEW x \in Ids \ absent'
      PROVE  Has(cache', x) \/ Cardinality(since'[x]) >= maxSessions
  <2>1. CASE x = id
    BY <1>2, <1>3, <1>4, <1>5, <2>1 DEF Has
  <2>2. CASE x # id
    <3>1. Has(cache, x) \/ Cardinality(since[x]) >= maxSessions
      BY <1>1, <1>8, <2>2 DEF CacheInv
    <3>2. CASE Cardinality(since[x]) >= maxSessions
      <4>1. Cardinality(since[x]) \in Nat /\ Cardinality(since'[x]) \in Nat /\ maxSessions \in Nat
        BY <1>7, FS_CardinalityType, AffinityAssumption DEF CacheInv
      <4> QED BY <1>7, <2>2, <3>2, <4>1
    <3>3. CASE Has(cache, x)
      <4>1. PICK k \in 1..Len(entries) : entries[k].id = x
        BY <1>3, <2>2, <3>3
      <4>2. CASE k <= kept
        <5>1. k \in 1..kept
          BY <1>4, <4>2
        <5> QED BY <1>5, <4>1, <5>1 DEF Has
      <4>3. CASE ~(k <= kept)
        <5>1. kept = maxSessions /\ maxSessions \in Nat /\ maxSessions <= Len(entries)
          BY <1>3, <1>4, <4>3, AffinityAssumption
        <5>2. \A i \in 1..maxSessions : entries[i].id \in since'[x]
          BY <1>3, <1>4, <4>1, <4>3, <5>1 DEF InOrder
        <5>3. IsFiniteSet(since'[x])
          BY <1>7
        <5> DEFINE T == since'[x]
        <5> HIDE DEF T
        <5>4. Cardinality(T) >= maxSessions
          <6>1. IsFiniteSet(T) /\ \A i \in 1..maxSessions : entries[i].id \in T
            BY <5>2, <5>3 DEF T
          <6> QED BY <1>3, <5>1, <6>1, ManyInFront
        <5> QED BY <5>4 DEF T
      <4> QED BY <4>2, <4>3
    <3> QED BY <3>1, <3>2, <3>3
  <2> QED BY <2>1, <2>2
<1>9. CacheInv'
  BY <1>4, <1>5, <1>6, <1>7, <1>8 DEF CacheInv
<1>10. ASSUME NEW i \in DOMAIN cache'
       PROVE  cache'[i] = e \/ \E j \in DOMAIN cache : cache'[i] = cache[j] /\ cache[j].id # id
  <2>1. cache'[i] = entries[i] /\ i \in 1..Len(entries)
    BY <1>4, <1>5
  <2> QED BY <1>3, <2>1
<1> QED BY <1>9, <1>10 DEF e

(* Get makes an entry the most recent one, and leaves what is there.       *)
LEMMA Looked ==
  ASSUME CacheInv, NEW id \in Ids, Known(id),
         cache' = <<Entry(id)>> \o Others(id), Use(id), absent' = absent
  PROVE  /\ CacheInv'
         /\ \A i \in DOMAIN cache' : \E j \in DOMAIN cache : cache'[i] = cache[j]
<1>1. PICK p \in DOMAIN cache : Entry(id) = cache[p] /\ cache[p].id = id
  BY DEF Known, Entry, Place
<1>2. Entry(id) \in Entries /\ Entry(id).id = id
  BY <1>1 DEF CacheInv
<1>3. /\ cache' \in Seq(Entries) /\ OneEach(cache') /\ InOrder(cache', since')
      /\ Len(cache') = Len(Others(id)) + 1 /\ Len(cache') \in Nat \ {0} /\ cache'[1] = Entry(id)
      /\ \A k \in 1..Len(cache') : k # 1 =>
           \E j \in DOMAIN cache : cache'[k] = cache[j] /\ cache[j].id # id
      /\ \A x : x # id /\ Has(cache, x) => \E k \in 1..Len(cache') : cache'[k].id = x
  <2>1. PICK e \in Entries : e = Entry(id) /\ e.id = id
    BY <1>2
  <2> DEFINE entries == <<e>> \o Others(id)
  <2>2. /\ entries \in Seq(Entries) /\ OneEach(entries) /\ InOrder(entries, since')
        /\ Len(entries) = Len(Others(id)) + 1 /\ Len(entries) \in Nat \ {0} /\ entries[1] = e
        /\ \A k \in 1..Len(entries) : k # 1 =>
             \E j \in DOMAIN cache : entries[k] = cache[j] /\ cache[j].id # id
        /\ \A x : x # id /\ Has(cache, x) => \E k \in 1..Len(entries) : entries[k].id = x
    BY <2>1, PutInFront
  <2>3. cache' = entries
    BY <2>1
  <2> HIDE DEF entries
  <2> QED BY <2>1, <2>2, <2>3
<1>4. Len(cache') <= maxSessions
  <2>1. Len(Others(id)) = Len(cache) - 1
    BY OthersAre DEF CacheInv
  <2> QED BY <1>3, <2>1 DEF CacheInv
<1>5. DOMAIN cache' = 1..Len(cache')
  BY <1>3
<1>6. /\ since' \in [Ids -> SUBSET Ids] /\ \A x \in Ids : IsFiniteSet(since'[x])
      /\ \A x \in Ids \ {id} : Cardinality(since'[x]) >= Cardinality(since[x])
  BY WaitGrows
<1>7. ASSUME NEW x \in Ids \ absent
      PROVE  Has(cache', x) \/ Cardinality(since'[x]) >= maxSessions
  <2>1. CASE x = id
    <3>1. 1 \in DOMAIN cache' /\ cache'[1].id = x
      BY <1>2, <1>3, <1>5, <2>1
    <3> QED BY <3>1 DEF Has
  <2>2. CASE x # id
    <3>1. CASE Has(cache, x)
      BY <1>3, <1>5, <2>2, <3>1 DEF Has
    <3>2. CASE Cardinality(since[x]) >= maxSessions
      <4>1. Cardinality(since[x]) \in Nat /\ Cardinality(since'[x]) \in Nat /\ maxSessions \in Nat
        BY <1>6, FS_CardinalityType, AffinityAssumption DEF CacheInv
      <4> QED BY <1>6, <2>2, <3>2, <4>1
    <3> QED BY <3>1, <3>2 DEF CacheInv
  <2> QED BY <2>1, <2>2
<1>8. CacheInv'
  BY <1>3, <1>4, <1>6, <1>7 DEF CacheInv
<1>9. \A i \in DOMAIN cache' : \E j \in DOMAIN cache : cache'[i] = cache[j]
  BY <1>1, <1>3, <1>5
<1> QED BY <1>8, <1>9

(* What ClientInv says of the cache, when no client's session changes and  *)
(* no entry gets another model.                                            *)
LEMMA QuietClients ==
  ASSUME AffinityInv, UNCHANGED <<sessionId, turn, lastModel, used>>,
         \A i \in DOMAIN cache' : \E j \in DOMAIN cache : cache'[i] = cache[j]
  PROVE  ClientInv'
<1>1. \A c \in Clients : Session(c)' = Session(c) /\ (Owner(c)' <=> Owner(c))
  BY DEF Session, Owner
<1> QED BY <1>1 DEF AffinityInv, ClientInv

(* An entry whose time is over leaves, and its session is noted.           *)
LEMMA Expired ==
  ASSUME AffinityInv, NEW id \in Ids, Expire(id)
  PROVE  AffinityInv'
<1> DEFINE others == Others(id)
<1>1. /\ others \in Seq(Entries) /\ OneEach(others) /\ Len(others) <= Len(cache)
      /\ \A k \in DOMAIN others : others[k].id # id /\ \E j \in DOMAIN cache : others[k] = cache[j]
      /\ \A j \in DOMAIN cache : cache[j].id # id => \E k \in DOMAIN others : others[k] = cache[j]
      /\ \A i, j \in DOMAIN others : i < j =>
           \E p, q \in DOMAIN cache : p < q /\ others[i] = cache[p] /\ others[j] = cache[q]
  BY OthersAre DEF AffinityInv, CacheInv
<1>2. /\ cache' = others /\ absent' = absent \cup {id}
      /\ UNCHANGED <<candidates, used, sessionId, turn, lastModel, since>>
  BY DEF Expire
<1> HIDE DEF others
<1>3. Len(others) <= maxSessions
  BY <1>1, AffinityAssumption DEF AffinityInv, CacheInv
<1>4. \A x \in Ids \ absent' : Has(others, x) \/ Cardinality(since[x]) >= maxSessions
  <2> SUFFICES ASSUME NEW x \in Ids, x # id, Has(cache, x) PROVE Has(others, x)
    BY <1>2 DEF AffinityInv, CacheInv
  <2> QED BY <1>1 DEF Has
<1>5. InOrder(others, since)
  <2> SUFFICES ASSUME NEW i \in DOMAIN others, NEW j \in DOMAIN others, i < j
               PROVE  others[i].id \in since[others[j].id]
    BY DEF InOrder
  <2>1. PICK p \in DOMAIN cache, q \in DOMAIN cache :
          p < q /\ others[i] = cache[p] /\ others[j] = cache[q]
    BY <1>1
  <2>2. cache[p].id \in since[cache[q].id]
    BY <2>1 DEF AffinityInv, CacheInv, InOrder
  <2> QED BY <2>1, <2>2
<1>6. CacheInv'
  BY <1>1, <1>2, <1>3, <1>4, <1>5 DEF AffinityInv, CacheInv
<1>7. ATypeOK'
  BY <1>1, <1>2, <1>3 DEF AffinityInv, ATypeOK, Entries, OneEach
<1>8. ClientInv'
  BY <1>1, <1>2, QuietClients
<1> QED BY <1>6, <1>7, <1>8 DEF AffinityInv

LEMMA Scored ==
  ASSUME AffinityInv, NEW c \in Clients, Score(c)
  PROVE  AffinityInv'
<1> DEFINE id == sessionId[c]
           hit == id # Nil /\ Known(id)
<1>0. /\ UNCHANGED <<candidates, used, sessionId, lastModel, absent>>
      /\ id \in Ids \cup {Nil} /\ turn[c].phase = "idle"
  BY DEF Score, AffinityInv, ATypeOK
<1>1. PICK m \in candidates : turn' = [turn EXCEPT ![c] =
          [phase |-> "routed", cycle |-> id, routed |-> m, echo |-> Nil]]
  BY DEF Score, Route
<1>2. CacheInv' /\ \A i \in DOMAIN cache' : \E j \in DOMAIN cache : cache'[i] = cache[j]
  <2>1. CASE hit
    <3>1. cache' = <<Entry(id)>> \o Others(id) /\ Use(id)
      BY <2>1 DEF Score
    <3> QED BY <2>1, <3>1, <1>0, Looked DEF AffinityInv
  <2>2. CASE ~hit
    <3>1. cache' = cache /\ since' = since
      BY <2>2 DEF Score
    <3> QED BY <3>1, <1>0 DEF AffinityInv, CacheInv
  <2> QED BY <2>1, <2>2
<1>3. ATypeOK'
  <2>1. m \in Models
    BY DEF AffinityInv, ATypeOK
  <2>2. turn' \in [Clients -> Turns]
    BY <1>0, <1>1, <2>1 DEF AffinityInv, ATypeOK, Turns
  <2> QED BY <1>0, <1>2, <2>2 DEF AffinityInv, ATypeOK, CacheInv, Entries, OneEach, Turns
<1>4. \A d \in Clients : turn'[d] = IF d = c
          THEN [phase |-> "routed", cycle |-> id, routed |-> m, echo |-> Nil]
          ELSE turn[d]
  BY <1>1 DEF AffinityInv, ATypeOK
<1>5. \A d \in Clients : Session(d)' = Session(d)
  BY <1>0, <1>4 DEF AffinityInv, ClientInv, Session
<1>6. \A d \in Clients : Owner(d)' /\ Session(d) # Nil => Owner(d)
  BY <1>0, <1>4, <1>5 DEF AffinityInv, ClientInv, Owner
<1>7. \A i \in DOMAIN cache' : cache'[i].id # Nil
  <2>1. \A i \in DOMAIN cache' : cache'[i] \in Entries
    BY <1>2 DEF CacheInv
  <2> QED BY <2>1, AffinityAssumption DEF Entries
<1>8. ASSUME NEW d \in Clients, lastModel'[d] # Nil, Owner(d)',
             NEW i \in DOMAIN cache', cache'[i].id = Session(d)'
      PROVE  cache'[i].model = lastModel'[d]
  <2>1. Owner(d) /\ lastModel[d] # Nil
    BY <1>0, <1>5, <1>6, <1>7, <1>8
  <2>2. PICK j \in DOMAIN cache : cache'[i] = cache[j]
    BY <1>2
  <2> QED BY <1>0, <1>5, <1>8, <2>1, <2>2 DEF AffinityInv, ClientInv
<1>9. ClientInv'
  <2>1. \A d \in Clients : /\ Session(d)' # Nil => Session(d)' \in used'
                           /\ sessionId'[d] # Nil => sessionId'[d] \in used'
    BY <1>0, <1>5 DEF AffinityInv, ClientInv
  <2>2. \A d \in Clients : /\ turn'[d].phase = "idle" => turn'[d].cycle = Nil
                           /\ turn'[d].phase # "idle" => turn'[d].cycle = sessionId'[d]
                           /\ turn'[d].echo # Nil =>
                                turn'[d].phase = "answered" /\ turn'[d].cycle \in {Nil, turn'[d].echo}
    BY <1>0, <1>4 DEF AffinityInv, ClientInv
  <2> QED BY <1>8, <2>1, <2>2 DEF ClientInv
<1> QED BY <1>2, <1>3, <1>9 DEF AffinityInv

(* A response records its model for the session of its turn, or for a new  *)
(* session: one that no other client has.                                  *)
LEMMA Responded ==
  ASSUME AffinityInv, NEW c \in Clients, ProcessResponse(c)
  PROVE  AffinityInv'
<1>1. PICK m \in Models, id \in IF turn[c].cycle # Nil THEN {turn[c].cycle} ELSE Ids \ used :
        /\ CacheAdd(id, m)
        /\ used' = used \cup {id}
        /\ lastModel' = [lastModel EXCEPT ![c] = m]
        /\ turn' = [turn EXCEPT ![c] = [@ EXCEPT !.phase = "answered", !.echo = id]]
  BY DEF ProcessResponse
<1>2. UNCHANGED <<candidates, sessionId>> /\ turn[c].phase = "routed"
  BY DEF ProcessResponse
<1>3. id \in Ids /\ turn[c].cycle = sessionId[c] /\ id # Nil
  BY <1>2, AffinityAssumption DEF AffinityInv, ClientInv, ATypeOK
<1>4. /\ CacheInv'
      /\ \A i \in DOMAIN cache' :
           \/ cache'[i] = [id |-> id, model |-> m]
           \/ \E j \in DOMAIN cache : cache'[i] = cache[j] /\ cache[j].id # id
  BY <1>1, <1>3, Added DEF AffinityInv
<1>5. ATypeOK'
  <2>1. turn' \in [Clients -> Turns]
    <3> DEFINE t == [turn[c] EXCEPT !.phase = "answered", !.echo = id]
    <3>1. turn \in [Clients -> Turns]
      BY DEF AffinityInv, ATypeOK, Turns
    <3>2. t \in Turns
      BY <3>1, <1>3 DEF Turns
    <3> QED BY <3>1, <3>2, <1>1
  <2>2. /\ used' \subseteq Ids /\ lastModel' \in [Clients -> Models \cup {Nil}]
        /\ absent' \subseteq Ids
    BY <1>1, <1>3 DEF AffinityInv, ATypeOK, CacheAdd
  <2> QED BY <1>2, <1>4, <2>1, <2>2 DEF AffinityInv, ATypeOK, CacheInv, Entries, OneEach, Turns
<1>6. /\ \A d \in Clients : lastModel'[d] = IF d = c THEN m ELSE lastModel[d]
      /\ \A d \in Clients \ {c} : turn'[d] = turn[d]
      /\ turn'[c].phase = "answered" /\ turn'[c].cycle = turn[c].cycle /\ turn'[c].echo = id
  BY <1>1 DEF AffinityInv, ATypeOK
<1>7. Session(c)' = id /\ \A d \in Clients \ {c} : Session(d)' = Session(d)
  BY <1>2, <1>3, <1>6 DEF Session
<1>8. ASSUME NEW d \in Clients, lastModel'[d] # Nil, Owner(d)',
             NEW i \in DOMAIN cache', cache'[i].id = Session(d)'
      PROVE  cache'[i].model = lastModel'[d]
  <2>1. CASE d = c
    BY <1>4, <1>6, <1>7, <1>8, <2>1
  <2>2. CASE d # c
    <3>1. Owner(d)
      BY <1>2, <1>6, <1>7, <1>8, <2>2 DEF Owner
    <3>2. Session(d) # Nil /\ Session(d) \in used
      <4>1. cache'[i].id \in Ids
        <5>1. cache'[i] \in Entries
          BY <1>4 DEF CacheInv
        <5> QED BY <5>1 DEF Entries
      <4> QED BY <1>7, <1>8, <2>2, <4>1, AffinityAssumption DEF AffinityInv, ClientInv
    <3>3. Session(d) # id
      <4>1. turn[c].cycle # Session(d)
        BY <2>2, <3>1 DEF Owner
      <4> QED BY <1>1, <3>2, <4>1
    <3>4. PICK j \in DOMAIN cache : cache'[i] = cache[j]
      BY <1>4, <1>7, <1>8, <2>2, <3>3
    <3> QED BY <1>6, <1>7, <1>8, <2>2, <3>1, <3>4 DEF AffinityInv, ClientInv
  <2> QED BY <2>1, <2>2
<1>9. ClientInv'
  <2>1. \A d \in Clients : /\ Session(d)' # Nil => Session(d)' \in used'
                           /\ sessionId'[d] # Nil => sessionId'[d] \in used'
    BY <1>1, <1>2, <1>7 DEF AffinityInv, ClientInv
  <2>2. \A d \in Clients : /\ turn'[d].phase = "idle" => turn'[d].cycle = Nil
                           /\ turn'[d].phase # "idle" => turn'[d].cycle = sessionId'[d]
                           /\ turn'[d].echo # Nil =>
                                turn'[d].phase = "answered" /\ turn'[d].cycle \in {Nil, turn'[d].echo}
    <3> SUFFICES ASSUME NEW d \in Clients
                 PROVE  /\ turn'[d].phase = "idle" => turn'[d].cycle = Nil
                        /\ turn'[d].phase # "idle" => turn'[d].cycle = sessionId'[d]
                        /\ turn'[d].echo # Nil =>
                             turn'[d].phase = "answered" /\ turn'[d].cycle \in {Nil, turn'[d].echo}
      OBVIOUS
    <3>1. CASE d = c
      BY <1>1, <1>2, <1>3, <1>6, <3>1
    <3>2. CASE d # c
      BY <1>2, <1>6, <3>2 DEF AffinityInv, ClientInv
    <3> QED BY <3>1, <3>2
  <2> QED BY <1>8, <2>1, <2>2 DEF ClientInv
<1> QED BY <1>4, <1>5, <1>9 DEF AffinityInv

(* A turn ends, with or without its response, or the response is skipped.  *)
LEMMA Ended ==
  ASSUME AffinityInv, NEW c \in Clients,
         ProcessResponseNoModel(c) \/ Deliver(c) \/ Lose(c)
  PROVE  AffinityInv'
<1>1. UNCHANGED <<candidates, cache, used, lastModel, since, absent>>
  BY DEF ProcessResponseNoModel, Deliver, Lose
<1>2. turn \in [Clients -> Turns] /\ sessionId \in [Clients -> Ids \cup {Nil}]
  BY DEF AffinityInv, ATypeOK, Turns
<1>3. /\ turn' \in [Clients -> Turns] /\ sessionId' \in [Clients -> Ids \cup {Nil}]
      /\ \A d \in Clients \ {c} : turn'[d] = turn[d] /\ sessionId'[d] = sessionId[d]
  BY <1>2 DEF ProcessResponseNoModel, Deliver, Lose, NoTurn, Turns
<1>4. ATypeOK'
  BY <1>1, <1>3 DEF AffinityInv, ATypeOK, Turns
<1>5. CacheInv'
  BY <1>1 DEF AffinityInv, CacheInv
<1>6. /\ turn[c].phase # "idle" /\ turn[c].cycle = sessionId[c]
      /\ turn[c].echo # Nil => turn[c].phase = "answered" /\ turn[c].cycle \in {Nil, turn[c].echo}
  BY DEF AffinityInv, ClientInv, ProcessResponseNoModel, Deliver, Lose
<1>7. \/ /\ turn'[c].phase = "answered" /\ turn'[c].cycle = turn[c].cycle /\ turn'[c].echo = Nil
         /\ turn[c].echo = Nil /\ sessionId'[c] = sessionId[c]
      \/ turn'[c] = NoTurn /\ sessionId'[c] = Session(c)
      \/ turn'[c] = NoTurn /\ sessionId'[c] = sessionId[c]
  <2>1. CASE ProcessResponseNoModel(c)
    BY <1>2, <1>6, <2>1 DEF ProcessResponseNoModel
  <2>2. CASE Deliver(c)
    BY <1>2, <2>2 DEF Deliver, Session
  <2>3. CASE Lose(c)
    BY <1>2, <2>3 DEF Lose
  <2> QED BY <2>1, <2>2, <2>3
<1>8. /\ Session(c)' = sessionId'[c] /\ Session(c)' \in {Session(c), sessionId[c]}
      /\ turn'[c].echo = Nil
      /\ turn'[c].cycle \in {Nil, sessionId[c]} /\ (turn'[c].phase = "idle" => turn'[c].cycle = Nil)
      /\ turn'[c].phase # "idle" => turn'[c].cycle = sessionId'[c]
  BY <1>6, <1>7 DEF NoTurn, Session
<1>9. \A d \in Clients \ {c} : Session(d)' = Session(d)
  BY <1>3 DEF Session
<1>10. ASSUME NEW d \in Clients, lastModel'[d] # Nil, Owner(d)',
              NEW i \in DOMAIN cache', cache'[i].id = Session(d)'
       PROVE  cache'[i].model = lastModel'[d]
  <2>1. Session(d)' # Nil
    <3>1. cache'[i].id \in Ids
      <4>1. cache'[i] \in Entries
        BY <1>5 DEF CacheInv
      <4> QED BY <4>1 DEF Entries
    <3> QED BY <1>10, <3>1, AffinityAssumption
  <2>2. Session(d)' = Session(d)
    <3>1. CASE d = c
      <4>1. CASE sessionId[c] = Nil
        BY <1>8, <2>1, <3>1, <4>1
      <4>2. CASE sessionId[c] # Nil
        BY <1>6, <1>8, <3>1, <4>2 DEF Session
      <4> QED BY <4>1, <4>2
    <3>2. CASE d # c
      BY <1>9, <3>2
    <3> QED BY <3>1, <3>2
  <2>3. Owner(d)
    <3> SUFFICES ASSUME NEW b \in Clients \ {d}
                 PROVE  sessionId[b] # Session(d) /\ turn[b].cycle # Session(d)
      BY DEF Owner
    <3>1. sessionId'[b] # Session(d) /\ turn'[b].cycle # Session(d)
      BY <1>10, <2>2 DEF Owner
    <3>2. CASE b # c
      BY <1>3, <3>1, <3>2
    <3>3. CASE b = c
      <4>1. CASE sessionId[c] = Nil
        BY <1>6, <2>1, <2>2, <3>3, <4>1
      <4>2. CASE sessionId[c] # Nil
        BY <1>6, <1>8, <3>1, <3>3, <4>2 DEF Session
      <4> QED BY <4>1, <4>2
    <3> QED BY <3>2, <3>3
  <2> QED BY <1>1, <1>10, <2>2, <2>3 DEF AffinityInv, ClientInv
<1>11. ClientInv'
  <2>1. \A d \in Clients : /\ Session(d)' # Nil => Session(d)' \in used'
                           /\ sessionId'[d] # Nil => sessionId'[d] \in used'
    BY <1>1, <1>3, <1>8, <1>9 DEF AffinityInv, ClientInv
  <2>2. \A d \in Clients : /\ turn'[d].phase = "idle" => turn'[d].cycle = Nil
                           /\ turn'[d].phase # "idle" => turn'[d].cycle = sessionId'[d]
                           /\ turn'[d].echo # Nil =>
                                turn'[d].phase = "answered" /\ turn'[d].cycle \in {Nil, turn'[d].echo}
    BY <1>3, <1>8 DEF AffinityInv, ClientInv
  <2> QED BY <1>10, <2>1, <2>2 DEF ClientInv
<1> QED BY <1>4, <1>5, <1>11 DEF AffinityInv

LEMMA AffinityStep ==
  ASSUME AffinityInv, [ANext]_avars
  PROVE  AffinityInv'
<1>1. ASSUME UNCHANGED <<cache, used, sessionId, turn, lastModel, since, absent>>,
             candidates' \subseteq Models
      PROVE  AffinityInv'
  <2>1. ATypeOK' /\ CacheInv'
    BY <1>1 DEF AffinityInv, ATypeOK, CacheInv
  <2>2. ClientInv'
    BY <1>1, QuietClients
  <2> QED BY <2>1, <2>2 DEF AffinityInv
<1>2. ASSUME NEW S \in SUBSET Models, ChangeCandidates(S) PROVE AffinityInv'
  BY <1>1, <1>2 DEF ChangeCandidates
<1>3. ASSUME NEW id \in Ids, Expire(id) PROVE AffinityInv'
  BY <1>3, Expired
<1>4. ASSUME NEW c \in Clients, Score(c) PROVE AffinityInv'
  BY <1>4, Scored
<1>5. ASSUME NEW c \in Clients, ProcessResponse(c) PROVE AffinityInv'
  BY <1>5, Responded
<1>6. ASSUME NEW c \in Clients, ProcessResponseNoModel(c) \/ Deliver(c) \/ Lose(c) PROVE AffinityInv'
  BY <1>6, Ended
<1>7. CASE UNCHANGED avars
  BY <1>1, <1>7 DEF avars, AffinityInv, ATypeOK
<1> QED BY <1>2, <1>3, <1>4, <1>5, <1>6, <1>7 DEF ANext

(* The scorer and its clients keep the inductive invariant.                *)
THEOREM AffinityInvariance ==
  ASpec => []AffinityInv
<1>1. AffinityInv /\ [ANext]_avars => AffinityInv'
  BY AffinityStep
<1>2. AInit => AffinityInv
  BY AffinityInit
<1> QED BY <1>1, <1>2, PTL DEF ASpec

(* The cache keeps within maxSessions with one entry a session, and evicts *)
(* a session only when maxSessions others were used after it, for any      *)
(* number of sessions and any order of turns, losses and expiries.         *)
THEOREM RecentKept ==
  ASpec => [](ATypeOK /\ RecentSessionsKept)
<1>1. ASSUME AffinityInv, NEW id \in Ids, Recent(id) PROVE Known(id)
  <2>1. IsFiniteSet(since[id])
    BY <1>1 DEF AffinityInv, CacheInv
  <2>2. Cardinality(since[id]) \in Nat /\ maxSessions \in Nat
    BY <2>1, FS_CardinalityType, AffinityAssumption
  <2>3. ~(Cardinality(since[id]) >= maxSessions) /\ id \notin absent
    BY <1>1, <2>2 DEF Recent
  <2>4. Has(cache, id)
    BY <1>1, <2>3 DEF AffinityInv, CacheInv
  <2> QED BY <2>4 DEF Has, Known
<1>2. AffinityInv => ATypeOK /\ RecentSessionsKept
  BY <1>1 DEF AffinityInv, RecentSessionsKept
<1> QED BY <1>2, AffinityInvariance, PTL

(* A turn of a session that its client has to itself goes to the model its *)
(* last response named, delivered or lost, if that is a candidate and the  *)
(* session recent.                                                         *)
THEOREM TurnsStick ==
  ASpec => StickyTurns
<1> DEFINE Sticks(c) ==
        turn[c].phase = "idle" /\ turn'[c].phase = "routed" /\ Alone(c)
        /\ sessionId[c] # Nil /\ Recent(sessionId[c]) /\ lastModel[c] \in candidates
            => turn'[c].routed = lastModel[c]
<1>1. ASSUME AffinityInv, RecentSessionsKept, [ANext]_avars
      PROVE  [\A c \in Clients : Sticks(c)]_avars
  <2> SUFFICES ASSUME ANext, NEW c \in Clients,
                      turn[c].phase = "idle", turn'[c].phase = "routed", Alone(c), sessionId[c] # Nil,
                      Recent(sessionId[c]), lastModel[c] \in candidates
               PROVE  turn'[c].routed = lastModel[c]
    BY <1>1
  <2>0. turn \in [Clients -> Turns]
    BY <1>1 DEF AffinityInv, ATypeOK, Turns
  <2>1. Score(c)
    <3>1. PICK d \in Clients : \/ Score(d) \/ ProcessResponse(d)
                               \/ ProcessResponseNoModel(d) \/ Deliver(d) \/ Lose(d)
      BY DEF ANext, ChangeCandidates, Expire
    <3>2. d = c
      BY <2>0, <3>1 DEF Score, Route, ProcessResponse, ProcessResponseNoModel, Deliver, Lose, Turns
    <3> QED BY <2>0, <3>1, <3>2 DEF ProcessResponse, ProcessResponseNoModel, Deliver, Lose, Turns
  <2>2. lastModel[c] # Nil /\ sessionId[c] \in Ids /\ Session(c) = sessionId[c]
    BY <1>1, AffinityAssumption DEF AffinityInv, ClientInv, ATypeOK, Session
  <2>3. Known(sessionId[c])
    BY <1>1, <2>2 DEF RecentSessionsKept
  <2>4. Entry(sessionId[c]).model = lastModel[c]
    <3>1. PICK p \in DOMAIN cache : Entry(sessionId[c]) = cache[p] /\ cache[p].id = sessionId[c]
      BY <2>3 DEF Known, Entry, Place
    <3>2. Owner(c)
      BY <2>2 DEF Alone, Owner
    <3> QED BY <1>1, <2>2, <3>1, <3>2 DEF AffinityInv, ClientInv
  <2>5. Route(c, sessionId[c], lastModel[c])
    BY <2>1, <2>3, <2>4 DEF Score
  <2> QED BY <2>0, <2>5 DEF Route
<1>2. AffinityInv /\ RecentSessionsKept /\ [ANext]_avars => [\A c \in Clients : Sticks(c)]_avars
  BY <1>1
<1> QED BY <1>2, AffinityInvariance, RecentKept, PTL DEF ASpec, StickyTurns
=============================================================================
