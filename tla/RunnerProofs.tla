---------------------------- MODULE RunnerProofs ----------------------------
(***************************************************************************)
(* Proofs about Runner and the accounting it composes with, for any        *)
(* streams, models and token limits and any room on the bus; and about     *)
(* CertReloader.                                                           *)
(***************************************************************************)
EXTENDS Runner, CertReloader, FiniteSetTheorems, SequenceTheorems, TLAPS

(* An event was posted: it waits, or it has been handled.                  *)
Waits(e) == InSeq(e, waiting)
Posted(e) == Waits(e) \/ Handled(e)
Raised(e) == Posted(e) \/ e \in lost

(* Each event is raised at most once and in one way ...                    *)
OnceInv ==
    /\ \A i, j \in DOMAIN waiting : waiting[i] = waiting[j] => i = j
    /\ \A e \in Events : Waits(e) => ~Handled(e) /\ e \notin lost
    /\ \A e \in Events : Handled(e) => e \notin lost

(* ... in the phase that raises it, the request first.                     *)
PhaseInv ==
    \A s \in Streams :
        /\ phase[s] = "idle" => ~Raised(Req(s)) /\ model[s] = NoModel
        /\ phase[s] \in {"forwarded", "aborted"} => Raised(Req(s))
        /\ phase[s] = "answered" => Raised(Req(s)) \/ model[s] = NoModel
        /\ Raised(Resp(s)) <=> phase[s] = "answered"

OrderInv ==
    \A s \in Streams :
        /\ \A i, j \in DOMAIN waiting : waiting[i] = Req(s) /\ waiting[j] = Resp(s) => i < j
        /\ Handled(Resp(s)) => ~Waits(Req(s))

(* The counts, as CountExplained bounds them.                              *)
CountInv ==
    \A m \in Models :
        /\ counters[m].requests \in
              Cardinality(SeenInFlight(m)) - Cardinality(Orphans(m)) .. Cardinality(SeenInFlight(m))
        /\ counters[m].tokens \in
              Reserved(SeenInFlight(m)) - Owed(SeenInFlight(m)) - Reserved(Orphans(m))
                .. Reserved(SeenInFlight(m)) - Owed(SeenInFlight(m)) + Owed(Touched(m))

AInv == TypeOK /\ OnceInv /\ PhaseInv /\ OrderInv /\ CountInv

-----------------------------------------------------------------------------
(* The run: nothing is served before the manager runs, no stream is open   *)
(* unless the ext_proc server has begun to serve and has not drained, and  *)
(* when the manager has returned in time it has drained.                   *)
Early == {"setup", "loadConfiguration", "processor.Start", "register"}
Late == {"processor.Stop", "exit", "returned"}
DrainInv ==
    /\ main \in Early => mgr = "new" /\ server["ext-proc"] = "added"
    /\ server["ext-proc"] \in {"added", "listening", "done"} => OpenStreams = {}
    /\ main \in Late /\ mgr # "expired" => server["ext-proc"] \in {"added", "done", "failed"}
    /\ ~open => cancelled \/ main \in {"exit", "returned"}
    /\ mgr # "expired" /\ server["ext-proc"] # "failed" => \A s \in Streams : conn[s] # "cut"

IInv == AInv /\ RTypeOK /\ DrainInv

-----------------------------------------------------------------------------
(* An amount for each stream, summed over a set of streams by counting:    *)
(* none, one stream more or less, and fewer in a subset.                   *)
Positive(x) == IF x > 0 THEN x ELSE 0
Units(amount, s) == {s} \X (1..amount[s])
Blocks(amount, S) == UNION {Units(amount, s) : s \in S}

LEMMA BlockOne ==
  ASSUME NEW amount \in [Streams -> Int], NEW s \in Streams
  PROVE  /\ IsFiniteSet(Units(amount, s))
         /\ Cardinality(Units(amount, s)) = Positive(amount[s])
         /\ Positive(amount[s]) \in Nat
<1>1. amount[s] \in Int /\ Positive(amount[s]) \in Nat
  BY DEF Positive
<1>2. IsFiniteSet({s}) /\ Cardinality({s}) = 1
  BY FS_Singleton
<1>3. 1..amount[s] = 1..Positive(amount[s])
  BY <1>1 DEF Positive
<1>4. IsFiniteSet(1..Positive(amount[s])) /\ Cardinality(1..Positive(amount[s])) = Positive(amount[s])
  <2>1. Cardinality(1..Positive(amount[s]))
          = IF 1 > Positive(amount[s]) THEN 0 ELSE Positive(amount[s]) - 1 + 1
    BY <1>1, FS_Interval
  <2>2. IsFiniteSet(1..Positive(amount[s]))
    BY <1>1, FS_Interval
  <2> QED BY <1>1, <2>1, <2>2
<1>5. /\ IsFiniteSet({s} \X (1..amount[s]))
      /\ Cardinality({s} \X (1..amount[s])) = Cardinality({s}) * Cardinality(1..amount[s])
  BY <1>2, <1>3, <1>4, FS_Product
<1> QED BY <1>1, <1>2, <1>3, <1>4, <1>5 DEF Units

LEMMA BlocksFinite ==
  ASSUME NEW amount \in [Streams -> Int], NEW S \in SUBSET Streams
  PROVE  IsFiniteSet(Blocks(amount, S)) /\ Cardinality(Blocks(amount, S)) \in Nat
<1> DEFINE T == {Units(amount, s) : s \in S}
           f == [s \in S |-> Units(amount, s)]
<1>1. IsFiniteSet(S)
  BY AccountingAssumption, FS_Subset
<1>2. f \in Surjection(S, T)
  BY DEF Surjection
<1>3. IsFiniteSet(T)
  BY <1>1, <1>2, FS_Surjection
<1>4. \A t \in T : IsFiniteSet(t)
  BY BlockOne
<1>5. IsFiniteSet(UNION T)
  BY <1>3, <1>4, FS_UNION
<1> QED BY <1>5, FS_CardinalityType DEF Blocks

LEMMA BlocksAdd ==
  ASSUME NEW amount \in [Streams -> Int], NEW S \in SUBSET Streams, NEW s \in Streams, s \notin S
  PROVE  Cardinality(Blocks(amount, S \cup {s}))
           = Cardinality(Blocks(amount, S)) + Positive(amount[s])
<1> DEFINE R == Units(amount, s)
           B == Blocks(amount, S)
<1>1. Blocks(amount, S \cup {s}) = B \cup R
  BY DEF Blocks
<1>2. B \cap R = {}
  BY DEF Blocks, Units
<1>3. IsFiniteSet(B) /\ IsFiniteSet(R) /\ Cardinality(R) = Positive(amount[s])
  BY BlocksFinite, BlockOne
<1>4. Cardinality(B \cup R) = Cardinality(B) + Cardinality(R) - Cardinality(B \cap R)
  BY <1>3, FS_Union
<1>5. Cardinality(B \cap R) = 0
  BY <1>2, FS_EmptySet
<1>6. Cardinality(B) \in Nat /\ Cardinality(R) \in Nat
  BY <1>3, FS_CardinalityType
<1>7. Cardinality(B \cup R) = Cardinality(B) + Cardinality(R)
  BY <1>4, <1>5, <1>6
<1> QED BY <1>1, <1>3, <1>7

LEMMA BlocksSubset ==
  ASSUME NEW amount \in [Streams -> Int], NEW S \in SUBSET Streams, NEW T \in SUBSET S
  PROVE  Cardinality(Blocks(amount, T)) <= Cardinality(Blocks(amount, S))
<1>1. Blocks(amount, T) \subseteq Blocks(amount, S)
  BY DEF Blocks
<1> QED BY <1>1, BlocksFinite, FS_Subset

(* The tokens that streams reserve and those that they take away.          *)
Negated == [s \in Streams |-> -MaxTokens[s]]

LEMMA TokensAreBlocks ==
  ASSUME NEW S \in SUBSET Streams
  PROVE  /\ Reserved(S) = Cardinality(Blocks(MaxTokens, S))
         /\ Owed(S) = Cardinality(Blocks(Negated, S))
         /\ MaxTokens \in [Streams -> Int] /\ Negated \in [Streams -> Int]
<1>1. MaxTokens \in [Streams -> Int] /\ Negated \in [Streams -> Int]
  BY AccountingAssumption DEF Negated
<1>2. {{s} \X (1..MaxTokens[s]) : s \in S} = {Units(MaxTokens, s) : s \in S}
  BY DEF Units
<1>3. {{s} \X (1..-MaxTokens[s]) : s \in S} = {Units(Negated, s) : s \in S}
  <2>1. \A s \in S : {s} \X (1..-MaxTokens[s]) = Units(Negated, s)
    BY DEF Units, Negated
  <2> QED BY <2>1
<1> QED BY <1>1, <1>2, <1>3 DEF Reserved, Owed, Blocks

LEMMA TokensTypes ==
  ASSUME NEW S \in SUBSET Streams
  PROVE  /\ Reserved(S) \in Nat /\ Owed(S) \in Nat
         /\ \A T \in SUBSET S : Owed(T) <= Owed(S)
BY TokensAreBlocks, BlocksFinite, BlocksSubset

LEMMA TokensAdd ==
  ASSUME NEW S \in SUBSET Streams, NEW s \in Streams, s \notin S
  PROVE  /\ Reserved(S \cup {s}) = Reserved(S) + Positive(MaxTokens[s])
         /\ Owed(S \cup {s}) = Owed(S) + Positive(-MaxTokens[s])
<1>1. Negated[s] = -MaxTokens[s]
  BY DEF Negated
<1>2. S \cup {s} \in SUBSET Streams
  OBVIOUS
<1> QED BY <1>1, <1>2, TokensAreBlocks, BlocksAdd

LEMMA TokensRemove ==
  ASSUME NEW S \in SUBSET Streams, NEW s \in S
  PROVE  /\ Reserved(S) = Reserved(S \ {s}) + Positive(MaxTokens[s])
         /\ Owed(S) = Owed(S \ {s}) + Positive(-MaxTokens[s])
<1>1. (S \ {s}) \cup {s} = S
  OBVIOUS
<1> QED BY <1>1, TokensAdd

(* Sets of streams are finite and have a size.                             *)
LEMMA StreamsCounted ==
  ASSUME NEW S \in SUBSET Streams
  PROVE  /\ IsFiniteSet(S) /\ Cardinality(S) \in Nat
         /\ \A s \in S : Cardinality(S \ {s}) = Cardinality(S) - 1 /\ Cardinality(S) > 0
         /\ \A s \in Streams \ S : Cardinality(S \cup {s}) = Cardinality(S) + 1
<1>1. IsFiniteSet(S) /\ Cardinality(S) \in Nat
  BY AccountingAssumption, FS_Subset, FS_CardinalityType
<1>2. ASSUME NEW s \in S PROVE Cardinality(S \ {s}) = Cardinality(S) - 1 /\ Cardinality(S) > 0
  <2>1. Cardinality(S \ {s}) = Cardinality(S) - 1 /\ Cardinality(S \ {s}) \in Nat
    BY <1>1, FS_RemoveElement, FS_CardinalityType
  <2> QED BY <1>1, <2>1
<1>3. ASSUME NEW s \in Streams \ S PROVE Cardinality(S \cup {s}) = Cardinality(S) + 1
  BY <1>1, FS_AddElement
<1> QED BY <1>1, <1>2, <1>3

-----------------------------------------------------------------------------
(* Membership in a sequence of events when one is appended or taken.       *)
LEMMA InAppend ==
  ASSUME NEW q \in Seq(Events), NEW x \in Events
  PROVE  /\ Append(q, x) \in Seq(Events)
         /\ \A e : InSeq(e, Append(q, x)) <=> InSeq(e, q) \/ e = x
<1>1. /\ Append(q, x) \in Seq(Events) /\ Len(Append(q, x)) = Len(q) + 1
      /\ \A i \in 1..Len(q) : Append(q, x)[i] = q[i]
      /\ Append(q, x)[Len(q) + 1] = x
  BY AppendProperties
<1>2. DOMAIN q = 1..Len(q) /\ DOMAIN Append(q, x) = 1..(Len(q) + 1) /\ Len(q) \in Nat
  BY <1>1, LenProperties
<1> QED BY <1>1, <1>2 DEF InSeq

LEMMA InTail ==
  ASSUME NEW q \in Seq(Events), q # <<>>,
         \A i, j \in DOMAIN q : q[i] = q[j] => i = j
  PROVE  /\ Head(q) \in Events /\ Tail(q) \in Seq(Events) /\ Len(Tail(q)) = Len(q) - 1
         /\ InSeq(Head(q), q)
         /\ \A e : InSeq(e, Tail(q)) <=> InSeq(e, q) /\ e # Head(q)
         /\ \A i \in DOMAIN Tail(q) : i + 1 \in DOMAIN q /\ Tail(q)[i] = q[i + 1] /\ i \in Nat
<1>1. /\ Head(q) \in Events /\ Head(q) = q[1] /\ Tail(q) \in Seq(Events)
      /\ Len(Tail(q)) = Len(q) - 1 /\ Len(q) \in Nat /\ Len(q) > 0
      /\ \A i \in 1..Len(Tail(q)) : Tail(q)[i] = q[i + 1]
  BY HeadTailProperties, LenProperties, EmptySeq
<1>2. DOMAIN q = 1..Len(q) /\ DOMAIN Tail(q) = 1..(Len(q) - 1)
  BY <1>1, LenProperties
<1>3. \A e : InSeq(e, Tail(q)) => InSeq(e, q) /\ e # Head(q)
  BY <1>1, <1>2 DEF InSeq
<1>4. ASSUME NEW e, InSeq(e, q), e # Head(q) PROVE InSeq(e, Tail(q))
  <2>1. PICK i \in DOMAIN q : q[i] = e
    BY <1>4 DEF InSeq
  <2>2. i # 1 /\ i - 1 \in DOMAIN Tail(q) /\ Tail(q)[i - 1] = q[i]
    BY <1>1, <1>2, <1>4, <2>1
  <2> QED BY <2>1, <2>2 DEF InSeq
<1>5. InSeq(Head(q), q)
  BY <1>1, <1>2 DEF InSeq
<1>6. \A i \in DOMAIN Tail(q) : i + 1 \in DOMAIN q /\ Tail(q)[i] = q[i + 1] /\ i \in Nat
  BY <1>1, <1>2
<1> QED BY <1>1, <1>3, <1>4, <1>5, <1>6

(* A request and a response event differ, and so do those of two streams.  *)
LEMMA EventsDiffer ==
  /\ \A s \in Streams : Req(s) \in Events /\ Resp(s) \in Events
  /\ \A s, t \in Streams : Req(s) # Resp(t)
  /\ \A s, t \in Streams : s # t => Req(s) # Req(t) /\ Resp(s) # Resp(t)
  /\ \A e \in Events : \E s \in Streams : e[1] = s /\ (e = Req(s) \/ e = Resp(s))
<1>1. Events = Streams \X {"request", "response"}
  BY AccountingAssumption
<1> QED BY <1>1 DEF Req, Resp

(* Notify raises its event and nothing else; what was handled stays.       *)
LEMMA NotifyRaises ==
  ASSUME TypeOK, OnceInv, NEW e \in Events, ~Raised(e), Notify(e)
  PROVE  /\ waiting' \in Seq(Events) /\ Len(waiting') <= Room /\ lost' \subseteq Events
         /\ handled' = handled /\ open' = open
         /\ \A x : Handled(x)' <=> Handled(x)
         /\ \A x : Waits(x)' => Waits(x) \/ x = e
         /\ \A x : Raised(x)' <=> Raised(x) \/ x = e
         /\ \A x : x # e => (x \in lost' <=> x \in lost)
         /\ waiting' = waiting \/ waiting' = Append(waiting, e)
         /\ OnceInv'
<1> USE DEF TypeOK
<1>0. Room \in Nat /\ Len(waiting) \in Nat /\ DOMAIN waiting = 1..Len(waiting)
  BY AccountingAssumption, LenProperties
<1>1. CASE Post(e) /\ UNCHANGED lost
  <2>1. /\ waiting' = Append(waiting, e) /\ Len(waiting) < Room
        /\ handled' = handled /\ open' = open /\ lost' = lost
    BY <1>1 DEF Post
  <2>2. /\ waiting' \in Seq(Events) /\ Len(waiting') = Len(waiting) + 1
        /\ \A i \in 1..Len(waiting) : waiting'[i] = waiting[i]
        /\ waiting'[Len(waiting) + 1] = e
        /\ DOMAIN waiting' = 1..(Len(waiting) + 1)
    BY <2>1, AppendProperties, LenProperties
  <2>3. \A x : Waits(x)' <=> Waits(x) \/ x = e
    BY <2>1, InAppend DEF Waits
  <2>4. \A x : Handled(x)' <=> Handled(x)
    BY <2>1 DEF Handled, InSeq
  <2>5. \A i \in 1..Len(waiting) : waiting[i] # e
    BY <1>0 DEF Raised, Posted, Waits, InSeq
  <2>6. \A i, j \in DOMAIN waiting' : waiting'[i] = waiting'[j] => i = j
    BY <1>0, <2>2, <2>5 DEF OnceInv
  <2>7. OnceInv'
    BY <2>1, <2>3, <2>4, <2>6 DEF OnceInv, Raised, Posted
  <2>8. \A x : Raised(x)' <=> Raised(x) \/ x = e
    BY <2>1, <2>3, <2>4 DEF Raised, Posted
  <2> QED BY <1>0, <2>1, <2>2, <2>3, <2>4, <2>7, <2>8
<1>2. CASE lost' = lost \cup {e} /\ UNCHANGED busVars
  <2>1. waiting' = waiting /\ handled' = handled /\ open' = open
    BY <1>2 DEF busVars
  <2>2. \A x : (Handled(x)' <=> Handled(x)) /\ (Waits(x)' <=> Waits(x))
    BY <2>1 DEF Handled, Waits, InSeq
  <2>3. OnceInv'
    BY <1>2, <2>1, <2>2 DEF OnceInv, Raised, Posted
  <2>4. \A x : Raised(x)' <=> Raised(x) \/ x = e
    BY <1>2, <2>2 DEF Raised, Posted
  <2> QED BY <1>2, <2>1, <2>2, <2>3, <2>4
<1> QED BY <1>1, <1>2 DEF Notify

(* A stream that raises an event changes no count and none of the sets     *)
(* that explain the counts.                                                *)
LEMMA RaisingKeepsCounts ==
  ASSUME TypeOK, CountInv, NEW t \in Streams, ~Raised(Resp(t)), ~Raised(Req(t)) \/ model' = model,
         \A s \in Streams \ {t} : model'[s] = model[s],
         \A x : Handled(x)' <=> Handled(x),
         \A s \in Streams : Handled(Resp(s)) => (Req(s) \in lost' <=> Req(s) \in lost),
         counters' = counters
  PROVE  CountInv'
<1>1. ASSUME NEW m \in Models
      PROVE  /\ SeenInFlight(m)' = SeenInFlight(m) /\ Orphans(m)' = Orphans(m)
             /\ Touched(m)' = Touched(m)
  BY DEF SeenInFlight, Orphans, Touched, Raised, Posted
<1> QED BY <1>1 DEF CountInv

LEMMA ForwardKeeps ==
  ASSUME AInv, NEW t \in Streams, NEW m \in Models \cup {NoModel}, Forward(t, m)
  PROVE  AInv'
<1> USE DEF AInv
<1>1. /\ phase[t] = "idle" /\ phase' = [phase EXCEPT ![t] = "forwarded"]
      /\ model' = [model EXCEPT ![t] = m] /\ Notify(Req(t)) /\ counters' = counters
  BY DEF Forward
<1>2. ~Raised(Req(t)) /\ ~Raised(Resp(t)) /\ Req(t) \in Events
  BY <1>1, EventsDiffer DEF PhaseInv
<1>3. /\ waiting' \in Seq(Events) /\ Len(waiting') <= Room /\ lost' \subseteq Events
      /\ handled' = handled /\ open' = open
      /\ \A x : Handled(x)' <=> Handled(x)
      /\ \A x : Waits(x)' => Waits(x) \/ x = Req(t)
      /\ \A x : Raised(x)' <=> Raised(x) \/ x = Req(t)
      /\ \A x : x # Req(t) => (x \in lost' <=> x \in lost)
      /\ waiting' = waiting \/ waiting' = Append(waiting, Req(t))
      /\ OnceInv'
  BY <1>1, <1>2, NotifyRaises
<1>4. TypeOK'
  BY <1>1, <1>3 DEF TypeOK
<1>5. PhaseInv'
  BY <1>1, <1>3, EventsDiffer DEF PhaseInv, TypeOK
<1>6. OrderInv'
  <2> SUFFICES ASSUME NEW s \in Streams
               PROVE  /\ \A i, j \in DOMAIN waiting' :
                            waiting'[i] = Req(s) /\ waiting'[j] = Resp(s) => i < j
                      /\ Handled(Resp(s))' => ~Waits(Req(s))'
    BY DEF OrderInv
  <2>1. Handled(Resp(s))' => ~Waits(Req(s))'
    BY <1>2, <1>3, EventsDiffer DEF OrderInv, Raised, Posted
  <2>2. CASE waiting' = waiting
    BY <2>1, <2>2 DEF OrderInv
  <2>3. CASE waiting' = Append(waiting, Req(t)) /\ s # t
    <3>1. /\ \A i \in 1..Len(waiting) : waiting'[i] = waiting[i]
          /\ waiting'[Len(waiting) + 1] = Req(t)
          /\ DOMAIN waiting' = 1..(Len(waiting) + 1) /\ DOMAIN waiting = 1..Len(waiting)
          /\ Len(waiting) \in Nat
      BY <1>2, <2>3, AppendProperties, LenProperties DEF TypeOK
    <3> QED BY <2>1, <2>3, <3>1, EventsDiffer DEF OrderInv
  <2>4. CASE s = t
    <3>1. ~Waits(Resp(t))'
      BY <1>2, <1>3, EventsDiffer DEF Raised, Posted
    <3> QED BY <2>1, <2>4, <3>1 DEF Waits, InSeq
  <2> QED BY <1>3, <2>2, <2>3, <2>4
<1>7. CountInv'
  BY <1>1, <1>2, <1>3, RaisingKeepsCounts, EventsDiffer DEF TypeOK, Raised, Posted
<1> QED BY <1>3, <1>4, <1>5, <1>6, <1>7

LEMMA AnswerKeeps ==
  ASSUME AInv, NEW t \in Streams, Answer(t) \/ AnswerBodyless(t)
  PROVE  AInv'
<1> USE DEF AInv
<1>1. /\ phase[t] \in {"idle", "forwarded"} /\ phase' = [phase EXCEPT ![t] = "answered"]
      /\ model' = model /\ Notify(Resp(t)) /\ counters' = counters
  BY DEF Answer, AnswerBodyless
<1>2. ~Raised(Resp(t)) /\ Resp(t) \in Events
  BY <1>1, EventsDiffer DEF PhaseInv
<1>3. /\ waiting' \in Seq(Events) /\ Len(waiting') <= Room /\ lost' \subseteq Events
      /\ handled' = handled /\ open' = open
      /\ \A x : Handled(x)' <=> Handled(x)
      /\ \A x : Waits(x)' => Waits(x) \/ x = Resp(t)
      /\ \A x : Raised(x)' <=> Raised(x) \/ x = Resp(t)
      /\ \A x : x # Resp(t) => (x \in lost' <=> x \in lost)
      /\ waiting' = waiting \/ waiting' = Append(waiting, Resp(t))
      /\ OnceInv'
  BY <1>1, <1>2, NotifyRaises
<1>4. TypeOK'
  BY <1>1, <1>3 DEF TypeOK
<1>5. PhaseInv'
  BY <1>1, <1>3, EventsDiffer DEF PhaseInv, TypeOK
<1>6. OrderInv'
  <2> SUFFICES ASSUME NEW s \in Streams
               PROVE  /\ \A i, j \in DOMAIN waiting' :
                            waiting'[i] = Req(s) /\ waiting'[j] = Resp(s) => i < j
                      /\ Handled(Resp(s))' => ~Waits(Req(s))'
    BY DEF OrderInv
  <2>1. Handled(Resp(s))' => ~Waits(Req(s))'
    BY <1>3, EventsDiffer DEF OrderInv
  <2>2. CASE waiting' = waiting
    BY <2>1, <2>2 DEF OrderInv
  <2>3. CASE waiting' = Append(waiting, Resp(t))
    <3>1. /\ \A i \in 1..Len(waiting) : waiting'[i] = waiting[i]
          /\ waiting'[Len(waiting) + 1] = Resp(t)
          /\ DOMAIN waiting' = 1..(Len(waiting) + 1) /\ DOMAIN waiting = 1..Len(waiting)
          /\ Len(waiting) \in Nat
      BY <1>2, <2>3, AppendProperties, LenProperties DEF TypeOK
    <3> QED BY <2>1, <3>1, EventsDiffer DEF OrderInv
  <2> QED BY <1>3, <2>2, <2>3
<1>7. CountInv'
  BY <1>1, <1>2, <1>3, RaisingKeepsCounts, EventsDiffer DEF TypeOK, Raised, Posted
<1> QED BY <1>3, <1>4, <1>5, <1>6, <1>7

(* A step that leaves the bus and the counts alone, or closes the bus.     *)
LEMMA QuietKeeps ==
  ASSUME AInv, UNCHANGED <<model, lost, counters, waiting, handled>>, open' \in BOOLEAN,
         phase' \in [Streams -> {"idle", "forwarded", "answered", "aborted"}],
         \A s \in Streams : phase'[s] = phase[s]
                            \/ (phase[s] = "forwarded" /\ phase'[s] = "aborted")
  PROVE  AInv'
<1> USE DEF AInv
<1>1. \A x : /\ Handled(x)' <=> Handled(x)
             /\ Waits(x)' <=> Waits(x)
             /\ Raised(x)' <=> Raised(x)
  BY DEF Handled, Waits, Raised, Posted, InSeq
<1>2. \A m \in Models : /\ SeenInFlight(m)' = SeenInFlight(m) /\ Orphans(m)' = Orphans(m)
                       /\ Touched(m)' = Touched(m)
  BY <1>1 DEF SeenInFlight, Orphans, Touched
<1>3. TypeOK'
  BY DEF TypeOK
<1>4. OnceInv'
  BY <1>1 DEF OnceInv
<1>5. PhaseInv'
  BY <1>1 DEF PhaseInv
<1>6. OrderInv'
  BY <1>1 DEF OrderInv
<1>7. CountInv'
  BY <1>2 DEF CountInv
<1> QED BY <1>3, <1>4, <1>5, <1>6, <1>7

(* floorDecrement of a count that is between two bounds: of the number of  *)
(* requests, and of the tokens, where the amount may be negative.          *)
LEMMA FloorBounds ==
  ASSUME NEW v \in Nat, NEW low \in Nat, NEW high \in Nat, v \in high - low .. high
  PROVE  /\ floorDecrement(v, 1) \in Nat
         /\ floorDecrement(v, 1) \in high - (low + 1) .. high
         /\ 1 <= high => floorDecrement(v, 1) \in (high - 1) - low .. high - 1
BY DEF floorDecrement

LEMMA FloorRaises ==
  ASSUME NEW v \in Int, NEW d \in Int, NEW low \in Int, NEW high \in Int,
         low <= v - d, v - d <= high, 0 <= high
  PROVE  floorDecrement(v, d) \in Int /\ floorDecrement(v, d) \in low .. high
BY DEF floorDecrement

LEMMA DispatchKeeps ==
  ASSUME AInv, Dispatch
  PROVE  AInv'
<1> USE DEF AInv
<1> DEFINE e == Head(waiting)
<1>1. /\ waiting # <<>> /\ handled' = Append(handled, e) /\ waiting' = Tail(waiting)
      /\ open' = open /\ counters' = Extract(e) /\ UNCHANGED <<phase, model, lost>>
  BY DEF Dispatch, Handle
<1>2. /\ e \in Events /\ waiting' \in Seq(Events) /\ Len(waiting') = Len(waiting) - 1
      /\ Waits(e)
      /\ \A x : Waits(x)' <=> Waits(x) /\ x # e
      /\ \A i \in DOMAIN waiting' : i + 1 \in DOMAIN waiting /\ waiting'[i] = waiting[i + 1]
                                    /\ i \in Nat
  BY <1>1, InTail DEF Waits, TypeOK, OnceInv
<1>3. handled' \in Seq(Events) /\ \A x : Handled(x)' <=> Handled(x) \/ x = e
  BY <1>1, <1>2, InAppend DEF Handled, TypeOK
<1>4. \A x : Raised(x)' <=> Raised(x)
  BY <1>1, <1>2, <1>3 DEF Raised, Posted
<1>5. OnceInv'
  <2>1. \A i, j \in DOMAIN waiting' : waiting'[i] = waiting'[j] => i = j
    BY <1>2 DEF OnceInv
  <2> QED BY <1>1, <1>2, <1>3, <2>1 DEF OnceInv
<1>6. PhaseInv'
  BY <1>1, <1>4 DEF PhaseInv
<1>7. PICK s \in Streams : e[1] = s /\ (e = Req(s) \/ e = Resp(s))
  BY <1>2, EventsDiffer
<1>8. e = Resp(s) => ~Waits(Req(s))
  <2>1. SUFFICES ASSUME e = Resp(s), Waits(Req(s)) PROVE FALSE
    OBVIOUS
  <2>2. PICK i \in DOMAIN waiting : waiting[i] = Req(s)
    BY <2>1 DEF Waits, InSeq
  <2>3. 1 \in DOMAIN waiting /\ waiting[1] = e /\ DOMAIN waiting = 1..Len(waiting)
        /\ Len(waiting) \in Nat
    BY <1>1, HeadTailProperties, LenProperties, EmptySeq DEF TypeOK
  <2>4. i < 1
    BY <2>1, <2>2, <2>3 DEF OrderInv
  <2> QED BY <2>2, <2>3, <2>4
<1>9. OrderInv'
  <2> SUFFICES ASSUME NEW t \in Streams
               PROVE  /\ \A i, j \in DOMAIN waiting' :
                            waiting'[i] = Req(t) /\ waiting'[j] = Resp(t) => i < j
                      /\ Handled(Resp(t))' => ~Waits(Req(t))'
    BY DEF OrderInv
  <2>1. \A i, j \in DOMAIN waiting' : waiting'[i] = Req(t) /\ waiting'[j] = Resp(t) => i < j
    BY <1>2 DEF OrderInv
  <2>2. Handled(Resp(t))' => ~Waits(Req(t))'
    BY <1>2, <1>3, <1>7, <1>8, EventsDiffer DEF OrderInv
  <2> QED BY <2>1, <2>2
<1>10. counters' \in [Models -> [requests : Nat, tokens : Int]] /\ CountInv'
  <2> DEFINE m == model[s]
             seen == SeenInFlight(m)
             orphans == Orphans(m)
             touched == Touched(m)
             r == counters[m].requests
             k == counters[m].tokens
             t == MaxTokens[s]
             plus == Positive(t)
             minus == Positive(-t)
             Types == [Models -> [requests : Nat, tokens : Int]]
  <2>1. \A x \in Models \ {m} : /\ SeenInFlight(x)' = SeenInFlight(x) /\ Orphans(x)' = Orphans(x)
                               /\ Touched(x)' = Touched(x)
    BY <1>1, <1>3, <1>7, EventsDiffer DEF SeenInFlight, Orphans, Touched
  <2>2. CASE m = NoModel
    <3>1. counters' = counters
      BY <1>1, <1>7, <2>2 DEF Extract
    <3>2. \A x \in Models : x # m
      BY <2>2, AccountingAssumption
    <3> QED BY <2>1, <3>1, <3>2 DEF CountInv, TypeOK
  <2>3. CASE m \in Models
    <3>1. /\ seen \in SUBSET Streams /\ orphans \in SUBSET Streams /\ touched \in SUBSET Streams
          /\ seen \in SUBSET touched
          /\ Cardinality(seen) \in Nat /\ Cardinality(orphans) \in Nat
          /\ r \in Nat /\ k \in Int
      BY <2>3, StreamsCounted DEF SeenInFlight, Orphans, Touched, TypeOK
    <3>2. /\ Reserved(seen) \in Nat /\ Reserved(orphans) \in Nat
          /\ Owed(seen) \in Nat /\ Owed(touched) \in Nat
      BY <3>1, TokensTypes
    <3>3. t \in Int /\ plus \in Nat /\ minus \in Nat /\ t = plus - minus
      BY AccountingAssumption DEF Positive
    <3>4. /\ r \in Cardinality(seen) - Cardinality(orphans) .. Cardinality(seen)
          /\ Reserved(seen) - Owed(seen) - Reserved(orphans) <= k
          /\ k <= Reserved(seen) - Owed(seen) + Owed(touched)
      BY <2>3, <3>1, <3>2 DEF CountInv
    <3>5. m # NoModel
      BY <2>3, AccountingAssumption
    <3>6. ~Handled(e) /\ e \notin lost
      BY <1>2 DEF OnceInv
    <3> DEFINE Low(S, O) == Reserved(S) - Owed(S) - Reserved(O)
               High(S, T) == Reserved(S) - Owed(S) + Owed(T)
               Bounded(r1, k1, S, O, T) ==
                 /\ r1 \in Nat /\ k1 \in Int
                 /\ r1 \in Cardinality(S) - Cardinality(O) .. Cardinality(S)
                 /\ k1 \in Low(S, O) .. High(S, T)
    <3>7. ASSUME NEW r1, NEW k1,
                 counters' = [counters EXCEPT ![m] = [requests |-> r1, tokens |-> k1]],
                 Bounded(r1, k1, SeenInFlight(m)', Orphans(m)', Touched(m)')
          PROVE  counters' \in Types /\ CountInv'
      <4>1. counters' \in Types
        BY <2>3, <3>7 DEF TypeOK
      <4>2. /\ counters'[m].requests = r1 /\ counters'[m].tokens = k1
            /\ \A x \in Models \ {m} : counters'[x] = counters[x]
        BY <2>3, <3>7 DEF TypeOK
      <4>3. m' = m
        BY <1>1
      <4> QED BY <1>1, <2>1, <3>7, <4>1, <4>2 DEF CountInv
    <3>8. CASE e = Req(s)
      <4>1. ~Handled(Resp(s))
        BY <1>2, <3>8 DEF OrderInv
      <4>2. s \notin seen /\ s \notin touched
        BY <3>6, <3>8, <4>1 DEF SeenInFlight, Touched
      <4>3. SeenInFlight(m)' = seen \cup {s} /\ Orphans(m)' = orphans /\ Touched(m)' = touched \cup {s}
        BY <1>1, <1>3, <3>6, <3>8, <4>1, EventsDiffer DEF SeenInFlight, Orphans, Touched
      <4>4. counters' = [counters EXCEPT ![m] = [requests |-> r + 1, tokens |-> k + t]]
        BY <1>1, <1>7, <3>5, <3>8 DEF Extract
      <4>5. /\ Cardinality(seen \cup {s}) = Cardinality(seen) + 1
            /\ Reserved(seen \cup {s}) = Reserved(seen) + plus
            /\ Owed(seen \cup {s}) = Owed(seen) + minus
            /\ Owed(touched \cup {s}) = Owed(touched) + minus
        BY <3>1, <4>2, StreamsCounted, TokensAdd
      <4>6. Bounded(r + 1, k + t, seen \cup {s}, orphans, touched \cup {s})
        BY <3>1, <3>2, <3>3, <3>4, <4>5
      <4> QED BY <3>7, <4>3, <4>4, <4>6
    <3>9. CASE e = Resp(s)
      <4>1. counters' = [counters EXCEPT ![m] = [requests |-> floorDecrement(r, 1),
                                                 tokens |-> floorDecrement(k, t)]]
        BY <1>1, <1>7, <3>5, <3>9, EventsDiffer DEF Extract
      <4>2. Raised(Req(s)) /\ ~Waits(Req(s))
        <5>1. phase[s] = "answered"
          BY <1>2, <3>9 DEF PhaseInv, Raised, Posted
        <5> QED BY <1>8, <3>5, <3>9, <5>1 DEF PhaseInv
      <4>3. CASE Handled(Req(s))
        <5>1. /\ s \in seen /\ SeenInFlight(m)' = seen \ {s} /\ Orphans(m)' = orphans
              /\ Touched(m)' = touched
          BY <1>1, <1>3, <3>6, <3>9, <4>3, EventsDiffer DEF SeenInFlight, Orphans, Touched, OnceInv
        <5>2. /\ Cardinality(seen \ {s}) = Cardinality(seen) - 1 /\ 1 <= Cardinality(seen)
              /\ Reserved(seen) = Reserved(seen \ {s}) + plus /\ Reserved(seen \ {s}) \in Nat
              /\ Owed(seen) = Owed(seen \ {s}) + minus /\ Owed(seen \ {s}) \in Nat
              /\ Owed(seen \ {s}) <= Owed(touched)
          BY <3>1, <5>1, StreamsCounted, TokensRemove, TokensTypes
        <5>3. /\ floorDecrement(r, 1) \in Nat
              /\ floorDecrement(r, 1) \in (Cardinality(seen) - 1) - Cardinality(orphans)
                                            .. Cardinality(seen) - 1
          BY <3>1, <3>4, <5>2, FloorBounds
        <5>4. /\ Low(seen \ {s}, orphans) <= k - t /\ k - t <= High(seen \ {s}, touched)
              /\ 0 <= High(seen \ {s}, touched)
              /\ Low(seen \ {s}, orphans) \in Int /\ High(seen \ {s}, touched) \in Int
          BY <3>1, <3>2, <3>3, <3>4, <5>2
        <5> HIDE DEF Low, High
        <5>5. floorDecrement(k, t) \in Int
              /\ floorDecrement(k, t) \in Low(seen \ {s}, orphans) .. High(seen \ {s}, touched)
          BY <3>1, <3>3, <5>4, FloorRaises
        <5>6. Bounded(floorDecrement(r, 1), floorDecrement(k, t), seen \ {s}, orphans, touched)
          BY <5>2, <5>3, <5>5
        <5> QED BY <3>7, <4>1, <5>1, <5>6
      <4>4. CASE ~Handled(Req(s))
        <5>1. Req(s) \in lost
          BY <4>2, <4>4 DEF Raised, Posted
        <5>2. /\ s \notin orphans /\ s \notin touched /\ SeenInFlight(m)' = seen
              /\ Orphans(m)' = orphans \cup {s} /\ Touched(m)' = touched \cup {s}
          BY <1>1, <1>3, <3>6, <3>9, <4>4, <5>1, EventsDiffer DEF SeenInFlight, Orphans, Touched
        <5>3. /\ Cardinality(orphans \cup {s}) = Cardinality(orphans) + 1
              /\ Reserved(orphans \cup {s}) = Reserved(orphans) + plus
              /\ Owed(touched \cup {s}) = Owed(touched) + minus
              /\ Owed(seen) <= Owed(touched)
          BY <3>1, <5>2, StreamsCounted, TokensAdd, TokensTypes
        <5>4. /\ floorDecrement(r, 1) \in Nat
              /\ floorDecrement(r, 1) \in Cardinality(seen) - (Cardinality(orphans) + 1)
                                            .. Cardinality(seen)
          BY <3>1, <3>4, FloorBounds
        <5>5. /\ Low(seen, orphans \cup {s}) <= k - t /\ k - t <= High(seen, touched \cup {s})
              /\ 0 <= High(seen, touched \cup {s})
              /\ Low(seen, orphans \cup {s}) \in Int /\ High(seen, touched \cup {s}) \in Int
          BY <3>1, <3>2, <3>3, <3>4, <5>3
        <5> HIDE DEF Low, High
        <5>6. floorDecrement(k, t) \in Int
              /\ floorDecrement(k, t) \in Low(seen, orphans \cup {s}) .. High(seen, touched \cup {s})
          BY <3>1, <3>3, <5>5, FloorRaises
        <5>7. Bounded(floorDecrement(r, 1), floorDecrement(k, t), seen, orphans \cup {s},
                      touched \cup {s})
          BY <5>3, <5>4, <5>6
        <5> QED BY <3>7, <4>1, <5>2, <5>7
      <4> QED BY <4>3, <4>4
    <3> QED BY <1>7, <3>8, <3>9
  <2> QED BY <2>2, <2>3 DEF TypeOK
<1>11. TypeOK'
  BY <1>1, <1>2, <1>3, <1>10, AccountingAssumption, LenProperties DEF TypeOK
<1> QED BY <1>5, <1>6, <1>9, <1>10, <1>11

-----------------------------------------------------------------------------
(* The accounting, under the steps of the process.                         *)
LEMMA AccountingInit == RInit => AInv
<1> SUFFICES ASSUME RInit PROVE AInv
  OBVIOUS
<1>1. /\ waiting = <<>> /\ handled = <<>> /\ open = TRUE /\ lost = {}
      /\ phase = [s \in Streams |-> "idle"] /\ model = [s \in Streams |-> NoModel]
      /\ counters = [m \in Models |-> [requests |-> 0, tokens |-> 0]]
  BY DEF RInit, Init, BusInit
<1>2. \A x : ~Waits(x) /\ ~Handled(x) /\ ~Raised(x)
  BY <1>1 DEF Waits, Handled, Raised, Posted, InSeq
<1>3. TypeOK
  <2>1. open \in BOOLEAN
    BY <1>1
  <2>2. <<>> \in Seq(Events) /\ Len(<<>>) <= Room
    BY AccountingAssumption
  <2> QED BY <1>1, <2>1, <2>2 DEF TypeOK
<1>4. OnceInv /\ OrderInv
  BY <1>1, <1>2 DEF OnceInv, OrderInv
<1>5. PhaseInv
  BY <1>1, <1>2 DEF PhaseInv
<1>6. CountInv
  <2>1. \A m \in Models : SeenInFlight(m) = {} /\ Orphans(m) = {} /\ Touched(m) = {}
    BY <1>2 DEF SeenInFlight, Orphans, Touched
  <2>2. Cardinality({}) = 0
    BY FS_EmptySet
  <2>3. Reserved({}) = 0 /\ Owed({}) = 0
    <3>1. \A amount : Blocks(amount, {}) = {}
      BY DEF Blocks
    <3> QED BY <2>2, <3>1, TokensAreBlocks
  <2>4. ASSUME NEW m \in Models
        PROVE  /\ counters[m].requests = 0 /\ counters[m].tokens = 0
               /\ Cardinality(SeenInFlight(m)) = 0 /\ Cardinality(Orphans(m)) = 0
               /\ Reserved(SeenInFlight(m)) = 0 /\ Owed(SeenInFlight(m)) = 0
               /\ Reserved(Orphans(m)) = 0 /\ Owed(Touched(m)) = 0
    <3>1. counters[m] = [requests |-> 0, tokens |-> 0]
      BY <1>1
    <3>2. SeenInFlight(m) = {} /\ Orphans(m) = {} /\ Touched(m) = {}
      BY <2>1
    <3> QED BY <2>2, <2>3, <3>1, <3>2
  <2> QED BY <2>4 DEF CountInv
<1> QED BY <1>3, <1>4, <1>5, <1>6 DEF AInv

(* The steps of Run, the manager and the servers that no stream and no     *)
(* event takes part in.                                                    *)
RunStep ==
    \/ SetUp \/ LoadConfiguration \/ StartProcessor \/ RegisterServers \/ Signal
    \/ ManagerStops \/ GraceExpires \/ ManagerReturns \/ Exit
ServerStep(x) == Listen(x) \/ Serve(x) \/ ServeFails(x) \/ GracefulStop(x) \/ ServeReturns(x)

LEMMA AccountingKept ==
  ASSUME AInv, [RNext]_rvars
  PROVE  AInv'
<1> SUFFICES ASSUME RNext \/ UNCHANGED rvars PROVE AInv'
  OBVIOUS
<1>1. ASSUME UNCHANGED vars PROVE AInv'
  <2>1. UNCHANGED <<phase, model, lost, counters, waiting, handled, open>>
    BY <1>1 DEF vars, busVars
  <2>2. open' \in BOOLEAN
    BY <2>1 DEF AInv, TypeOK
  <2>3. phase' \in [Streams -> {"idle", "forwarded", "answered", "aborted"}]
    BY <2>1 DEF AInv, TypeOK
  <2> QED BY <2>1, <2>2, <2>3, QuietKeeps
<1>2. ASSUME Close, UNCHANGED <<phase, model, lost, counters>> PROVE AInv'
  <2>1. UNCHANGED <<phase, model, lost, counters, waiting, handled>> /\ open' \in BOOLEAN
    BY <1>2 DEF Close
  <2>3. phase' \in [Streams -> {"idle", "forwarded", "answered", "aborted"}]
    BY <2>1 DEF AInv, TypeOK
  <2> QED BY <2>1, <2>3, QuietKeeps
<1>3. ASSUME NEW s \in Streams, Abort(s) PROVE AInv'
  <2>1. /\ UNCHANGED <<model, lost, counters, waiting, handled, open>>
        /\ phase[s] = "forwarded" /\ phase' = [phase EXCEPT ![s] = "aborted"]
    BY <1>3 DEF Abort, busVars
  <2>2. open' \in BOOLEAN
    BY <2>1 DEF AInv, TypeOK
  <2>3. /\ phase' \in [Streams -> {"idle", "forwarded", "answered", "aborted"}]
        /\ \A t \in Streams : phase'[t] = phase[t]
                              \/ (phase[t] = "forwarded" /\ phase'[t] = "aborted")
    BY <2>1 DEF AInv, TypeOK
  <2> QED BY <2>1, <2>2, <2>3, QuietKeeps
<1>4. CASE RunStep
  <2>1. UNCHANGED vars
    BY <1>4 DEF RunStep, SetUp, LoadConfiguration, StartProcessor, RegisterServers, Signal,
                ManagerStops, GraceExpires, ManagerReturns, Exit
  <2> QED BY <1>1, <2>1
<1>5. ASSUME NEW x \in Servers, ServerStep(x) PROVE AInv'
  <2>1. UNCHANGED vars
    BY <1>5 DEF ServerStep, Listen, Serve, ServeFails, GracefulStop, ServeReturns
  <2> QED BY <1>1, <2>1
<1>6. CASE StopProcessor
  BY <1>2, <1>6 DEF StopProcessor
<1>7. CASE LoopExits
  BY <1>2, <1>7 DEF LoopExits
<1>8. CASE LoopHandles
  BY <1>8, DispatchKeeps DEF LoopHandles
<1>9. ASSUME NEW s \in Streams, Accept(s) PROVE AInv'
  BY <1>1, <1>9 DEF Accept
<1>10. ASSUME NEW s \in Streams, Proceed(s) PROVE AInv'
  BY <1>10, AnswerKeeps, ForwardKeeps DEF Proceed
<1>11. ASSUME NEW s \in Streams, StreamEnds(s) PROVE AInv'
  BY <1>1, <1>3, <1>11 DEF StreamEnds
<1>12. CASE UNCHANGED rvars
  BY <1>1, <1>12 DEF rvars
<1> QED BY <1>4, <1>5, <1>6, <1>7, <1>8, <1>9, <1>10, <1>11, <1>12
        DEF RNext, RunStep, ServerStep

-----------------------------------------------------------------------------
(* The process: what the servers and the streams may do at each of its     *)
(* stages.                                                                 *)
LEMMA DrainInit == RInit => RTypeOK /\ DrainInv
<1> SUFFICES ASSUME RInit PROVE RTypeOK /\ DrainInv
  OBVIOUS
<1>1. cancelled \in BOOLEAN /\ open
  BY DEF RInit, Init, BusInit
<1>2. RTypeOK
  BY <1>1 DEF RInit, RTypeOK, Stages, ServerStates
<1> QED BY <1>1, <1>2 DEF RInit, DrainInv, OpenStreams, Servers, Early, Late

LEMMA RunTypeKept ==
  ASSUME RTypeOK, [RNext]_rvars
  PROVE  RTypeOK'
<1> SUFFICES ASSUME RNext \/ UNCHANGED rvars PROVE RTypeOK'
  OBVIOUS
<1>1. cancelled' \in BOOLEAN
  BY DEF RTypeOK, RNext, SetUp, LoadConfiguration, StartProcessor, RegisterServers, Signal,
         ManagerStops, GraceExpires, ManagerReturns, StopProcessor, Exit, LoopHandles, LoopExits,
         Listen, Serve, ServeFails, GracefulStop, ServeReturns, Accept, Proceed, StreamEnds,
         runVars, rvars
<1>2. CASE RunStep
  BY <1>1, <1>2 DEF RTypeOK, Stages, RunStep, SetUp, LoadConfiguration, StartProcessor,
     RegisterServers, Signal, ManagerStops, GraceExpires, ManagerReturns, Exit
<1>3. ASSUME NEW x \in Servers, ServerStep(x) PROVE RTypeOK'
  BY <1>1, <1>3 DEF RTypeOK, ServerStates, ServerStep, Listen, Serve, ServeFails, GracefulStop,
     ServeReturns
<1>4. CASE StopProcessor
  BY <1>1, <1>4 DEF RTypeOK, StopProcessor, Stages
<1>5. CASE LoopExits \/ LoopHandles \/ \E s \in Streams : Proceed(s)
  BY <1>1, <1>5 DEF RTypeOK, LoopExits, LoopHandles, Proceed, runVars
<1>6. ASSUME NEW s \in Streams, Accept(s) \/ StreamEnds(s) PROVE RTypeOK'
  BY <1>1, <1>6 DEF RTypeOK, Accept, StreamEnds
<1>7. CASE UNCHANGED rvars
  BY <1>1, <1>7 DEF RTypeOK, rvars, runVars
<1> QED BY <1>2, <1>3, <1>4, <1>5, <1>6, <1>7 DEF RNext, RunStep, ServerStep

LEMMA DrainKept ==
  ASSUME TypeOK, RTypeOK, DrainInv, [RNext]_rvars
  PROVE  DrainInv'
<1> SUFFICES ASSUME RNext \/ UNCHANGED rvars PROVE DrainInv'
  OBVIOUS
<1> USE DEF DrainInv, Early, Late, OpenStreams
<1>1. CASE RunStep /\ ~Exit
  <2>1. open' = open /\ server' = server /\ conn' = conn
    BY <1>1 DEF RunStep, SetUp, LoadConfiguration, StartProcessor, RegisterServers, Signal,
       ManagerStops, GraceExpires, ManagerReturns, vars, busVars
  <2>2. CASE Signal
    BY <2>1, <2>2 DEF Signal
  <2>3. CASE ManagerStops \/ GraceExpires
    BY <2>1, <2>3 DEF ManagerStops, GraceExpires
  <2>4. CASE ManagerReturns
    BY <2>1, <2>4 DEF ManagerReturns, Servers
  <2>5. CASE SetUp \/ LoadConfiguration \/ StartProcessor \/ RegisterServers
    BY <2>1, <2>5 DEF SetUp, LoadConfiguration, StartProcessor, RegisterServers
  <2> QED BY <1>1, <2>2, <2>3, <2>4, <2>5 DEF RunStep
<1>2. CASE Exit
  <2>1. open' = open /\ server' = server /\ cancelled' = cancelled /\ mgr' = mgr
        /\ main = "exit" /\ main' = "returned"
        /\ conn' = [s \in Streams |-> IF conn[s] = "open" THEN "cut" ELSE conn[s]]
    BY <1>2 DEF Exit, vars, busVars
  <2> QED BY <2>1 DEF RTypeOK
<1>3. ASSUME NEW x \in Servers, ServerStep(x) PROVE DrainInv'
  <2>1. UNCHANGED <<open, main, cancelled, mgr, conn>>
    BY <1>3 DEF ServerStep, Listen, Serve, ServeFails, GracefulStop, ServeReturns, vars, busVars
  <2>2. CASE x # "ext-proc"
    <3>1. server'["ext-proc"] = server["ext-proc"]
      BY <1>3, <2>2 DEF RTypeOK, Servers, ServerStep, Listen, Serve, ServeFails, GracefulStop,
         ServeReturns
    <3> QED BY <2>1, <3>1
  <2>3. CASE x = "ext-proc"
    <3>1. \/ main = "mgr.Start" /\ server[x] = "added" /\ server'[x] \in {"listening", "failed"}
          \/ server[x] = "listening" /\ server'[x] = "serving"
          \/ server[x] = "serving" /\ server'[x] = "failed"
          \/ server[x] \in {"listening", "serving"} /\ server'[x] = "stopping"
          \/ server[x] = "stopping" /\ OpenStreams = {} /\ server'[x] = "done"
      BY <1>3, <2>3 DEF RTypeOK, Servers, ServerStep, Listen, Serve, ServeFails, GracefulStop,
         ServeReturns
    <3> QED BY <2>1, <2>3, <3>1
  <2> QED BY <2>2, <2>3
<1>4. CASE StopProcessor
  BY <1>4 DEF StopProcessor, Close
<1>5. CASE LoopExits
  BY <1>5 DEF LoopExits, Close, runVars
<1>6. ASSUME UNCHANGED runVars, open' = open PROVE DrainInv'
  BY <1>6 DEF runVars
<1>7. CASE LoopHandles
  BY <1>6, <1>7 DEF LoopHandles, Dispatch, Handle
<1>8. ASSUME NEW s \in Streams, Proceed(s) PROVE DrainInv'
  BY <1>6, <1>8 DEF Proceed, Answer, AnswerBodyless, Forward, Notify, Post, busVars
<1>9. ASSUME NEW s \in Streams, Accept(s) PROVE DrainInv'
  BY <1>9 DEF Accept, RTypeOK, vars, busVars
<1>10. ASSUME NEW s \in Streams, StreamEnds(s) PROVE DrainInv'
  BY <1>10 DEF StreamEnds, Abort, RTypeOK, vars, busVars
<1>11. CASE UNCHANGED rvars
  BY <1>6, <1>11 DEF rvars, vars, busVars
<1> QED BY <1>1, <1>2, <1>3, <1>4, <1>5, <1>7, <1>8, <1>9, <1>10, <1>11
        DEF RNext, RunStep, ServerStep

-----------------------------------------------------------------------------
(* IInv is an inductive invariant of the running process.                  *)
THEOREM Invariance == RSpec => []IInv
<1>1. RInit => IInv
  BY AccountingInit, DrainInit DEF IInv
<1>2. IInv /\ [RNext]_rvars => IInv'
  BY AccountingKept, RunTypeKept, DrainKept DEF IInv, AInv
<1> QED BY <1>1, <1>2, PTL DEF RSpec

(* Run, the servers, the streams and the accounting keep their types.      *)
THEOREM TypeCorrect == RSpec => [](RTypeOK /\ TypeOK)
<1>1. IInv => RTypeOK /\ TypeOK
  BY DEF IInv, AInv
<1> QED BY <1>1, Invariance, PTL

(* The counts that the extractor publishes are explained by the events it  *)
(* has seen, for any number of streams and models, any max_tokens, *)
(* negative ones too, any size of the channel and any order of answers,    *)
(* while the process starts, runs and stops.                               *)
THEOREM CountsExplained == RSpec => []CountExplained
<1>1. ASSUME AInv PROVE CountExplained
  <2> USE <1>1 DEF AInv
  <2> SUFFICES ASSUME NEW m \in Models, lost = {}, waiting = <<>>
               PROVE  SeenInFlight(m)
                        = {s \in Streams : model[s] = m /\ phase[s] \in {"forwarded", "aborted"}}
    BY DEF CountExplained, CountInv
  <2>1. \A e : Raised(e) <=> Handled(e)
    BY DEF Raised, Posted, Waits, InSeq
  <2>2. m # NoModel
    BY AccountingAssumption
  <2> QED BY <2>1, <2>2 DEF SeenInFlight, PhaseInv, TypeOK
<1>2. IInv => CountExplained
  BY <1>1 DEF IInv
<1> QED BY <1>2, Invariance, PTL

(* No stream is cut off and none outlives the data layer, unless the grace *)
(* period is over or the ext_proc server failed, whatever the number of    *)
(* streams and the moment at which Run stops.                              *)
THEOREM StreamsDrain == RSpec => []GracefulDrain
<1>1. ASSUME DrainInv PROVE GracefulDrain
  BY <1>1 DEF DrainInv, GracefulDrain, OpenStreams, Late
<1>2. IInv => GracefulDrain
  BY <1>1 DEF IInv
<1> QED BY <1>2, Invariance, PTL

-----------------------------------------------------------------------------
(***************************************************************************)
(* CertReloader: the certificates that the runner's servers present, for   *)
(* any number of rotations of the files and of reload callbacks.           *)
(***************************************************************************)
(* The pair in use fits and is not newer than the files; callbacks that    *)
(* never overlapped run one at a time, and what one has read is at least   *)
(* as new as what it will replace.                                         *)
CertInv ==
    /\ CTypeOK /\ events <= crt + key
    /\ cert.crt = cert.key /\ cert.crt <= crt
    /\ \A c \in Callbacks : running[c].pc = "idle" => running[c] = Idle
    /\ ~overlapped => \A c, d \in Busy : c = d
    /\ ~overlapped => \A c \in Callbacks :
        running[c].pc \in {"key", "store"} => cert.crt <= running[c].crt
    /\ \A c \in Callbacks : running[c].crt <= crt

LEMMA CertsAtStart ==
  ASSUME CInit
  PROVE  CertInv
<1> USE ReloaderAssumption DEF CInit, Versions, Idle
<1>1. CTypeOK
  <2>1. 0 \in Versions /\ 0 \in 0..2 * MaxVersion
    OBVIOUS
  <2>2. Idle \in [pc : {"idle", "crt", "key", "store"}, crt : Versions, key : Versions]
    BY <2>1
  <2>3. cert \in [crt : Versions, key : Versions]
    BY <2>1
  <2> QED BY <2>1, <2>2, <2>3 DEF CTypeOK
<1>2. Busy = {}
  BY DEF Busy
<1> QED BY <1>1, <1>2 DEF CertInv

LEMMA CertStep ==
  ASSUME CertInv, [CNext]_cvars
  PROVE  CertInv'
<1> USE ReloaderAssumption DEF CertInv, CTypeOK, Versions, Idle, Busy
<1>1. CASE NewCertReloader
  BY <1>1 DEF NewCertReloader, fileVars
<1>2. CASE ReplaceFiles
  <2>1. PICK newCrt, newKey : /\ Replace(newCrt, newKey)
                              /\ newCrt >= crt /\ newKey >= key /\ newCrt + newKey > crt + key
    BY <1>2 DEF ReplaceFiles
  <2>2. CTypeOK' /\ (events <= crt + key)'
    BY <2>1 DEF Replace
  <2> QED BY <2>1, <2>2 DEF Replace
<1>3. CASE WatcherFails
  BY <1>3 DEF WatcherFails
<1>4. CASE TakeEvent
  BY <1>4 DEF TakeEvent
<1>5. CASE WatchExits
  BY <1>5 DEF WatchExits, fileVars
<1>6. ASSUME NEW c \in Callbacks, Fire(c) PROVE CertInv'
  BY <1>6 DEF Fire, fileVars
<1>7. ASSUME NEW c \in Callbacks, ReadCrt(c) PROVE CertInv'
  <2>1. CTypeOK'
    BY <1>7 DEF ReadCrt, fileVars
  <2>2. \A d \in Callbacks : d \in Busy' => d \in Busy
    BY <1>7 DEF ReadCrt, fileVars
  <2> QED BY <1>7, <2>1, <2>2 DEF ReadCrt, fileVars
<1>8. ASSUME NEW c \in Callbacks, ReadKey(c) PROVE CertInv'
  <2>1. CTypeOK'
    BY <1>8 DEF ReadKey, fileVars
  <2>2. \A d \in Callbacks : d \in Busy' => d \in Busy
    BY <1>8 DEF ReadKey, fileVars
  <2> QED BY <1>8, <2>1, <2>2 DEF ReadKey, fileVars
<1>9. ASSUME NEW c \in Callbacks, Store(c) PROVE CertInv'
  BY <1>9 DEF Store, Pair, fileVars
<1>10. CASE UNCHANGED cvars
  BY <1>10 DEF cvars, fileVars
<1> QED BY <1>1, <1>2, <1>3, <1>4, <1>5, <1>6, <1>7, <1>8, <1>9, <1>10 DEF CNext

(* The files, the events that wait and the pair in use keep their types:   *)
(* the reloader never holds a version that was not written.                *)
THEOREM CertTypes == CSpec => []CTypeOK
<1>1. CertInv => CTypeOK
  BY DEF CertInv
<1> QED BY <1>1, CertsAtStart, CertStep, PTL DEF CSpec

(* A reload replaces the pair in use by a certificate with its own key,    *)
(* whatever the files went through while the callback read them, and, as   *)
(* long as no two callbacks have overlapped, by a newer one.               *)
THEOREM NewerPairs == CSpec => ReplacedByNewerPair
<1>1. CertInv /\ CertInv' /\ [CNext]_cvars =>
        [cert' # cert => /\ cert'.crt = cert'.key
                         /\ overlapped \/ cert'.crt > cert.crt]_cvars
  <2> SUFFICES ASSUME CertInv, CertInv', CNext, cert' # cert
               PROVE  cert'.crt = cert'.key /\ (overlapped \/ cert'.crt > cert.crt)
    BY DEF cvars
  <2>1. PICK c \in Callbacks : Store(c)
    BY DEF CNext, NewCertReloader, ReplaceFiles, Replace, WatcherFails,
           TakeEvent, WatchExits, Fire, ReadCrt, ReadKey
  <2> QED BY <2>1 DEF CertInv, CTypeOK, Store, Pair, Versions
<1> QED BY <1>1, CertsAtStart, CertStep, PTL DEF CSpec, ReplacedByNewerPair
=============================================================================
