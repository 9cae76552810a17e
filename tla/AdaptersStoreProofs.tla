------------------------- MODULE AdaptersStoreProofs -------------------------
(***************************************************************************)
(* Proofs about AdaptersStore, for any ConfigMaps, models, adapters and    *)
(* number of changes.                                                      *)
(***************************************************************************)
EXTENDS AdaptersStore, FiniteSetTheorems, SequenceTheorems, TLAPS

AllAdapters(w, c) == UNION {AdaptersOf(o) : o \in w[c]}
BasesOf(w, c) == {o.base : o \in w[c]} \ {None}

-----------------------------------------------------------------------------
(* The cluster and the work queue.                                         *)
QueueType ==
    /\ cluster \in [ConfigMaps -> Objects \cup {None}] /\ changes \in 0..MaxChanges
    /\ queue \in Seq(ConfigMaps) /\ retry \subseteq ConfigMaps
    /\ current \in Gets \cup {None}
    /\ \A i, j \in DOMAIN queue : queue[i] = queue[j] => i = j
    /\ current # None => ~InQueue(current.name)

(* What is written is what users may write (a world w), and what was fetched is still  *)
(* there, unless the key is dirty or the reconciler need not care.         *)
CurrentInv(w) ==
    /\ contents = w
    /\ \A c \in ConfigMaps : cluster[c] \in w[c] \cup {None}
    /\ dirty => current # None
    /\ current # None =>
        /\ current.object \in w[current.name] \cup {None}
        /\ \/ dirty
           \/ current.object = cluster[current.name]
           \/ ~hasIPPManagedLabel(current.object) /\ ~hasIPPManagedLabel(cluster[current.name])

(* The maps of the store.                                                  *)
StoreType ==
    /\ \A a \in DOMAIN loraAdapterToBaseModel :
        a \in Adapters /\ loraAdapterToBaseModel[a] \in BaseModels
    /\ \A c \in DOMAIN configmapAdapters : c \in ConfigMaps /\ configmapAdapters[c] \subseteq Adapters
    /\ \A m \in DOMAIN baseModels : m \in BaseModels /\ baseModels[m] \in Int
    /\ DOMAIN counted = DOMAIN configmapAdapters /\ \A c \in DOMAIN counted : counted[c] \in BaseModels
    /\ miscounted \subseteq BaseModels /\ kept \subseteq DOMAIN configmapAdapters

(* What holds whatever users write.                                        *)
IInv(w) ==
    /\ QueueType /\ dirty \in BOOLEAN /\ CurrentInv(w)
    /\ StoreType /\ BaseModelsCounted /\ ResolvedAdapterListed

(* The three maps agree when users keep to OwnNames: a base model may be   *)
(* counted too often, never too rarely.                                    *)
StoreInv(w) ==
    /\ \A c \in DOMAIN configmapAdapters :
        /\ configmapAdapters[c] \subseteq AllAdapters(w, c) /\ counted[c] \in BasesOf(w, c)
        /\ \A a \in configmapAdapters[c] :
            a \in DOMAIN loraAdapterToBaseModel /\ loraAdapterToBaseModel[a] \in BasesOf(w, c)
    /\ \A m \in BaseModels : Count(m) >= Cardinality(CountedUnder(m))

(* A valid ConfigMap that is not pending has been applied.                 *)
AppliedInv ==
    \A c \in ConfigMaps : ~Pending(c) /\ Valid(cluster[c]) =>
        c \in DOMAIN configmapAdapters /\ configmapAdapters[c] = cluster[c].adapters

-----------------------------------------------------------------------------
(* Membership in the work queue when a key is added or taken.              *)
LEMMA InAppend ==
  ASSUME NEW q \in Seq(ConfigMaps), NEW x \in ConfigMaps,
         \A i, j \in DOMAIN q : q[i] = q[j] => i = j,
         \A i \in DOMAIN q : q[i] # x
  PROVE  /\ Append(q, x) \in Seq(ConfigMaps)
         /\ \A c : (\E i \in DOMAIN Append(q, x) : Append(q, x)[i] = c)
                   <=> (\E i \in DOMAIN q : q[i] = c) \/ c = x
         /\ \A i, j \in DOMAIN Append(q, x) : Append(q, x)[i] = Append(q, x)[j] => i = j
<1>1. /\ Append(q, x) \in Seq(ConfigMaps) /\ Len(Append(q, x)) = Len(q) + 1
      /\ \A i \in 1..Len(q) : Append(q, x)[i] = q[i]
      /\ Append(q, x)[Len(q) + 1] = x
  BY AppendProperties
<1>2. DOMAIN q = 1..Len(q) /\ DOMAIN Append(q, x) = 1..(Len(q) + 1) /\ Len(q) \in Nat
  BY <1>1, LenProperties
<1> QED BY <1>1, <1>2

LEMMA InTail ==
  ASSUME NEW q \in Seq(ConfigMaps), q # <<>>,
         \A i, j \in DOMAIN q : q[i] = q[j] => i = j
  PROVE  /\ Head(q) \in ConfigMaps /\ Tail(q) \in Seq(ConfigMaps)
         /\ \E i \in DOMAIN q : q[i] = Head(q)
         /\ \A c : (\E i \in DOMAIN Tail(q) : Tail(q)[i] = c)
                   <=> (\E i \in DOMAIN q : q[i] = c) /\ c # Head(q)
         /\ \A i, j \in DOMAIN Tail(q) : Tail(q)[i] = Tail(q)[j] => i = j
<1>1. /\ Head(q) \in ConfigMaps /\ Head(q) = q[1] /\ Tail(q) \in Seq(ConfigMaps)
      /\ Len(Tail(q)) = Len(q) - 1 /\ Len(q) \in Nat /\ Len(q) > 0
      /\ \A i \in 1..Len(Tail(q)) : Tail(q)[i] = q[i + 1]
  BY HeadTailProperties, LenProperties, EmptySeq
<1>2. DOMAIN q = 1..Len(q) /\ DOMAIN Tail(q) = 1..(Len(q) - 1)
  BY <1>1, LenProperties
<1>3. \A c : (\E i \in DOMAIN Tail(q) : Tail(q)[i] = c)
             => (\E i \in DOMAIN q : q[i] = c) /\ c # Head(q)
  BY <1>1, <1>2
<1>4. ASSUME NEW i \in DOMAIN q, q[i] # Head(q) PROVE \E j \in DOMAIN Tail(q) : Tail(q)[j] = q[i]
  <2>1. i # 1 /\ i - 1 \in DOMAIN Tail(q) /\ Tail(q)[i - 1] = q[i]
    BY <1>1, <1>2, <1>4
  <2> QED BY <2>1
<1>5. \A i, j \in DOMAIN Tail(q) : Tail(q)[i] = Tail(q)[j] => i = j
  BY <1>1, <1>2
<1>6. 1 \in DOMAIN q
  BY <1>1, <1>2
<1> QED BY <1>1, <1>3, <1>4, <1>5, <1>6

-----------------------------------------------------------------------------
(* What users may write, with its type.                                    *)
LEMMA ContentsTyped ==
  ASSUME NEW w \in Worlds, NEW c \in ConfigMaps, NEW o \in w[c]
  PROVE  /\ o # None /\ o \in Objects
         /\ AdaptersOf(o) \subseteq AllAdapters(w, c) /\ AdaptersOf(o) \subseteq Adapters
         /\ o.base # None => o.base \in BaseModels /\ o.base \in BasesOf(w, c)
         /\ o.adapters # None => AdaptersOf(o) = o.adapters
<1>1. o \in Objects /\ o # None
  BY AdaptersAssumption
<1>2. o.adapters \in (SUBSET Adapters) \cup {None} /\ o.base \in BaseModels \cup {None}
  BY <1>1 DEF Objects
<1>3. AdaptersOf(o) \subseteq Adapters /\ (o.adapters # None => AdaptersOf(o) = o.adapters)
  <2>1. CASE o.adapters = None
    <3>1. AdaptersOf(o) = {}
      BY <2>1 DEF AdaptersOf
    <3> QED BY <2>1, <3>1
  <2>2. CASE o.adapters # None
    <3>1. AdaptersOf(o) = o.adapters
      BY <1>1, <2>2 DEF AdaptersOf
    <3>2. o.adapters \in SUBSET Adapters
      BY <1>2, <2>2
    <3> QED BY <3>1, <3>2
  <2> QED BY <2>1, <2>2
<1>4. AdaptersOf(o) \subseteq AllAdapters(w, c)
  BY DEF AllAdapters
<1> QED BY <1>1, <1>2, <1>3, <1>4 DEF BasesOf

LEMMA Separate ==
  ASSUME NEW w \in Worlds, OwnNames(w)
  PROVE  /\ \A c, d \in ConfigMaps : c # d => AllAdapters(w, c) \cap AllAdapters(w, d) = {}
         /\ \A c \in ConfigMaps : \A m, n \in BasesOf(w, c) : m = n
<1>1. ASSUME NEW c \in ConfigMaps, NEW d \in ConfigMaps, c # d
      PROVE  AllAdapters(w, c) \cap AllAdapters(w, d) = {}
  <2>1. \A o \in w[c] : \A p \in w[d] : AdaptersOf(o) \cap AdaptersOf(p) = {}
    BY <1>1 DEF OwnNames
  <2> QED BY <2>1 DEF AllAdapters
<1>2. \A c \in ConfigMaps : \A m, n \in BasesOf(w, c) : m = n
  BY DEF OwnNames, BasesOf
<1> QED BY <1>1, <1>2

(* The ConfigMaps of a base model, when one comes or goes.                 *)
LEMMA MapsCounted ==
  ASSUME StoreType, NEW m
  PROVE  /\ Cardinality(CountedUnder(m)) \in Nat
         /\ Cardinality(CountedUnder(m)) = 0 <=> CountedUnder(m) = {}
         /\ \A c \in CountedUnder(m) :
              /\ Cardinality(CountedUnder(m) \ {c}) = Cardinality(CountedUnder(m)) - 1
              /\ Cardinality(CountedUnder(m) \ {c}) = 0 <=> CountedUnder(m) \ {c} = {}
         /\ \A c \in ConfigMaps \ CountedUnder(m) :
              Cardinality(CountedUnder(m) \cup {c}) = Cardinality(CountedUnder(m)) + 1
<1> DEFINE S == CountedUnder(m)
<1>1. S \subseteq ConfigMaps
  BY DEF CountedUnder, StoreType
<1> HIDE DEF S
<1>2. IsFiniteSet(S) /\ Cardinality(S) \in Nat
  BY <1>1, AdaptersAssumption, FS_Subset, FS_CardinalityType
<1>3. Cardinality(S) = 0 <=> S = {}
  BY <1>2, FS_EmptySet
<1>4. \A c \in S : IsFiniteSet(S \ {c}) /\ Cardinality(S \ {c}) = Cardinality(S) - 1
  BY <1>2, FS_RemoveElement
<1>5. \A c \in S : Cardinality(S \ {c}) = 0 <=> S \ {c} = {}
  <2> SUFFICES ASSUME NEW c \in S PROVE Cardinality(S \ {c}) = 0 <=> S \ {c} = {}
    OBVIOUS
  <2> DEFINE T == S \ {c}
  <2>1. IsFiniteSet(T)
    BY <1>4
  <2> HIDE DEF T
  <2>2. Cardinality(T) = 0 <=> T = {}
    BY <2>1, FS_EmptySet
  <2> QED BY <2>2 DEF T
<1>6. \A c \in ConfigMaps \ S : Cardinality(S \cup {c}) = Cardinality(S) + 1
  BY <1>2, FS_AddElement
<1> QED BY <1>2, <1>3, <1>4, <1>5, <1>6 DEF S

(* The counters, whatever users write, when a ConfigMap is added or leaves.*)
LEMMA AddCounts ==
  ASSUME StoreType, BaseModelsCounted, NEW c \in ConfigMaps, NEW base \in BaseModels,
         DOMAIN configmapAdapters' = DOMAIN configmapAdapters \cup {c},
         baseModels' = IF c \in DOMAIN configmapAdapters THEN baseModels
                       ELSE With(baseModels, {base}, Count(base) + 1),
         RememberAdded(c, base)
  PROVE  /\ BaseModelsCounted'
         /\ \A m \in DOMAIN baseModels' : m \in BaseModels /\ baseModels'[m] \in Int
         /\ DOMAIN counted' = DOMAIN configmapAdapters'
         /\ \A d \in DOMAIN counted' : counted'[d] = IF d \in DOMAIN counted THEN counted[d] ELSE base
         /\ c \in DOMAIN configmapAdapters => counted' = counted
         /\ c \notin DOMAIN configmapAdapters =>
              /\ CountedUnder(base)' = CountedUnder(base) \cup {c} /\ c \notin CountedUnder(base)
              /\ \A m : m # base => CountedUnder(m)' = CountedUnder(m)
<1>0. DOMAIN counted = DOMAIN configmapAdapters /\ miscounted' = miscounted
  BY DEF StoreType, RememberAdded
<1>1. CASE c \in DOMAIN configmapAdapters
  <2>1. baseModels' = baseModels /\ counted' = counted
    BY <1>1 DEF RememberAdded
  <2> QED BY <1>0, <1>1, <2>1 DEF StoreType, BaseModelsCounted, CountedUnder
<1>2. CASE c \notin DOMAIN configmapAdapters
  <2>1. /\ DOMAIN counted' = DOMAIN counted \cup {c}
        /\ \A d \in DOMAIN counted' : counted'[d] = IF d \in DOMAIN counted THEN counted[d] ELSE base
    BY <1>0, <1>2 DEF RememberAdded, With
  <2>2. /\ CountedUnder(base)' = CountedUnder(base) \cup {c} /\ c \notin CountedUnder(base)
        /\ \A m : m # base => CountedUnder(m)' = CountedUnder(m)
    BY <1>0, <1>2, <2>1 DEF CountedUnder
  <2>3. /\ DOMAIN baseModels' = DOMAIN baseModels \cup {base}
        /\ baseModels'[base] = Count(base) + 1
        /\ \A m \in DOMAIN baseModels \ {base} : baseModels'[m] = baseModels[m]
    BY <1>2 DEF With
  <2>4. Count(base) \in Int
    BY DEF Count, StoreType
  <2>5. \A m \in DOMAIN baseModels' : m \in BaseModels /\ baseModels'[m] \in Int
    <3>1. \A m \in DOMAIN baseModels : m \in BaseModels /\ baseModels[m] \in Int
      BY DEF StoreType
    <3>2. Count(base) + 1 \in Int
      BY <2>4
    <3> QED BY <2>3, <3>1, <3>2
  <2>6. ASSUME NEW m \in BaseModels \ miscounted
        PROVE  IF CountedUnder(m)' = {} THEN m \notin DOMAIN baseModels'
               ELSE m \in DOMAIN baseModels' /\ baseModels'[m] = Cardinality(CountedUnder(m)')
    <3>1. /\ CountedUnder(m) = {} => m \notin DOMAIN baseModels
          /\ CountedUnder(m) # {} =>
               m \in DOMAIN baseModels /\ baseModels[m] = Cardinality(CountedUnder(m))
      BY DEF BaseModelsCounted
    <3>2. CASE m = base
      <4>1. Count(m) = Cardinality(CountedUnder(m))
        BY <3>1, MapsCounted DEF Count
      <4>2. Cardinality(CountedUnder(m) \cup {c}) = Cardinality(CountedUnder(m)) + 1
        BY <2>2, <3>2, MapsCounted
      <4> QED BY <2>2, <2>3, <3>2, <4>1, <4>2
    <3>3. CASE m # base
      BY <2>2, <2>3, <3>1, <3>3
    <3> QED BY <3>2, <3>3
  <2>7. BaseModelsCounted'
    BY <1>0, <2>6 DEF BaseModelsCounted
  <2> QED BY <1>0, <1>2, <2>1, <2>2, <2>5, <2>7
<1> QED BY <1>1, <1>2

LEMMA LeaveCounts ==
  ASSUME StoreType, BaseModelsCounted, NEW c \in DOMAIN configmapAdapters,
         NEW base \in BaseModels \cup {None},
         DOMAIN configmapAdapters' = DOMAIN configmapAdapters \ {c},
         baseModels' = IF base = None THEN baseModels
                       ELSE IF Count(base) = 1 THEN Without(baseModels, {base})
                       ELSE With(baseModels, {base}, Count(base) - 1),
         RememberLeft(c, base)
  PROVE  /\ BaseModelsCounted'
         /\ \A m \in DOMAIN baseModels' : m \in BaseModels /\ baseModels'[m] \in Int
         /\ miscounted' \subseteq BaseModels
         /\ DOMAIN counted' = DOMAIN configmapAdapters'
         /\ \A d \in DOMAIN counted' : counted'[d] = counted[d]
         /\ \A m : CountedUnder(m)' = CountedUnder(m) \ {c}
         /\ \A m \in BaseModels \ {base} :
              /\ m \in DOMAIN baseModels' <=> m \in DOMAIN baseModels
              /\ m \in DOMAIN baseModels => baseModels'[m] = baseModels[m]
<1>0. DOMAIN counted = DOMAIN configmapAdapters /\ c \in DOMAIN counted
  BY DEF StoreType
<1>1. /\ DOMAIN counted' = DOMAIN counted \ {c}
      /\ \A d \in DOMAIN counted' : counted'[d] = counted[d]
  BY DEF RememberLeft, Without
<1>2. \A m : CountedUnder(m)' = CountedUnder(m) \ {c}
  BY <1>1 DEF CountedUnder
<1>3. miscounted' = IF counted[c] # base
                    THEN miscounted \cup ({counted[c], base} \ {None}) ELSE miscounted
  BY <1>0 DEF RememberLeft
<1>4. counted[c] \in BaseModels /\ counted[c] # None
  BY <1>0, AdaptersAssumption DEF StoreType
<1>5. miscounted' \subseteq BaseModels
  BY <1>3, <1>4 DEF StoreType
<1>6. \A m \in BaseModels \ {base} :
        /\ m \in DOMAIN baseModels' <=> m \in DOMAIN baseModels
        /\ m \in DOMAIN baseModels => baseModels'[m] = baseModels[m]
  BY DEF With, Without
<1>7. base # None =>
        IF Count(base) = 1 THEN DOMAIN baseModels' = DOMAIN baseModels \ {base}
        ELSE DOMAIN baseModels' = DOMAIN baseModels \cup {base} /\ baseModels'[base] = Count(base) - 1
  BY DEF With, Without
<1>8. \A m \in DOMAIN baseModels' : m \in BaseModels /\ baseModels'[m] \in Int
  <2>1. base # None => Count(base) \in Int
    BY DEF Count, StoreType
  <2>2. DOMAIN baseModels' \subseteq BaseModels
    BY <1>7 DEF StoreType
  <2>3. \A m \in DOMAIN baseModels' : m # base => baseModels'[m] \in Int
    BY <1>6, <2>2 DEF StoreType
  <2>4. base # None /\ base \in DOMAIN baseModels' => baseModels'[base] \in Int
    BY <1>7, <2>1
  <2>5. base = None => baseModels' = baseModels
    OBVIOUS
  <2> QED BY <2>2, <2>3, <2>4, <2>5 DEF StoreType
<1>9. ASSUME NEW m \in BaseModels \ miscounted'
      PROVE  IF CountedUnder(m)' = {} THEN m \notin DOMAIN baseModels'
             ELSE m \in DOMAIN baseModels' /\ baseModels'[m] = Cardinality(CountedUnder(m)')
  <2>1. m \notin miscounted /\ (m = base <=> m = counted[c])
    <3>1. m # None
      BY AdaptersAssumption
    <3>2. CASE counted[c] = base
      BY <1>3, <3>2
    <3>3. CASE counted[c] # base
      <4>1. miscounted' = miscounted \cup ({counted[c], base} \ {None})
        BY <1>3, <3>3
      <4> QED BY <3>1, <4>1
    <3> QED BY <3>2, <3>3
  <2>2. /\ CountedUnder(m) = {} => m \notin DOMAIN baseModels
        /\ CountedUnder(m) # {} =>
             m \in DOMAIN baseModels /\ baseModels[m] = Cardinality(CountedUnder(m))
    BY <2>1 DEF BaseModelsCounted
  <2>3. CASE m # base
    <3>1. CountedUnder(m)' = CountedUnder(m)
      BY <1>2, <2>1, <2>3 DEF CountedUnder
    <3> QED BY <1>6, <2>2, <2>3, <3>1
  <2>4. CASE m = base
    <3>1. c \in CountedUnder(m) /\ base # None
      BY <1>0, <1>4, <2>1, <2>4 DEF CountedUnder
    <3>2. Count(m) = Cardinality(CountedUnder(m)) /\ Count(m) \in Nat
      BY <2>2, <3>1, MapsCounted DEF Count
    <3>3. /\ Cardinality(CountedUnder(m) \ {c}) = Count(m) - 1
          /\ Cardinality(CountedUnder(m) \ {c}) = 0 <=> CountedUnder(m) \ {c} = {}
      BY <3>1, <3>2, MapsCounted
    <3>4. CountedUnder(m)' = CountedUnder(m) \ {c}
      BY <1>2
    <3>5. CASE Count(m) = 1
      <4>1. CountedUnder(m) \ {c} = {}
        BY <3>2, <3>3, <3>5
      <4>2. m \notin DOMAIN baseModels'
        BY <1>7, <2>4, <3>1, <3>5
      <4> QED BY <3>4, <4>1, <4>2
    <3>6. CASE Count(m) # 1
      <4>1. CountedUnder(m) \ {c} # {}
        BY <3>2, <3>3, <3>6
      <4>2. m \in DOMAIN baseModels' /\ baseModels'[m] = Count(m) - 1
        BY <1>7, <2>4, <3>1, <3>6
      <4> QED BY <3>3, <3>4, <4>1, <4>2
    <3> QED BY <3>5, <3>6
  <2> QED BY <2>3, <2>4
<1>10. BaseModelsCounted'
  BY <1>9 DEF BaseModelsCounted
<1> QED BY <1>0, <1>1, <1>2, <1>5, <1>6, <1>8, <1>10

(* The maps after a removal.                                               *)
LEMMA Deleted ==
  ASSUME NEW c \in DOMAIN configmapAdapters, NEW base, configMapDelete(c, base)
  PROVE  /\ DOMAIN configmapAdapters' = DOMAIN configmapAdapters \ {c}
         /\ \A d \in DOMAIN configmapAdapters \ {c} : configmapAdapters'[d] = configmapAdapters[d]
         /\ DOMAIN loraAdapterToBaseModel' = DOMAIN loraAdapterToBaseModel \ configmapAdapters[c]
         /\ \A a \in DOMAIN loraAdapterToBaseModel' : loraAdapterToBaseModel'[a] = loraAdapterToBaseModel[a]
         /\ baseModels' = IF base = None THEN baseModels
                          ELSE IF Count(base) = 1 THEN Without(baseModels, {base})
                          ELSE With(baseModels, {base}, Count(base) - 1)
BY DEF configMapDelete, Without

LEMMA Untouched ==
  ASSUME StoreType, NEW c, c \notin DOMAIN configmapAdapters, NEW base,
         configMapDelete(c, base), RememberLeft(c, base)
  PROVE  UNCHANGED <<store, miscounted, kept>> /\ DOMAIN counted' = DOMAIN counted
         /\ \A d \in DOMAIN counted : counted'[d] = counted[d]
<1>1. c \notin DOMAIN counted /\ c \notin kept
  BY DEF StoreType
<1> QED BY <1>1 DEF configMapDelete, RememberLeft, Without

-----------------------------------------------------------------------------
(* The work queue after each of its operations.                            *)
LEMMA EnqueueAdds ==
  ASSUME QueueType, NEW c \in ConfigMaps, Enqueue(c), current' = current
  PROVE  /\ queue' \in Seq(ConfigMaps)
         /\ \A i, j \in DOMAIN queue' : queue'[i] = queue'[j] => i = j
         /\ current' # None => ~InQueue(current.name)'
         /\ \A d : InQueue(d)' <=> InQueue(d) \/ (d = c /\ ~Reconciling(c))
         /\ dirty' <=> dirty \/ Reconciling(c)
<1>1. dirty' <=> dirty \/ Reconciling(c)
  BY DEF Enqueue
<1>2. CASE InQueue(c) \/ Reconciling(c)
  <2>1. queue' = queue
    BY <1>2 DEF Enqueue
  <2>2. \A d : InQueue(d)' <=> InQueue(d)
    BY <2>1 DEF InQueue
  <2> QED BY <1>1, <1>2, <2>1, <2>2 DEF QueueType
<1>3. CASE ~InQueue(c) /\ ~Reconciling(c)
  <2>1. queue' = Append(queue, c)
    BY <1>3 DEF Enqueue
  <2>2. \A i \in DOMAIN queue : queue[i] # c
    BY <1>3 DEF InQueue
  <2>3. /\ queue' \in Seq(ConfigMaps)
        /\ \A d : InQueue(d)' <=> InQueue(d) \/ d = c
        /\ \A i, j \in DOMAIN queue' : queue'[i] = queue'[j] => i = j
    BY <2>1, <2>2, InAppend DEF QueueType, InQueue
  <2> QED BY <1>1, <1>3, <2>3 DEF QueueType, Reconciling
<1> QED BY <1>2, <1>3


-----------------------------------------------------------------------------
(* A step that leaves the store alone.                                     *)
LEMMA QuietStore ==
  ASSUME NEW w, UNCHANGED store, UNCHANGED <<miscounted, kept>>, DOMAIN counted' = DOMAIN counted,
         \A d \in DOMAIN counted : counted'[d] = counted[d]
  PROVE  /\ StoreType => StoreType'
         /\ BaseModelsCounted => BaseModelsCounted'
         /\ StoreType /\ StoreInv(w) => StoreInv(w)'
         /\ configmapAdapters' = configmapAdapters /\ loraAdapterToBaseModel' = loraAdapterToBaseModel
<1>1. UNCHANGED <<loraAdapterToBaseModel, configmapAdapters, baseModels>>
  BY DEF store
<1>2. \A m : CountedUnder(m)' = CountedUnder(m)
  BY DEF CountedUnder
<1>3. StoreType => StoreType'
  BY <1>1 DEF StoreType
<1>4. BaseModelsCounted => BaseModelsCounted'
  BY <1>1, <1>2 DEF BaseModelsCounted
<1>5. ASSUME StoreType, StoreInv(w) PROVE StoreInv(w)'
  <2>1. \A c \in DOMAIN configmapAdapters' :
          /\ configmapAdapters'[c] \subseteq AllAdapters(w, c) /\ counted'[c] \in BasesOf(w, c)
          /\ \A a \in configmapAdapters'[c] :
              a \in DOMAIN loraAdapterToBaseModel' /\ loraAdapterToBaseModel'[a] \in BasesOf(w, c)
    BY <1>1, <1>5 DEF StoreInv, StoreType
  <2>2. \A m : Count(m)' = Count(m)
    BY <1>1 DEF Count
  <2> QED BY <1>1, <1>2, <1>5, <2>1, <2>2 DEF StoreInv
<1> QED BY <1>1, <1>3, <1>4, <1>5

(* Users change a ConfigMap.                                               *)
LEMMA ChangeKeeps ==
  ASSUME NEW w \in Worlds, IInv(w), NEW c \in ConfigMaps, NEW o \in w[c] \cup {None}, Change(c, o)
  PROVE  /\ IInv(w)'
         /\ StoreInv(w) /\ AppliedInv => StoreInv(w)' /\ AppliedInv'
<1> USE DEF IInv
<1>1. /\ changes < MaxChanges /\ changes' = changes + 1 /\ cluster' = [cluster EXCEPT ![c] = o]
      /\ contents' = contents /\ current' = current /\ retry' = retry /\ UNCHANGED store /\ UNCHANGED <<counted, miscounted, kept>>
  BY DEF Change, history
<1>2. /\ o \in Objects \cup {None}
      /\ cluster' \in [ConfigMaps -> Objects \cup {None}] /\ cluster'[c] = o
      /\ \A d \in ConfigMaps \ {c} : cluster'[d] = cluster[d]
  BY <1>1, ContentsTyped DEF QueueType
<1>3. changes' \in 0..MaxChanges
  BY <1>1, AdaptersAssumption DEF QueueType
<1>4. /\ StoreType' /\ BaseModelsCounted' /\ (StoreInv(w) => StoreInv(w)')
      /\ configmapAdapters' = configmapAdapters /\ loraAdapterToBaseModel' = loraAdapterToBaseModel
  BY <1>1, QuietStore
<1>5. \A d : Reconciling(d)' <=> Reconciling(d)
  BY <1>1 DEF Reconciling
<1>6. CASE hasIPPManagedLabel(cluster[c]) \/ hasIPPManagedLabel(o)
  <2>1. /\ queue' \in Seq(ConfigMaps)
        /\ \A i, j \in DOMAIN queue' : queue'[i] = queue'[j] => i = j
        /\ current' # None => ~InQueue(current.name)'
        /\ \A d : InQueue(d)' <=> InQueue(d) \/ (d = c /\ ~Reconciling(c))
        /\ dirty' <=> dirty \/ Reconciling(c)
    BY <1>1, <1>6, EnqueueAdds DEF Change
  <2>2. \A d : Pending(d)' <=> Pending(d) \/ d = c
    BY <1>1, <1>5, <2>1 DEF Pending
  <2>3. QueueType'
    BY <1>1, <1>2, <1>3, <2>1 DEF QueueType
  <2>4. dirty' \in BOOLEAN
    BY <1>6 DEF Change, Enqueue
  <2>5. CurrentInv(w)'
    BY <1>1, <1>2, <2>1 DEF CurrentInv, Reconciling, QueueType, Gets
  <2>6. AppliedInv => AppliedInv'
    BY <1>2, <1>4, <2>2 DEF AppliedInv
  <2>7. ResolvedAdapterListed'
    <3>1. \A d \in DOMAIN configmapAdapters : d # c => cluster'[d] = cluster[d]
      BY <1>2 DEF StoreType
    <3> QED BY <1>1, <1>4, <2>2, <3>1 DEF ResolvedAdapterListed
  <2> QED BY <1>4, <2>3, <2>4, <2>5, <2>6, <2>7
<1>7. CASE ~hasIPPManagedLabel(cluster[c]) /\ ~hasIPPManagedLabel(o)
  <2>1. queue' = queue /\ dirty' = dirty
    BY <1>7 DEF Change
  <2>2. \A d : (InQueue(d)' <=> InQueue(d)) /\ (Pending(d)' <=> Pending(d))
    BY <1>1, <1>5, <2>1 DEF Pending, InQueue
  <2>3. QueueType'
    BY <1>1, <1>2, <1>3, <2>1, <2>2 DEF QueueType
  <2>4. dirty' \in BOOLEAN
    BY <2>1
  <2>5. CurrentInv(w)'
    BY <1>1, <1>2, <1>7, <2>1 DEF CurrentInv, QueueType, Gets
  <2>6. ~Valid(cluster[c]) /\ ~Valid(o)
    BY <1>7 DEF Valid, hasIPPManagedLabel
  <2>7. AppliedInv => AppliedInv'
    BY <1>2, <1>4, <2>2, <2>6 DEF AppliedInv
  <2>8. ResolvedAdapterListed'
    <3>1. \A d \in DOMAIN configmapAdapters : Valid(cluster[d]) => cluster'[d] = cluster[d]
      BY <1>2, <2>6 DEF StoreType
    <3> QED BY <1>1, <1>4, <2>2, <3>1 DEF ResolvedAdapterListed
  <2> QED BY <1>4, <2>3, <2>4, <2>5, <2>7, <2>8
<1> QED BY <1>6, <1>7

(* Steps of the queue alone.                                               *)
LEMMA QueueKeeps ==
  ASSUME NEW w \in Worlds, IInv(w), UNCHANGED cluster, UNCHANGED store, UNCHANGED <<counted, miscounted, kept>>,
         \A d : Pending(d)' <=> Pending(d)
  PROVE  /\ StoreType' /\ BaseModelsCounted' /\ ResolvedAdapterListed'
         /\ StoreInv(w) /\ AppliedInv => StoreInv(w)' /\ AppliedInv'
<1>1. /\ StoreType' /\ BaseModelsCounted' /\ (StoreInv(w) => StoreInv(w)')
      /\ configmapAdapters' = configmapAdapters /\ loraAdapterToBaseModel' = loraAdapterToBaseModel
  BY QuietStore DEF IInv
<1>2. ResolvedAdapterListed'
  BY <1>1 DEF IInv, ResolvedAdapterListed
<1>3. AppliedInv => AppliedInv'
  BY <1>1 DEF AppliedInv
<1> QED BY <1>1, <1>2, <1>3

LEMMA RequeueKeeps ==
  ASSUME NEW w \in Worlds, IInv(w), NEW c \in ConfigMaps, Requeue(c)
  PROVE  /\ IInv(w)'
         /\ StoreInv(w) /\ AppliedInv => StoreInv(w)' /\ AppliedInv'
<1> USE DEF IInv
<1>1. /\ c \in retry /\ retry' = retry \ {c} /\ Enqueue(c) /\ current' = current
      /\ contents' = contents /\ cluster' = cluster /\ changes' = changes /\ UNCHANGED store /\ UNCHANGED <<counted, miscounted, kept>>
  BY DEF Requeue, clusterVars, history
<1>2. /\ queue' \in Seq(ConfigMaps)
      /\ \A i, j \in DOMAIN queue' : queue'[i] = queue'[j] => i = j
      /\ current' # None => ~InQueue(current.name)'
      /\ \A d : InQueue(d)' <=> InQueue(d) \/ (d = c /\ ~Reconciling(c))
      /\ dirty' <=> dirty \/ Reconciling(c)
  BY <1>1, EnqueueAdds
<1>3. \A d : Reconciling(d)' <=> Reconciling(d)
  BY <1>1 DEF Reconciling
<1>4. \A d : Pending(d)' <=> Pending(d)
  BY <1>1, <1>2, <1>3 DEF Pending
<1>5. /\ StoreType' /\ BaseModelsCounted' /\ ResolvedAdapterListed'
      /\ StoreInv(w) /\ AppliedInv => StoreInv(w)' /\ AppliedInv'
  BY <1>1, <1>4, QueueKeeps
<1>6. QueueType'
  BY <1>1, <1>2 DEF QueueType
<1>7. dirty' \in BOOLEAN
  BY <1>1 DEF Enqueue
<1>8. CurrentInv(w)'
  BY <1>1, <1>2 DEF CurrentInv, Reconciling
<1> QED BY <1>5, <1>6, <1>7, <1>8

LEMMA GetKeeps ==
  ASSUME NEW w \in Worlds, IInv(w), GetConfigMap \/ GetFails
  PROVE  /\ IInv(w)'
         /\ StoreInv(w) /\ AppliedInv => StoreInv(w)' /\ AppliedInv'
<1> USE DEF IInv
<1> DEFINE h == Head(queue)
<1>1. /\ current = None /\ queue # <<>> /\ queue' = Tail(queue) /\ dirty' = dirty
      /\ contents' = contents /\ cluster' = cluster /\ changes' = changes /\ UNCHANGED store /\ UNCHANGED <<counted, miscounted, kept>>
  BY DEF GetConfigMap, GetFails, clusterVars, history
<1>2. /\ h \in ConfigMaps /\ queue' \in Seq(ConfigMaps) /\ InQueue(h)
      /\ \A d : InQueue(d)' <=> InQueue(d) /\ d # h
      /\ \A i, j \in DOMAIN queue' : queue'[i] = queue'[j] => i = j
  BY <1>1, InTail DEF QueueType, InQueue
<1>3. \/ current' = [name |-> h, object |-> cluster[h]] /\ retry' = retry
      \/ current' = None /\ retry' = retry \cup {h}
  BY <1>1 DEF GetConfigMap, GetFails
<1>4. current' \in Gets \cup {None} /\ (current' # None => current' = [name |-> h, object |-> cluster[h]])
  BY <1>2, <1>3 DEF Gets, QueueType
<1>5. \A d : Pending(d)' <=> Pending(d)
  <2>1. [name |-> h, object |-> cluster[h]] \in Gets
    BY <1>2 DEF Gets, QueueType
  <2>2. [name |-> h, object |-> cluster[h]] # None
    BY <2>1, AdaptersAssumption
  <2> QED BY <1>1, <1>2, <1>3, <2>2 DEF Pending, Reconciling
<1>6. /\ StoreType' /\ BaseModelsCounted' /\ ResolvedAdapterListed'
      /\ StoreInv(w) /\ AppliedInv => StoreInv(w)' /\ AppliedInv'
  BY <1>1, <1>5, QueueKeeps
<1>7. QueueType'
  BY <1>1, <1>2, <1>3, <1>4 DEF QueueType
<1>8. dirty' \in BOOLEAN
  BY <1>1
<1>9. CurrentInv(w)'
  BY <1>1, <1>2, <1>4 DEF CurrentInv
<1> QED BY <1>6, <1>7, <1>8, <1>9

(* Done: the key is pending again if it is dirty or has failed.            *)
LEMMA DoneLeaves ==
  ASSUME QueueType, current # None, NEW c, c = current.name, NEW failed \in BOOLEAN, Done(failed)
  PROVE  /\ queue' \in Seq(ConfigMaps) /\ retry' \subseteq ConfigMaps /\ current' = None
         /\ \A i, j \in DOMAIN queue' : queue'[i] = queue'[j] => i = j
         /\ \A d : d # c => (Pending(d)' <=> Pending(d))
         /\ dirty \/ failed => Pending(c)'
<1>1. c \in ConfigMaps /\ ~InQueue(c) /\ current' = None
  BY DEF QueueType, Gets, Done
<1>2. /\ retry' \subseteq ConfigMaps
      /\ \A d : d # c => (d \in retry' <=> d \in retry)
      /\ failed => c \in retry'
  BY <1>1 DEF Done, QueueType
<1>3. /\ queue' \in Seq(ConfigMaps)
      /\ \A i, j \in DOMAIN queue' : queue'[i] = queue'[j] => i = j
      /\ \A d : d # c => (InQueue(d)' <=> InQueue(d))
      /\ dirty => InQueue(c)'
  <2>1. CASE ~dirty
    <3>1. queue' = queue
      BY <2>1 DEF Done
    <3> QED BY <2>1, <3>1 DEF QueueType, InQueue
  <2>2. CASE dirty
    <3>1. queue' = Append(queue, c) /\ \A i \in DOMAIN queue : queue[i] # c
      BY <1>1, <2>2 DEF Done, InQueue
    <3>2. /\ queue' \in Seq(ConfigMaps)
          /\ \A d : InQueue(d)' <=> InQueue(d) \/ d = c
          /\ \A i, j \in DOMAIN queue' : queue'[i] = queue'[j] => i = j
      <4>1. /\ c \in ConfigMaps /\ queue \in Seq(ConfigMaps)
            /\ \A i, j \in DOMAIN queue : queue[i] = queue[j] => i = j
        BY <1>1 DEF QueueType
      <4>2. /\ Append(queue, c) \in Seq(ConfigMaps)
            /\ \A d : (\E i \in DOMAIN Append(queue, c) : Append(queue, c)[i] = d)
                      <=> (\E i \in DOMAIN queue : queue[i] = d) \/ d = c
            /\ \A i, j \in DOMAIN Append(queue, c) : Append(queue, c)[i] = Append(queue, c)[j] => i = j
        BY <3>1, <4>1, InAppend
      <4> QED BY <3>1, <4>2 DEF InQueue
    <3> QED BY <3>2
  <2> QED BY <2>1, <2>2
<1> QED BY <1>1, <1>2, <1>3 DEF Pending, Reconciling

-----------------------------------------------------------------------------
(* An adapter that was listed stays listed, is listed by the ConfigMap     *)
(* that was applied, or is gone.                                           *)
LEMMA StaysListed ==
  ASSUME NEW w \in Worlds, IInv(w), NEW c \in ConfigMaps, cluster' = cluster,
         \A d : d # c => (Pending(d)' <=> Pending(d)), kept \ {c} \subseteq kept',
         \A d \in DOMAIN configmapAdapters \ {c} :
            d \in DOMAIN configmapAdapters' /\ configmapAdapters'[d] = configmapAdapters[d],
         \A a \in DOMAIN loraAdapterToBaseModel' :
            \/ /\ c \in DOMAIN configmapAdapters' /\ a \in configmapAdapters'[c]
               /\ \/ Pending(c)' \/ c \in kept'
                  \/ /\ Valid(cluster[c]) /\ a \in cluster[c].adapters
                     /\ loraAdapterToBaseModel'[a] = cluster[c].base
            \/ /\ a \in DOMAIN loraAdapterToBaseModel
               /\ loraAdapterToBaseModel'[a] = loraAdapterToBaseModel[a]
               /\ c \in DOMAIN configmapAdapters => a \notin configmapAdapters[c]
  PROVE  ResolvedAdapterListed'
<1> SUFFICES ASSUME NEW a \in DOMAIN loraAdapterToBaseModel'
             PROVE  \E d \in DOMAIN configmapAdapters' :
                      /\ a \in configmapAdapters'[d]
                      /\ \/ Pending(d)' \/ d \in kept'
                         \/ /\ Valid(cluster[d]) /\ a \in cluster[d].adapters
                            /\ loraAdapterToBaseModel'[a] = cluster[d].base
  BY DEF ResolvedAdapterListed, Valid
<1>1. CASE /\ c \in DOMAIN configmapAdapters' /\ a \in configmapAdapters'[c]
           /\ \/ Pending(c)' \/ c \in kept'
              \/ /\ Valid(cluster[c]) /\ a \in cluster[c].adapters
                 /\ loraAdapterToBaseModel'[a] = cluster[c].base
  BY <1>1
<1>2. CASE /\ a \in DOMAIN loraAdapterToBaseModel
           /\ loraAdapterToBaseModel'[a] = loraAdapterToBaseModel[a]
           /\ c \in DOMAIN configmapAdapters => a \notin configmapAdapters[c]
  <2>1. PICK d \in DOMAIN configmapAdapters :
          /\ a \in configmapAdapters[d]
          /\ \/ Pending(d) \/ d \in kept
             \/ /\ Valid(cluster[d]) /\ a \in cluster[d].adapters
                /\ loraAdapterToBaseModel[a] = cluster[d].base
    BY <1>2 DEF IInv, ResolvedAdapterListed
  <2>2. d # c
    BY <1>2, <2>1
  <2>3. d \in DOMAIN configmapAdapters' /\ a \in configmapAdapters'[d]
    BY <2>1, <2>2
  <2>4. (Pending(d) => Pending(d)') /\ (d \in kept => d \in kept')
    BY <2>2
  <2> QED BY <1>2, <2>1, <2>3, <2>4
<1> QED BY <1>1, <1>2

LEMMA ReconcileKeeps ==
  ASSUME NEW w \in Worlds, IInv(w), Reconcile
  PROVE  /\ IInv(w)'
         /\ OwnNames(w) /\ StoreInv(w) /\ AppliedInv => StoreInv(w)' /\ AppliedInv'
<1> USE DEF IInv
<1> SUFFICES ASSUME NEW c, c = current.name
             PROVE  /\ IInv(w)'
                    /\ OwnNames(w) /\ StoreInv(w) /\ AppliedInv => StoreInv(w)' /\ AppliedInv'
  OBVIOUS
<1> DEFINE o == current.object
           listed == configmapAdapters
           lora == loraAdapterToBaseModel
<1>1. /\ current # None /\ c \in ConfigMaps /\ o \in w[c] \cup {None}
      /\ contents' = contents /\ cluster' = cluster /\ changes' = changes
  BY DEF Reconcile, clusterVars, QueueType, CurrentInv, Gets
<1>2. \/ o = None /\ UNCHANGED store /\ RememberGone(c) /\ Done(FALSE)
      \/ /\ o # None /\ (o.terminating \/ ~o.label)
         /\ configMapDelete(c, o.base) /\ RememberLeft(c, o.base) /\ Done(FALSE)
      \/ /\ o # None /\ ~o.terminating /\ o.label /\ Parses(o)
         /\ configMapUpdateOrAddIfNotExist(c, o.base, o.adapters)
         /\ RememberAdded(c, o.base) /\ Done(FALSE)
      \/ o # None /\ UNCHANGED store /\ UNCHANGED <<counted, miscounted, kept>> /\ Done(TRUE)
  BY DEF Reconcile, hasIPPManagedLabel, history
<1>3. PICK failed \in BOOLEAN : Done(failed)
  BY <1>2
<1>4. /\ queue' \in Seq(ConfigMaps) /\ retry' \subseteq ConfigMaps /\ current' = None
      /\ \A i, j \in DOMAIN queue' : queue'[i] = queue'[j] => i = j
      /\ \A d : d # c => (Pending(d)' <=> Pending(d))
      /\ dirty => Pending(c)'
  BY <1>1, <1>3, DoneLeaves
<1>5. QueueType' /\ dirty' \in BOOLEAN /\ CurrentInv(w)'
  <2>1. QueueType'
    BY <1>1, <1>4 DEF QueueType
  <2>2. dirty' \in BOOLEAN /\ ~dirty'
    BY <1>3 DEF Done
  <2> QED BY <1>1, <1>4, <2>1, <2>2 DEF CurrentInv
<1>6. ~dirty => o = cluster[c] \/ (~hasIPPManagedLabel(o) /\ ~hasIPPManagedLabel(cluster[c]))
  BY <1>1 DEF CurrentInv
<1>7. o # None => /\ o.base \in BaseModels \cup {None} /\ (o.base # None => o.base \in BasesOf(w, c))
                  /\ o.adapters # None => o.adapters \subseteq AllAdapters(w, c) /\ o.adapters \subseteq Adapters
  BY <1>1, ContentsTyped
<1> HIDE DEF o
<1>8. listed' = listed /\ (~Valid(cluster[c]) \/ Pending(c)') /\ AppliedInv => AppliedInv'
  BY <1>1, <1>4 DEF AppliedInv
<1>9. CASE o = None /\ UNCHANGED store /\ RememberGone(c) /\ Done(FALSE)
  <2>1. /\ lora' = lora /\ listed' = listed
        /\ baseModels' = baseModels /\ counted' = counted /\ miscounted' = miscounted
        /\ kept' = IF c \in DOMAIN listed THEN kept \cup {c} ELSE kept
    BY <1>9 DEF RememberGone, store
  <2>2. StoreType' /\ BaseModelsCounted' /\ (StoreInv(w) => StoreInv(w)')
    <3>1. \A m : CountedUnder(m)' = CountedUnder(m)
      BY <2>1 DEF CountedUnder
    <3>2. \A m : Count(m)' = Count(m)
      BY <2>1 DEF Count
    <3> QED BY <2>1, <3>1, <3>2 DEF StoreType, BaseModelsCounted, StoreInv
  <2>3. ResolvedAdapterListed'
    <3>1. ASSUME NEW a \in DOMAIN lora'
          PROVE  \/ c \in DOMAIN listed' /\ a \in listed'[c] /\ c \in kept'
                 \/ a \in DOMAIN lora /\ lora'[a] = lora[a] /\ (c \in DOMAIN listed => a \notin listed[c])
      BY <2>1, <3>1
    <3> QED BY <1>1, <1>4, <2>1, <3>1, StaysListed
  <2>4. AppliedInv => AppliedInv'
    <3>1. ~Valid(cluster[c]) \/ Pending(c)'
      BY <1>4, <1>6, <1>9 DEF Valid, hasIPPManagedLabel
    <3> QED BY <1>8, <2>1, <3>1
  <2> QED BY <1>5, <2>2, <2>3, <2>4
<1>10. CASE /\ o # None /\ (o.terminating \/ ~o.label)
            /\ configMapDelete(c, o.base) /\ RememberLeft(c, o.base)
  <2>0. ~Valid(cluster[c]) \/ Pending(c)'
    BY <1>4, <1>6, <1>10 DEF Valid, hasIPPManagedLabel
  <2>1. CASE c \notin DOMAIN listed
    <3>1. /\ UNCHANGED store /\ UNCHANGED <<miscounted, kept>> /\ DOMAIN counted' = DOMAIN counted
          /\ \A d \in DOMAIN counted : counted'[d] = counted[d]
      BY <1>10, <2>1, Untouched
    <3>2. /\ StoreType' /\ BaseModelsCounted' /\ (StoreInv(w) => StoreInv(w)') /\ listed' = listed /\ lora' = lora
      BY <3>1, QuietStore
    <3>3. ResolvedAdapterListed'
      BY <1>1, <1>4, <2>1, <3>1, <3>2, StaysListed
    <3>4. AppliedInv => AppliedInv'
      BY <1>8, <2>0, <3>2
    <3> QED BY <1>5, <3>2, <3>3, <3>4
  <2>2. CASE c \in DOMAIN listed
    <3>1. /\ DOMAIN listed' = DOMAIN listed \ {c}
          /\ \A d \in DOMAIN listed \ {c} : listed'[d] = listed[d]
          /\ DOMAIN lora' = DOMAIN lora \ listed[c]
          /\ \A a \in DOMAIN lora' : lora'[a] = lora[a]
          /\ baseModels' = IF o.base = None THEN baseModels
                           ELSE IF Count(o.base) = 1 THEN Without(baseModels, {o.base})
                           ELSE With(baseModels, {o.base}, Count(o.base) - 1)
      BY <1>10, <2>2, Deleted
    <3>2. kept' = kept \ {c}
      BY <1>10 DEF RememberLeft
    <3>3. /\ BaseModelsCounted' /\ miscounted' \subseteq BaseModels
          /\ \A m \in DOMAIN baseModels' : m \in BaseModels /\ baseModels'[m] \in Int
          /\ DOMAIN counted' = DOMAIN listed' /\ \A d \in DOMAIN counted' : counted'[d] = counted[d]
          /\ \A m : CountedUnder(m)' = CountedUnder(m) \ {c}
          /\ \A m \in BaseModels \ {o.base} :
               /\ m \in DOMAIN baseModels' <=> m \in DOMAIN baseModels
               /\ m \in DOMAIN baseModels => baseModels'[m] = baseModels[m]
      BY <1>7, <1>10, <2>2, <3>1, LeaveCounts
    <3>4. StoreType'
      <4>1. \A d \in DOMAIN counted' : counted'[d] \in BaseModels
        BY <3>1, <3>3 DEF StoreType
      <4>2. \A a \in DOMAIN lora' : a \in Adapters /\ lora'[a] \in BaseModels
        BY <3>1 DEF StoreType
      <4>3. \A d \in DOMAIN listed' : d \in ConfigMaps /\ listed'[d] \subseteq Adapters
        BY <3>1 DEF StoreType
      <4>4. kept' \subseteq DOMAIN listed'
        BY <3>1, <3>2 DEF StoreType
      <4> QED BY <3>3, <4>1, <4>2, <4>3, <4>4 DEF StoreType
    <3>5. ResolvedAdapterListed'
      <4>1. \A a \in DOMAIN lora' : a \in DOMAIN lora /\ lora'[a] = lora[a] /\ a \notin listed[c]
        BY <3>1
      <4>2. \A d \in DOMAIN listed \ {c} : d \in DOMAIN listed' /\ listed'[d] = listed[d]
        BY <3>1
      <4> QED BY <1>1, <1>4, <3>2, <4>1, <4>2, StaysListed
    <3>6. AppliedInv => AppliedInv'
      BY <1>1, <1>4, <2>0, <3>1 DEF AppliedInv
    <3>7. ASSUME OwnNames(w), StoreInv(w) PROVE StoreInv(w)'
      <4>1. ASSUME NEW d \in DOMAIN listed'
            PROVE  /\ listed'[d] \subseteq AllAdapters(w, d) /\ counted'[d] \in BasesOf(w, d)
                   /\ \A a \in listed'[d] : a \in DOMAIN lora' /\ lora'[a] \in BasesOf(w, d)
        <5>1. /\ d \in DOMAIN listed /\ listed'[d] = listed[d] /\ d \in ConfigMaps /\ d # c
              /\ listed[d] \subseteq AllAdapters(w, d) /\ counted[d] \in BasesOf(w, d)
              /\ \A a \in listed[d] : a \in DOMAIN lora /\ lora[a] \in BasesOf(w, d)
          BY <3>1, <3>7, <4>1 DEF StoreInv, StoreType
        <5>2. listed[c] \subseteq AllAdapters(w, c) /\ AllAdapters(w, c) \cap AllAdapters(w, d) = {}
          BY <1>1, <2>2, <3>7, <5>1, Separate DEF StoreInv
        <5>3. counted'[d] = counted[d]
          BY <3>3, <4>1
        <5> QED BY <3>1, <5>1, <5>2, <5>3
      <4>2. ASSUME NEW m \in BaseModels
            PROVE  Count(m)' >= Cardinality(CountedUnder(m)')
        <5>1. /\ CountedUnder(m)' = CountedUnder(m) \ {c}
              /\ Count(m) >= Cardinality(CountedUnder(m)) /\ Count(m) \in Int
          BY <3>3, <3>7 DEF StoreInv, StoreType, Count
        <5>2. /\ Cardinality(CountedUnder(m)) \in Nat
              /\ c \in CountedUnder(m) =>
                   Cardinality(CountedUnder(m) \ {c}) = Cardinality(CountedUnder(m)) - 1
          BY MapsCounted
        <5>3. c \notin CountedUnder(m) => CountedUnder(m) \ {c} = CountedUnder(m)
          OBVIOUS
        <5>4. CASE m # o.base
          <6>1. /\ m \in DOMAIN baseModels' <=> m \in DOMAIN baseModels
                /\ m \in DOMAIN baseModels => baseModels'[m] = baseModels[m]
            <7>1. m \in BaseModels \ {o.base}
              BY <5>4
            <7> QED BY <3>3, <7>1
          <6>2. Count(m)' = Count(m)
            BY <6>1 DEF Count
          <6> QED BY <5>1, <5>2, <5>3, <6>2
        <5>5. CASE m = o.base
          <6>1. c \in CountedUnder(m)
            <7>1. m \in BasesOf(w, c) /\ counted[c] \in BasesOf(w, c) /\ c \in DOMAIN counted
              BY <1>7, <1>10, <2>2, <3>7, <5>5, AdaptersAssumption DEF StoreInv, StoreType
            <7>2. counted[c] = m
              BY <1>1, <3>7, <7>1, Separate
            <7> QED BY <7>1, <7>2 DEF CountedUnder
          <6>2. m # None
            BY AdaptersAssumption
          <6>3. Count(m)' = Count(m) - 1
            <7>1. CASE Count(m) = 1
              <8>1. m \notin DOMAIN baseModels'
                BY <3>1, <5>5, <6>2, <7>1 DEF Without
              <8> QED BY <7>1, <8>1 DEF Count
            <7>2. CASE Count(m) # 1
              <8>1. m \in DOMAIN baseModels' /\ baseModels'[m] = Count(m) - 1
                BY <3>1, <5>5, <6>2, <7>2 DEF With
              <8> QED BY <8>1 DEF Count
            <7> QED BY <7>1, <7>2
          <6> QED BY <5>1, <5>2, <6>1, <6>3
        <5> QED BY <5>4, <5>5
      <4> QED BY <4>1, <4>2 DEF StoreInv
    <3> QED BY <1>5, <3>3, <3>4, <3>5, <3>6, <3>7
  <2> QED BY <2>1, <2>2
<1>11. CASE /\ o # None /\ ~o.terminating /\ o.label /\ Parses(o)
            /\ configMapUpdateOrAddIfNotExist(c, o.base, o.adapters) /\ RememberAdded(c, o.base)
  <2> DEFINE removed == IF c \in DOMAIN listed THEN listed[c] \ o.adapters ELSE {}
  <2>0. /\ o.base \in BaseModels /\ o.base \in BasesOf(w, c)
        /\ o.adapters \subseteq AllAdapters(w, c) /\ o.adapters \subseteq Adapters
    BY <1>7, <1>11 DEF Parses
  <2>1. /\ DOMAIN listed' = DOMAIN listed \cup {c} /\ listed'[c] = o.adapters
        /\ \A d \in DOMAIN listed \ {c} : listed'[d] = listed[d]
        /\ DOMAIN lora' = (DOMAIN lora \cup o.adapters) \ removed
        /\ \A a \in DOMAIN lora' : lora'[a] = IF a \in o.adapters THEN o.base ELSE lora[a]
        /\ baseModels' = IF c \in DOMAIN listed THEN baseModels
                         ELSE With(baseModels, {o.base}, Count(o.base) + 1)
    <3>1. configMapUpdateOrAddIfNotExist(c, o.base, o.adapters)
      BY <1>11
    <3> HIDE DEF removed
    <3>2. removed = IF c \in DOMAIN listed THEN listed[c] \ o.adapters ELSE {}
      BY DEF removed
    <3>3. /\ DOMAIN listed' = DOMAIN listed \cup {c} /\ listed'[c] = o.adapters
          /\ \A d \in DOMAIN listed \ {c} : listed'[d] = listed[d]
      BY <3>1 DEF configMapUpdateOrAddIfNotExist, With
    <3>4. lora' = Without(With(lora, o.adapters, o.base), removed)
      BY <3>1, <3>2 DEF configMapUpdateOrAddIfNotExist
    <3>5. /\ DOMAIN lora' = (DOMAIN lora \cup o.adapters) \ removed
          /\ \A a \in DOMAIN lora' : lora'[a] = IF a \in o.adapters THEN o.base ELSE lora[a]
      BY <3>4 DEF With, Without
    <3>6. baseModels' = IF c \in DOMAIN listed THEN baseModels
                        ELSE With(baseModels, {o.base}, Count(o.base) + 1)
      BY <3>1 DEF configMapUpdateOrAddIfNotExist
    <3> QED BY <3>3, <3>5, <3>6
  <2>2. kept' = kept \ {c} /\ miscounted' = miscounted
    BY <1>11 DEF RememberAdded
  <2>10. PICK b \in BaseModels : b = o.base
    BY <2>0
  <2>3. /\ BaseModelsCounted'
        /\ \A m \in DOMAIN baseModels' : m \in BaseModels /\ baseModels'[m] \in Int
        /\ DOMAIN counted' = DOMAIN listed'
        /\ \A d \in DOMAIN counted' : counted'[d] = IF d \in DOMAIN counted THEN counted[d] ELSE o.base
        /\ c \in DOMAIN listed => counted' = counted
        /\ c \notin DOMAIN listed =>
             /\ CountedUnder(b)' = CountedUnder(b) \cup {c} /\ c \notin CountedUnder(b)
             /\ \A m : m # b => CountedUnder(m)' = CountedUnder(m)
    <3>1. /\ DOMAIN listed' = DOMAIN listed \cup {c} /\ RememberAdded(c, b)
          /\ baseModels' = IF c \in DOMAIN listed THEN baseModels
                           ELSE With(baseModels, {b}, Count(b) + 1)
      BY <1>11, <2>1, <2>10
    <3> QED BY <1>1, <2>10, <3>1, AddCounts
  <2>4. StoreType'
    <3>1. \A d \in DOMAIN counted' : counted'[d] \in BaseModels
      BY <2>0, <2>3 DEF StoreType
    <3>2. \A a \in DOMAIN lora' : a \in Adapters /\ lora'[a] \in BaseModels
      BY <2>0, <2>1 DEF StoreType
    <3>3. \A d \in DOMAIN listed' : d \in ConfigMaps /\ listed'[d] \subseteq Adapters
      BY <1>1, <2>0, <2>1 DEF StoreType
    <3>4. kept' \subseteq DOMAIN listed' /\ miscounted' \subseteq BaseModels
      BY <2>1, <2>2 DEF StoreType
    <3> QED BY <2>3, <3>1, <3>2, <3>3, <3>4 DEF StoreType
  <2>5. Pending(c)' \/ (cluster[c] = o /\ Valid(o))
    BY <1>4, <1>6, <1>11 DEF Valid, Parses, hasIPPManagedLabel
  <2>6. ResolvedAdapterListed'
    <3>1. ASSUME NEW a \in DOMAIN lora'
          PROVE  \/ /\ c \in DOMAIN listed' /\ a \in listed'[c]
                    /\ \/ Pending(c)'
                       \/ Valid(cluster[c]) /\ a \in cluster[c].adapters /\ lora'[a] = cluster[c].base
                 \/ a \in DOMAIN lora /\ lora'[a] = lora[a] /\ (c \in DOMAIN listed => a \notin listed[c])
      BY <2>1, <2>5, <3>1
    <3>2. \A d \in DOMAIN listed \ {c} : d \in DOMAIN listed' /\ listed'[d] = listed[d]
      BY <2>1
    <3> QED BY <1>1, <1>4, <2>2, <3>1, <3>2, StaysListed
  <2>7. AppliedInv => AppliedInv'
    BY <1>1, <1>4, <2>1, <2>5 DEF AppliedInv
  <2>8. ASSUME OwnNames(w), StoreInv(w) PROVE StoreInv(w)'
    <3>1. removed \subseteq AllAdapters(w, c) /\ removed \cap o.adapters = {}
      BY <2>8 DEF StoreInv
    <3>2. ASSUME NEW d \in DOMAIN listed'
          PROVE  /\ listed'[d] \subseteq AllAdapters(w, d) /\ counted'[d] \in BasesOf(w, d)
                 /\ \A a \in listed'[d] : a \in DOMAIN lora' /\ lora'[a] \in BasesOf(w, d)
      <4>1. CASE d = c
        <5>1. counted'[c] \in BasesOf(w, c)
          BY <2>0, <2>3, <2>8, <3>2, <4>1 DEF StoreInv, StoreType
        <5> QED BY <2>0, <2>1, <3>1, <4>1, <5>1
      <4>2. CASE d # c
        <5>1. /\ d \in DOMAIN listed /\ listed'[d] = listed[d] /\ d \in ConfigMaps
              /\ listed[d] \subseteq AllAdapters(w, d) /\ counted[d] \in BasesOf(w, d)
              /\ \A a \in listed[d] : a \in DOMAIN lora /\ lora[a] \in BasesOf(w, d)
          BY <2>1, <2>8, <3>2, <4>2 DEF StoreInv, StoreType
        <5>2. AllAdapters(w, c) \cap AllAdapters(w, d) = {}
          BY <1>1, <2>8, <4>2, <5>1, Separate
        <5>3. \A a \in listed[d] : a \notin o.adapters /\ a \notin removed
          BY <2>0, <3>1, <5>1, <5>2
        <5>4. counted'[d] = counted[d]
          BY <2>3, <3>2, <5>1 DEF StoreType
        <5> QED BY <2>1, <5>1, <5>3, <5>4
      <4> QED BY <4>1, <4>2
    <3>3. ASSUME NEW m \in BaseModels
          PROVE  Count(m)' >= Cardinality(CountedUnder(m)')
      <4>0. Count(m) >= Cardinality(CountedUnder(m)) /\ Count(m) \in Int
        BY <2>8 DEF StoreInv, StoreType, Count
      <4>1. CASE c \in DOMAIN listed
        <5>1. CountedUnder(m)' = CountedUnder(m) /\ Count(m)' = Count(m)
          BY <2>1, <2>3, <4>1 DEF CountedUnder, Count
        <5> QED BY <4>0, <5>1
      <4>2. CASE c \notin DOMAIN listed
        <5>1. /\ DOMAIN baseModels' = DOMAIN baseModels \cup {o.base}
              /\ baseModels'[o.base] = Count(o.base) + 1
              /\ \A n \in DOMAIN baseModels \ {o.base} : baseModels'[n] = baseModels[n]
          BY <2>1, <4>2 DEF With
        <5>2. CASE m # o.base
          <6>1. Count(m)' = Count(m)
            BY <5>1, <5>2 DEF Count
          <6>2. CountedUnder(m)' = CountedUnder(m)
            BY <2>10, <2>3, <4>2, <5>2
          <6> QED BY <4>0, <6>1, <6>2
        <5>3. CASE m = o.base
          <6>1. CountedUnder(m)' = CountedUnder(m) \cup {c} /\ c \notin CountedUnder(m)
            <7>1. m = b
              BY <2>10, <5>3
            <7> QED BY <2>3, <4>2, <7>1
          <6>2. /\ Cardinality(CountedUnder(m) \cup {c}) = Cardinality(CountedUnder(m)) + 1
                /\ Cardinality(CountedUnder(m)) \in Nat
            <7>1. c \in ConfigMaps \ CountedUnder(m)
              BY <1>1, <6>1
            <7>2. Cardinality(CountedUnder(m)) \in Nat
              BY MapsCounted
            <7>3. Cardinality(CountedUnder(m) \cup {c}) = Cardinality(CountedUnder(m)) + 1
              BY <7>1, MapsCounted
            <7> QED BY <7>2, <7>3
          <6>3. Count(m)' = Count(m) + 1
            BY <5>1, <5>3 DEF Count
          <6> QED BY <4>0, <6>1, <6>2, <6>3
        <5> QED BY <5>2, <5>3
      <4> QED BY <4>1, <4>2
    <3> QED BY <3>2, <3>3 DEF StoreInv
  <2> QED BY <1>5, <2>3, <2>4, <2>6, <2>7, <2>8
<1>12. CASE o # None /\ UNCHANGED store /\ UNCHANGED <<counted, miscounted, kept>> /\ Done(TRUE)
  <2>1. Pending(c)'
    BY <1>1, <1>12, DoneLeaves
  <2>2. \A d : Pending(d)' <=> Pending(d)
    BY <1>1, <1>4, <2>1 DEF Pending, Reconciling
  <2> QED BY <1>1, <1>5, <1>12, <2>2, QueueKeeps
<1> QED BY <1>2, <1>9, <1>10, <1>11, <1>12

-----------------------------------------------------------------------------
LEMMA InitHolds ==
  ASSUME NEW w \in Worlds, contents = w, Init
  PROVE  IInv(w) /\ StoreInv(w) /\ AppliedInv
<1> USE DEF Init
<1>1. \A d : ~InQueue(d) /\ ~Pending(d)
  BY DEF InQueue, Pending, Reconciling
<1>2. QueueType
  BY <1>1, AdaptersAssumption DEF QueueType
<1>3. dirty \in BOOLEAN
  OBVIOUS
<1>4. DOMAIN <<>> = {}
  OBVIOUS
<1>5. \A m : CountedUnder(m) = {}
  BY <1>4 DEF CountedUnder
<1>6. StoreType /\ BaseModelsCounted /\ StoreInv(w)
  <2>1. Cardinality({}) = 0 /\ \A m : Count(m) = 0
    BY <1>4, FS_EmptySet DEF Count
  <2>2. StoreType
    BY <1>4 DEF StoreType
  <2>3. BaseModelsCounted
    BY <1>4, <1>5 DEF BaseModelsCounted
  <2>4. ASSUME NEW m PROVE Count(m) >= Cardinality(CountedUnder(m))
    <3>1. CountedUnder(m) = {} /\ Count(m) = 0
      BY <1>5, <2>1
    <3>2. Cardinality(CountedUnder(m)) = 0
      BY <2>1, <3>1
    <3> QED BY <3>1, <3>2
  <2>5. StoreInv(w)
    BY <1>4, <2>4 DEF StoreInv
  <2> QED BY <2>2, <2>3, <2>5
<1>7. CurrentInv(w) /\ ResolvedAdapterListed /\ AppliedInv
  BY <1>4 DEF CurrentInv, ResolvedAdapterListed, AppliedInv, Valid
<1> QED BY <1>2, <1>3, <1>6, <1>7 DEF IInv

LEMMA StepHolds ==
  ASSUME NEW w \in Worlds, IInv(w), [Next]_vars
  PROVE  /\ IInv(w)'
         /\ OwnNames(w) /\ StoreInv(w) /\ AppliedInv => StoreInv(w)' /\ AppliedInv'
<1> DEFINE Goal == IInv(w)' /\ (OwnNames(w) /\ StoreInv(w) /\ AppliedInv => StoreInv(w)' /\ AppliedInv')
<1>1. ASSUME NEW c \in ConfigMaps, WriteConfigMap(c) PROVE Goal
  <2>1. PICK o \in w[c] : Change(c, o)
    BY <1>1 DEF WriteConfigMap, IInv, CurrentInv
  <2> QED BY <2>1, ChangeKeeps
<1>2. ASSUME NEW c \in ConfigMaps, DeleteConfigMap(c) PROVE Goal
  BY <1>2, ChangeKeeps DEF DeleteConfigMap
<1>3. ASSUME NEW c \in ConfigMaps, Requeue(c) PROVE Goal
  BY <1>3, RequeueKeeps
<1>4. ASSUME GetConfigMap \/ GetFails PROVE Goal
  BY <1>4, GetKeeps
<1>5. ASSUME Reconcile PROVE Goal
  BY <1>5, ReconcileKeeps
<1>6. ASSUME UNCHANGED vars PROVE Goal
  <2> USE DEF IInv
  <2>1. /\ UNCHANGED <<contents, cluster, changes, queue, current, dirty, retry, counted, miscounted, kept>>
        /\ UNCHANGED store
    BY <1>6 DEF vars, clusterVars, queueVars, history
  <2>2. \A d : (InQueue(d)' <=> InQueue(d)) /\ (Pending(d)' <=> Pending(d))
    BY <2>1 DEF InQueue, Pending, Reconciling
  <2>3. /\ StoreType' /\ BaseModelsCounted' /\ ResolvedAdapterListed'
        /\ StoreInv(w) /\ AppliedInv => StoreInv(w)' /\ AppliedInv'
    BY <2>1, <2>2, QueueKeeps
  <2>4. QueueType'
    BY <2>1, <2>2 DEF QueueType
  <2>5. dirty' \in BOOLEAN
    BY <2>1
  <2>6. CurrentInv(w)'
    BY <2>1 DEF CurrentInv
  <2> QED BY <2>3, <2>4, <2>5, <2>6
<1> HIDE DEF Goal
<1>7. Goal
  BY <1>1, <1>2, <1>3, <1>4, <1>5, <1>6 DEF Next
<1> QED BY <1>7 DEF Goal

(* What users may write does not change, so every state and step is one of *)
(* a single world.                                                         *)
WorldInv == contents \in Worlds /\ IInv(contents)
ServedInv == OwnNames(contents) => StoreInv(contents) /\ AppliedInv

LEMMA WorldStep ==
  ASSUME WorldInv, [Next]_vars
  PROVE  WorldInv' /\ (ServedInv => ServedInv')
<1>1. PICK w \in Worlds : contents = w
  BY DEF WorldInv
<1>2. IInv(w) /\ (ServedInv => (OwnNames(w) => StoreInv(w) /\ AppliedInv))
  BY <1>1 DEF WorldInv, ServedInv
<1>3. IInv(w)' /\ (OwnNames(w) /\ StoreInv(w) /\ AppliedInv => StoreInv(w)' /\ AppliedInv')
  BY <1>2, StepHolds
<1>4. contents' = w
  BY <1>3 DEF IInv, CurrentInv
<1>5. OwnNames(contents)' => OwnNames(w)
  BY <1>4 DEF OwnNames
<1>6. WorldInv'
  BY <1>3, <1>4 DEF WorldInv
<1>7. StoreInv(w)' => StoreInv(contents)'
  BY <1>4
<1> QED BY <1>2, <1>3, <1>5, <1>6, <1>7 DEF ServedInv

LEMMA WorldInit == Init => WorldInv /\ ServedInv
<1> SUFFICES ASSUME Init PROVE WorldInv /\ ServedInv
  OBVIOUS
<1>1. PICK w \in Worlds : contents = w
  BY DEF Init
<1>2. IInv(w) /\ StoreInv(w) /\ AppliedInv
  BY <1>1, InitHolds
<1> QED BY <1>1, <1>2 DEF WorldInv, ServedInv

(* Every step keeps the inductive invariant, whatever users write: what    *)
(* was fetched is current or dirty, and every adapter has the ConfigMap    *)
(* that wrote it.                                                          *)
THEOREM Invariance == Spec => []WorldInv
<1>1. WorldInv /\ [Next]_vars => WorldInv'
  BY WorldStep
<1> QED BY <1>1, WorldInit, PTL DEF Spec

(* The work queue and the store keep their types, whatever users write.    *)
THEOREM TypeCorrect == Spec => []TypeOK
<1>1. WorldInv => TypeOK
  BY DEF WorldInv, IInv, QueueType, StoreType, TypeOK
<1> QED BY <1>1, Invariance, PTL

(* Whatever users write, moved adapters and changed base models included:  *)
(* an adapter that resolves is listed, with this base model, by a valid    *)
(* ConfigMap, unless that is pending or was found gone.                    *)
THEOREM AdaptersListed == Spec => []ResolvedAdapterListed
<1>1. WorldInv => ResolvedAdapterListed
  BY DEF WorldInv, IInv
<1> QED BY <1>1, Invariance, PTL

(* Whatever users write: baseModels counts the ConfigMaps added with each  *)
(* base model, except one that a removal with another base model, or       *)
(* without one, has touched.                                               *)
THEOREM BasesCounted == Spec => []BaseModelsCounted
<1>1. WorldInv => BaseModelsCounted
  BY DEF WorldInv, IInv
<1> QED BY <1>1, Invariance, PTL

(* For users who keep to OwnNames, every ConfigMap that is valid and not   *)
(* pending is served: its base model and its adapters resolve to its base  *)
(* model, whatever was added, changed, removed and retried before.         *)
THEOREM MappingIsServed == Spec => []MappingServed
<1>1. WorldInv /\ ServedInv /\ [Next]_vars => WorldInv' /\ ServedInv'
  BY WorldStep
<1>2. ASSUME NEW w \in Worlds, IInv(w), OwnNames(w), StoreInv(w), AppliedInv
      PROVE  EveryMappingServed
  <2> USE <1>2 DEF IInv
  <2> SUFFICES ASSUME NEW c \in ConfigMaps, Valid(cluster[c]), ~Pending(c)
               PROVE  Served(c)
    BY DEF EveryMappingServed
  <2> DEFINE o == cluster[c]
  <2>1. /\ o \in w[c] /\ o.base # None
        /\ c \in DOMAIN configmapAdapters /\ configmapAdapters[c] = o.adapters
    BY DEF Valid, CurrentInv, AppliedInv
  <2>2. o.base \in BaseModels /\ o.base \in BasesOf(w, c)
    BY <2>1, ContentsTyped
  <2>3. \A a \in o.adapters : getBaseModel(a) = o.base
    BY <2>1, <2>2, Separate DEF getBaseModel, StoreInv
  <2>4. o.base \notin DOMAIN loraAdapterToBaseModel
    BY <2>2, AdaptersAssumption DEF StoreType
  <2>5. o.base \in DOMAIN baseModels
    <3>1. counted[c] = o.base /\ c \in DOMAIN counted
      BY <2>1, <2>2, Separate DEF StoreInv, StoreType
    <3>2. CountedUnder(o.base) # {}
      BY <3>1 DEF CountedUnder
    <3>3. Count(o.base) # 0
      BY <2>2, <3>2, MapsCounted DEF StoreInv, IInv
    <3> QED BY <3>3 DEF Count
  <2> QED BY <2>3, <2>4, <2>5 DEF Served, getBaseModel
<1>3. ASSUME WorldInv, ServedInv, OwnNames(contents) PROVE EveryMappingServed
  <2>1. PICK w \in Worlds : contents = w
    BY <1>3 DEF WorldInv
  <2>2. IInv(w) /\ OwnNames(w) /\ StoreInv(w) /\ AppliedInv
    BY <1>3, <2>1 DEF WorldInv, ServedInv
  <2> QED BY <1>2, <2>2
<1>4. WorldInv /\ ServedInv => MappingServed
  BY <1>3 DEF MappingServed
<1> QED BY <1>1, <1>4, WorldInit, PTL DEF Spec
=============================================================================
