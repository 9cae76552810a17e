--------------------------- MODULE CostDigestProofs ---------------------------
(***************************************************************************)
(* Proofs about CostDigest, for any models, responses, prices, window and  *)
(* flush intervals.                                                        *)
(***************************************************************************)
EXTENDS CostDigest, SequenceTheorems, FiniteSetTheorems, WellFoundedInduction, TLAPS

StoreInv ==
    /\ clock \in 0..MaxClock
    /\ store \in [Models -> Registered \cup {None}]
    /\ state \in [Models -> Accumulators \cup {None}]
    /\ log \in [Models -> Seq(Sample)]
    /\ \A m \in Models :
        /\ Len(log[m]) <= MaxSamples
        /\ state[m] # None => state[m].lastFlush <= clock /\ state[m].lastWindowStart <= clock

(* A call of Score: the candidates it has to read stay registered.         *)
ScoreInv ==
    /\ DOMAIN digests \subseteq Models /\ unread \subseteq DOMAIN digests
    /\ \A m \in unread : store[m] # None
    /\ scores # NoModels =>
        unread = {} /\ digests # NoModels /\ DOMAIN scores = DOMAIN digests

(* The samples first to last of l are an epoch, as far as it has come.     *)
IsEpoch(l, first, last) ==
    /\ first \in DOMAIN l /\ last \in DOMAIN l /\ first <= last
    /\ \E start \in [DOMAIN l -> DOMAIN l] : IsEpochs(l, start) /\ start[last] = first

(* An accumulator has the last epoch of the log.                           *)
IsAccount(acc, l) ==
    \E first \in DOMAIN l :
        /\ IsEpoch(l, first, Len(l))
        /\ acc.digest = SubSeq(l, first, Len(l)) /\ acc.lastWindowStart = l[first].at

(* A snapshot is of an epoch, too, taken at the last flush.                *)
IsSnapshot(d, l, flushed) ==
    \E first, last \in DOMAIN l :
        /\ IsEpoch(l, first, last)
        /\ d = SubSeq(l, first, last) /\ l[last].at = flushed
        /\ \A i \in (last + 1)..Len(l) : l[i].at - flushed < flushInterval

AccountInv ==
    \A m \in Models : IF state[m] = None THEN log[m] = <<>> ELSE IsAccount(state[m], log[m])
SnapshotInv ==
    \A m \in Models : store[m] # None /\ store[m].digest # None =>
        state[m] # None /\ IsSnapshot(store[m].digest, log[m], state[m].lastFlush)

IInv == StoreInv /\ ScoreInv /\ AccountInv /\ SnapshotInv

-----------------------------------------------------------------------------
LEMMA AppendFacts ==
  ASSUME NEW S, NEW s \in Seq(S), NEW e \in S
  PROVE  /\ Append(s, e) \in Seq(S) /\ Len(Append(s, e)) = Len(s) + 1 /\ Len(s) \in Nat
         /\ DOMAIN s = 1..Len(s) /\ DOMAIN Append(s, e) = 1..(Len(s) + 1)
         /\ \A i \in 1..Len(s) : Append(s, e)[i] = s[i]
         /\ Append(s, e)[Len(s) + 1] = e
BY AppendProperties

(* Runs of samples as the log grows.                                       *)
LEMMA Runs ==
  ASSUME NEW S, NEW s \in Seq(S), NEW e \in S
  PROVE  /\ \A f \in 1..Len(s) : \A l \in f..Len(s) :
              SubSeq(Append(s, e), f, l) = SubSeq(s, f, l)
         /\ \A f \in 1..Len(s) :
              Append(SubSeq(s, f, Len(s)), e) = SubSeq(Append(s, e), f, Len(s) + 1)
         /\ SubSeq(Append(s, e), Len(s) + 1, Len(s) + 1) = Append(<<>>, e)
<1> DEFINE t == Append(s, e)
<1>1. t \in Seq(S) /\ Len(t) = Len(s) + 1 /\ Len(s) \in Nat /\ t[Len(s) + 1] = e
  BY AppendFacts
<1>2. t = s \o <<e>> /\ <<e>> \in Seq(S)
  BY AppendIsConcat
<1> HIDE DEF t
<1>3. ASSUME NEW f \in 1..Len(s), NEW l \in f..Len(s)
      PROVE  SubSeq(t, f, l) = SubSeq(s, f, l)
  <2>1. l \in 1..Len(s)
    BY <1>1
  <2> QED BY <1>2, <2>1, SubSeqOfConcat1
<1>4. ASSUME NEW f \in 1..Len(s)
      PROVE  Append(SubSeq(s, f, Len(s)), e) = SubSeq(t, f, Len(s) + 1)
  <2>1. f \in 1..Len(t) /\ Len(s) + 1 \in f..Len(t) /\ Len(s) \in f..Len(s) /\ Len(s) + 1 - 1 = Len(s)
    BY <1>1
  <2>2. SubSeq(t, f, Len(s) + 1) = SubSeq(t, f, Len(s)) \o <<e>>
    BY <1>1, <2>1, SubSeqRecursiveSecond
  <2>3. SubSeq(t, f, Len(s)) = SubSeq(s, f, Len(s))
    BY <1>3, <2>1
  <2>4. SubSeq(s, f, Len(s)) \in Seq(S)
    <3>1. \A i \in f..Len(s) : s[i] \in S
      BY ElementOfSeq
    <3>2. f \in Int /\ Len(s) \in Int
      BY <1>1
    <3> QED BY <3>1, <3>2, SubSeqProperties
  <2> QED BY <2>2, <2>3, <2>4, AppendIsConcat
<1>5. SubSeq(t, Len(s) + 1, Len(s) + 1) = Append(<<>>, e)
  <2>1. Len(s) + 1 \in 1..Len(t) /\ Len(s) + 1 \in (Len(s) + 1)..Len(t) /\ Len(s) + 1 < Len(s) + 2
    BY <1>1
  <2>2. SubSeq(t, Len(s) + 1, Len(s) + 1) = <<e>> \o SubSeq(t, Len(s) + 2, Len(s) + 1)
    BY <1>1, <2>1, SubSeqRecursiveFirst
  <2>3. SubSeq(t, Len(s) + 2, Len(s) + 1) = <<>>
    BY <1>1, <2>1, SubSeqEmpty
  <2>4. <<>> \in Seq(S)
    OBVIOUS
  <2>5. Append(<<>>, e) = <<>> \o <<e>>
    BY <2>4, AppendIsConcat
  <2> QED BY <1>2, <2>2, <2>3, <2>5, ConcatEmptySeq
<1> QED BY <1>3, <1>4, <1>5 DEF t

(* The epochs as the log grows: those of the samples so far stay, and the  *)
(* new sample goes on with the last one or, if that is old, begins one.    *)
LEMMA EpochsGrow ==
  ASSUME NEW l \in Seq(Sample), NEW s \in Sample,
         NEW start \in [DOMAIN l -> DOMAIN l], IsEpochs(l, start)
  PROVE  \E next \in [DOMAIN Append(l, s) -> DOMAIN Append(l, s)] :
            /\ IsEpochs(Append(l, s), next)
            /\ \A i \in DOMAIN l : next[i] = start[i]
            /\ next[Len(l) + 1] =
                 IF Len(l) + 1 > 1 /\ ~(/\ windowDuration > 0
                                       /\ s.at - l[start[Len(l)]].at >= windowDuration)
                 THEN start[Len(l)] ELSE Len(l) + 1
<1> DEFINE k == Append(l, s)
           n == Len(l)
           new == IF n + 1 > 1 /\ ~(/\ windowDuration > 0
                                   /\ s.at - l[start[n]].at >= windowDuration)
                  THEN start[n] ELSE n + 1
           next == [i \in DOMAIN k |-> IF i = n + 1 THEN new ELSE start[i]]
<1>1. /\ n \in Nat /\ DOMAIN l = 1..n /\ DOMAIN k = 1..(n + 1)
      /\ \A i \in 1..n : k[i] = l[i]
      /\ k[n + 1] = s
  BY AppendFacts
<1> HIDE DEF k, n
<1>2. \A i \in 1..n : start[i] \in 1..n
  BY <1>1
<1>3. n + 1 > 1 => n \in 1..n
  BY <1>1
<1>4. new \in DOMAIN k
  BY <1>1, <1>2, <1>3
<1>5. next[n + 1] = new /\ \A i \in 1..n : next[i] = start[i]
  <2>1. n + 1 \in DOMAIN k /\ \A i \in 1..n : i \in DOMAIN k /\ i # n + 1
    BY <1>1
  <2> HIDE DEF new
  <2> QED BY <2>1
<1>6. next \in [DOMAIN k -> DOMAIN k]
  <2>1. \A i \in DOMAIN k : i # n + 1 => start[i] \in DOMAIN k
    BY <1>1, <1>2
  <2> HIDE DEF new
  <2> QED BY <1>4, <2>1
<1>7. ASSUME NEW i \in 1..n
      PROVE  next[i] = IF i > 1 /\ ~(/\ windowDuration > 0
                                    /\ k[i].at - k[next[i - 1]].at >= windowDuration)
                       THEN next[i - 1] ELSE i
  <2>1. start[i] = IF i > 1 /\ ~(/\ windowDuration > 0
                                 /\ l[i].at - l[start[i - 1]].at >= windowDuration)
                   THEN start[i - 1] ELSE i
    BY <1>1 DEF IsEpochs
  <2>2. i > 1 => i - 1 \in 1..n
    BY <1>1
  <2>3. k[i] = l[i] /\ next[i] = start[i]
    BY <1>1, <1>5
  <2>4. i > 1 => next[i - 1] = start[i - 1] /\ k[start[i - 1]] = l[start[i - 1]]
    BY <1>1, <1>2, <1>5, <2>2
  <2> HIDE DEF next
  <2> QED BY <2>1, <2>3, <2>4
<1>8. ASSUME NEW i, i = n + 1
      PROVE  next[i] = IF i > 1 /\ ~(/\ windowDuration > 0
                                    /\ k[i].at - k[next[i - 1]].at >= windowDuration)
                       THEN next[i - 1] ELSE i
  <2>1. i - 1 = n
    BY <1>1, <1>8
  <2>2. n + 1 > 1 => next[n] = start[n] /\ k[start[n]] = l[start[n]]
    BY <1>1, <1>2, <1>3, <1>5
  <2>3. next[i] = new /\ k[i] = s
    BY <1>1, <1>5, <1>8
  <2> HIDE DEF next
  <2> QED BY <1>8, <2>1, <2>2, <2>3
<1> HIDE DEF next
<1>9. \A i \in DOMAIN k : i \in 1..n \/ i = n + 1
  BY <1>1
<1>10. IsEpochs(k, next)
  <2> SUFFICES ASSUME NEW i \in DOMAIN k
               PROVE  next[i] = IF i > 1 /\ ~(/\ windowDuration > 0
                                             /\ k[i].at - k[next[i - 1]].at >= windowDuration)
                                THEN next[i - 1] ELSE i
    BY DEF IsEpochs
  <2>1. CASE i \in 1..n
    BY <1>7, <2>1
  <2>2. CASE i = n + 1
    BY <1>8, <2>2
  <2> QED BY <1>9, <2>1, <2>2
<1>11. next[n + 1] = new
  BY <1>5
<1>12. \A i \in DOMAIN l : next[i] = start[i]
  BY <1>1, <1>5
<1> QED BY <1>6, <1>10, <1>11, <1>12, Zenon DEF k, n

(* An epoch stays one as the log grows.                                    *)
LEMMA EpochStays ==
  ASSUME NEW l \in Seq(Sample), NEW s \in Sample, NEW first, NEW last, IsEpoch(l, first, last)
  PROVE  IsEpoch(Append(l, s), first, last)
<1>1. PICK start \in [DOMAIN l -> DOMAIN l] : IsEpochs(l, start) /\ start[last] = first
  BY DEF IsEpoch
<1>2. PICK next \in [DOMAIN Append(l, s) -> DOMAIN Append(l, s)] :
        IsEpochs(Append(l, s), next) /\ \A i \in DOMAIN l : next[i] = start[i]
  BY <1>1, EpochsGrow
<1>3. first \in DOMAIN l /\ last \in DOMAIN l /\ first <= last
  BY DEF IsEpoch
<1>4. first \in DOMAIN Append(l, s) /\ last \in DOMAIN Append(l, s)
  BY <1>3, AppendFacts
<1> QED BY <1>1, <1>2, <1>3, <1>4 DEF IsEpoch

(* The epoch of a new sample.                                              *)
LEMMA EpochGoesOn ==
  ASSUME NEW l \in Seq(Sample), NEW s \in Sample, NEW first, IsEpoch(l, first, Len(l))
  PROVE  IF windowDuration > 0 /\ s.at - l[first].at >= windowDuration
         THEN IsEpoch(Append(l, s), Len(l) + 1, Len(l) + 1)
         ELSE IsEpoch(Append(l, s), first, Len(l) + 1)
<1>1. PICK start \in [DOMAIN l -> DOMAIN l] : IsEpochs(l, start) /\ start[Len(l)] = first
  BY DEF IsEpoch
<1>2. PICK next \in [DOMAIN Append(l, s) -> DOMAIN Append(l, s)] :
        /\ IsEpochs(Append(l, s), next)
        /\ next[Len(l) + 1] =
             IF Len(l) + 1 > 1 /\ ~(/\ windowDuration > 0
                                   /\ s.at - l[start[Len(l)]].at >= windowDuration)
             THEN start[Len(l)] ELSE Len(l) + 1
  BY <1>1, EpochsGrow
<1>3. /\ Len(l) \in Nat /\ DOMAIN l = 1..Len(l) /\ DOMAIN Append(l, s) = 1..(Len(l) + 1)
      /\ first \in DOMAIN l /\ Len(l) \in DOMAIN l
  BY AppendFacts DEF IsEpoch
<1>4. /\ Len(l) + 1 > 1 /\ first \in DOMAIN Append(l, s) /\ Len(l) + 1 \in DOMAIN Append(l, s)
      /\ first <= Len(l) + 1 /\ Len(l) + 1 <= Len(l) + 1
  BY <1>3
<1>5. CASE windowDuration > 0 /\ s.at - l[first].at >= windowDuration
  <2>1. next[Len(l) + 1] = Len(l) + 1
    BY <1>1, <1>2, <1>5
  <2>2. IsEpoch(Append(l, s), Len(l) + 1, Len(l) + 1)
    BY <1>2, <1>4, <2>1 DEF IsEpoch
  <2> QED BY <1>5, <2>2
<1>6. CASE ~(windowDuration > 0 /\ s.at - l[first].at >= windowDuration)
  <2>1. next[Len(l) + 1] = first
    BY <1>1, <1>2, <1>4, <1>6
  <2>2. IsEpoch(Append(l, s), first, Len(l) + 1)
    BY <1>2, <1>4, <2>1 DEF IsEpoch
  <2> QED BY <1>6, <2>2
<1> QED BY <1>5, <1>6

LEMMA FirstEpoch ==
  ASSUME NEW l \in Seq(Sample), Len(l) = 1
  PROVE  IsEpoch(l, 1, 1)
<1> DEFINE start == [i \in DOMAIN l |-> i]
<1>1. DOMAIN l = 1..1 /\ 1 \in DOMAIN l /\ \A i \in DOMAIN l : i = 1
  OBVIOUS
<1>2. start \in [DOMAIN l -> DOMAIN l] /\ start[1] = 1
  BY <1>1
<1>3. IsEpochs(l, start)
  BY <1>1 DEF IsEpochs
<1>4. 1 <= 1
  OBVIOUS
<1> HIDE DEF start
<1> QED BY <1>1, <1>2, <1>3, <1>4 DEF IsEpoch

(* AddSample accounts for the new sample.                                  *)
LEMMA SampleAdded ==
  ASSUME StoreInv, AccountInv, NEW m \in Models, NEW cost \in Nat
  PROVE  LET s == [cost |-> cost, at |-> clock]
             acc == AddSample(getOrCreateAccumulator(m), s)
         IN /\ s \in Sample /\ acc \in Accumulators /\ IsAccount(acc, Append(log[m], s))
            /\ acc.lastFlush = (IF state[m] # None THEN state[m].lastFlush ELSE clock)
            /\ acc.lastFlush <= clock /\ acc.lastWindowStart <= clock
<1> DEFINE s == [cost |-> cost, at |-> clock]
           old == getOrCreateAccumulator(m)
           acc == AddSample(old, s)
           l == log[m]
           k == Append(l, s)
           n == Len(l)
<1>0. clock \in 0..MaxClock /\ clock \in Nat /\ MaxClock \in Nat /\ windowDuration \in Nat
  BY CostAssumption DEF StoreInv
<1>1. s \in Sample /\ l \in Seq(Sample) /\ s.at = clock
  BY <1>0 DEF StoreInv, Sample
<1>2. old \in Accumulators /\ old.lastFlush <= clock /\ old.lastWindowStart <= clock
  <2>1. CASE state[m] # None
    BY <2>1 DEF StoreInv, getOrCreateAccumulator
  <2>2. CASE state[m] = None
    <3>1. old = [digest |-> <<>>, lastFlush |-> clock, lastWindowStart |-> clock]
      BY <2>2 DEF getOrCreateAccumulator
    <3>2. <<>> \in Seq(Sample)
      OBVIOUS
    <3> QED BY <1>0, <3>1, <3>2 DEF Accumulators
  <2> QED BY <2>1, <2>2
<1>3. old.lastFlush = (IF state[m] # None THEN state[m].lastFlush ELSE clock)
  BY DEF getOrCreateAccumulator
<1>4. /\ k \in Seq(Sample) /\ Len(k) = n + 1 /\ n \in Nat /\ DOMAIN l = 1..n /\ DOMAIN k = 1..(n + 1)
      /\ \A i \in 1..n : k[i] = l[i]
      /\ k[n + 1] = s
  BY <1>1, AppendFacts
<1>5. /\ \A f \in 1..n : Append(SubSeq(l, f, n), s) = SubSeq(k, f, n + 1)
      /\ SubSeq(k, n + 1, n + 1) = Append(<<>>, s)
  BY <1>1, Runs
<1>6. state[m] # None => IsAccount(old, l)
  BY DEF AccountInv, getOrCreateAccumulator
<1>7. state[m] = None => n = 0 /\ old.digest = <<>> /\ old.lastWindowStart = clock
  BY DEF AccountInv, getOrCreateAccumulator
<1> HIDE DEF s, old, k, n, l
<1>8. CASE windowDuration > 0 /\ clock - old.lastWindowStart >= windowDuration
  <2>1. acc = [[old EXCEPT !.digest = <<>>, !.lastWindowStart = clock] EXCEPT !.digest = Append(@, s)]
    BY <1>8 DEF AddSample, EnterWindow
  <2>2. /\ acc.digest = Append(<<>>, s) /\ acc.lastWindowStart = clock /\ acc.lastFlush = old.lastFlush
        /\ acc = [digest |-> Append(<<>>, s), lastFlush |-> old.lastFlush, lastWindowStart |-> clock]
    BY <1>2, <2>1 DEF Accumulators
  <2>3. acc \in Accumulators
    <3>1. Append(<<>>, s) \in Seq(Sample)
      BY <1>1, AppendProperties
    <3> QED BY <1>0, <1>2, <2>2, <3>1 DEF Accumulators
  <2>4. state[m] # None
    BY <1>0, <1>7, <1>8
  <2>5. PICK f \in 1..n : IsEpoch(l, f, Len(l)) /\ old.lastWindowStart = l[f].at
    BY <1>4, <1>6, <2>4 DEF IsAccount
  <2>6. n + 1 \in 1..(n + 1)
    BY <1>4
  <2>7. IsEpoch(k, n + 1, n + 1)
    BY <1>1, <1>8, <2>5, EpochGoesOn DEF k, n
  <2>8. IsAccount(acc, k)
    BY <1>1, <1>4, <1>5, <2>2, <2>6, <2>7 DEF IsAccount
  <2>9. acc.lastFlush <= clock /\ acc.lastWindowStart <= clock
    BY <1>0, <1>2, <2>2
  <2> QED BY <1>1, <1>3, <2>2, <2>3, <2>8, <2>9 DEF s, old, k, l
<1>9. CASE ~(windowDuration > 0 /\ clock - old.lastWindowStart >= windowDuration)
  <2>1. acc = [old EXCEPT !.digest = Append(@, s)]
    BY <1>9 DEF AddSample, EnterWindow
  <2>2. /\ acc.digest = Append(old.digest, s) /\ acc.lastWindowStart = old.lastWindowStart
        /\ acc.lastFlush = old.lastFlush
        /\ acc = [digest |-> Append(old.digest, s), lastFlush |-> old.lastFlush,
                  lastWindowStart |-> old.lastWindowStart]
    BY <1>2, <2>1 DEF Accumulators
  <2>3. acc \in Accumulators
    <3>1. old.digest \in Seq(Sample)
      BY <1>2 DEF Accumulators
    <3>2. Append(old.digest, s) \in Seq(Sample)
      BY <1>1, <3>1, AppendProperties
    <3> QED BY <1>2, <2>2, <3>2 DEF Accumulators
  <2>4. acc.lastFlush <= clock /\ acc.lastWindowStart <= clock
    BY <1>2, <2>2
  <2>5. IsAccount(acc, k)
    <3>1. CASE state[m] = None
      <4>1. n = 0 /\ acc.digest = SubSeq(k, 1, 1) /\ acc.lastWindowStart = clock
        <5>1. n = 0 /\ acc.digest = Append(<<>>, s) /\ acc.lastWindowStart = clock
          BY <1>7, <2>2, <3>1
        <5>2. n + 1 = 1
          BY <5>1
        <5> QED BY <1>5, <5>1, <5>2
      <4>2. 1 \in DOMAIN k /\ k[1] = s /\ Len(k) = 1
        BY <1>4, <4>1
      <4>3. IsEpoch(k, 1, 1)
        BY <1>4, <4>2, FirstEpoch
      <4>4. acc.lastWindowStart = k[1].at
        BY <1>1, <4>1, <4>2
      <4> HIDE DEF acc
      <4>5. \E first \in DOMAIN k :
              /\ IsEpoch(k, first, Len(k))
              /\ acc.digest = SubSeq(k, first, Len(k)) /\ acc.lastWindowStart = k[first].at
        BY <4>1, <4>2, <4>3, <4>4
      <4> QED BY <4>5 DEF IsAccount
    <3>2. CASE state[m] # None
      <4>1. PICK f \in 1..n : /\ IsEpoch(l, f, n) /\ old.digest = SubSeq(l, f, n)
                              /\ old.lastWindowStart = l[f].at
        BY <1>4, <1>6, <3>2 DEF IsAccount, n
      <4>2. acc.digest = SubSeq(k, f, n + 1) /\ acc.lastWindowStart = k[f].at
        BY <1>4, <1>5, <2>2, <4>1
      <4>4. IsEpoch(k, f, n + 1)
        BY <1>1, <1>9, <4>1, EpochGoesOn DEF k, n
      <4>5. f \in DOMAIN k
        BY <1>4
      <4> QED BY <1>4, <4>2, <4>4, <4>5 DEF IsAccount
    <3> QED BY <3>1, <3>2
  <2> QED BY <1>1, <1>3, <2>2, <2>3, <2>4, <2>5 DEF s, old, k, l
<1> QED BY <1>8, <1>9
-----------------------------------------------------------------------------
(* Steps that leave the extractor alone, or only its prices or models.     *)
LEMMA SnapshotOfSame ==
  ASSUME SnapshotInv, UNCHANGED <<state, log>>,
         \A m \in Models : store'[m] = None \/ store'[m].digest = None
                             \/ (store[m] # None /\ store'[m].digest = store[m].digest)
  PROVE  SnapshotInv'
BY DEF SnapshotInv

LEMMA ExtractorRests ==
  ASSUME IInv, UNCHANGED extractVars, clock' \in 0..MaxClock, clock <= clock'
  PROVE  StoreInv' /\ AccountInv' /\ SnapshotInv'
<1> USE DEF extractVars
<1>1. StoreInv'
  <2>1. \A m \in Models : state[m] # None =>
          state[m].lastFlush <= clock' /\ state[m].lastWindowStart <= clock'
    <3> SUFFICES ASSUME NEW m \in Models, state[m] # None
                 PROVE  state[m].lastFlush <= clock' /\ state[m].lastWindowStart <= clock'
      OBVIOUS
    <3>1. /\ state[m].lastFlush \in 0..MaxClock /\ state[m].lastWindowStart \in 0..MaxClock
          /\ state[m].lastFlush <= clock /\ state[m].lastWindowStart <= clock /\ clock \in 0..MaxClock
      BY DEF IInv, StoreInv, Accumulators
    <3> QED BY <3>1, CostAssumption
  <2> QED BY <2>1 DEF IInv, StoreInv
<1>2. AccountInv'
  BY DEF IInv, AccountInv
<1>3. SnapshotInv'
  BY DEF IInv, SnapshotInv
<1> QED BY <1>1, <1>2, <1>3

LEMMA TickKeeps ==
  ASSUME IInv, Tick
  PROVE  IInv'
<1>1. clock' = clock + 1 /\ clock < MaxClock /\ UNCHANGED <<extractVars, scoreVars>>
  BY DEF Tick
<1>2. clock' \in 0..MaxClock /\ clock <= clock'
  BY <1>1, CostAssumption DEF IInv, StoreInv
<1>3. ScoreInv'
  BY <1>1 DEF IInv, ScoreInv, extractVars, scoreVars
<1> QED BY <1>1, <1>2, <1>3, ExtractorRests DEF IInv

LEMMA PriceModelKeeps ==
  ASSUME IInv, NEW m \in Models, NEW p \in Prices, PriceModel(m, p)
  PROVE  IInv'
<1> DEFINE new == IF store[m] = None THEN [NewModel EXCEPT !.prices = p]
                                     ELSE [store[m] EXCEPT !.prices = p]
<1>0. store \in [Models -> Registered \cup {None}]
  BY DEF IInv, StoreInv
<1>1. store' = [store EXCEPT ![m] = new] /\ UNCHANGED <<clock, state, log, scoreVars>>
  BY DEF PriceModel
<1>2. new \in Registered /\ new.digest = IF store[m] = None THEN None ELSE store[m].digest
  BY <1>0 DEF Registered, NewModel
<1> HIDE DEF new
<1>3. store' \in [Models -> Registered \cup {None}]
  BY <1>0, <1>1, <1>2
<1>4. store'[m] = new /\ \A x \in Models : x # m => store'[x] = store[x]
  BY <1>0, <1>1
<1>5. StoreInv'
  BY <1>1, <1>3 DEF IInv, StoreInv
<1>6. AccountInv'
  BY <1>1 DEF IInv, AccountInv
<1>7. \A x \in Models : store'[x] = None \/ store'[x].digest = None
                          \/ (store[x] # None /\ store'[x].digest = store[x].digest)
  BY <1>2, <1>4
<1>8. SnapshotInv'
  BY <1>1, <1>7, SnapshotOfSame DEF IInv
<1>9. ScoreInv'
  <2>1. UNCHANGED <<digests, unread, scores>>
    BY <1>1 DEF scoreVars
  <2>2. new # None
    BY <1>2, CostAssumption
  <2> QED BY <1>4, <2>1, <2>2 DEF IInv, ScoreInv
<1> QED BY <1>5, <1>6, <1>8, <1>9 DEF IInv

LEMMA RemoveModelKeeps ==
  ASSUME IInv, NEW m \in Models, RemoveModel(m)
  PROVE  IInv'
<1>1. /\ store' = [store EXCEPT ![m] = None] /\ m \notin unread
      /\ UNCHANGED <<clock, state, log, digests, unread, scores>>
  BY DEF RemoveModel, scoreVars
<1>2. StoreInv'
  BY <1>1 DEF IInv, StoreInv
<1>3. AccountInv'
  BY <1>1 DEF IInv, AccountInv
<1>4. \A x \in Models : store'[x] = None \/ store'[x] = store[x]
  BY <1>1 DEF IInv, StoreInv
<1>5. SnapshotInv'
  BY <1>1, <1>4, SnapshotOfSame DEF IInv
<1>6. ScoreInv'
  <2>1. \A x \in unread : store'[x] = store[x]
    BY <1>1 DEF IInv, StoreInv, ScoreInv
  <2> QED BY <1>1, <2>1 DEF IInv, ScoreInv
<1> QED BY <1>2, <1>3, <1>5, <1>6 DEF IInv

(* A response event: the model is registered, or a sample added and, when  *)
(* the last flush is old enough, the digest published.                     *)
LEMMA ExtractKeeps ==
  ASSUME IInv, NEW m \in Models, NEW r \in Responses, Extract(m, r)
  PROVE  IInv'
<1> DEFINE registered == IF store[m] = None THEN NewModel ELSE store[m]
           counts == TokenCounts(r)
           cost == counts[1] * registered.prices.input + counts[2] * registered.prices.output
           s == [cost |-> cost, at |-> clock]
           acc == AddSample(getOrCreateAccumulator(m), s)
           due == flushInterval = 0 \/ clock - acc.lastFlush >= flushInterval
<1>0. /\ store \in [Models -> Registered \cup {None}] /\ clock \in Nat /\ clock \in 0..MaxClock
      /\ state \in [Models -> Accumulators \cup {None}] /\ log \in [Models -> Seq(Sample)]
      /\ flushInterval \in Nat
  BY CostAssumption DEF IInv, StoreInv
<1>1. registered \in Registered /\ registered.digest = IF store[m] = None THEN None ELSE store[m].digest
  BY <1>0 DEF Registered, NewModel
<1>2. Len(log[m]) < MaxSamples /\ UNCHANGED <<clock, digests, unread, scores>>
  BY <1>0, CostAssumption DEF Extract, scoreVars
<1>3. registered # None
  BY <1>1, CostAssumption
<1>4. CASE registered.prices = None \/ counts = None
  <2>1. store' = [store EXCEPT ![m] = registered] /\ UNCHANGED <<state, log>>
    BY <1>4 DEF Extract
  <2> HIDE DEF registered
  <2>2. /\ store' \in [Models -> Registered \cup {None}] /\ store'[m] = registered
        /\ \A x \in Models : x # m => store'[x] = store[x]
    BY <1>0, <1>1, <2>1
  <2>3. StoreInv'
    BY <1>2, <2>1, <2>2 DEF IInv, StoreInv
  <2>4. AccountInv'
    BY <2>1 DEF IInv, AccountInv
  <2>5. \A x \in Models : store'[x] = None \/ store'[x].digest = None
                          \/ (store[x] # None /\ store'[x].digest = store[x].digest)
    BY <1>1, <2>2
  <2>6. SnapshotInv'
    BY <2>1, <2>5, SnapshotOfSame DEF IInv
  <2>7. ScoreInv'
    BY <1>2, <1>3, <2>2 DEF IInv, ScoreInv
  <2> QED BY <2>3, <2>4, <2>6, <2>7 DEF IInv
<1>5. CASE ~(registered.prices = None \/ counts = None)
  <2>1. Flush(m, acc, registered) /\ log' = [log EXCEPT ![m] = Append(@, s)]
    BY <1>5 DEF Extract
  <2>2. cost \in Nat
    <3>1. counts \in Nat \X Nat
      BY <1>5, CostAssumption
    <3>2. registered.prices \in [input : Nat, output : Nat]
      BY <1>1, <1>5, CostAssumption DEF Registered
    <3> HIDE DEF counts, registered
    <3>3. /\ counts[1] \in Nat /\ counts[2] \in Nat
          /\ registered.prices.input \in Nat /\ registered.prices.output \in Nat
      BY <3>1, <3>2
    <3> QED BY <3>3
  <2> HIDE DEF cost
  <2>3. /\ s \in Sample /\ acc \in Accumulators /\ IsAccount(acc, Append(log[m], s))
        /\ acc.lastFlush = (IF state[m] # None THEN state[m].lastFlush ELSE clock)
        /\ acc.lastFlush <= clock /\ acc.lastWindowStart <= clock
    BY <2>2, SampleAdded DEF IInv
  <2>4. /\ state' = [state EXCEPT ![m] = IF due THEN [acc EXCEPT !.lastFlush = clock] ELSE acc]
        /\ \/ store' = [store EXCEPT ![m] = IF due THEN [registered EXCEPT !.digest = acc.digest]
                                                   ELSE registered]
           \/ due /\ store' = [store EXCEPT ![m] = [NewModel EXCEPT !.digest = acc.digest]]
    BY <2>1 DEF Flush
  <2>5. s.at = clock
    OBVIOUS
  <2> HIDE DEF s, acc, registered
  <2>6. /\ state' \in [Models -> Accumulators \cup {None}] /\ state'[m] \in Accumulators
        /\ state'[m].lastFlush = (IF due THEN clock ELSE acc.lastFlush)
        /\ state'[m].lastWindowStart = acc.lastWindowStart /\ state'[m].digest = acc.digest
        /\ \A x \in Models : x # m => state'[x] = state[x]
    <3> DEFINE new == IF due THEN [acc EXCEPT !.lastFlush = clock] ELSE acc
    <3>1. /\ new \in Accumulators /\ new.lastFlush = (IF due THEN clock ELSE acc.lastFlush)
          /\ new.lastWindowStart = acc.lastWindowStart /\ new.digest = acc.digest
      BY <1>0, <2>3 DEF Accumulators
    <3> HIDE DEF new
    <3>2. state' = [state EXCEPT ![m] = new]
      BY <2>4 DEF new
    <3> QED BY <1>0, <3>1, <3>2
  <2>7. /\ store' \in [Models -> Registered \cup {None}] /\ store'[m] \in Registered
        /\ store'[m].digest = (IF due THEN acc.digest ELSE registered.digest)
        /\ \A x \in Models : x # m => store'[x] = store[x]
    <3> DEFINE new == IF due THEN [registered EXCEPT !.digest = acc.digest] ELSE registered
               fresh == [NewModel EXCEPT !.digest = acc.digest]
    <3>1. new \in Registered /\ new.digest = (IF due THEN acc.digest ELSE registered.digest)
      BY <1>1, <2>3 DEF Registered, Accumulators
    <3>2. fresh \in Registered /\ fresh.digest = acc.digest
      BY <2>3 DEF Registered, Accumulators, NewModel
    <3> HIDE DEF new, fresh
    <3>3. store' = [store EXCEPT ![m] = new] \/ (due /\ store' = [store EXCEPT ![m] = fresh])
      BY <2>4 DEF new, fresh
    <3> HIDE DEF due
    <3> QED BY <1>0, <3>1, <3>2, <3>3
  <2> DEFINE k == Append(log[m], s)
             n == Len(log[m])
  <2>8. /\ k \in Seq(Sample) /\ Len(k) = n + 1 /\ n \in Nat /\ DOMAIN k = 1..(n + 1) /\ DOMAIN log[m] = 1..n
        /\ \A i \in 1..n : k[i] = log[m][i]
        /\ k[n + 1] = s
    BY <1>0, <2>3, AppendFacts
  <2>9. log' \in [Models -> Seq(Sample)] /\ log'[m] = k /\ \A x \in Models : x # m => log'[x] = log[x]
    BY <1>0, <2>1, <2>8
  <2>10. state'[m] # None
    BY <2>6, CostAssumption
  <2>11. \A f \in 1..n : \A l \in f..n : SubSeq(k, f, l) = SubSeq(log[m], f, l)
    BY <1>0, <2>3, Runs
  <2>12. IsAccount(acc, k)
    BY <2>3
  <2> HIDE DEF k, due
  <2>13. StoreInv'
    <3>1. Len(k) <= MaxSamples
      BY <1>2, <2>8, CostAssumption
    <3>2. state'[m].lastFlush <= clock /\ state'[m].lastWindowStart <= clock
      BY <1>0, <2>3, <2>6
    <3>3. \A x \in Models : /\ Len(log'[x]) <= MaxSamples
                            /\ state'[x] # None => state'[x].lastFlush <= clock /\ state'[x].lastWindowStart <= clock
      BY <2>6, <2>9, <3>1, <3>2 DEF IInv, StoreInv
    <3> QED BY <1>0, <1>2, <2>6, <2>7, <2>9, <3>3 DEF StoreInv
  <2>14. AccountInv'
    <3>1. IsAccount(state'[m], k)
      BY <2>6, <2>12 DEF IsAccount
    <3>2. \A x \in Models : x # m => IF state'[x] = None THEN log'[x] = <<>> ELSE IsAccount(state'[x], log'[x])
      BY <2>6, <2>9 DEF IInv, AccountInv
    <3>3. \A x \in Models : IF state'[x] = None THEN log'[x] = <<>> ELSE IsAccount(state'[x], log'[x])
      BY <2>9, <2>10, <3>1, <3>2
    <3> QED BY <3>3 DEF AccountInv
  <2>15. store'[m].digest # None => IsSnapshot(store'[m].digest, k, state'[m].lastFlush)
    <3>1. CASE due
      <4>1. PICK f \in DOMAIN k : IsEpoch(k, f, Len(k)) /\ acc.digest = SubSeq(k, f, Len(k))
        BY <2>12 DEF IsAccount
      <4>2. n + 1 \in DOMAIN k /\ Len(k) = n + 1 /\ k[Len(k)].at = state'[m].lastFlush
        BY <2>5, <2>6, <2>8, <3>1
      <4>3. \A i \in (n + 1 + 1)..Len(k) : k[i].at - state'[m].lastFlush < flushInterval
        BY <2>8
      <4>4. store'[m].digest = SubSeq(k, f, n + 1) /\ IsEpoch(k, f, n + 1)
        BY <2>7, <3>1, <4>1, <4>2
      <4> QED BY <4>2, <4>3, <4>4 DEF IsSnapshot
    <3>2. CASE ~due /\ store'[m].digest # None
      <4>1. /\ store[m] # None /\ store'[m].digest = store[m].digest
        BY <1>1, <2>7, <3>2
      <4>2. state[m] # None /\ IsSnapshot(store[m].digest, log[m], state[m].lastFlush)
        BY <3>2, <4>1 DEF IInv, SnapshotInv
      <4>3. state'[m].lastFlush = state[m].lastFlush /\ acc.lastFlush = state[m].lastFlush
        BY <2>3, <2>6, <3>2, <4>2
      <4> DEFINE flushed == state[m].lastFlush
      <4>4. PICK f, l \in 1..n :
              /\ IsEpoch(log[m], f, l)
              /\ store[m].digest = SubSeq(log[m], f, l) /\ log[m][l].at = flushed
              /\ \A i \in (l + 1)..n : log[m][i].at - flushed < flushInterval
        BY <2>8, <4>2 DEF IsSnapshot
      <4>5. f <= l
        BY <4>4 DEF IsEpoch
      <4>6. IsEpoch(k, f, l)
        BY <1>0, <2>3, <4>4, EpochStays DEF k
      <4>7. l \in f..n /\ f \in DOMAIN k /\ l \in DOMAIN k /\ k[l].at = flushed
        BY <2>8, <4>4, <4>5
      <4>8. store'[m].digest = SubSeq(k, f, l)
        BY <2>11, <4>1, <4>4, <4>7
      <4>9. clock - flushed < flushInterval
        <5>1. acc.lastFlush \in Nat
          BY <2>3, CostAssumption DEF Accumulators
        <5>2. ~(clock - acc.lastFlush >= flushInterval)
          BY <3>2 DEF due
        <5> QED BY <1>0, <4>3, <5>1, <5>2
      <4>10. \A i \in (l + 1)..Len(k) : k[i].at - flushed < flushInterval
        <5> SUFFICES ASSUME NEW i \in (l + 1)..Len(k) PROVE k[i].at - flushed < flushInterval
          OBVIOUS
        <5>1. CASE i = n + 1
          BY <2>5, <2>8, <4>9, <5>1
        <5>2. CASE i # n + 1
          <6>1. i \in (l + 1)..n /\ i \in 1..n
            BY <2>8, <5>2
          <6> QED BY <2>8, <4>4, <6>1
        <5> QED BY <5>1, <5>2
      <4> HIDE DEF flushed
      <4>11. IsSnapshot(store'[m].digest, k, flushed)
        BY <4>6, <4>7, <4>8, <4>10 DEF IsSnapshot
      <4> QED BY <4>3, <4>11 DEF flushed
    <3> QED BY <3>1, <3>2
  <2>16. SnapshotInv'
    <3>1. \A x \in Models : x # m /\ store'[x] # None /\ store'[x].digest # None =>
            state'[x] # None /\ IsSnapshot(store'[x].digest, log'[x], state'[x].lastFlush)
      BY <2>6, <2>7, <2>9 DEF IInv, SnapshotInv
    <3>2. \A x \in Models : store'[x] # None /\ store'[x].digest # None =>
            state'[x] # None /\ IsSnapshot(store'[x].digest, log'[x], state'[x].lastFlush)
      BY <2>9, <2>10, <2>15, <3>1
    <3> QED BY <3>2 DEF SnapshotInv
  <2>17. ScoreInv'
    <3>1. store'[m] # None
      BY <2>7, CostAssumption
    <3> QED BY <1>2, <2>7, <3>1 DEF IInv, ScoreInv
  <2> QED BY <2>13, <2>14, <2>16, <2>17 DEF IInv
<1> QED BY <1>4, <1>5
-----------------------------------------------------------------------------
(* The scorer reads and leaves the extractor alone.                        *)
LEMMA ScorerKeeps ==
  ASSUME IInv, \/ BeginScore \/ ComputeScores \/ ScoreReturns
               \/ \E m \in Models : ReadDigest(m)
  PROVE  IInv'
<1>1. UNCHANGED <<clock, extractVars>>
  BY DEF BeginScore, ComputeScores, ScoreReturns, ReadDigest
<1>2. clock' \in 0..MaxClock /\ clock <= clock'
  BY <1>1, CostAssumption DEF IInv, StoreInv
<1>3. StoreInv' /\ AccountInv' /\ SnapshotInv'
  BY <1>1, <1>2, ExtractorRests
<1>4. UNCHANGED store /\ ScoreInv
  BY <1>1 DEF extractVars, IInv
<1>5. CASE BeginScore
  <2>1. /\ digests = NoModels /\ unread' = {m \in Models : store[m] # None}
        /\ digests' = [m \in unread' |-> None] /\ UNCHANGED scores
    BY <1>5 DEF BeginScore
  <2>2. scores = NoModels
    BY <1>4, <2>1 DEF ScoreInv
  <2> QED BY <1>3, <1>4, <2>1, <2>2 DEF IInv, ScoreInv
<1>6. CASE ComputeScores
  <2>1. /\ digests # NoModels /\ unread = {} /\ UNCHANGED <<digests, unread>>
        /\ (scores' = exploit \/ \E pick \in explorable : scores' = explore(pick))
    BY <1>6 DEF ComputeScores
  <2>2. DOMAIN scores' = DOMAIN digests
    BY <2>1 DEF exploit, explore
  <2> QED BY <1>3, <1>4, <2>1, <2>2 DEF IInv, ScoreInv
<1>7. CASE ScoreReturns
  <2>1. scores # NoModels /\ digests' = NoModels /\ scores' = NoModels /\ UNCHANGED unread
    BY <1>7 DEF ScoreReturns
  <2> QED BY <1>3, <1>4, <2>1 DEF IInv, ScoreInv, NoModels
<1>8. CASE \E m \in Models : ReadDigest(m)
  <2>1. PICK m \in Models : ReadDigest(m)
    BY <1>8
  <2>2. /\ DOMAIN digests' = DOMAIN digests /\ unread' \subseteq unread /\ UNCHANGED scores
        /\ unread # {}
    BY <2>1 DEF ReadDigest
  <2> QED BY <1>3, <1>4, <2>2 DEF IInv, ScoreInv
<1> QED BY <1>5, <1>6, <1>7, <1>8
-----------------------------------------------------------------------------
LEMMA InitHolds == Init => IInv
<1> SUFFICES ASSUME Init PROVE IInv
  OBVIOUS
<1>1. /\ clock = 0 /\ store = [m \in Models |-> None] /\ state = [m \in Models |-> None]
      /\ log = [m \in Models |-> <<>>]
      /\ digests = NoModels /\ unread = {} /\ scores = NoModels
  BY DEF Init
<1>2. StoreInv
  BY <1>1, CostAssumption DEF StoreInv
<1>3. ScoreInv
  BY <1>1 DEF ScoreInv, NoModels
<1> QED BY <1>1, <1>2, <1>3 DEF IInv, AccountInv, SnapshotInv

LEMMA StutterKeeps ==
  ASSUME IInv, UNCHANGED vars
  PROVE  IInv'
<1>1. clock' \in 0..MaxClock /\ clock <= clock' /\ UNCHANGED <<extractVars, digests, unread, scores>>
  BY CostAssumption DEF vars, scoreVars, IInv, StoreInv
<1>2. ScoreInv'
  BY <1>1 DEF IInv, ScoreInv, extractVars
<1> QED BY <1>1, <1>2, ExtractorRests DEF IInv

(* Every step keeps the inductive invariant: an accumulator has the last   *)
(* epoch of all samples, a snapshot the epoch of the last flush.           *)
THEOREM Invariance == Spec => []IInv
<1>1. IInv /\ [Next]_vars => IInv'
  <2> SUFFICES ASSUME IInv, [Next]_vars PROVE IInv'
    OBVIOUS
  <2>1. CASE Tick
    BY <2>1, TickKeeps
  <2>2. CASE BeginScore \/ ComputeScores \/ ScoreReturns \/ \E m \in Models : ReadDigest(m)
    BY <2>2, ScorerKeeps
  <2>3. ASSUME NEW m \in Models, NEW p \in Prices, PriceModel(m, p) PROVE IInv'
    BY <2>3, PriceModelKeeps
  <2>4. ASSUME NEW m \in Models, RemoveModel(m) PROVE IInv'
    BY <2>4, RemoveModelKeeps
  <2>5. ASSUME NEW m \in Models, NEW r \in Responses, Extract(m, r) PROVE IInv'
    BY <2>5, ExtractKeeps
  <2>6. CASE UNCHANGED vars
    BY <2>6, StutterKeeps
  <2> QED BY <2>1, <2>2, <2>3, <2>4, <2>5, <2>6 DEF Next
<1> QED BY <1>1, InitHolds, PTL DEF Spec

(* A run of samples of the log is a digest of bounded length.              *)
LEMMA DigestTyped ==
  ASSUME NEW l \in Seq(Sample), Len(l) <= MaxSamples,
         NEW first \in DOMAIN l, NEW last \in DOMAIN l, first <= last
  PROVE  IsDigest(SubSeq(l, first, last)) /\ IsDigest(l)
<1> DEFINE d == SubSeq(l, first, last)
<1>1. /\ Len(l) \in Nat /\ DOMAIN l = 1..Len(l) /\ first \in 1..Len(l) /\ last \in 1..Len(l)
      /\ \A i \in 1..Len(l) : l[i] \in Sample
  BY ElementOfSeq, LenProperties
<1>2. \A i \in first..last : l[i] \in Sample
  BY <1>1
<1>3. d \in Seq(Sample) /\ Len(d) = last - first + 1
  BY <1>1, <1>2, SubSeqProperties
<1> HIDE DEF d
<1>4. Len(d) <= MaxSamples
  BY <1>1, <1>3, CostAssumption
<1>5. \A i \in DOMAIN d : d[i] \in Sample
  BY <1>3, ElementOfSeq, LenProperties
<1> QED BY <1>1, <1>4, <1>5 DEF IsDigest, d

(* The store, the accumulators, the log and the scorer keep their types.   *)
THEOREM TypeCorrect == Spec => []TypeOK
<1>1. IInv => TypeOK
  <2> SUFFICES ASSUME IInv PROVE TypeOK
    OBVIOUS
  <2>1. ASSUME NEW m \in Models, store[m] # None
        PROVE  /\ store[m].prices \in Prices \cup {None}
               /\ store[m].digest = None \/ IsDigest(store[m].digest)
    <3>1. store[m] \in Registered /\ log[m] \in Seq(Sample) /\ Len(log[m]) <= MaxSamples
      BY <2>1 DEF IInv, StoreInv
    <3>2. store[m].prices \in Prices \cup {None}
      BY <3>1 DEF Registered
    <3>3. ASSUME store[m].digest # None PROVE IsDigest(store[m].digest)
      <4>1. PICK first, last \in DOMAIN log[m] :
              first <= last /\ store[m].digest = SubSeq(log[m], first, last)
        BY <2>1, <3>3 DEF IInv, SnapshotInv, IsSnapshot, IsEpoch
      <4> QED BY <3>1, <4>1, DigestTyped
    <3> QED BY <3>2, <3>3
  <2>2. ASSUME NEW m \in Models, state[m] # None
        PROVE  /\ IsDigest(state[m].digest)
               /\ state[m].lastFlush \in 0..clock /\ state[m].lastWindowStart \in 0..clock
    <3>1. /\ state[m] \in Accumulators /\ log[m] \in Seq(Sample) /\ Len(log[m]) <= MaxSamples
          /\ state[m].lastFlush <= clock /\ state[m].lastWindowStart <= clock /\ clock \in 0..MaxClock
      BY <2>2 DEF IInv, StoreInv
    <3>2. PICK first \in DOMAIN log[m] :
            IsEpoch(log[m], first, Len(log[m])) /\ state[m].digest = SubSeq(log[m], first, Len(log[m]))
      BY <2>2 DEF IInv, AccountInv, IsAccount
    <3>3. first <= Len(log[m]) /\ Len(log[m]) \in DOMAIN log[m]
      BY <3>2 DEF IsEpoch
    <3>4. IsDigest(state[m].digest)
      BY <3>1, <3>2, <3>3, DigestTyped
    <3>5. state[m].lastFlush \in 0..clock /\ state[m].lastWindowStart \in 0..clock
      BY <3>1, CostAssumption DEF Accumulators
    <3> QED BY <3>4, <3>5
  <2>3. ASSUME NEW m \in Models PROVE IsDigest(log[m])
    <3>1. log[m] \in Seq(Sample) /\ Len(log[m]) <= MaxSamples
      BY DEF IInv, StoreInv
    <3> QED BY <3>1, ElementOfSeq, LenProperties DEF IsDigest
  <2> QED BY <2>1, <2>2, <2>3 DEF IInv, StoreInv, ScoreInv, TypeOK
<1> QED BY <1>1, Invariance, PTL

-----------------------------------------------------------------------------
(* For any window and flush intervals, and whenever requests come: every   *)
(* snapshot has all samples of one epoch up to its publication, from the   *)
(* first one after the window before had elapsed, and is behind by less    *)
(* than flushInterval of samples.                                          *)
THEOREM SnapshotsAccount == Spec => []SnapshotCurrent
<1>1. IInv => SnapshotCurrent
  <2> SUFFICES ASSUME IInv, NEW m \in Models, store[m] # None, store[m].digest # None
               PROVE  \E start \in [DOMAIN log[m] -> DOMAIN log[m]], last \in DOMAIN log[m] :
                        /\ IsEpochs(log[m], start)
                        /\ store[m].digest = SubSeq(log[m], start[last], last)
                        /\ \A i \in (last + 1)..Len(log[m]) :
                            log[m][i].at - log[m][last].at < flushInterval
    BY DEF SnapshotCurrent
  <2>1. PICK first, last \in DOMAIN log[m] :
          /\ IsEpoch(log[m], first, last)
          /\ store[m].digest = SubSeq(log[m], first, last) /\ log[m][last].at = state[m].lastFlush
          /\ \A i \in (last + 1)..Len(log[m]) : log[m][i].at - state[m].lastFlush < flushInterval
    BY DEF IInv, SnapshotInv, IsSnapshot
  <2>2. PICK start \in [DOMAIN log[m] -> DOMAIN log[m]] : IsEpochs(log[m], start) /\ start[last] = first
    BY <2>1 DEF IsEpoch
  <2> QED BY <2>1, <2>2
<1> QED BY <1>1, Invariance, PTL

(* For any intervals: a published snapshot is replaced only by a flush     *)
(* that was due, never by the samples added to the digest it came from.    *)
THEOREM SnapshotsRest == Spec => SnapshotStable
<1> DEFINE Due(m) == /\ state'[m].lastFlush = clock
                     /\ state[m] = None \/ clock - state[m].lastFlush >= flushInterval
<1>1. ASSUME IInv, [Next]_vars, NEW m \in Models,
             store[m] # None, store'[m] # None, store[m].digest # store'[m].digest
      PROVE  Due(m)
  <2>0. /\ store \in [Models -> Registered \cup {None}] /\ clock \in Nat /\ flushInterval \in Nat
        /\ state \in [Models -> Accumulators \cup {None}] /\ store[m] \in Registered
    BY <1>1, CostAssumption DEF IInv, StoreInv
  <2>1. CASE UNCHANGED store
    BY <1>1, <2>1
  <2>2. ASSUME NEW x \in Models, NEW p \in Prices, PriceModel(x, p) PROVE FALSE
    <3>1. store' = [store EXCEPT ![x] = IF @ = None THEN [NewModel EXCEPT !.prices = p]
                                                    ELSE [@ EXCEPT !.prices = p]]
      BY <2>2 DEF PriceModel
    <3>2. CASE x = m
      <4>1. store'[m] = [store[m] EXCEPT !.prices = p]
        BY <1>1, <2>0, <3>1, <3>2
      <4> QED BY <1>1, <2>0, <4>1 DEF Registered
    <3>3. CASE x # m
      BY <1>1, <2>0, <3>1, <3>3
    <3> QED BY <3>2, <3>3
  <2>3. ASSUME NEW x \in Models, RemoveModel(x) PROVE FALSE
    BY <1>1, <2>0, <2>3 DEF RemoveModel
  <2>4. ASSUME NEW x \in Models, NEW r \in Responses, Extract(x, r) PROVE Due(m)
    <3> DEFINE registered == IF store[x] = None THEN NewModel ELSE store[x]
               counts == TokenCounts(r)
               cost == counts[1] * registered.prices.input + counts[2] * registered.prices.output
               s == [cost |-> cost, at |-> clock]
               acc == AddSample(getOrCreateAccumulator(x), s)
               due == flushInterval = 0 \/ clock - acc.lastFlush >= flushInterval
    <3>1. CASE registered.prices = None \/ counts = None
      <4>1. store' = [store EXCEPT ![x] = registered]
        BY <2>4, <3>1 DEF Extract
      <4> QED BY <1>1, <2>0, <4>1
    <3>2. CASE ~(registered.prices = None \/ counts = None)
      <4>1. Flush(x, acc, registered)
        BY <2>4, <3>2 DEF Extract
      <4>2. cost \in Nat
        <5>1. counts \in Nat \X Nat
          BY <3>2, CostAssumption
        <5>2. registered \in Registered
          BY <2>0 DEF Registered, NewModel
        <5>3. registered.prices \in [input : Nat, output : Nat]
          BY <3>2, <5>2, CostAssumption DEF Registered
        <5> HIDE DEF counts, registered
        <5>4. /\ counts[1] \in Nat /\ counts[2] \in Nat
              /\ registered.prices.input \in Nat /\ registered.prices.output \in Nat
          BY <5>1, <5>3
        <5> QED BY <5>4
      <4> HIDE DEF cost
      <4>3. acc \in Accumulators /\ acc.lastFlush = (IF state[x] # None THEN state[x].lastFlush ELSE clock)
              /\ acc.lastFlush <= clock
        BY <1>1, <4>2, SampleAdded DEF IInv
      <4> HIDE DEF acc
      <4>4. /\ state' = [state EXCEPT ![x] = IF due THEN [acc EXCEPT !.lastFlush = clock] ELSE acc]
            /\ \/ store' = [store EXCEPT ![x] = IF due THEN [registered EXCEPT !.digest = acc.digest]
                                                       ELSE registered]
               \/ due /\ store' = [store EXCEPT ![x] = [NewModel EXCEPT !.digest = acc.digest]]
        BY <4>1 DEF Flush
      <4>5. x = m
        BY <1>1, <2>0, <4>4
      <4>6. due
        BY <1>1, <2>0, <4>4, <4>5
      <4>7. state'[m].lastFlush = clock
        BY <2>0, <4>3, <4>4, <4>5, <4>6 DEF Accumulators
      <4>8. clock - acc.lastFlush >= flushInterval
        <5>1. acc.lastFlush \in Nat
          BY <4>3, CostAssumption DEF Accumulators
        <5> QED BY <2>0, <4>3, <4>6, <5>1
      <4> QED BY <4>3, <4>5, <4>7, <4>8
    <3> QED BY <3>1, <3>2
  <2>5. Tick \/ BeginScore \/ ComputeScores \/ ScoreReturns \/ (\E x \in Models : ReadDigest(x))
          \/ UNCHANGED vars => UNCHANGED store
    BY DEF Tick, BeginScore, ComputeScores, ScoreReturns, ReadDigest, vars, extractVars
  <2> HIDE DEF Due
  <2> QED BY <1>1, <2>1, <2>2, <2>3, <2>4, <2>5 DEF Next
<1>2. IInv /\ [Next]_vars =>
        [\A m \in Models :
            store[m] # None /\ store'[m] # None /\ store[m].digest # store'[m].digest =>
                /\ state'[m].lastFlush = clock
                /\ state[m] = None \/ clock - state[m].lastFlush >= flushInterval]_vars
  BY <1>1
<1> QED BY <1>2, Invariance, PTL DEF Spec, SnapshotStable

-----------------------------------------------------------------------------
(* A set of naturals has a least element, a bounded one a greatest.        *)
LEMMA NatMin ==
  ASSUME NEW S, S \subseteq Nat, S # {}
  PROVE  \E n \in S : \A m \in S : n <= m
<1> DEFINE R == OpToRel(<, Nat)
<1>1. IsWellFoundedOn(R, Nat)
  BY NatLessThanWellFounded
<1>2. \A x, y \in Nat : y < x => <<y, x>> \in R
  BY DEF OpToRel
<1> HIDE DEF R
<1>3. PICK x \in S : \A y \in S : ~(<<y, x>> \in R)
  BY <1>1, WFMin
<1>4. \A y \in S : ~(y < x)
  BY <1>2, <1>3
<1>5. \A y \in S : x <= y
  BY <1>4 DEF R
<1> QED BY <1>5

LEMMA NatMax ==
  ASSUME NEW n \in Nat, NEW S, S \subseteq 1..n, S # {}
  PROVE  \E i \in S : \A j \in S : j <= i
<1> DEFINE T == {n - i : i \in S}
<1>1. T \subseteq Nat
  <2> SUFFICES ASSUME NEW i \in S PROVE n - i \in Nat
    OBVIOUS
  <2> QED OBVIOUS
<1>6. T # {}
  <2>1. PICK i \in S : TRUE
    OBVIOUS
  <2>2. n - i \in T
    OBVIOUS
  <2> QED BY <2>2
<1>2. PICK t \in T : \A u \in T : t <= u
  <2> HIDE DEF T
  <2> QED BY <1>1, <1>6, NatMin
<1>3. PICK i \in S : t = n - i
  OBVIOUS
<1>4. \A j \in S : n - i <= n - j
  BY <1>2, <1>3
<1>5. \A j \in S : j <= i
  BY <1>4
<1> QED BY <1>5

-----------------------------------------------------------------------------
(* Arithmetic of ratios.                                                   *)
IsRatio(r) == r[1] \in Int /\ r[2] \in Nat \ {0}

LEMMA Times ==
  ASSUME NEW a \in Int, NEW b \in Int, NEW c \in Nat, a <= b
  PROVE  a * c <= b * c /\ a * c \in Int /\ b * c \in Int
OBVIOUS

LEMMA TimesNat == \A a, b, c \in Nat : a <= b => a * c <= b * c
<1> SUFFICES ASSUME NEW a \in Nat, NEW b \in Nat, NEW c \in Nat, a <= b PROVE a * c <= b * c
  OBVIOUS
<1> QED OBVIOUS

LEMMA Cancel ==
  ASSUME NEW a \in Int, NEW b \in Int, NEW c \in Nat \ {0}, a * c <= b * c
  PROVE  a <= b
OBVIOUS

LEMMA LeqTotal ==
  ASSUME NEW r, NEW s, IsRatio(r), IsRatio(s)
  PROVE  (Leq(r, s) \/ Leq(s, r)) /\ Leq(r, r)
<1>1. \A a, b \in Int : a * b \in Int
  OBVIOUS
<1>2. r[1] * s[2] \in Int /\ s[1] * r[2] \in Int /\ r[1] * r[2] \in Int
  BY <1>1 DEF IsRatio
<1> QED BY <1>2 DEF Leq

LEMMA LeqTrans ==
  ASSUME NEW r, NEW s, NEW t, IsRatio(r), IsRatio(s), IsRatio(t), Leq(r, s), Leq(s, t)
  PROVE  Leq(r, t)
<1> SUFFICES ASSUME NEW a \in Int, NEW b \in Nat \ {0}, NEW c \in Int, NEW e \in Nat \ {0},
                    NEW x \in Int, NEW y \in Nat \ {0}, a * e <= c * b, c * y <= x * e
             PROVE  a * y <= x * b
  BY DEF Leq, IsRatio
<1>1. (a * e) * y <= (c * b) * y /\ (c * y) * b <= (x * e) * b
  OBVIOUS
<1>2. (a * e) * y = (a * y) * e /\ (c * b) * y = (c * y) * b /\ (x * e) * b = (x * b) * e
  OBVIOUS
<1>3. (a * y) * e <= (x * b) * e
  BY <1>1, <1>2
<1> QED BY <1>3, Cancel

LEMMA PlusRatio ==
  ASSUME NEW r, NEW s, IsRatio(r), IsRatio(s)
  PROVE  IsRatio(Plus(r, s))
<1> SUFFICES ASSUME NEW a \in Int, NEW b \in Nat \ {0}, NEW c \in Int, NEW e \in Nat \ {0}
             PROVE  a * e + c * b \in Int /\ b * e \in Nat \ {0}
  BY DEF Plus, IsRatio
<1> QED OBVIOUS

-----------------------------------------------------------------------------
(* The sums w[1] + ... + w[n], one after the other.                        *)
Sums(f, w, N) == f = [n \in 0..N |-> IF n = 0 THEN 0 ELSE f[n - 1] + w[n]]

LEMMA SumsExist ==
  ASSUME NEW w, NEW N \in Nat
  PROVE  \E f : Sums(f, w, N)
<1> DEFINE B == {n \in Nat : ~\E f : Sums(f, w, n)}
<1> SUFFICES ASSUME B # {} PROVE FALSE
  OBVIOUS
<1>1. B \subseteq Nat
  OBVIOUS
<1>2. PICK n \in B : \A m \in B : n <= m
  <2> HIDE DEF B
  <2> QED BY <1>1, NatMin
<1>3. CASE n = 0
  <2> DEFINE f == [k \in 0..0 |-> 0]
  <2>1. \A k \in 0..0 : k = 0
    OBVIOUS
  <2>2. Sums(f, w, 0)
    BY <2>1 DEF Sums
  <2> QED BY <1>3, <2>2
<1>4. CASE n # 0
  <2>1. n - 1 \in Nat /\ n - 1 \notin B
    BY <1>2, <1>4
  <2>2. PICK g : Sums(g, w, n - 1)
    BY <2>1
  <2> DEFINE f == [k \in 0..n |-> IF k = n THEN g[n - 1] + w[n] ELSE g[k]]
  <2>3. \A k \in 0..n - 1 : g[k] = IF k = 0 THEN 0 ELSE g[k - 1] + w[k]
    BY <2>2 DEF Sums
  <2>4. \A k \in 0..n : f[k] = IF k = 0 THEN 0 ELSE f[k - 1] + w[k]
    <3> TAKE k \in 0..n
    <3>1. CASE k = n
      <4>1. f[n] = g[n - 1] + w[n] /\ f[n - 1] = g[n - 1]
        BY <1>4
      <4> QED BY <1>4, <3>1, <4>1
    <3>2. CASE k # n
      <4>1. k \in 0..n - 1 /\ f[k] = g[k] /\ (k # 0 => f[k - 1] = g[k - 1])
        BY <3>2
      <4> QED BY <2>3, <4>1
    <3> QED BY <3>1, <3>2
  <2>5. f = [k \in 0..n |-> f[k]]
    OBVIOUS
  <2> HIDE DEF f
  <2>6. Sums(f, w, n)
    BY <2>4, <2>5 DEF Sums
  <2> QED BY <2>6
<1> QED BY <1>3, <1>4

LEMMA Summed ==
  ASSUME NEW w, NEW N \in Nat
  PROVE  \E f : Sums(f, w, N) /\ SumTo(w, N) = f[N]
<1> DEFINE f == CHOOSE g : Sums(g, w, N)
<1>1. Sums(f, w, N)
  BY SumsExist
<1>2. SumTo(w, N) = f[N]
  BY DEF SumTo, Sums
<1> QED BY <1>1, <1>2

(* Sums compare as their terms do, and no term is above the sum.           *)
LEMMA SumBounds ==
  ASSUME NEW N \in Nat, NEW w \in [1..N -> Nat], NEW v \in [1..N -> Nat], NEW c \in Nat
  PROVE  /\ SumTo(w, N) \in Nat /\ SumTo(v, N) \in Nat
         /\ \A i \in 1..N : w[i] <= SumTo(w, N)
         /\ (\A i \in 1..N : v[i] <= c * w[i]) => SumTo(v, N) <= c * SumTo(w, N)
         /\ (\A i \in 1..N : c * w[i] <= v[i]) => c * SumTo(w, N) <= SumTo(v, N)
<1>1. PICK f : Sums(f, w, N) /\ SumTo(w, N) = f[N]
  BY Summed
<1>2. PICK g : Sums(g, v, N) /\ SumTo(v, N) = g[N]
  BY Summed
<1>3. /\ f[0] = 0 /\ \A n \in 1..N : f[n] = f[n - 1] + w[n]
      /\ g[0] = 0 /\ \A n \in 1..N : g[n] = g[n - 1] + v[n]
  BY <1>1, <1>2 DEF Sums
<1> DEFINE P(n) == /\ f[n] \in Nat /\ g[n] \in Nat
                   /\ \A i \in 1..n : w[i] <= f[n]
                   /\ (\A i \in 1..N : v[i] <= c * w[i]) => g[n] <= c * f[n]
                   /\ (\A i \in 1..N : c * w[i] <= v[i]) => c * f[n] <= g[n]
<1>4. P(0)
  <2>1. c * 0 = 0 /\ 1..0 = {}
    OBVIOUS
  <2> QED BY <1>3, <2>1
<1>5. ASSUME NEW n \in 1..N, P(n - 1) PROVE P(n)
  <2> DEFINE a == f[n - 1]
             b == g[n - 1]
  <2>1. a \in Nat /\ b \in Nat /\ w[n] \in Nat /\ v[n] \in Nat /\ f[n] = a + w[n] /\ g[n] = b + v[n]
    BY <1>3, <1>5
  <2>2. \A i \in 1..n - 1 : w[i] <= a /\ w[i] \in Nat
    BY <1>5
  <2> HIDE DEF a, b
  <2>3. f[n] \in Nat /\ g[n] \in Nat
    BY <2>1
  <2>4. \A i \in 1..n : w[i] <= f[n]
    <3> SUFFICES ASSUME NEW i \in 1..n PROVE w[i] <= f[n]
      OBVIOUS
    <3>1. CASE i = n
      BY <2>1, <3>1
    <3>2. CASE i # n
      <4>1. i \in 1..n - 1
        BY <3>2
      <4> QED BY <2>1, <2>2, <4>1
    <3> QED BY <3>1, <3>2
  <2>5. c * f[n] = c * a + c * w[n] /\ c * a \in Nat /\ c * w[n] \in Nat
    BY <2>1
  <2>6. ASSUME \A i \in 1..N : v[i] <= c * w[i] PROVE g[n] <= c * f[n]
    <3>1. b <= c * a /\ v[n] <= c * w[n]
      BY <1>5, <2>6 DEF a, b
    <3> QED BY <2>1, <2>5, <3>1
  <2>7. ASSUME \A i \in 1..N : c * w[i] <= v[i] PROVE c * f[n] <= g[n]
    <3>1. c * a <= b /\ c * w[n] <= v[n]
      BY <1>5, <2>7 DEF a, b
    <3> QED BY <2>1, <2>5, <3>1
  <2> QED BY <2>3, <2>4, <2>6, <2>7
<1> HIDE DEF P
<1>6. P(N)
  <2> DEFINE B == {n \in 0..N : ~P(n)}
  <2> SUFFICES ASSUME B # {} PROVE FALSE
    OBVIOUS
  <2>1. B \subseteq Nat
    OBVIOUS
  <2>2. PICK n \in B : \A m \in B : n <= m
    <3> HIDE DEF B
    <3> QED BY <2>1, NatMin
  <2>3. n # 0 /\ n \in 0..N /\ ~P(n)
    BY <1>4
  <2>4. n \in 1..N /\ n - 1 \in 0..N /\ n - 1 \notin B
    BY <2>2, <2>3
  <2> QED BY <1>5, <2>3, <2>4
<1> QED BY <1>1, <1>2, <1>6 DEF P

LEMMA CostsThere ==
  ASSUME NEW d \in Seq(Sample)
  PROVE  Len(d) \in Nat /\ DOMAIN d = 1..Len(d) /\ \A i \in DOMAIN d : d[i].cost \in Nat
<1>1. \A i \in DOMAIN d : d[i] \in Sample
  OBVIOUS
<1>2. \A x \in Sample : x.cost \in Nat
  BY DEF Sample
<1> QED BY <1>1, <1>2

(* A mean is between the least and the greatest cost.                      *)
LEMMA MeanBounds ==
  ASSUME NEW d \in Seq(Sample), NEW share \in [DOMAIN d -> Nat], NEW c \in Nat
  PROVE  /\ TrimmedMean(d, share)[1] \in Nat /\ TrimmedMean(d, share)[2] \in Nat \ {0}
         /\ (\A i \in DOMAIN d : d[i].cost <= c) =>
              TrimmedMean(d, share)[1] <= c * TrimmedMean(d, share)[2]
         /\ (\E i \in DOMAIN d : share[i] > 0) /\ (\A i \in DOMAIN d : c <= d[i].cost) =>
              c * TrimmedMean(d, share)[2] <= TrimmedMean(d, share)[1]
<1> DEFINE v == [i \in DOMAIN d |-> share[i] * d[i].cost]
           N == Len(d)
<1>1. N \in Nat /\ DOMAIN d = 1..N /\ \A i \in 1..N : d[i].cost \in Nat /\ share[i] \in Nat
  BY CostsThere
<1>2. v \in [1..N -> Nat] /\ share \in [1..N -> Nat]
  <2>1. \A i \in 1..N : share[i] * d[i].cost \in Nat
    BY <1>1
  <2> QED BY <1>1, <2>1
<1>3. \A i \in 1..N : v[i] = share[i] * d[i].cost
  BY <1>1
<1>4. TrimmedMean(d, share) = IF SumTo(share, N) = 0 THEN <<0, 1>>
                              ELSE <<SumTo(v, N), SumTo(share, N)>>
  BY DEF TrimmedMean
<1> HIDE DEF v, N
<1>a. \A i \in 1..N : v[i] = d[i].cost * share[i]
  <2>1. \A a, b \in Nat : a * b = b * a
    OBVIOUS
  <2> QED BY <1>1, <1>3, <2>1
<1>5. (\A i \in DOMAIN d : d[i].cost <= c) => \A i \in 1..N : v[i] <= c * share[i]
  <2> SUFFICES ASSUME \A i \in DOMAIN d : d[i].cost <= c, NEW i \in 1..N PROVE v[i] <= c * share[i]
    OBVIOUS
  <2>1. i \in DOMAIN d /\ d[i].cost \in Nat /\ share[i] \in Nat
    BY <1>1
  <2>2. PICK a \in Nat, b \in Nat : a = d[i].cost /\ b = share[i]
    BY <2>1
  <2>3. a <= c
    BY <2>1, <2>2, Zenon
  <2>4. a * b <= c * b
    BY <2>3, TimesNat, Zenon
  <2> QED BY <1>a, <2>2, <2>4
<1>6. (\A i \in DOMAIN d : c <= d[i].cost) => \A i \in 1..N : c * share[i] <= v[i]
  <2> SUFFICES ASSUME \A i \in DOMAIN d : c <= d[i].cost, NEW i \in 1..N PROVE c * share[i] <= v[i]
    OBVIOUS
  <2>1. i \in DOMAIN d /\ d[i].cost \in Nat /\ share[i] \in Nat
    BY <1>1
  <2>2. PICK a \in Nat, b \in Nat : a = d[i].cost /\ b = share[i]
    BY <2>1
  <2>3. c <= a
    BY <2>1, <2>2, Zenon
  <2>4. c * b <= a * b
    BY <2>3, TimesNat, Zenon
  <2> QED BY <1>a, <2>2, <2>4
<1>7. /\ SumTo(share, N) \in Nat /\ SumTo(v, N) \in Nat
      /\ \A i \in 1..N : share[i] <= SumTo(share, N)
      /\ (\A i \in 1..N : v[i] <= c * share[i]) => SumTo(v, N) <= c * SumTo(share, N)
      /\ (\A i \in 1..N : c * share[i] <= v[i]) => c * SumTo(share, N) <= SumTo(v, N)
  BY <1>1, <1>2, SumBounds
<1>8. CASE SumTo(share, N) = 0
  <2>1. TrimmedMean(d, share)[1] = 0 /\ TrimmedMean(d, share)[2] = 1
    BY <1>4, <1>8
  <2>2. ~\E i \in DOMAIN d : share[i] > 0
    BY <1>1, <1>7, <1>8
  <2> QED BY <2>1, <2>2
<1>9. CASE SumTo(share, N) # 0
  <2>1. TrimmedMean(d, share)[1] = SumTo(v, N) /\ TrimmedMean(d, share)[2] = SumTo(share, N)
    BY <1>4, <1>9
  <2> QED BY <1>5, <1>6, <1>7, <1>9, <2>1
<1> QED BY <1>8, <1>9

(* The shares of the body and of the rest.                                 *)
LEMMA Shares ==
  ASSUME NEW d \in Seq(Sample)
  PROVE  /\ Body(d) \in [DOMAIN d -> Nat] /\ Rest(d) \in [DOMAIN d -> Nat]
         /\ \A i \in DOMAIN d : Body(d)[i] = BodyShare(d, i) /\ Rest(d)[i] = Whole - BodyShare(d, i)
<1>1. \A i \in DOMAIN d : BodyShare(d, i) \in 0..Whole
  <2> SUFFICES ASSUME NEW i \in DOMAIN d PROVE BodyShare(d, i) \in 0..Whole
    OBVIOUS
  <2> DEFINE below == Alpha * Len(d) - Whole * (Place(d, i) - 1)
  <2>1. Place(d, i) \in Nat
    <3> DEFINE S == {j \in DOMAIN d : d[j].cost < d[i].cost \/ (d[j].cost = d[i].cost /\ j <= i)}
    <3>1. S \in SUBSET (1..Len(d)) /\ Len(d) \in Nat
      BY CostsThere
    <3>3. IsFiniteSet(1..Len(d))
      BY <3>1, FS_Interval
    <3> HIDE DEF S
    <3>2. Cardinality(S) \in Nat
      BY <3>1, <3>3, FS_Subset, FS_CardinalityType
    <3> QED BY <3>2 DEF S, Place
  <2>2. below \in Int /\ Whole \in Nat
    <3>1. Len(d) \in Nat /\ Alpha \in Nat /\ Whole \in Nat
      BY CostAssumption
    <3> QED BY <2>1, <3>1
  <2>3. BodyShare(d, i) = IF below < 0 THEN 0 ELSE IF below > Whole THEN Whole ELSE below
    BY DEF BodyShare
  <2> HIDE DEF below
  <2> QED BY <2>2, <2>3
<1>2. \A i \in DOMAIN d : Whole - BodyShare(d, i) \in Nat /\ BodyShare(d, i) \in Nat
  BY <1>1, CostAssumption
<1> QED BY <1>2 DEF Body, Rest

(* The order of the samples: by cost, then by place.                       *)
Before(d, j, i) == d[j].cost < d[i].cost \/ (d[j].cost = d[i].cost /\ j <= i)

LEMMA Extremes ==
  ASSUME NEW d \in Seq(Sample), d # <<>>
  PROVE  /\ \E i \in DOMAIN d : \A j \in DOMAIN d : Before(d, i, j)
         /\ \E i \in DOMAIN d : \A j \in DOMAIN d : Before(d, j, i)
<1>1. /\ Len(d) \in Nat /\ DOMAIN d = 1..Len(d) /\ DOMAIN d # {}
      /\ \A i \in DOMAIN d : d[i].cost \in Nat
  <2>1. \A i \in DOMAIN d : d[i] \in Sample
    OBVIOUS
  <2>2. \A x \in Sample : x.cost \in Nat
    BY DEF Sample
  <2>3. DOMAIN d # {}
    BY EmptySeq
  <2> QED BY <2>1, <2>2, <2>3
<1> DEFINE N == Len(d)
<1>2. /\ \A i \in 1..N : Before(d, i, i)
      /\ \A i, j \in 1..N : Before(d, i, j) \/ Before(d, j, i)
      /\ \A i, j, k \in 1..N : Before(d, i, j) /\ Before(d, j, k) => Before(d, i, k)
  <2>1. \A i \in 1..N : d[i].cost \in Nat /\ i \in Nat
    BY <1>1
  <2> HIDE DEF N
  <2>2. \A i \in 1..N : Before(d, i, i)
    BY <2>1 DEF Before
  <2>3. \A i, j \in 1..N : Before(d, i, j) \/ Before(d, j, i)
    BY <2>1 DEF Before
  <2>4. \A i, j, k \in 1..N : Before(d, i, j) /\ Before(d, j, k) => Before(d, i, k)
    <3> SUFFICES ASSUME NEW i \in 1..N, NEW j \in 1..N, NEW k \in 1..N,
                        Before(d, i, j), Before(d, j, k)
                 PROVE  Before(d, i, k)
      OBVIOUS
    <3>1. /\ d[i].cost \in Nat /\ d[j].cost \in Nat /\ d[k].cost \in Nat
          /\ i \in Nat /\ j \in Nat /\ k \in Nat
      BY <2>1
    <3> QED BY <3>1 DEF Before
  <2> QED BY <2>2, <2>3, <2>4
<1>3. N \in Nat \ {0}
  BY <1>1
<1> HIDE DEF N
<1> DEFINE Least(n) == \E i \in 1..n : \A j \in 1..n : Before(d, i, j)
           Greatest(n) == \E i \in 1..n : \A j \in 1..n : Before(d, j, i)
           B == {n \in 1..N : ~(Least(n) /\ Greatest(n))}
<1>4. Least(1) /\ Greatest(1)
  <2>1. 1 \in 1..N /\ \A j \in 1..1 : j = 1
    BY <1>3
  <2>2. Before(d, 1, 1)
    BY <1>2, <2>1
  <2> QED BY <2>1, <2>2
<1>5. ASSUME NEW n \in 2..N, Least(n - 1), Greatest(n - 1)
      PROVE  Least(n) /\ Greatest(n)
  <2>1. n \in 1..n /\ n \in 1..N
    BY <1>3
  <2>2. \A j \in 1..n : j \in 1..N /\ (j = n \/ j \in 1..n - 1)
    BY <1>3
  <2>3. \A j \in 1..n - 1 : j \in 1..n
    BY <1>3
  <2>4. Least(n)
    <3>1. PICK i \in 1..n - 1 : \A j \in 1..n - 1 : Before(d, i, j)
      BY <1>5
    <3>2. CASE Before(d, i, n)
      <4>1. \A j \in 1..n : Before(d, i, j)
        BY <2>2, <3>1, <3>2
      <4> QED BY <2>3, <4>1
    <3>3. CASE ~Before(d, i, n)
      <4>1. i \in 1..N /\ Before(d, n, i)
        BY <1>2, <2>1, <2>2, <2>3, <3>3
      <4>2. \A j \in 1..n - 1 : j \in 1..N /\ Before(d, n, j)
        BY <1>2, <2>1, <2>2, <2>3, <3>1, <4>1
      <4>3. Before(d, n, n)
        BY <1>2, <2>1
      <4>4. \A j \in 1..n : Before(d, n, j)
        BY <2>2, <4>2, <4>3
      <4> QED BY <2>1, <4>4
    <3> QED BY <3>2, <3>3
  <2>5. Greatest(n)
    <3>1. PICK i \in 1..n - 1 : \A j \in 1..n - 1 : Before(d, j, i)
      BY <1>5
    <3>2. CASE Before(d, n, i)
      <4>1. \A j \in 1..n : Before(d, j, i)
        BY <2>2, <3>1, <3>2
      <4> QED BY <2>3, <4>1
    <3>3. CASE ~Before(d, n, i)
      <4>1. i \in 1..N /\ Before(d, i, n)
        BY <1>2, <2>1, <2>2, <2>3, <3>3
      <4>2. \A j \in 1..n - 1 : j \in 1..N /\ Before(d, j, n)
        BY <1>2, <2>1, <2>2, <2>3, <3>1, <4>1
      <4>3. Before(d, n, n)
        BY <1>2, <2>1
      <4>4. \A j \in 1..n : Before(d, j, n)
        BY <2>2, <4>2, <4>3
      <4> QED BY <2>1, <4>4
    <3> QED BY <3>2, <3>3
  <2> QED BY <2>4, <2>5
<1> HIDE DEF Least, Greatest
<1>6. B = {}
  <2> SUFFICES ASSUME B # {} PROVE FALSE
    OBVIOUS
  <2>1. PICK n \in B : \A m \in B : n <= m
    <3>1. B \subseteq Nat
      BY <1>3
    <3> HIDE DEF B
    <3> QED BY <3>1, NatMin
  <2>2. n \in 1..N /\ ~(Least(n) /\ Greatest(n)) /\ n # 1
    BY <1>4, <2>1
  <2>3. n \in 2..N /\ n - 1 \in 1..N /\ n - 1 \notin B
    BY <1>3, <2>1, <2>2
  <2> QED BY <1>5, <2>2, <2>3
<1>7. N \in 1..N
  BY <1>3
<1>8. Least(N) /\ Greatest(N)
  BY <1>6, <1>7
<1> QED BY <1>1, <1>8 DEF N, Least, Greatest

(* A digest has a part in the body and one in the rest.                    *)
LEMMA PartsThere ==
  ASSUME NEW d \in Seq(Sample), d # <<>>
  PROVE  (\E i \in DOMAIN d : Body(d)[i] > 0) /\ (\E i \in DOMAIN d : Rest(d)[i] > 0)
<1>1. /\ Len(d) \in Nat \ {0} /\ DOMAIN d = 1..Len(d)
      /\ Whole \in Nat /\ Alpha \in 1..(Whole - 1)
  BY CostAssumption, EmptySeq
<1>2. \A i \in DOMAIN d : Place(d, i) = Cardinality({j \in DOMAIN d : Before(d, j, i)})
  BY DEF Place, Before
<1>3. \E i \in DOMAIN d : Rest(d)[i] > 0
  <2>1. PICK i \in DOMAIN d : \A j \in DOMAIN d : Before(d, j, i)
    BY Extremes
  <2>2. {j \in DOMAIN d : Before(d, j, i)} = 1..Len(d)
    BY <1>1, <2>1
  <2>3. Place(d, i) = Len(d)
    <3>1. 1 \in Int /\ Len(d) \in Int /\ (IF 1 > Len(d) THEN 0 ELSE Len(d) - 1 + 1) = Len(d)
      BY <1>1
    <3>2. Cardinality(1..Len(d)) = IF 1 > Len(d) THEN 0 ELSE Len(d) - 1 + 1
      BY <3>1, FS_Interval
    <3> QED BY <1>2, <2>2, <3>1, <3>2
  <2>4. \A n \in Nat \ {0}, a, w \in Nat : a <= w - 1 =>
          a * n - w * (n - 1) \in Int /\ a * n - w * (n - 1) < w
    <3> SUFFICES ASSUME NEW n \in Nat \ {0}, NEW a \in Nat, NEW w \in Nat, a <= w - 1
                 PROVE  a * n - w * (n - 1) \in Int /\ a * n - w * (n - 1) < w
      OBVIOUS
    <3>1. a * n <= (w - 1) * n
      BY Times
    <3>2. (w - 1) * n = w * n - n /\ w * (n - 1) = w * n - w /\ w * n \in Int /\ a * n \in Int
      OBVIOUS
    <3> QED BY <3>1, <3>2
  <2> DEFINE below == Alpha * Len(d) - Whole * (Len(d) - 1)
  <2>5. below \in Int /\ below < Whole /\ Whole > 0
    <3>1. Alpha \in Nat /\ Alpha <= Whole - 1 /\ Whole > 0
      BY <1>1
    <3> QED BY <1>1, <2>4, <3>1
  <2>6. BodyShare(d, i) = IF below < 0 THEN 0 ELSE IF below > Whole THEN Whole ELSE below
    BY <2>3 DEF BodyShare
  <2> HIDE DEF below
  <2>7. Whole - BodyShare(d, i) > 0
    BY <1>1, <2>5, <2>6
  <2> QED BY <2>1, <2>7, Shares
<1>4. \E i \in DOMAIN d : Body(d)[i] > 0
  <2>1. PICK i \in DOMAIN d : \A j \in DOMAIN d : Before(d, i, j)
    BY Extremes
  <2>2. {j \in DOMAIN d : Before(d, j, i)} = {i}
    <3>1. \A j \in DOMAIN d : d[j].cost \in Nat
      BY CostsThere
    <3>2. \A j \in DOMAIN d : Before(d, j, i) => j = i
      BY <1>1, <2>1, <3>1 DEF Before
    <3>3. Before(d, i, i)
      BY <2>1
    <3> QED BY <2>1, <3>2, <3>3
  <2>3. Place(d, i) = 1
    BY <1>2, <2>1, <2>2, FS_Singleton
  <2> DEFINE below == Alpha * Len(d) - Whole * (1 - 1)
  <2>4. below \in Int /\ below > 0 /\ Whole > 0
    <3>1. Alpha \in Nat \ {0} /\ Whole > 0
      BY <1>1
    <3>2. \A a, n \in Nat \ {0}, w \in Nat : a * n - w * (1 - 1) \in Int /\ a * n - w * (1 - 1) > 0
      OBVIOUS
    <3> QED BY <1>1, <3>1, <3>2
  <2>5. BodyShare(d, i) = IF below < 0 THEN 0 ELSE IF below > Whole THEN Whole ELSE below
    BY <2>3 DEF BodyShare
  <2> HIDE DEF below
  <2>6. BodyShare(d, i) > 0
    BY <1>1, <2>4, <2>5
  <2> QED BY <2>1, <2>6, Shares
<1> QED BY <1>3, <1>4

(* A rank is between the least and the greatest cost, times 1 + Lambda.    *)
LEMMA RankBounds ==
  ASSUME NEW d \in Seq(Sample), NEW c \in Nat
  PROVE  /\ IsRatio(rank(d))
         /\ (\A i \in DOMAIN d : d[i].cost <= c) => rank(d)[1] <= (c * (1 + Lambda)) * rank(d)[2]
         /\ d # <<>> /\ (\A i \in DOMAIN d : c <= d[i].cost) =>
              (c * (1 + Lambda)) * rank(d)[2] <= rank(d)[1]
<1> DEFINE body == TrimmedMean(d, Body(d))
           tail == TrimmedMean(d, Rest(d))
<1>1. Body(d) \in [DOMAIN d -> Nat] /\ Rest(d) \in [DOMAIN d -> Nat]
  BY Shares
<1>11. d # <<>> => (\E i \in DOMAIN d : Body(d)[i] > 0) /\ (\E i \in DOMAIN d : Rest(d)[i] > 0)
  BY PartsThere
<1>2. /\ body[1] \in Nat /\ body[2] \in Nat \ {0}
      /\ (\A i \in DOMAIN d : d[i].cost <= c) => body[1] <= c * body[2]
      /\ d # <<>> /\ (\A i \in DOMAIN d : c <= d[i].cost) => c * body[2] <= body[1]
  BY <1>1, <1>11, MeanBounds
<1>3. /\ tail[1] \in Nat /\ tail[2] \in Nat \ {0}
      /\ (\A i \in DOMAIN d : d[i].cost <= c) => tail[1] <= c * tail[2]
      /\ d # <<>> /\ (\A i \in DOMAIN d : c <= d[i].cost) => c * tail[2] <= tail[1]
  BY <1>1, <1>11, MeanBounds
<1>4. rank(d)[1] = body[1] * tail[2] + (Lambda * tail[1]) * body[2] /\ rank(d)[2] = body[2] * tail[2]
  BY DEF rank, Plus
<1>5. Lambda \in Nat
  BY CostAssumption
<1> HIDE DEF body, tail
<1>6. ASSUME NEW a \in Nat, NEW b \in Nat \ {0}, NEW t \in Nat, NEW u \in Nat \ {0}, NEW l \in Nat
      PROVE  /\ a * u + (l * t) * b \in Nat /\ b * u \in Nat \ {0}
             /\ a <= c * b /\ t <= c * u => a * u + (l * t) * b <= (c * (1 + l)) * (b * u)
             /\ c * b <= a /\ c * u <= t => (c * (1 + l)) * (b * u) <= a * u + (l * t) * b
  <2>1. l * b \in Nat /\ a * u \in Nat /\ (l * t) * b \in Nat /\ b * u \in Nat \ {0}
    OBVIOUS
  <2>2. (l * t) * b = t * (l * b)
    OBVIOUS
  <2>3. (c * (1 + l)) * (b * u) = (c * b) * u + (c * u) * (l * b)
    OBVIOUS
  <2>4. a <= c * b => a * u <= (c * b) * u
    BY Times
  <2>5. t <= c * u => t * (l * b) <= (c * u) * (l * b)
    BY <2>1, Times
  <2>6. c * b <= a => (c * b) * u <= a * u
    BY Times
  <2>7. c * u <= t => (c * u) * (l * b) <= t * (l * b)
    BY <2>1, Times
  <2>8. (c * b) * u \in Nat /\ (c * u) * (l * b) \in Nat
    OBVIOUS
  <2> QED BY <2>1, <2>2, <2>3, <2>4, <2>5, <2>6, <2>7, <2>8
<1>10. /\ body[1] * tail[2] + (Lambda * tail[1]) * body[2] \in Nat /\ body[2] * tail[2] \in Nat \ {0}
       /\ body[1] <= c * body[2] /\ tail[1] <= c * tail[2] =>
            body[1] * tail[2] + (Lambda * tail[1]) * body[2] <= (c * (1 + Lambda)) * (body[2] * tail[2])
       /\ c * body[2] <= body[1] /\ c * tail[2] <= tail[1] =>
            (c * (1 + Lambda)) * (body[2] * tail[2]) <= body[1] * tail[2] + (Lambda * tail[1]) * body[2]
  BY <1>2, <1>3, <1>5, <1>6, Zenon
<1>7. rank(d)[1] \in Nat /\ rank(d)[2] \in Nat \ {0}
  BY <1>4, <1>10, Zenon
<1>8. ASSUME \A i \in DOMAIN d : d[i].cost <= c PROVE rank(d)[1] <= (c * (1 + Lambda)) * rank(d)[2]
  BY <1>2, <1>3, <1>4, <1>8, <1>10, Zenon
<1>9. ASSUME d # <<>>, \A i \in DOMAIN d : c <= d[i].cost
      PROVE  (c * (1 + Lambda)) * rank(d)[2] <= rank(d)[1]
  BY <1>2, <1>3, <1>4, <1>9, <1>10, Zenon
<1> QED BY <1>7, <1>8, <1>9 DEF IsRatio

-----------------------------------------------------------------------------
(* A model with lower costs throughout has no higher rank.                 *)
LEMMA CheaperRanks ==
  ASSUME NEW d \in Seq(Sample), NEW e \in Seq(Sample),
         Len(d) >= sampleThreshold, Len(e) >= sampleThreshold,
         \A i \in DOMAIN d, j \in DOMAIN e : d[i].cost <= e[j].cost
  PROVE  Leq(rank(d), rank(e))
<1>1. d # <<>> /\ e # <<>> /\ Lambda \in Nat
  BY CostAssumption
<1>2. PICK i \in DOMAIN d : \A j \in DOMAIN d : Before(d, j, i)
  BY <1>1, Extremes
<1>3. \A j \in DOMAIN d : d[j].cost \in Nat
  <2>1. \A j \in DOMAIN d : d[j] \in Sample
    OBVIOUS
  <2> QED BY <2>1 DEF Sample
<1> DEFINE c == d[i].cost
           K == c * (1 + Lambda)
<1>4. c \in Nat /\ (\A j \in DOMAIN d : d[j].cost <= c) /\ \A j \in DOMAIN e : c <= e[j].cost
  BY <1>2, <1>3 DEF Before
<1>5. K \in Nat
  <2> HIDE DEF c
  <2> QED BY <1>1, <1>4
<1> HIDE DEF c
<1>6. IsRatio(rank(d)) /\ rank(d)[1] <= K * rank(d)[2]
  BY <1>4, RankBounds
<1>8. IsRatio(rank(e)) /\ K * rank(e)[2] <= rank(e)[1]
  BY <1>1, <1>4, RankBounds
<1> HIDE DEF K
<1>9. ASSUME NEW a \in Int, NEW b \in Nat \ {0}, NEW x \in Int, NEW y \in Nat \ {0},
             a <= K * b, K * y <= x
      PROVE  a * y <= x * b
  <2>1. K * b \in Int /\ K * y \in Int
    BY <1>5
  <2>2. a * y <= (K * b) * y /\ (K * y) * b <= x * b
    BY <1>9, <2>1, Times
  <2>3. (K * b) * y = (K * y) * b /\ a * y \in Int /\ x * b \in Int /\ (K * y) * b \in Int
    BY <1>5
  <2> QED BY <2>2, <2>3
<1> QED BY <1>6, <1>8, <1>9 DEF Leq, IsRatio

-----------------------------------------------------------------------------
(* The order statistics of the ranks r of the members of E.                *)
Below(E, r, m) == {x \in E : ~Leq(r[m], r[x])}
NotAbove(E, r, m) == {x \in E : Leq(r[x], r[m])}

LEMMA Higher ==
  ASSUME NEW E, IsFiniteSet(E), NEW r, \A m \in E : IsRatio(r[m]),
         NEW m \in E, NEW x \in E, ~Leq(r[x], r[m])
  PROVE  Cardinality(NotAbove(E, r, m)) < Cardinality(NotAbove(E, r, x))
<1>1. Leq(r[m], r[x]) /\ Leq(r[x], r[x])
  BY LeqTotal
<1>2. NotAbove(E, r, m) \subseteq NotAbove(E, r, x)
  <2> SUFFICES ASSUME NEW y \in E, Leq(r[y], r[m]) PROVE Leq(r[y], r[x])
    BY DEF NotAbove
  <2> QED BY <1>1, LeqTrans
<1>3. x \in NotAbove(E, r, x) /\ x \notin NotAbove(E, r, m)
  BY <1>1 DEF NotAbove
<1>4. NotAbove(E, r, x) \subseteq E
  BY DEF NotAbove
<1> DEFINE S == NotAbove(E, r, x)
           T == NotAbove(E, r, m)
<1> HIDE DEF S, T
<1>5. IsFiniteSet(S)
  BY <1>4, FS_Subset DEF S
<1>6. T \in SUBSET S /\ S # T
  BY <1>2, <1>3 DEF S, T
<1>7. IsFiniteSet(T) /\ Cardinality(T) <= Cardinality(S) /\ Cardinality(S) # Cardinality(T)
  BY <1>5, <1>6, FS_Subset
<1>8. Cardinality(S) \in Nat /\ Cardinality(T) \in Nat
  BY <1>5, <1>7, FS_CardinalityType
<1>9. Cardinality(T) < Cardinality(S)
  BY <1>7, <1>8
<1> QED BY <1>9 DEF S, T

LEMMA CountNotAbove ==
  ASSUME NEW E, IsFiniteSet(E), NEW r, \A m \in E : IsRatio(r[m]), NEW m \in E
  PROVE  Cardinality(NotAbove(E, r, m)) \in 1..Cardinality(E) /\ Cardinality(E) \in Nat
<1> DEFINE T == NotAbove(E, r, m)
<1>1. T \in SUBSET E
  BY DEF NotAbove
<1>2. T # {}
  BY LeqTotal DEF NotAbove
<1> HIDE DEF T
<1>3. IsFiniteSet(T) /\ Cardinality(T) <= Cardinality(E)
  BY <1>1, FS_Subset
<1>4. Cardinality(T) \in Nat /\ Cardinality(E) \in Nat /\ Cardinality(T) # 0
  BY <1>2, <1>3, FS_CardinalityType, FS_EmptySet
<1>5. Cardinality(T) \in 1..Cardinality(E) /\ Cardinality(E) \in Nat
  BY <1>3, <1>4
<1> QED BY <1>5 DEF T

LEMMA Highest ==
  ASSUME NEW E, IsFiniteSet(E), NEW r, \A m \in E : IsRatio(r[m]),
         NEW S \in SUBSET E, S # {}
  PROVE  \E x \in S : \A y \in S : Leq(r[y], r[x])
<1> DEFINE count(m) == Cardinality(NotAbove(E, r, m))
           C == {count(m) : m \in S}
           N == Cardinality(E)
<1>1. \A m \in S : count(m) \in 1..N /\ N \in Nat
  BY CountNotAbove
<1>2. N \in Nat /\ C \subseteq 1..N /\ C # {}
  BY <1>1
<1>3. PICK n \in C : \A k \in C : k <= n
  <2> HIDE DEF C, N
  <2> QED BY <1>2, NatMax
<1>4. PICK x \in S : n = count(x)
  BY <1>3
<1>5. ASSUME NEW y \in S, ~Leq(r[y], r[x]) PROVE FALSE
  <2>1. count(x) < count(y)
    BY <1>5, Higher
  <2>2. count(y) <= count(x)
    BY <1>3, <1>4
  <2>3. count(x) \in Nat /\ count(y) \in Nat
    BY <1>1
  <2> HIDE DEF count
  <2> QED BY <2>1, <2>2, <2>3
<1> QED BY <1>5

LEMMA OrderStatistic ==
  ASSUME NEW E, IsFiniteSet(E), NEW r, \A m \in E : IsRatio(r[m]),
         NEW k \in 1..Cardinality(E)
  PROVE  \E m \in E : Cardinality(Below(E, r, m)) < k /\ k <= Cardinality(NotAbove(E, r, m))
<1> DEFINE count(m) == Cardinality(NotAbove(E, r, m))
           C == {count(m) : m \in {x \in E : k <= count(x)}}
<1>0. Cardinality(E) \in Nat /\ k \in Nat \ {0}
  BY FS_CardinalityType
<1>1. \A m \in E : count(m) \in Nat
  BY CountNotAbove
<1>2. \E m \in E : k <= count(m)
  <2>1. E # {}
    BY <1>0, FS_EmptySet
  <2>2. PICK m \in E : \A y \in E : Leq(r[y], r[m])
    BY <2>1, Highest
  <2>3. NotAbove(E, r, m) = E
    BY <2>2 DEF NotAbove
  <2> QED BY <1>0, <2>3
<1>3. C \subseteq Nat /\ C # {}
  <2> HIDE DEF count
  <2> QED BY <1>1, <1>2
<1>4. PICK n \in C : \A i \in C : n <= i
  <2> HIDE DEF C
  <2> QED BY <1>3, NatMin
<1>5. PICK m \in E : k <= count(m) /\ n = count(m)
  BY <1>4
<1>6. ASSUME ~(Cardinality(Below(E, r, m)) < k) PROVE FALSE
  <2> DEFINE B == Below(E, r, m)
  <2>1. B \in SUBSET E
    BY DEF Below
  <2> HIDE DEF B
  <2>2. IsFiniteSet(B) /\ Cardinality(B) \in Nat
    BY <2>1, FS_Subset, FS_CardinalityType
  <2>3. B # {} /\ k <= Cardinality(B)
    BY <1>0, <1>6, <2>2, FS_EmptySet DEF B
  <2>4. PICK x \in B : \A y \in B : Leq(r[y], r[x])
    BY <2>1, <2>3, Highest
  <2>5. x \in E /\ ~Leq(r[m], r[x])
    BY <2>4 DEF B, Below
  <2>6. count(x) < count(m)
    BY <2>5, Higher
  <2>7. Cardinality(B) <= count(x)
    <3> DEFINE T == NotAbove(E, r, x)
    <3>1. B \in SUBSET T /\ T \in SUBSET E
      BY <2>1, <2>4 DEF NotAbove
    <3> HIDE DEF T
    <3>2. IsFiniteSet(T)
      BY <3>1, FS_Subset
    <3>3. Cardinality(B) <= Cardinality(T)
      BY <3>1, <3>2, FS_Subset
    <3> QED BY <3>3 DEF T
  <2>8. count(x) \in Nat /\ count(m) \in Nat
    BY <1>1, <2>5
  <2>9. k <= count(x)
    <3> HIDE DEF count
    <3> QED BY <1>0, <2>2, <2>3, <2>7, <2>8
  <2>10. count(x) \in C
    BY <2>5, <2>9
  <2>11. count(m) <= count(x)
    BY <1>4, <1>5, <2>10
  <2> HIDE DEF count
  <2> QED BY <2>6, <2>8, <2>11
<1> QED BY <1>5, <1>6

-----------------------------------------------------------------------------
(* Scores: the lower the rank, the higher the score.                       *)
Distance(m, r) == <<m[1] * r[2] - r[1] * m[2], r[2] * m[2]>>

LEMMA DistanceOrder ==
  ASSUME NEW m, NEW r, NEW s, IsRatio(m), IsRatio(r), IsRatio(s), Leq(r, s)
  PROVE  Leq(Distance(m, s), Distance(m, r))
<1> SUFFICES ASSUME NEW m1 \in Int, NEW m2 \in Nat \ {0}, NEW r1 \in Int, NEW r2 \in Nat \ {0},
                    NEW s1 \in Int, NEW s2 \in Nat \ {0}, r1 * s2 <= s1 * r2
             PROVE  (m1 * s2 - s1 * m2) * (r2 * m2) <= (m1 * r2 - r1 * m2) * (s2 * m2)
  BY DEF Leq, IsRatio, Distance
<1>1. (m1 * s2 - s1 * m2) * (r2 * m2) = (m1 * m2) * (s2 * r2) - (s1 * r2) * (m2 * m2)
  OBVIOUS
<1>2. (m1 * r2 - r1 * m2) * (s2 * m2) = (m1 * m2) * (s2 * r2) - (r1 * s2) * (m2 * m2)
  OBVIOUS
<1>3. r1 * s2 \in Int /\ s1 * r2 \in Int /\ m2 * m2 \in Nat /\ (m1 * m2) * (s2 * r2) \in Int
  OBVIOUS
<1>4. (r1 * s2) * (m2 * m2) <= (s1 * r2) * (m2 * m2)
      /\ (r1 * s2) * (m2 * m2) \in Int /\ (s1 * r2) * (m2 * m2) \in Int
  BY <1>3, Times
<1> QED BY <1>1, <1>2, <1>3, <1>4

LEMMA LowestAboveNeutral ==
  ASSUME NEW r, NEW a, NEW b, IsRatio(r), IsRatio(a), IsRatio(b), Leq(r, a), Leq(r, b)
  PROVE  LET m == <<Plus(a, b)[1], 2 * Plus(a, b)[2]>>
         IN IsRatio(m) /\ Leq(<<0, 1>>, Distance(m, r))
<1> SUFFICES ASSUME NEW a1 \in Int, NEW a2 \in Nat \ {0}, NEW b1 \in Int, NEW b2 \in Nat \ {0},
                    NEW r1 \in Int, NEW r2 \in Nat \ {0}, r1 * a2 <= a1 * r2, r1 * b2 <= b1 * r2
             PROVE  /\ a1 * b2 + b1 * a2 \in Int /\ 2 * (a2 * b2) \in Nat \ {0}
                    /\ 0 * (r2 * (2 * (a2 * b2)))
                         <= ((a1 * b2 + b1 * a2) * r2 - r1 * (2 * (a2 * b2))) * 1
  BY DEF Leq, IsRatio, Plus, Distance
<1>1. a1 * b2 + b1 * a2 \in Int /\ a2 * b2 \in Nat \ {0} /\ 2 * (a2 * b2) \in Nat \ {0}
  OBVIOUS
<1>2. r1 * a2 \in Int /\ a1 * r2 \in Int /\ r1 * b2 \in Int /\ b1 * r2 \in Int
  OBVIOUS
<1>3. (r1 * a2) * b2 <= (a1 * r2) * b2 /\ (r1 * b2) * a2 <= (b1 * r2) * a2
  BY <1>2, Times
<1>4. r1 * (2 * (a2 * b2)) = (r1 * a2) * b2 + (r1 * b2) * a2
  OBVIOUS
<1>5. (a1 * b2 + b1 * a2) * r2 = (a1 * r2) * b2 + (b1 * r2) * a2
  OBVIOUS
<1>6. /\ (r1 * a2) * b2 \in Int /\ (a1 * r2) * b2 \in Int
      /\ (r1 * b2) * a2 \in Int /\ (b1 * r2) * a2 \in Int
  OBVIOUS
<1>7. 0 <= (a1 * b2 + b1 * a2) * r2 - r1 * (2 * (a2 * b2))
  BY <1>3, <1>4, <1>5, <1>6
<1>8. r2 * (2 * (a2 * b2)) \in Int /\ (a1 * b2 + b1 * a2) * r2 - r1 * (2 * (a2 * b2)) \in Int
  BY <1>1, <1>4, <1>5, <1>6
<1>9. \A u, v \in Int : 0 <= v => 0 * u <= v * 1
  OBVIOUS
<1>10. 0 * (r2 * (2 * (a2 * b2))) <= ((a1 * b2 + b1 * a2) * r2 - r1 * (2 * (a2 * b2))) * 1
  BY <1>7, <1>8, <1>9, Zenon
<1> QED BY <1>1, <1>10

-----------------------------------------------------------------------------
(* What Score has read are digests.                                        *)
DigestInv == digests \in [DOMAIN digests -> Seq(Sample) \cup {None}]

LEMMA ExploredRanked ==
  ASSUME DigestInv, DOMAIN digests \subseteq Models
  PROVE  /\ IsFiniteSet(explored) /\ explored \subseteq DOMAIN digests
         /\ \A m \in explored : /\ digests[m] \in Seq(Sample) /\ Len(digests[m]) >= sampleThreshold
                                /\ IsRatio(rank(digests[m]))
<1>1. explored \subseteq DOMAIN digests
  BY DEF explored
<1>2. IsFiniteSet(explored)
  <2>1. IsFiniteSet(Models) /\ explored \in SUBSET Models
    BY <1>1, CostAssumption
  <2> QED BY <2>1, FS_Subset
<1>3. \A m \in explored : digests[m] \in Seq(Sample) /\ Len(digests[m]) >= sampleThreshold
  BY DEF explored, Explored, DigestInv
<1>4. \A d \in Seq(Sample) : IsRatio(rank(d))
  <2>1. 0 \in Nat
    OBVIOUS
  <2> QED BY <2>1, RankBounds
<1> QED BY <1>1, <1>2, <1>3, <1>4

(* RankAt(k) is the rank of an explored model.                             *)
LEMMA RankThere ==
  ASSUME DigestInv, DOMAIN digests \subseteq Models, NEW k \in 1..Cardinality(explored)
  PROVE  \E m \in explored : RankAt(k) = rank(digests[m])
<1> DEFINE r == [m \in explored |-> rank(digests[m])]
           Right(m) == /\ Cardinality({x \in explored : ~Leq(rank(digests[m]), rank(digests[x]))}) < k
                       /\ k <= Cardinality({x \in explored : Leq(rank(digests[x]), rank(digests[m]))})
<1>1. IsFiniteSet(explored) /\ \A m \in explored : IsRatio(r[m])
  BY ExploredRanked
<1>2. PICK m \in explored :
        Cardinality(Below(explored, r, m)) < k /\ k <= Cardinality(NotAbove(explored, r, m))
  <2> HIDE DEF r
  <2> QED BY <1>1, OrderStatistic
<1>3. /\ Below(explored, r, m) = {x \in explored : ~Leq(rank(digests[m]), rank(digests[x]))}
      /\ NotAbove(explored, r, m) = {x \in explored : Leq(rank(digests[x]), rank(digests[m]))}
  BY DEF Below, NotAbove
<1>4. \E x \in explored : Right(x)
  BY <1>2, <1>3
<1>5. RankAt(k) = rank(digests[CHOOSE x \in explored : Right(x)])
  BY DEF RankAt
<1> HIDE DEF Right
<1>6. (CHOOSE x \in explored : Right(x)) \in explored
  BY <1>4
<1> QED BY <1>5, <1>6

(* The cheapest model is not behind.                                       *)
LEMMA ExploitOrders ==
  ASSUME DigestInv, DOMAIN digests \subseteq Models,
         scores = exploit, NEW x \in explored
  PROVE  /\ \/ \E y \in explored : ~Leq(rank(digests[x]), rank(digests[y]))
            \/ \A y \in DOMAIN scores : Leq(scores[y], scores[x])
         /\ \A y \in explored :
             (\A i \in DOMAIN digests[x], j \in DOMAIN digests[y] :
                 digests[x][i].cost <= digests[y][j].cost) => Leq(scores[y], scores[x])
<1> DEFINE n == Cardinality(explored)
<1>1. /\ IsFiniteSet(explored) /\ explored \subseteq DOMAIN digests
      /\ \A m \in explored : /\ digests[m] \in Seq(Sample) /\ Len(digests[m]) >= sampleThreshold
                             /\ IsRatio(rank(digests[m]))
  BY ExploredRanked
<1>2. DOMAIN scores = DOMAIN digests
  BY DEF exploit
<1>3. n \in Nat
  BY <1>1, FS_CardinalityType
<1>4. CASE ~(n >= 2)
  <2>1. \A y \in DOMAIN digests : scores[y] = <<0, 1>>
    BY <1>4 DEF exploit, neutralScore
  <2>2. Leq(<<0, 1>>, <<0, 1>>)
    BY DEF Leq
  <2> QED BY <1>1, <1>2, <2>1, <2>2
<1>5. CASE n >= 2
  <2>1. (n + 1) \div 2 \in 1..n /\ n \div 2 + 1 \in 1..n
    <3> HIDE DEF n
    <3> QED BY <1>3, <1>5
  <2>2. PICK a \in explored : RankAt((n + 1) \div 2) = rank(digests[a])
    BY <2>1, RankThere
  <2>3. PICK b \in explored : RankAt(n \div 2 + 1) = rank(digests[b])
    BY <2>1, RankThere
  <2> DEFINE m == <<Plus(rank(digests[a]), rank(digests[b]))[1], 2 * Plus(rank(digests[a]), rank(digests[b]))[2]>>
  <2>4. median = m
    BY <2>2, <2>3 DEF median
  <2>5. IsRatio(m)
    <3>1. IsRatio(Plus(rank(digests[a]), rank(digests[b])))
      BY <1>1, PlusRatio
    <3> HIDE DEF IsRatio
    <3> DEFINE p == Plus(rank(digests[a]), rank(digests[b]))
    <3>2. \A q : IsRatio(q) => IsRatio(<<q[1], 2 * q[2]>>)
      BY DEF IsRatio
    <3> QED BY <3>1, <3>2
  <2>6. \A y \in explored : scores[y] = Distance(m, rank(digests[y]))
    BY <1>1, <1>5, <2>4 DEF exploit, sigmoid, Distance
  <2>7. \A y \in DOMAIN digests \ explored : scores[y] = <<0, 1>>
    BY DEF exploit, neutralScore
  <2>8. \A y \in explored : Leq(rank(digests[x]), rank(digests[y])) => Leq(scores[y], scores[x])
    <3> HIDE DEF m
    <3> SUFFICES ASSUME NEW y \in explored, Leq(rank(digests[x]), rank(digests[y]))
                 PROVE  Leq(scores[y], scores[x])
      OBVIOUS
    <3>1. Leq(Distance(m, rank(digests[y])), Distance(m, rank(digests[x])))
      BY <1>1, <2>5, DistanceOrder
    <3> QED BY <2>6, <3>1
  <2>9. ASSUME \A y \in explored : Leq(rank(digests[x]), rank(digests[y]))
        PROVE  \A y \in DOMAIN scores : Leq(scores[y], scores[x])
    <3>1. Leq(<<0, 1>>, Distance(m, rank(digests[x])))
      BY <1>1, <2>9, LowestAboveNeutral
    <3>2. \A y \in DOMAIN digests \ explored : Leq(scores[y], scores[x])
      BY <2>6, <2>7, <3>1
    <3> QED BY <1>2, <2>8, <2>9, <3>2
  <2>10. ASSUME NEW y \in explored, \A i \in DOMAIN digests[x], j \in DOMAIN digests[y] :
                                      digests[x][i].cost <= digests[y][j].cost
         PROVE  Leq(scores[y], scores[x])
    <3>1. Leq(rank(digests[x]), rank(digests[y]))
      BY <1>1, <2>10, CheaperRanks
    <3> QED BY <2>8, <3>1
  <2> QED BY <2>9, <2>10
<1> QED BY <1>4, <1>5

LEMMA DigestsRead ==
  ASSUME IInv, DigestInv, [Next]_vars
  PROVE  DigestInv'
<1>1. CASE UNCHANGED digests
  BY <1>1 DEF DigestInv
<1>2. CASE BeginScore
  <2>1. digests' = [m \in unread' |-> None]
    BY <1>2 DEF BeginScore
  <2> QED BY <2>1 DEF DigestInv
<1>3. CASE ScoreReturns
  <2>1. digests' = NoModels
    BY <1>3 DEF ScoreReturns
  <2> QED BY <2>1 DEF DigestInv, NoModels
<1>4. ASSUME NEW m \in Models, ReadDigest(m) PROVE DigestInv'
  <2>1. digests' = [digests EXCEPT ![m] = store[m].digest] /\ m \in unread
    BY <1>4 DEF ReadDigest
  <2>2. store[m] \in Registered
    BY <2>1 DEF IInv, ScoreInv, StoreInv
  <2>3. store[m].digest \in Seq(Sample) \cup {None}
    BY <2>2 DEF Registered
  <2> QED BY <2>1, <2>3 DEF DigestInv
<1>5. Tick \/ ComputeScores \/ (\E m \in Models :
        (\E p \in Prices : PriceModel(m, p)) \/ RemoveModel(m) \/ \E r \in Responses : Extract(m, r))
        \/ UNCHANGED vars => UNCHANGED digests
  BY DEF Tick, ComputeScores, PriceModel, RemoveModel, Extract, vars, scoreVars
<1> QED BY <1>1, <1>2, <1>3, <1>4, <1>5 DEF Next

(* For any models, prices, intervals, alpha and threshold: the explored    *)
(* model of lowest rank is scored no lower than any candidate, and a model *)
(* that is cheaper throughout no lower than the dearer one.                *)
THEOREM CheapestLeads == Spec => []CheapestNotBehind
<1>1. Init => DigestInv
  BY DEF Init, DigestInv, NoModels
<1>2. IInv /\ DigestInv /\ [Next]_vars => DigestInv'
  BY DigestsRead
<1>3. IInv /\ DigestInv => CheapestNotBehind
  <2> SUFFICES ASSUME IInv, DigestInv, scores = exploit, NEW x \in explored
               PROVE  /\ \/ \E y \in explored : ~Leq(rank(digests[x]), rank(digests[y]))
                         \/ \A y \in DOMAIN scores : Leq(scores[y], scores[x])
                      /\ \A y \in explored :
                          (\A i \in DOMAIN digests[x], j \in DOMAIN digests[y] :
                              digests[x][i].cost <= digests[y][j].cost) => Leq(scores[y], scores[x])
    BY DEF CheapestNotBehind
  <2>1. DOMAIN digests \subseteq Models
    BY DEF IInv, ScoreInv
  <2> QED BY <2>1, ExploitOrders
<1> QED BY <1>1, <1>2, <1>3, Invariance, PTL DEF Spec
=============================================================================
