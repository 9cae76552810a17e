----------------------- MODULE DatalayerProcessorProofs -----------------------
(***************************************************************************)
(* Proofs about DatalayerProcessor, for any sets of collectors and         *)
(* datasources, any number of extractors and any capacity of the channel.  *)
(***************************************************************************)
EXTENDS DatalayerProcessor, FiniteSetTheorems, SequenceTheorems, TLAPS

(* The running goroutines are finitely many.                               *)
LEMMA LiveIsFinite == IsFiniteSet(Live) /\ Cardinality(Live) \in Nat
<1>1. IsFiniteSet(Sources)
  BY ProcessorAssumption, FS_Union DEF Sources
<1>2. Live \in SUBSET Sources
  BY DEF Live
<1> QED BY <1>1, <1>2, FS_Subset, FS_CardinalityType

(* wg.Add(1) with the start of a goroutine that was not running keeps the  *)
(* counter equal to the number of goroutines.                              *)
LEMMA LaunchCounts ==
  ASSUME LifecycleType, WgCountsGoroutines, NEW s \in Sources,
         worker[s] \notin Running, Launch(s)
  PROVE  /\ wg' \in Nat /\ WgCountsGoroutines'
         /\ worker' \in [Sources -> WorkerStates]
         /\ worker'[s] \in Running
         /\ \A t \in Sources \ {s} : worker'[t] = worker[t]
<1>1. /\ worker' \in [Sources -> WorkerStates] /\ worker'[s] \in Running
      /\ \A t \in Sources \ {s} : worker'[t] = worker[t]
  BY DEF Launch, LifecycleType, WorkerStates, Running
<1>2. Live' = Live \cup {s} /\ s \notin Live
  BY <1>1 DEF Live
<1>3. Cardinality(Live') = Cardinality(Live) + 1
  BY <1>2, LiveIsFinite, FS_AddElement
<1> QED BY <1>1, <1>3, LiveIsFinite DEF WgCountsGoroutines, Launch, LifecycleType

(* wg.Done() with the end of a running goroutine keeps it, too.            *)
LEMMA ExitCounts ==
  ASSUME LifecycleType, WgCountsGoroutines, NEW s \in Sources,
         worker[s] \in Running, Exit(s)
  PROVE  /\ wg' \in Nat /\ WgCountsGoroutines'
         /\ worker' \in [Sources -> WorkerStates]
         /\ worker'[s] = "exited"
         /\ \A t \in Sources \ {s} : worker'[t] = worker[t]
<1>1. /\ worker' \in [Sources -> WorkerStates] /\ worker'[s] = "exited"
      /\ \A t \in Sources \ {s} : worker'[t] = worker[t]
  BY DEF Exit, LifecycleType, WorkerStates
<1>2. Live' = Live \ {s} /\ s \in Live
  BY <1>1 DEF Live, Running
<1>3. Cardinality(Live') = Cardinality(Live) - 1
  BY <1>2, LiveIsFinite, FS_RemoveElement
<1>4. Cardinality(Live') \in Nat
  BY <1>2, LiveIsFinite, FS_RemoveElement, FS_CardinalityType
<1> QED BY <1>1, <1>3, <1>4, LiveIsFinite DEF WgCountsGoroutines, Exit, LifecycleType

(* A step that moves no goroutine into or out of Running.                  *)
LEMMA SameLiveCounts ==
  ASSUME WgCountsGoroutines, wg' = wg,
         \A s \in Sources : worker'[s] \in Running <=> worker[s] \in Running
  PROVE  WgCountsGoroutines'
<1>1. Live' = Live
  BY DEF Live
<1> QED BY <1>1 DEF WgCountsGoroutines

LEMMA LifecycleInit == Init => LifecycleInv
<1> SUFFICES ASSUME Init PROVE LifecycleInv
  OBVIOUS
<1>1. Live = {}
  BY DEF Init, Live, Running
<1>2. WgCountsGoroutines
  BY <1>1, FS_EmptySet DEF Init, WgCountsGoroutines
<1>3. LifecycleType
  BY DEF Init, LifecycleType, OwnerStates, WorkerStates
<1> QED BY <1>2, <1>3 DEF Init, LifecycleInv, OwnerInv, LaunchInv, QuietInv,
                          NoSourceForgotten, Sources

(* The parts of the lifecycle invariant that are about the owner, the      *)
(* flags and who launches what, once the counter is taken care of.         *)
LEMMA LifecycleNext == LifecycleInv /\ [Next]_vars => LifecycleInv'
<1> SUFFICES ASSUME LifecycleInv, [Next]_vars PROVE LifecycleInv'
  OBVIOUS
<1> USE DEF LifecycleInv
<1> DEFINE Goal == LifecycleType' /\ OwnerInv' /\ LaunchInv' /\ QuietInv'
                   /\ NoSourceForgotten'
<1>1. ASSUME NEW c \in Collectors, RegisterCollector(c) PROVE LifecycleInv'
  <2>1. c \in Sources /\ worker[c] = "none" /\ c \notin snapshot /\ c \notin Datasources
    BY <1>1, ProcessorAssumption DEF RegisterCollector, LaunchInv, Sources, LifecycleType
  <2>2. CASE started /\ ~stopped
    <3>1. Launch(c) BY <1>1, <2>2 DEF RegisterCollector
    <3>2. /\ wg' \in Nat /\ WgCountsGoroutines'
          /\ worker' \in [Sources -> WorkerStates]
          /\ worker'[c] \in Running
          /\ \A t \in Sources \ {c} : worker'[t] = worker[t]
      BY <3>1, <2>1, LaunchCounts DEF Running
    <3>3. Goal
      BY <1>1, <2>1, <2>2, <3>2 DEF RegisterCollector, LifecycleType, OwnerInv,
         LaunchInv, QuietInv, NoSourceForgotten, Sources, Running
    <3> QED BY <3>2, <3>3
  <2>3. CASE ~(started /\ ~stopped)
    <3>1. WgCountsGoroutines'
      BY <1>1, <2>3, SameLiveCounts DEF RegisterCollector, workers
    <3>2. Goal
      BY <1>1, <2>1, <2>3 DEF RegisterCollector, workers, LifecycleType, OwnerInv,
         LaunchInv, QuietInv, NoSourceForgotten, Sources
    <3> QED BY <3>1, <3>2
  <2> QED BY <2>2, <2>3
<1>2. ASSUME NEW d \in Datasources, RegisterDatasource(d) PROVE LifecycleInv'
  <2>1. WgCountsGoroutines'
    BY <1>2, SameLiveCounts DEF RegisterDatasource, workers
  <2>2. Goal
    BY <1>2 DEF RegisterDatasource, workers, LifecycleType, OwnerInv,
       LaunchInv, QuietInv, NoSourceForgotten, Sources
  <2> QED BY <2>1, <2>2
<1>3. ASSUME NEW d \in Datasources, LaunchDatasource(d) PROVE LifecycleInv'
  <2>1. d \in Sources /\ worker[d] = "none" /\ d \notin snapshot /\ d \notin Collectors
        /\ d \in registered /\ started
    BY <1>3, ProcessorAssumption DEF LaunchDatasource, LaunchInv, Sources
  <2>2. /\ wg' \in Nat /\ WgCountsGoroutines'
        /\ worker' \in [Sources -> WorkerStates]
        /\ worker'[d] \in Running
        /\ \A t \in Sources \ {d} : worker'[t] = worker[t]
    BY <1>3, <2>1, LaunchCounts DEF Running, LaunchDatasource
  <2>3. Goal
    BY <1>3, <2>1, <2>2 DEF LaunchDatasource, LifecycleType, OwnerInv,
       LaunchInv, QuietInv, NoSourceForgotten, Sources, Running
  <2> QED BY <2>2, <2>3
<1>4. ASSUME NEW s \in Sources, StartLaunch(s) PROVE LifecycleInv'
  <2>1. worker[s] = "none" /\ s \in registered /\ owner = "launching"
        /\ (s \in Datasources => ~registrar[s])
    BY <1>4 DEF StartLaunch, LaunchInv, LifecycleType
  <2>2. /\ wg' \in Nat /\ WgCountsGoroutines'
        /\ worker' \in [Sources -> WorkerStates]
        /\ worker'[s] \in Running
        /\ \A t \in Sources \ {s} : worker'[t] = worker[t]
    BY <1>4, <2>1, LaunchCounts DEF Running, StartLaunch
  <2>3. Goal
    BY <1>4, <2>1, <2>2 DEF StartLaunch, LifecycleType, OwnerInv,
       LaunchInv, QuietInv, NoSourceForgotten, Sources, Running
  <2> QED BY <2>2, <2>3
<1>5. ASSUME StartLocked \/ StartLoop \/ StartReturns \/ ParentCancelled
             \/ StopLocked \/ StopCancel \/ StopDrain
      PROVE  LifecycleInv'
  <2>1. WgCountsGoroutines'
    BY <1>5, SameLiveCounts DEF StartLocked, StartLoop, StartReturns, ParentCancelled,
       StopLocked, StopCancel, StopDrain, workers
  <2>2. LifecycleType'
    BY <1>5 DEF StartLocked, StartLoop, StartReturns, ParentCancelled,
       StopLocked, StopCancel, StopDrain, workers, LifecycleType, OwnerStates
  <2>3. OwnerInv' /\ QuietInv'
    BY <1>5 DEF StartLocked, StartLoop, StartReturns, ParentCancelled,
       StopLocked, StopCancel, StopDrain, workers, OwnerInv, QuietInv, LifecycleType, OwnerStates
  <2>4. LaunchInv' /\ NoSourceForgotten'
    BY <1>5 DEF StartLocked, StartLoop, StartReturns, ParentCancelled,
       StopLocked, StopCancel, StopDrain, workers, OwnerInv, LaunchInv, NoSourceForgotten, LifecycleType
  <2> QED BY <2>1, <2>2, <2>3, <2>4
<1>6. ASSUME StopWait PROVE LifecycleInv'
  <2>1. WgCountsGoroutines'
    BY <1>6, SameLiveCounts DEF StopWait, workers
  <2>2. Live = {}
    BY <1>6, LiveIsFinite, FS_EmptySet DEF StopWait, WgCountsGoroutines
  <2>3. \A s \in Sources : worker[s] \notin Running
    BY <2>2 DEF Live
  <2>4. Goal
    BY <1>6, <2>3 DEF StopWait, workers, LifecycleType, OwnerStates, OwnerInv,
       LaunchInv, QuietInv, NoSourceForgotten, Sources
  <2> QED BY <2>1, <2>4
<1>7. ASSUME NEW s \in Sources, worker[s] \in Running, Exit(s),
             UNCHANGED <<lifecycle, extractors, loop, eventVars>>
      PROVE  LifecycleInv'
  <2>1. /\ wg' \in Nat /\ WgCountsGoroutines'
        /\ worker' \in [Sources -> WorkerStates]
        /\ worker'[s] = "exited"
        /\ \A t \in Sources \ {s} : worker'[t] = worker[t]
    BY <1>7, ExitCounts
  <2>2. worker[s] # "none"
    BY <1>7 DEF Running
  <2>3. Goal
    BY <1>7, <2>1, <2>2 DEF lifecycle, LifecycleType, OwnerInv, LaunchInv, QuietInv,
       NoSourceForgotten, Sources, Running
  <2> QED BY <2>1, <2>3
<1>8. ASSUME NEW s \in Sources, worker[s] \in Running, NEW w \in Running,
             worker' = [worker EXCEPT ![s] = w], wg' = wg,
             UNCHANGED <<lifecycle, extractors, loop, eventVars>>
      PROVE  LifecycleInv'
  <2>1. /\ worker' \in [Sources -> WorkerStates] /\ worker'[s] \in Running
        /\ \A t \in Sources \ {s} : worker'[t] = worker[t]
    BY <1>8 DEF LifecycleType, WorkerStates
  <2>2. WgCountsGoroutines'
    BY <1>8, <2>1, SameLiveCounts
  <2>3. Goal
    BY <1>8, <2>1 DEF lifecycle, LifecycleType, OwnerInv, LaunchInv, QuietInv,
       NoSourceForgotten, Sources, Running
  <2> QED BY <2>2, <2>3
<1>9. ASSUME NEW c \in Collectors, CollectorPolls(c) \/ CollectorExits(c)
      PROVE  LifecycleInv'
  BY <1>7, <1>8, <1>9 DEF CollectorPolls, CollectorExits, Sources, Running
<1>10. ASSUME NEW d \in Datasources, DatasourceStartReturns(d) \/ DatasourceStops(d)
       PROVE  LifecycleInv'
  BY <1>7, <1>8, <1>10 DEF DatasourceStartReturns, DatasourceStops, Sources, Running
<1>11. ASSUME UNCHANGED <<lifecycle, workers>>, loop' = loop \/ LoopExits
       PROVE  LifecycleInv'
  <2>1. WgCountsGoroutines'
    BY <1>11, SameLiveCounts DEF workers
  <2>2. Goal
    BY <1>11 DEF lifecycle, workers, LoopExits, LifecycleType, OwnerInv, LaunchInv,
       QuietInv, NoSourceForgotten
  <2> QED BY <2>1, <2>2
<1>12. CASE RegisterExtractor \/ LoopSteps \/ (\E e \in Events : Notify(e))
  BY <1>11, <1>12 DEF RegisterExtractor, LoopSteps, LoopTakes, LoopExtracts,
     LoopFinishes, LoopExits, Notify
<1>13. CASE UNCHANGED vars
  BY <1>11, <1>13 DEF vars
<1> QED BY <1>1, <1>2, <1>3, <1>4, <1>5, <1>6, <1>9, <1>10, <1>12, <1>13
        DEF Next, StartSteps, StopSteps, CollectorSteps, DatasourceSteps

-----------------------------------------------------------------------------
(* The event being dispatched, as a sequence.                              *)
LEMMA CurrentIsSingle ==
  ASSUME EventType, current # <<>>
  PROVE  current[1] \in Events /\ current = <<current[1]>>
<1>1. current \in Seq(Events) /\ Len(current) \in Nat /\ Len(current) <= 1
  BY LenProperties DEF EventType
<1>2. Len(current) # 0
  BY <1>1, EmptySeq
<1>3. \A n \in Nat : n <= 1 /\ n # 0 => n = 1
  OBVIOUS
<1>4. Len(current) = 1
  BY <1>1, <1>2, <1>3, Zenon
<1> QED BY <1>1, <1>4

LEMMA EventInitially == Init => EventInv
BY ProcessorAssumption DEF Init, EventInv, EventType, DispatchInv, ExtractorsInStep

LEMMA EventNext ==
  LifecycleInv /\ EventInv /\ [Next]_vars => EventInv'
<1> SUFFICES ASSUME LifecycleInv, EventInv, [Next]_vars PROVE EventInv'
  OBVIOUS
<1> USE ProcessorAssumption DEF EventInv
<1>1. CASE RegisterExtractor
  <2>1. loop = "none"
    BY <1>1 DEF RegisterExtractor, DispatchInv
  <2>2. EventType'
    BY <1>1 DEF RegisterExtractor, eventVars, EventType
  <2>3. DispatchInv'
    BY <1>1, <2>1 DEF RegisterExtractor, lifecycle, eventVars, EventType, DispatchInv
  <2>4. ASSUME NEW x \in 1..extractors' PROVE delivered[x] = <<>>
    <3>1. handled = <<>> /\ current = <<>>
      BY <2>1 DEF DispatchInv
    <3>2. handled \o current = <<>>
      BY <3>1
    <3>3. CASE x \in 1..extractors
      BY <3>1, <3>2, <3>3 DEF ExtractorsInStep
    <3>4. CASE x = extractors + 1
      BY <1>1, <3>4 DEF RegisterExtractor, EventType, DispatchInv
    <3> QED BY <1>1, <2>4, <3>3, <3>4 DEF RegisterExtractor, EventType
  <2>5. handled = <<>> /\ handled \o current = <<>>
    BY <2>1 DEF DispatchInv
  <2>6. ExtractorsInStep'
    BY <1>1, <2>4, <2>5 DEF RegisterExtractor, eventVars, ExtractorsInStep
  <2> QED BY <2>2, <2>3, <2>6
<1>2. ASSUME NEW e \in Events, Notify(e) PROVE EventInv'
  <2>1. Append(ch, e) \in Seq(Events) /\ Len(Append(ch, e)) = Len(ch) + 1
    BY AppendProperties DEF EventType
  <2>2. EventType'
    BY <1>2, <2>1, LenProperties DEF Notify, EventType
  <2> QED BY <1>2, <2>2 DEF Notify, lifecycle, DispatchInv, ExtractorsInStep
<1>3. CASE LoopTakes
  <2>1. Head(ch) \in Events /\ Tail(ch) \in Seq(Events) /\ Len(Tail(ch)) = Len(ch) - 1
    BY <1>3, HeadTailProperties DEF LoopTakes, EventType
  <2>2. current' \in Seq(Events) /\ Len(current') = 1
    BY <1>3, <2>1 DEF LoopTakes
  <2>3. EventType'
    BY <1>3, <2>1, <2>2, LenProperties DEF LoopTakes, EventType
  <2>4. DispatchInv'
    BY <1>3 DEF LoopTakes, lifecycle, EventType, DispatchInv
  <2>5. handled \o <<>> = handled
    BY ConcatEmptySeq DEF EventType
  <2>6. \A x \in 1..extractors : delivered[x] = handled
    BY <1>3, <2>5 DEF LoopTakes, ExtractorsInStep
  <2>7. ExtractorsInStep'
    BY <1>3, <2>6 DEF LoopTakes, ExtractorsInStep, EventType
  <2> QED BY <2>3, <2>4, <2>7
<1>4. CASE LoopExtracts
  <2>1. current[1] \in Events /\ current = <<current[1]>>
    BY <1>4, CurrentIsSingle DEF LoopExtracts
  <2>2. next \in 1..extractors /\ delivered[next] = handled
    BY <1>4 DEF LoopExtracts, EventType, ExtractorsInStep
  <2>3. delivered'[next] = handled \o current /\ delivered'[next] \in Seq(Events)
    BY <1>4, <2>1, <2>2, AppendIsConcat, AppendProperties DEF LoopExtracts, EventType
  <2>4. \A x \in 1..MaxExtractors : x # next => delivered'[x] = delivered[x]
    BY <1>4 DEF LoopExtracts, EventType
  <2>5. EventType'
    BY <1>4, <2>2, <2>3 DEF LoopExtracts, EventType
  <2>6. DispatchInv'
    BY <1>4, <2>2, <2>4 DEF LoopExtracts, lifecycle, DispatchInv, EventType
  <2>7. ASSUME NEW x \in 1..extractors
        PROVE  delivered'[x] = IF x < next + 1 THEN handled \o current ELSE handled
    <3>1. CASE x = next
      BY <3>1, <2>2, <2>3
    <3>2. CASE x # next
      <4>1. delivered'[x] = IF x < next THEN handled \o current ELSE handled
        BY <3>2, <2>4 DEF ExtractorsInStep, EventType
      <4>2. x < next + 1 <=> x < next
        BY <3>2 DEF EventType
      <4> QED BY <4>1, <4>2
    <3> QED BY <3>1, <3>2
  <2>8. ExtractorsInStep'
    BY <1>4, <2>7 DEF LoopExtracts, ExtractorsInStep
  <2> QED BY <2>5, <2>6, <2>8
<1>5. CASE LoopFinishes
  <2>1. current[1] \in Events /\ current = <<current[1]>>
    BY <1>5, CurrentIsSingle DEF LoopFinishes
  <2>2. handled' = handled \o current /\ handled' \in Seq(Events)
    BY <1>5, <2>1, AppendIsConcat, AppendProperties DEF LoopFinishes, EventType
  <2>3. EventType'
    BY <1>5, <2>2 DEF LoopFinishes, EventType
  <2>4. DispatchInv'
    BY <1>5 DEF LoopFinishes, lifecycle, DispatchInv
  <2>5. handled' \o <<>> = handled'
    BY <2>2, ConcatEmptySeq
  <2>6. \A x \in 1..extractors : x < next
    BY <1>5 DEF LoopFinishes, EventType
  <2>7. ExtractorsInStep'
    BY <1>5, <2>2, <2>5, <2>6 DEF LoopFinishes, ExtractorsInStep
  <2> QED BY <2>3, <2>4, <2>7
<1>6. ASSUME UNCHANGED <<extractors, eventVars>>, started => started',
             \/ loop' = loop
             \/ loop' = "running" /\ started'
             \/ loop' = "exited" /\ current = <<>> /\ started
      PROVE  EventInv'
  BY <1>6 DEF eventVars, EventType, DispatchInv, ExtractorsInStep
<1>7. CASE StartSteps
  BY <1>6, <1>7 DEF StartSteps, StartLocked, StartLoop, StartLaunch, StartReturns,
     LifecycleInv, OwnerInv
<1>8. CASE StopSteps \/ ParentCancelled
  BY <1>6, <1>8 DEF StopSteps, StopLocked, StopCancel, StopWait, StopDrain, ParentCancelled
<1>9. ASSUME NEW c \in Collectors, CollectorSteps(c) PROVE EventInv'
  BY <1>6, <1>9 DEF CollectorSteps, RegisterCollector, CollectorPolls, CollectorExits, lifecycle
<1>10. ASSUME NEW d \in Datasources, DatasourceSteps(d) PROVE EventInv'
  BY <1>6, <1>10 DEF DatasourceSteps, RegisterDatasource, LaunchDatasource,
     DatasourceStartReturns, DatasourceStops, lifecycle
<1>11. CASE LoopExits
  BY <1>6, <1>11 DEF LoopExits, DispatchInv, lifecycle
<1>12. CASE UNCHANGED vars
  BY <1>6, <1>12 DEF vars, lifecycle
<1> QED BY <1>1, <1>2, <1>3, <1>4, <1>5, <1>7, <1>8, <1>9, <1>10, <1>11, <1>12
        DEF Next, LoopSteps

-----------------------------------------------------------------------------
(* The invariant holds of every behaviour of the processor.                *)
THEOREM Invariance == Spec => []IInv
<1>1. Init => IInv
  BY LifecycleInit, EventInitially DEF IInv
<1>2. IInv /\ [Next]_vars => IInv'
  BY LifecycleNext, EventNext DEF IInv
<1> QED BY <1>1, <1>2, PTL DEF Spec

(* The Processor's fields keep their types: the WaitGroup never goes below *)
(* zero, the channel never above its capacity.                             *)
THEOREM TypeCorrect == Spec => []TypeOK
<1>1. IInv => TypeOK
  BY DEF IInv, LifecycleInv, EventInv, TypeOK
<1> QED BY <1>1, Invariance, PTL

(* Start and the Register calls launch no source twice: the WaitGroup      *)
(* counts each goroutine once.                                             *)
THEOREM LaunchedOnce == Spec => []WgCountsGoroutines
<1>1. IInv => WgCountsGoroutines
  BY DEF IInv, LifecycleInv
<1> QED BY <1>1, Invariance, PTL

(* A source registered before, during or after Start is launched by one of *)
(* the two: no registration is forgotten between them.                     *)
THEOREM NoneForgotten == Spec => []NoSourceForgotten
<1>1. IInv => NoSourceForgotten
  BY DEF IInv, LifecycleInv
<1> QED BY <1>1, Invariance, PTL

(* When Stop returns, the event loop and all collectors have exited.       *)
THEOREM StopIsQuiet == Spec => []StopQuiescesCollectors
<1>1. IInv => StopQuiescesCollectors
  BY DEF IInv, LifecycleInv, QuietInv, StopQuiescesCollectors
<1> QED BY <1>1, Invariance, PTL

(* All extractors see the same events in the same order.                   *)
THEOREM ExtractorsAgree == Spec => []ExtractorsInStep
<1>1. IInv => ExtractorsInStep
  BY DEF IInv, EventInv
<1> QED BY <1>1, Invariance, PTL

-----------------------------------------------------------------------------
(* Taking an event out of the channel, or putting one in, as the bus sees  *)
(* it.                                                                     *)
LEMMA TakeKeepsOrder ==
  ASSUME NEW S, NEW s \in Seq(S), s # <<>>
  PROVE  <<Head(s)>> \o Tail(s) = s
<1>1. /\ Head(s) \in S /\ Tail(s) \in Seq(S) /\ Len(Tail(s)) = Len(s) - 1
      /\ \A i \in 1..Len(Tail(s)) : Tail(s)[i] = s[i + 1]
  BY HeadTailProperties
<1>2. Len(s) \in Nat \ {0}
  BY EmptySeq
<1>3. <<Head(s)>> \in Seq(S) /\ Len(<<Head(s)>>) = 1
  BY <1>1
<1>4. /\ <<Head(s)>> \o Tail(s) \in Seq(S)
      /\ Len(<<Head(s)>> \o Tail(s)) = Len(s)
      /\ \A i \in 1..Len(s) : (<<Head(s)>> \o Tail(s))[i] =
             IF i <= 1 THEN <<Head(s)>>[i] ELSE Tail(s)[i - 1]
  BY <1>1, <1>2, <1>3, ConcatProperties
<1>5. ASSUME NEW i \in 1..Len(s) PROVE (<<Head(s)>> \o Tail(s))[i] = s[i]
  <2>1. CASE i = 1
    BY <1>4, <2>1, <1>2
  <2>2. CASE i > 1
    BY <1>1, <1>2, <1>4, <2>2
  <2> QED BY <2>1, <2>2
<1> QED BY <1>4, <1>5, SeqEqual

LEMMA PutKeepsOrder ==
  ASSUME NEW S, NEW s \in Seq(S), NEW t \in Seq(S), NEW e \in S
  PROVE  s \o Append(t, e) = Append(s \o t, e)
<1>1. Append(t, e) = t \o <<e>> /\ <<e>> \in Seq(S)
  BY AppendIsConcat
<1>2. s \o t \in Seq(S)
  BY ConcatProperties
<1>3. Append(s \o t, e) = (s \o t) \o <<e>>
  BY <1>2, AppendIsConcat
<1> QED BY <1>1, <1>3, ConcatAssociative

(* Every step of the processor is a step of the abstract bus, or invisible *)
(* to it.                                                                  *)
LEMMA BusStep == IInv /\ [Next]_vars => [Bus!BusNext]_(Bus!busVars)
<1> SUFFICES ASSUME IInv, [Next]_vars PROVE [Bus!BusNext]_(Bus!busVars)
  OBVIOUS
<1> USE DEF IInv, EventInv
<1>1. ASSUME UNCHANGED eventVars, (loop # "exited") = (loop # "exited")'
      PROVE  [Bus!BusNext]_(Bus!busVars)
  BY <1>1 DEF eventVars, Bus!busVars
<1>2. ASSUME NEW e \in Events, Notify(e) PROVE [Bus!BusNext]_(Bus!busVars)
  <2>1. CASE Len(ch) < BufferSize
    <3>1. current \o ch' = Append(current \o ch, e)
      BY <1>2, <2>1, PutKeepsOrder DEF Notify, EventType
    <3>2. Len(current \o ch) = Len(current) + Len(ch) /\ Len(ch) \in Nat /\ Len(current) \in Nat
      BY ConcatProperties, LenProperties DEF EventType
    <3>3. Len(current \o ch) < BufferSize + 1
      BY <2>1, <3>2, ProcessorAssumption DEF EventType
    <3>4. Bus!Post(e)
      BY <1>2, <3>1, <3>3 DEF Notify, Bus!Post
    <3> QED BY <3>4 DEF Bus!BusNext
  <2>2. CASE ~(Len(ch) < BufferSize)
    BY <1>2, <2>2 DEF Notify, Bus!busVars
  <2> QED BY <2>1, <2>2
<1>3. CASE LoopTakes
  <2>1. current' \o ch' = ch
    BY <1>3, TakeKeepsOrder DEF LoopTakes, EventType
  <2>2. current \o ch = ch
    BY <1>3, ConcatEmptySeq DEF LoopTakes, EventType
  <2> QED BY <1>3, <2>1, <2>2 DEF LoopTakes, Bus!busVars
<1>4. CASE LoopExtracts
  BY <1>4 DEF LoopExtracts, Bus!busVars
<1>5. CASE LoopFinishes
  <2>1. current[1] \in Events /\ current = <<current[1]>>
    BY <1>5, CurrentIsSingle DEF LoopFinishes
  <2>2. current \in Seq(Events) /\ Len(current) = 1 /\ ch \in Seq(Events)
    BY <2>1 DEF EventType
  <2>3. current \o ch # <<>> /\ Head(current \o ch) = current[1] /\ Tail(current \o ch) = ch
    <3>1. /\ current \o ch \in Seq(Events) /\ Len(current \o ch) = 1 + Len(ch)
          /\ \A i \in 1..(1 + Len(ch)) : (current \o ch)[i] =
                 IF i <= 1 THEN current[i] ELSE ch[i - 1]
      BY <2>1, <2>2, ConcatProperties
    <3>2. Len(ch) \in Nat
      BY <2>2, LenProperties
    <3>3. current \o ch # <<>>
      BY <3>1, <3>2, EmptySeq
    <3>4. Head(current \o ch) = current[1]
      BY <3>1, <3>2, <3>3
    <3>5. /\ Tail(current \o ch) \in Seq(Events) /\ Len(Tail(current \o ch)) = Len(ch)
          /\ \A i \in 1..Len(ch) : Tail(current \o ch)[i] = (current \o ch)[i + 1]
      BY <3>1, <3>2, <3>3, HeadTailProperties
    <3>6. \A i \in 1..Len(ch) : (current \o ch)[i + 1] = ch[i]
      BY <3>1, <3>2
    <3>7. Tail(current \o ch) = ch
      BY <3>5, <3>6, <2>2, SeqEqual
    <3> QED BY <3>3, <3>4, <3>7
  <2>4. current' \o ch' = ch
    BY <1>5, <2>2, ConcatEmptySeq DEF LoopFinishes
  <2>5. Bus!Handle
    BY <1>5, <2>3, <2>4 DEF LoopFinishes, Bus!Handle
  <2> QED BY <2>5 DEF Bus!BusNext
<1>6. CASE LoopExits
  <2>1. Bus!Close
    BY <1>6 DEF LoopExits, eventVars, Bus!Close
  <2> QED BY <2>1 DEF Bus!BusNext
<1>7. CASE StartLoop
  <2>1. owner = "starting" /\ loop # "exited"
    BY <1>7 DEF StartLoop, LifecycleInv, OwnerInv
  <2> QED BY <1>1, <1>7, <2>1 DEF StartLoop
<1>8. CASE StartLocked \/ (\E s \in Sources : StartLaunch(s)) \/ StartReturns
           \/ StopSteps \/ ParentCancelled \/ RegisterExtractor
  BY <1>1, <1>8 DEF StartLocked, StartLaunch, StartReturns, StopSteps, StopLocked, StopCancel,
     StopWait, StopDrain, ParentCancelled, RegisterExtractor
<1>9. ASSUME NEW c \in Collectors, CollectorSteps(c) PROVE [Bus!BusNext]_(Bus!busVars)
  BY <1>1, <1>9 DEF CollectorSteps, RegisterCollector, CollectorPolls, CollectorExits
<1>10. ASSUME NEW d \in Datasources, DatasourceSteps(d) PROVE [Bus!BusNext]_(Bus!busVars)
  BY <1>1, <1>10 DEF DatasourceSteps, RegisterDatasource, LaunchDatasource,
     DatasourceStartReturns, DatasourceStops
<1>11. CASE UNCHANGED vars
  BY <1>1, <1>11 DEF vars
<1> QED BY <1>2, <1>3, <1>4, <1>5, <1>6, <1>7, <1>8, <1>9, <1>10, <1>11
        DEF Next, StartSteps, LoopSteps

(* The channel and its event loop implement the abstract event bus.        *)
THEOREM ProcessorImplementsBus == Spec => ImplementsBus
<1>1. Init => Bus!BusInit
  BY DEF Init, Bus!BusInit
<1> QED BY <1>1, BusStep, Invariance, PTL DEF Spec, ImplementsBus, Bus!BusSpec
=============================================================================
