-------------------------- MODULE DatalayerProcessor --------------------------
(***************************************************************************)
(* The data layer Processor (pkg/datalayer/processor.go): its mutex, its   *)
(* WaitGroup and its goroutines - the event loop, one goroutine per        *)
(* collector and one per datasource - and the bounded channel of events.   *)
(*                                                                         *)
(* One owner goroutine registers the extractors, calls Start and then Stop,*)
(* as the runner does (cmd/runner/runner.go); the other Register... and    *)
(* Notify may be called by others at any time.  What runs under p.mu is one step; everything a method     *)
(* does after it unlocks is a step of its own.                             *)
(***************************************************************************)
EXTENDS Naturals, Sequences, FiniteSets

CONSTANTS
    Collectors,     \* collectors that may be registered
    Datasources,    \* datasources that may be registered
    MaxExtractors,  \* bound: number of extractors registered
    Events,         \* events that may be notified (each of them once)
    BufferSize      \* capacity of p.ch (defaultBufferSize)

ASSUME ProcessorAssumption ==
    /\ IsFiniteSet(Collectors) /\ IsFiniteSet(Datasources)
    /\ Collectors \cap Datasources = {}
    /\ MaxExtractors \in Nat /\ BufferSize \in Nat \ {0}

Sources == Collectors \cup Datasources

VARIABLES
    registered,   \* p.collectors and p.datasources
    extractors,   \* len(p.extractors)
    started, stopped,
    ctx,          \* p.ctx: "none", "live" or "done"
    wg,           \* the counter of p.wg
    owner,        \* where the owner is: see below
    snapshot,     \* sources Start still has to launch
    registrar,    \* [Datasources -> BOOLEAN]: a RegisterDatasource call has
                  \* unlocked p.mu and is about to launch its goroutine
    worker,       \* [Sources -> goroutine state]
    loop,         \* event loop: "none", "running" or "exited"
    ch,           \* p.ch
    current,      \* the event being dispatched (a sequence of at most one)
    next,         \* the extractor that gets it next
    delivered,    \* [1..MaxExtractors -> events given to that extractor]
    handled,      \* events given to every extractor
    notified      \* events Notify was called with

lifecycle == <<registered, started, stopped, ctx, owner, snapshot, registrar>>
workers == <<wg, worker>>
eventVars == <<ch, current, next, delivered, handled, notified>>
vars == <<lifecycle, workers, extractors, loop, eventVars>>

(* The owner: Start has not run ("new"); it has unlocked p.mu ("starting");*)
(* the event loop runs ("launching"); Start has returned ("running");      *)
(* Stop has unlocked p.mu ("cancelling"), is in wg.Wait ("waiting"), in    *)
(* <-notifyDone ("draining"), returned ("stopped").                        *)
OwnerStates == {"new", "starting", "launching", "running",
                "cancelling", "waiting", "draining", "stopped"}

(* A goroutine of a source: a collector waits out its jitter, then polls   *)
(* and ticks; a datasource runs its Start, then waits for the context.     *)
Running == {"jitter", "polling", "starting", "watching"}
WorkerStates == Running \cup {"none", "exited"}
Live == {s \in Sources : worker[s] \in Running}

Init ==
    /\ registered = {} /\ extractors = 0
    /\ started = FALSE /\ stopped = FALSE /\ ctx = "none"
    /\ wg = 0 /\ owner = "new" /\ snapshot = {}
    /\ registrar = [d \in Datasources |-> FALSE]
    /\ worker = [s \in Sources |-> "none"]
    /\ loop = "none"
    /\ ch = <<>> /\ current = <<>> /\ next = 1 /\ handled = <<>> /\ notified = {}
    /\ delivered = [x \in 1..MaxExtractors |-> <<>>]

(* wg.Add(1); go runCollector / runDatasource                              *)
Launch(s) ==
    /\ wg' = wg + 1
    /\ worker' = [worker EXCEPT ![s] = IF s \in Collectors THEN "jitter" ELSE "starting"]

(* defer wg.Done() and return                                              *)
Exit(s) ==
    /\ wg' = wg - 1
    /\ worker' = [worker EXCEPT ![s] = "exited"]

-----------------------------------------------------------------------------
(* Registration.  RegisterExtractor takes no lock: it is one step because  *)
(* only the owner calls it (the loader does, before Start; a call at the   *)
(* same time as Start would be a data race).                               *)
RegisterExtractor ==
    /\ owner \in {"new", "stopped"} /\ ~started /\ extractors < MaxExtractors
    /\ extractors' = extractors + 1
    /\ UNCHANGED <<lifecycle, workers, loop, eventVars>>

(* Faulty: the goroutine is started although Start will do it.             *)
RegisterCollectorEager(c) ==
    /\ c \notin registered
    /\ registered' = registered \cup {c}
    /\ IF ~stopped THEN Launch(c) ELSE UNCHANGED workers
    /\ UNCHANGED <<started, stopped, ctx, owner, snapshot, registrar,
                   extractors, loop, eventVars>>

(* Faulty: a processor that is stopping still launches the collector.      *)
RegisterCollectorLate(c) ==
    /\ c \notin registered
    /\ registered' = registered \cup {c}
    /\ IF started THEN Launch(c) ELSE UNCHANGED workers
    /\ UNCHANGED <<started, stopped, ctx, owner, snapshot, registrar,
                   extractors, loop, eventVars>>

(* RegisterCollector launches the goroutine before it unlocks p.mu.  (A    *)
(* frequency that is not positive registers nothing.)                      *)
RegisterCollector(c) ==
    /\ c \notin registered
    /\ registered' = registered \cup {c}
    /\ IF started /\ ~stopped THEN Launch(c) ELSE UNCHANGED workers
    /\ UNCHANGED <<started, stopped, ctx, owner, snapshot, registrar,
                   extractors, loop, eventVars>>

(* RegisterDatasource only decides under p.mu ...                          *)
RegisterDatasource(d) ==
    /\ d \notin registered
    /\ registered' = registered \cup {d}
    /\ registrar' = [registrar EXCEPT ![d] = started /\ ~stopped]
    /\ UNCHANGED <<started, stopped, ctx, owner, snapshot,
                   workers, extractors, loop, eventVars>>

(* ... and launches the goroutine after it has unlocked.                   *)
LaunchDatasource(d) ==
    /\ registrar[d]
    /\ registrar' = [registrar EXCEPT ![d] = FALSE]
    /\ Launch(d)
    /\ UNCHANGED <<registered, started, stopped, ctx, owner, snapshot,
                   extractors, loop, eventVars>>

-----------------------------------------------------------------------------
(* Faulty: what is registered is read before started is set, so a source   *)
(* registered in between is launched by nobody.                            *)
StartLockedEarlySnapshot ==
    /\ owner = "new" /\ ~started /\ ~stopped
    /\ ctx' = "live" /\ started' = TRUE
    /\ snapshot' = registered \ Collectors
    /\ owner' = "starting"
    /\ UNCHANGED <<registered, stopped, registrar, workers, extractors, loop, eventVars>>

(* Start, up to the unlock: what is registered by now is launched by Start,*)
(* what is registered later by its Register call.                          *)
StartLocked ==
    /\ owner = "new" /\ ~started /\ ~stopped
    /\ ctx' = "live" /\ started' = TRUE
    /\ snapshot' = registered
    /\ owner' = "starting"
    /\ UNCHANGED <<registered, stopped, registrar, workers, extractors, loop, eventVars>>

StartLoop ==
    /\ owner = "starting"
    /\ loop' = "running"
    /\ owner' = "launching"
    /\ UNCHANGED <<registered, started, stopped, ctx, snapshot, registrar,
                   workers, extractors, eventVars>>

StartLaunch(s) ==
    /\ owner = "launching" /\ s \in snapshot
    /\ snapshot' = snapshot \ {s}
    /\ Launch(s)
    /\ UNCHANGED <<registered, started, stopped, ctx, owner, registrar,
                   extractors, loop, eventVars>>

StartReturns ==
    /\ owner = "launching" /\ snapshot = {}
    /\ owner' = "running"
    /\ UNCHANGED <<registered, started, stopped, ctx, snapshot, registrar,
                   workers, extractors, loop, eventVars>>

(* The context given to Start is cancelled (a signal).                     *)
ParentCancelled ==
    /\ ctx = "live"
    /\ ctx' = "done"
    /\ UNCHANGED <<registered, started, stopped, owner, snapshot, registrar,
                   workers, extractors, loop, eventVars>>

(* Stop, up to the unlock: without a Start there is nothing to wait for.   *)
StopLocked ==
    /\ owner \in {"new", "running"}
    /\ stopped' = TRUE
    /\ owner' = IF ctx = "none" THEN "stopped" ELSE "cancelling"
    /\ UNCHANGED <<registered, started, ctx, snapshot, registrar,
                   workers, extractors, loop, eventVars>>

(* Faulty: cancel() is not called.                                         *)
StopWithoutCancel ==
    /\ owner = "cancelling"
    /\ owner' = "waiting"
    /\ UNCHANGED <<registered, started, stopped, ctx, snapshot, registrar,
                   workers, extractors, loop, eventVars>>

StopCancel ==
    /\ owner = "cancelling"
    /\ owner' = "waiting"
    /\ ctx' = "done"
    /\ UNCHANGED <<registered, started, stopped, snapshot, registrar,
                   workers, extractors, loop, eventVars>>

StopWait ==
    /\ owner = "waiting" /\ wg = 0
    /\ owner' = "draining"
    /\ UNCHANGED <<registered, started, stopped, ctx, snapshot, registrar,
                   workers, extractors, loop, eventVars>>

StopDrain ==
    /\ owner = "draining" /\ loop = "exited"
    /\ owner' = "stopped"
    /\ UNCHANGED <<registered, started, stopped, ctx, snapshot, registrar,
                   workers, extractors, loop, eventVars>>

-----------------------------------------------------------------------------
(* runCollector: a poll (Poll changes nothing here) follows the jitter and *)
(* every tick; the select leaves when the context is done.                 *)
CollectorPolls(c) ==
    /\ worker[c] = "jitter"
    /\ worker' = [worker EXCEPT ![c] = "polling"]
    /\ UNCHANGED <<lifecycle, wg, extractors, loop, eventVars>>

CollectorExits(c) ==
    /\ worker[c] \in {"jitter", "polling"} /\ ctx = "done"
    /\ Exit(c)
    /\ UNCHANGED <<lifecycle, extractors, loop, eventVars>>

(* runDatasource: Start fails, or it returns and Stop follows the end of   *)
(* the context.                                                            *)
DatasourceStartReturns(d) ==
    /\ worker[d] = "starting"
    /\ \/ worker' = [worker EXCEPT ![d] = "watching"] /\ UNCHANGED wg
       \/ Exit(d)
    /\ UNCHANGED <<lifecycle, extractors, loop, eventVars>>

DatasourceStops(d) ==
    /\ worker[d] = "watching" /\ ctx = "done"
    /\ Exit(d)
    /\ UNCHANGED <<lifecycle, extractors, loop, eventVars>>

-----------------------------------------------------------------------------
(* Faulty: the channel is one shorter than the check says.                 *)
NotifyOverfull(e) ==
    /\ e \notin notified
    /\ notified' = notified \cup {e}
    /\ ch' = IF Len(ch) <= BufferSize THEN Append(ch, e) ELSE ch
    /\ UNCHANGED <<lifecycle, workers, extractors, loop, current, next, delivered, handled>>

(* Notify never blocks: the event is dropped when the buffer is full.      *)
Notify(e) ==
    /\ e \notin notified
    /\ notified' = notified \cup {e}
    /\ ch' = IF Len(ch) < BufferSize THEN Append(ch, e) ELSE ch
    /\ UNCHANGED <<lifecycle, workers, extractors, loop, current, next, delivered, handled>>

(* Faulty: the loop waits for a second event.                              *)
LoopTakesPairs ==
    /\ loop = "running" /\ current = <<>> /\ Len(ch) > 1
    /\ current' = <<Head(ch)>>
    /\ ch' = Tail(ch)
    /\ next' = 1
    /\ UNCHANGED <<lifecycle, workers, extractors, loop, delivered, handled, notified>>

(* eventLoop at its select: take an event, or leave when the context is    *)
(* done (either, when both are possible).                                  *)
LoopTakes ==
    /\ loop = "running" /\ current = <<>> /\ ch # <<>>
    /\ current' = <<Head(ch)>>
    /\ ch' = Tail(ch)
    /\ next' = 1
    /\ UNCHANGED <<lifecycle, workers, extractors, loop, delivered, handled, notified>>

(* Extractors get the event one after the other; an error of one is logged *)
(* and does not keep it from the next.                                     *)
LoopExtracts ==
    /\ loop = "running" /\ current # <<>> /\ next <= extractors
    /\ delivered' = [delivered EXCEPT ![next] = Append(@, current[1])]
    /\ next' = next + 1
    /\ UNCHANGED <<lifecycle, workers, extractors, loop, ch, current, handled, notified>>

(* Faulty: the first extractor's error ends the dispatch of the event.     *)
LoopStopsAtError ==
    /\ loop = "running" /\ current # <<>> /\ next > 1
    /\ handled' = Append(handled, current[1])
    /\ current' = <<>>
    /\ UNCHANGED <<lifecycle, workers, extractors, loop, ch, next, delivered, notified>>

LoopFinishes ==
    /\ loop = "running" /\ current # <<>> /\ next > extractors
    /\ handled' = Append(handled, current[1])
    /\ current' = <<>>
    /\ UNCHANGED <<lifecycle, workers, extractors, loop, ch, next, delivered, notified>>

LoopExits ==
    /\ loop = "running" /\ current = <<>> /\ ctx = "done"
    /\ loop' = "exited"
    /\ UNCHANGED <<lifecycle, workers, extractors, eventVars>>

-----------------------------------------------------------------------------
StartSteps == StartLocked \/ StartLoop \/ (\E s \in Sources : StartLaunch(s)) \/ StartReturns
StopSteps == StopLocked \/ StopCancel \/ StopWait \/ StopDrain
LoopSteps == LoopTakes \/ LoopExtracts \/ LoopFinishes \/ LoopExits
CollectorSteps(c) == RegisterCollector(c) \/ CollectorPolls(c) \/ CollectorExits(c)
DatasourceSteps(d) == \/ RegisterDatasource(d) \/ LaunchDatasource(d)
                      \/ DatasourceStartReturns(d) \/ DatasourceStops(d)

Next ==
    \/ StartSteps \/ StopSteps \/ ParentCancelled \/ LoopSteps \/ RegisterExtractor
    \/ \E c \in Collectors : CollectorSteps(c)
    \/ \E d \in Datasources : DatasourceSteps(d)
    \/ \E e \in Events : Notify(e)

(* The Go scheduler runs every goroutine that can run.  A select whose     *)
(* context is done leaves eventually although the other case stays ready   *)
(* (strong fairness: LoopExits is not enabled during a dispatch).  A       *)
(* DataSource's Start returns once its context is done (its contract).     *)
(* Nobody has to call Start, Stop, Register... or Notify.                  *)
Fairness ==
    /\ WF_vars(StartLoop \/ (\E s \in Sources : StartLaunch(s)) \/ StartReturns)
    /\ WF_vars(StopCancel) /\ WF_vars(StopWait) /\ WF_vars(StopDrain)
    /\ SF_vars(LoopExits) /\ WF_vars(LoopTakes \/ LoopExtracts \/ LoopFinishes)
    /\ \A c \in Collectors : WF_vars(CollectorExits(c))
    /\ \A d \in Datasources :
        /\ WF_vars(LaunchDatasource(d))
        /\ WF_vars(ctx = "done" /\ DatasourceStartReturns(d))
        /\ WF_vars(DatasourceStops(d))

Spec == Init /\ [][Next]_vars /\ Fairness

-----------------------------------------------------------------------------
InSeq(e, s) == \E i \in DOMAIN s : s[i] = e

LifecycleType ==
    /\ registered \subseteq Sources /\ snapshot \subseteq Sources
    /\ started \in BOOLEAN /\ stopped \in BOOLEAN
    /\ ctx \in {"none", "live", "done"}
    /\ wg \in Nat
    /\ owner \in OwnerStates
    /\ registrar \in [Datasources -> BOOLEAN]
    /\ worker \in [Sources -> WorkerStates]
    /\ loop \in {"none", "running", "exited"}

EventType ==
    /\ extractors \in 0..MaxExtractors
    /\ ch \in Seq(Events) /\ Len(ch) <= BufferSize
    /\ current \in Seq(Events) /\ Len(current) <= 1
    /\ next \in 1..(MaxExtractors + 1)
    /\ delivered \in [1..MaxExtractors -> Seq(Events)]
    /\ handled \in Seq(Events) /\ notified \subseteq Events

(* The fields of the Processor and its goroutines keep their types; in     *)
(* particular the WaitGroup's counter never goes below zero (Go panics)    *)
(* and p.ch never holds more than its capacity.                            *)
TypeOK == LifecycleType /\ EventType

(* The WaitGroup counts exactly the goroutines that are running: each      *)
(* source has at most one, however its registration and Start interleave.  *)
WgCountsGoroutines == wg = Cardinality(Live)

(* A source registered while the processor is being started, or running,   *)
(* is launched by Start or by its own Register call: no registration falls *)
(* between Start's snapshot and the started flag.                          *)
NoSourceForgotten ==
    started /\ ~stopped => \A s \in registered :
        \/ worker[s] # "none"
        \/ s \in snapshot
        \/ s \in Datasources /\ registrar[s]

(* When Stop has returned, the event loop and all collectors have exited,  *)
(* and none is launched any more, although RegisterCollector may have run  *)
(* at the same time.                                                       *)
StopQuiescesCollectors ==
    owner = "stopped" /\ started =>
        /\ loop = "exited"
        /\ \A c \in Collectors : worker[c] \notin Running

(* Every extractor gets every event, once and in the order of the channel: *)
(* what it got is what was handled, plus the event being dispatched once   *)
(* its turn has passed.                                                    *)
ExtractorsInStep ==
    \A x \in 1..extractors :
        delivered[x] = IF x < next THEN handled \o current ELSE handled

(* The channel and the event loop implement the abstract bus: bounded,     *)
(* first in first out, each event handled once.                            *)
Bus == INSTANCE EventBus WITH waiting <- current \o ch, open <- loop # "exited",
                              Room <- BufferSize + 1
ImplementsBus == Bus!BusSpec

(* Stop returns: the goroutines it waits for all leave after cancel().     *)
StopReturns == owner = "cancelling" ~> owner = "stopped"

(* An event that reached the channel of a running loop is dispatched,      *)
(* unless the context ends first.                                          *)
EventsHandled ==
    \A e \in Events :
        (loop = "running" /\ InSeq(e, ch)) ~> (InSeq(e, handled) \/ ctx = "done")

-----------------------------------------------------------------------------
(* The inductive invariant behind these properties.                        *)

(* The owner's position determines the flags.                              *)
OwnerInv ==
    /\ (ctx = "none") <=> ~started
    /\ owner = "new" => ~started /\ ~stopped
    /\ owner \in {"new", "starting"} => loop = "none"
    /\ owner \in {"starting", "launching", "running"} => started /\ ~stopped
    /\ owner \in {"cancelling", "waiting", "draining"} => started /\ stopped
    /\ owner = "stopped" => stopped
    /\ snapshot # {} => owner \in {"starting", "launching"}

(* A source has been launched, waits for Start, waits for its registrar,   *)
(* or none of these; never two of them, and none before it is registered.  *)
LaunchInv ==
    /\ \A s \in Sources : worker[s] # "none" => s \in registered /\ started
    /\ \A s \in snapshot : s \in registered /\ worker[s] = "none"
    /\ \A d \in Datasources : registrar[d] =>
          d \in registered /\ d \notin snapshot /\ worker[d] = "none" /\ started

(* No collector runs once wg.Wait has returned, no loop once Stop has.     *)
QuietInv ==
    /\ owner \in {"draining", "stopped"} /\ started =>
          \A c \in Collectors : worker[c] \notin Running
    /\ owner = "stopped" /\ started => loop = "exited"

(* Nothing has been dispatched before the loop runs, and only registered   *)
(* extractors have got anything.                                           *)
DispatchInv ==
    /\ loop # "none" => started
    /\ loop = "none" => current = <<>> /\ handled = <<>>
    /\ loop = "exited" => current = <<>>
    /\ current # <<>> => next <= extractors + 1
    /\ \A x \in 1..MaxExtractors : x > extractors => delivered[x] = <<>>

LifecycleInv == LifecycleType /\ OwnerInv /\ LaunchInv /\ WgCountsGoroutines
                /\ QuietInv /\ NoSourceForgotten
EventInv == EventType /\ DispatchInv /\ ExtractorsInStep
IInv == LifecycleInv /\ EventInv

-----------------------------------------------------------------------------
(* A statement of the code's comments that the code does not implement:    *)
(* "Stop cancels all goroutines and waits for them to exit."  A datasource *)
(* launched by RegisterDatasource may start after Stop has returned.       *)
StopQuiescesEverything == owner = "stopped" => Live = {}
=============================================================================
