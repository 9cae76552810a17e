---------------------------- MODULE ModelRegistry ----------------------------
(***************************************************************************)
(* The model registry: the in-memory datastore with the two goroutines     *)
(* that write to it at the same time - the model-config datasource, which  *)
(* syncs it with a JSON file it watches, and the event loop, whose         *)
(* extractors create models and publish counts on them.                    *)
(*                                                                         *)
(* Every call of the datastore and of an AttributeMap is one step (each is *)
(* atomic, what lies between two of them is not).  A pointer to a Model    *)
(* outlives the entry: a Put on a deleted Model reaches nobody.            *)
(***************************************************************************)
EXTENDS Naturals

CONSTANTS
    Models,     \* model names
    Prices,     \* prices of the config file
    Negative,   \* the price of an entry that is skipped
    Groups,     \* group names
    Configs,    \* the parsed contents the config file may have, besides none
    Corrupt,    \* a file that is not JSON (or half written)
    Missing,    \* no file
    None,       \* an attribute that is not set, a Model that is not there
    Faults,     \* which of "early write", "remount" and "read error" happen
    MaxWrites,  \* bound: changes of the config file
    MaxCount    \* bound: requests in flight per model

EmptyConfig == [prices |-> [m \in {} |-> Negative], groups |-> [g \in Groups |-> {}]]

(* What syncModels accepts: a parsed config, or no data (an empty file).   *)
Readable == Configs \cup {EmptyConfig}
Contents == Readable \cup {Corrupt, Missing}

ToTokenPrices(p) == <<"per token", p>>
AllPrices == {ToTokenPrices(p) : p \in Prices}
ModelAttributes == [price : AllPrices \cup {None}, groups : SUBSET Groups,
                    count : Nat \cup {None}]
HeldModels == [model : Models, entry : BOOLEAN]

ASSUME RegistryAssumption ==
    /\ None \notin Models \cup ModelAttributes \cup HeldModels
    /\ Negative \notin Prices
    /\ Corrupt \notin Readable /\ Missing \notin Readable /\ Corrupt # Missing
    /\ \A c \in Configs :
        /\ DOMAIN c.prices \subseteq Models
        /\ \A m \in DOMAIN c.prices : c.prices[m] \in Prices \cup {Negative}
        /\ c.groups \in [Groups -> SUBSET Models]
    /\ Faults \subseteq {"early write", "remount", "read error"}
    /\ MaxWrites \in Nat /\ MaxCount \in Nat

VARIABLES
    file,       \* content of the config file
    writes,     \* changes made to it
    events,     \* events of the watcher about it, not handled yet
    missed,     \* has the file changed unnoticed since it was last read?
    pc,         \* where the datasource is: see States
    watching,   \* the watcher has been added
    cfg,        \* the config syncModels applies, or applied last
    todo,       \* models it still has to write, or to delete
    cur,        \* the model it is writing
    store,      \* [Models -> a Model's attributes or None]: store.models
    counters,   \* [Models -> Nat]: requests the extractor counts
    held        \* the Model the extractor is about to Put on, or None

configVars == <<file, writes, events, missed>>
syncVars == <<pc, watching, cfg, todo, cur>>
extractVars == <<counters, held>>
vars == <<configVars, syncVars, store, extractVars>>

(* Before Start, at each call of syncModels in turn, between the initial   *)
(* sync and the watch, in the select, and at the end.                      *)
States == {"new", "model", "price", "groups", "list", "delete",
           "unwatched", "idle", "failed", "stopped"}
Syncing == {"model", "price", "groups", "list", "delete"}

Present == {m \in Models : store[m] # None}
NewModel == [price |-> None, groups |-> {}, count |-> None]

(* The models of a config that are registered, and the groups of a model.  *)
Desired(c) == {m \in DOMAIN c.prices : c.prices[m] # Negative}
Membership(c, m) == {g \in Groups : m \in c.groups[g]}

-----------------------------------------------------------------------------
(* The datastore.                                                          *)
GetOrCreateModel(m) ==
    store' = [store EXCEPT ![m] = IF @ = None THEN NewModel ELSE @]

(* A Model somebody holds stays alive, but is no longer the entry.         *)
DeleteModel(m) ==
    /\ store' = [store EXCEPT ![m] = None]
    /\ held' = IF held # None /\ held.model = m THEN [held EXCEPT !.entry = FALSE] ELSE held

-----------------------------------------------------------------------------
(* The config file and its watcher.                                        *)
Init ==
    /\ file \in Contents /\ writes = 0 /\ events = 0 /\ missed = FALSE
    /\ pc = "new" /\ watching = FALSE /\ cfg = EmptyConfig /\ todo = {} /\ cur = None
    /\ store = [m \in Models |-> None]
    /\ counters = [m \in Models |-> 0] /\ held = None

(* The file is written, replaced, removed or renamed: an event for its     *)
(* path, if the directory is watched by then.                              *)
WriteFile(content) ==
    /\ writes < MaxWrites
    /\ watching \/ pc = "new" \/ "early write" \in Faults
    /\ writes' = writes + 1
    /\ file' = content
    /\ events' = IF watching THEN events + 1 ELSE events
    /\ missed' = (missed \/ (~watching /\ pc # "new"))
    /\ UNCHANGED <<syncVars, store, extractVars>>

(* A ConfigMap volume is updated: the kubelet renames the directory that   *)
(* the file is a link into, which raises events for other paths only; the  *)
(* loop skips them.                                                        *)
RemountFile(content) ==
    /\ "remount" \in Faults
    /\ writes < MaxWrites
    /\ writes' = writes + 1
    /\ file' = content
    /\ missed' = TRUE
    /\ UNCHANGED <<events, syncVars, store, extractVars>>

-----------------------------------------------------------------------------
(* syncModels, one call of the datastore after the other.                  *)
(* Faulty: what is no longer listed goes before what is listed is written, *)
(* and everything goes.                                                    *)
BeginSyncClears(c) ==
    /\ cfg' = c /\ todo' = Present /\ cur' = None
    /\ pc' = "delete"
    /\ UNCHANGED watching

BeginSync(c) ==
    /\ cfg' = c /\ todo' = Desired(c) /\ cur' = None
    /\ pc' = "model"
    /\ UNCHANGED watching

SyncModel(m) ==
    /\ pc = "model" /\ m \in todo
    /\ GetOrCreateModel(m)
    /\ cur' = m /\ todo' = todo \ {m}
    /\ pc' = "price"
    /\ UNCHANGED <<configVars, watching, cfg, extractVars>>

SyncPrice ==
    /\ pc = "price"
    /\ store' = [store EXCEPT ![cur].price = ToTokenPrices(cfg.prices[cur])]
    /\ pc' = "groups"
    /\ UNCHANGED <<configVars, watching, cfg, todo, cur, extractVars>>

(* Put, or Delete when the model is in no group.                           *)
SyncGroups ==
    /\ pc = "groups"
    /\ store' = [store EXCEPT ![cur].groups = Membership(cfg, cur)]
    /\ pc' = "model"
    /\ UNCHANGED <<configVars, watching, cfg, todo, cur, extractVars>>

(* GetModels: a snapshot of the entries.                                   *)
SyncList ==
    /\ pc = "model" /\ todo = {}
    /\ todo' = Present \ Desired(cfg)
    /\ pc' = "delete"
    /\ UNCHANGED <<configVars, watching, cfg, cur, store, extractVars>>

SyncDelete(m) ==
    /\ pc = "delete" /\ m \in todo
    /\ DeleteModel(m)
    /\ todo' = todo \ {m}
    /\ UNCHANGED <<configVars, pc, watching, cfg, cur, counters>>

SyncReturns ==
    /\ pc = "delete" /\ todo = {}
    /\ pc' = IF watching THEN "idle" ELSE "unwatched"
    /\ UNCHANGED <<configVars, watching, cfg, todo, cur, store, extractVars>>

-----------------------------------------------------------------------------
(* Start: a file that is missing or does not parse is an error, an empty   *)
(* one is an empty config.                                                 *)
Start ==
    /\ pc = "new"
    /\ missed' = FALSE
    /\ \/ file \in Readable /\ BeginSync(file)
       \/ /\ file \notin Readable \/ "read error" \in Faults
          /\ pc' = "failed"
          /\ UNCHANGED <<watching, cfg, todo, cur>>
    /\ UNCHANGED <<file, writes, events, store, extractVars>>

AddWatch ==
    /\ pc = "unwatched"
    /\ \/ pc' = "idle" /\ watching' = TRUE
       \/ pc' = "failed" /\ UNCHANGED watching
    /\ UNCHANGED <<configVars, cfg, todo, cur, store, extractVars>>

(* Faulty: an event is handled with the error path of Start.               *)
HandleEventLeaves ==
    /\ pc = "idle" /\ events > 0
    /\ events' = events - 1
    /\ missed' = FALSE
    /\ \/ file \in Readable /\ BeginSync(file)
       \/ file \notin Readable /\ pc' = "failed" /\ UNCHANGED <<watching, cfg, todo, cur>>
    /\ UNCHANGED <<file, writes, store, extractVars>>

(* Faulty: the config read at the previous event is applied.               *)
HandleEventStale ==
    /\ pc = "idle" /\ events > 0
    /\ events' = events - 1
    /\ missed' = FALSE
    /\ BeginSync(cfg)
    /\ UNCHANGED <<file, writes, store, extractVars>>

(* The watch loop takes an event for the file, reads it again and syncs; a *)
(* missing file is an empty config, what cannot be read or parsed is       *)
(* skipped.                                                                *)
HandleEvent ==
    /\ pc = "idle" /\ events > 0
    /\ events' = events - 1
    /\ \/ /\ missed' = FALSE
          /\ \/ file \in Readable /\ BeginSync(file)
             \/ file = Missing /\ BeginSync(EmptyConfig)
             \/ file = Corrupt /\ UNCHANGED syncVars
       \/ "read error" \in Faults /\ missed' = TRUE /\ UNCHANGED syncVars
    /\ UNCHANGED <<file, writes, store, extractVars>>

(* The context is done, or Stop closes stopCh: the goroutine leaves at its *)
(* select, after the sync it is in.                                        *)
StopWatch ==
    /\ pc = "idle"
    /\ pc' = "stopped"
    /\ UNCHANGED <<configVars, watching, cfg, todo, cur, store, extractVars>>

-----------------------------------------------------------------------------
(* The event loop: RequestMetadataExtractor counts a request or a response *)
(* and looks the Model up, then Puts the count on it.                      *)
ExtractCount(m) ==
    /\ held = None
    /\ \E n \in {counters[m] + 1, IF counters[m] > 0 THEN counters[m] - 1 ELSE 0} :
        /\ n <= MaxCount
        /\ counters' = [counters EXCEPT ![m] = n]
    /\ GetOrCreateModel(m)
    /\ held' = [model |-> m, entry |-> TRUE]
    /\ UNCHANGED <<configVars, syncVars>>

(* Faulty: a count that is back at zero is not published.                  *)
ExtractPutSkipsZero ==
    /\ held # None
    /\ held' = None
    /\ store' = IF held.entry /\ counters[held.model] > 0
                THEN [store EXCEPT ![held.model].count = counters[held.model]] ELSE store
    /\ UNCHANGED <<configVars, syncVars, counters>>

ExtractPut ==
    /\ held # None
    /\ held' = None
    /\ store' = IF held.entry
                THEN [store EXCEPT ![held.model].count = counters[held.model]] ELSE store
    /\ UNCHANGED <<configVars, syncVars, counters>>

(* RequestCostMetadataExtractor looks up the prices of a response's model. *)
LookupTokenPrices(m) ==
    /\ held = None
    /\ GetOrCreateModel(m)
    /\ UNCHANGED <<configVars, syncVars, extractVars>>

-----------------------------------------------------------------------------
SyncSteps ==
    \/ \E m \in Models : SyncModel(m) \/ SyncDelete(m)
    \/ SyncPrice \/ SyncGroups \/ SyncList \/ SyncReturns

Next ==
    \/ \E c \in Contents : WriteFile(c) \/ RemountFile(c)
    \/ Start \/ AddWatch \/ HandleEvent \/ StopWatch \/ SyncSteps
    \/ \E m \in Models : ExtractCount(m) \/ LookupTokenPrices(m)
    \/ ExtractPut

(* The scheduler runs both goroutines; nobody has to stop them, to write   *)
(* the file or to send requests.                                           *)
Spec == Init /\ [][Next]_vars /\ WF_vars(SyncSteps) /\ WF_vars(HandleEvent) /\ WF_vars(ExtractPut)

-----------------------------------------------------------------------------
(* The registry, the datasource and the extractor keep their types.        *)
TypeOK ==
    /\ file \in Contents /\ writes \in 0..MaxWrites /\ events \in 0..MaxWrites
    /\ missed \in BOOLEAN /\ watching \in BOOLEAN
    /\ pc \in States /\ cfg \in Readable
    /\ todo \subseteq Models /\ cur \in Models \cup {None}
    /\ store \in [Models -> ModelAttributes \cup {None}]
    /\ counters \in [Models -> 0..MaxCount]
    /\ held \in HeldModels \cup {None}

(* Does the registry hold a config?  Every model it lists is there with    *)
(* its price and groups, and a model it does not list (an extractor made   *)
(* it) has neither.                                                        *)
Holds(c) ==
    /\ Desired(c) \subseteq Present
    /\ \A m \in Present :
        IF m \in Desired(c)
        THEN store[m].price = ToTokenPrices(c.prices[m]) /\ store[m].groups = Membership(c, m)
        ELSE store[m].price = None /\ store[m].groups = {}

(* When every event has been handled, the registry holds the file's        *)
(* content, however often the file was changed, removed or broken before   *)
(* (a file that does not parse leaves what was there); and between two     *)
(* syncs it always holds the config synced last, whatever models the       *)
(* extractors created while that was being applied (syncModels).           *)
Converged ==
    /\ pc \in {"unwatched", "idle", "stopped"} => Holds(cfg)
    /\ pc = "idle" /\ events = 0 /\ ~missed /\ file # Corrupt
        => Holds(IF file = Missing THEN EmptyConfig ELSE file)

(* The count published for a model is the extractor's count, or it is      *)
(* absent: a deleted and re-created model never carries an old count.      *)
PublishedCountFresh ==
    held = None => \A m \in Present : store[m].count \in {None, counters[m]}

(* A reload never takes a model away that the old and the new config both  *)
(* list, not even for a moment: syncModels writes before it deletes and    *)
(* deletes only what is not listed.                                        *)
ListedModelsStay ==
    [][\A m \in Present \cap Desired(cfg) : m \in Desired(cfg') => m \in Present']_vars

(* Every noticed change is worked off: the datasource is back at its       *)
(* select with no event left, unless it stopped.                           *)
ChangesApplied == events > 0 ~> (events = 0 /\ pc = "idle") \/ pc = "stopped"

-----------------------------------------------------------------------------
(* Statements of the documentation that the code does not implement.       *)

(* modelconfigcollector/README.md: the datasource is "the authoritative    *)
(* source of which models the system knows about", the datastore           *)
(* "converges to exactly the set of models listed in the file".            *)
ExactlyListedModels ==
    pc = "idle" /\ events = 0 /\ ~missed /\ file \in Readable => Present = Desired(file)

(* pricing.go: "A registered Model is expected to have this attribute      *)
(* populated ... so consumers may read the key unconditionally".  A sync   *)
(* registers a model before it puts its prices, and an extractor registers *)
(* models without any.                                                     *)
RegisteredModelsPriced == pc # "new" => \A m \in Present : store[m].price # None

(* modelconfigcollector/README.md: "On every file change the datastore     *)
(* converges"; plugin.go: the directory is watched "to handle atomic       *)
(* rename-based replacements such as Kubernetes ConfigMap remounts".       *)
EveryChangeConverges ==
    pc = "idle" /\ events = 0 /\ file \in Readable => Holds(file)
=============================================================================
