---------------------------- MODULE AdaptersStore ----------------------------
(***************************************************************************)
(* The base-model-to-header plugin's mapping of LoRA adapters to base      *)
(* models: the AdaptersStore, the ConfigMapReconciler that feeds it and    *)
(* the controller-runtime work queue between the cluster and the           *)
(* reconciler.  The reconciler gets an object in one step and applies it   *)
(* in another; the cluster moves on in between.                            *)
(***************************************************************************)
EXTENDS Integers, Sequences, FiniteSets

CONSTANTS
    ConfigMaps,     \* namespaced names of ConfigMaps
    BaseModels,     \* base model names
    Adapters,       \* adapter names
    None,           \* no object, no model name
    Worlds,         \* what users may write: [ConfigMaps -> sets of objects]
    Deletes,        \* are ConfigMaps deleted?
    MaxChanges      \* bound: changes users make

(* An object: whether it has the label, whether it is being deleted, its   *)
(* base model (None: missing or blank) and its adapters (None: not a YAML  *)
(* list).                                                                  *)
Objects == [label : BOOLEAN, terminating : BOOLEAN,
            base : BaseModels \cup {None}, adapters : (SUBSET Adapters) \cup {None}]

(* What a worker holds between Get and the store.                          *)
Gets == [name : ConfigMaps, object : Objects \cup {None}]

ASSUME AdaptersAssumption ==
    /\ IsFiniteSet(ConfigMaps)
    /\ BaseModels \cap Adapters = {}
    /\ None \notin BaseModels \cup Adapters \cup Objects \cup Gets
    /\ \A w \in Worlds : \A c \in ConfigMaps : w[c] \subseteq Objects
    /\ Deletes \in BOOLEAN /\ MaxChanges \in Nat

VARIABLES
    contents,       \* what these users write
    cluster,        \* [ConfigMaps -> Objects or None]
    changes,        \* changes made so far
    queue,          \* the work queue
    current,        \* the ConfigMap being reconciled and what Get returned
    dirty,          \* it was enqueued again meanwhile
    retry,          \* ConfigMaps waiting out the back-off after an error
    loraAdapterToBaseModel, configmapAdapters, baseModels,
    counted,        \* [ConfigMaps of the store -> the base model each was counted under]
    miscounted,     \* base models a removal went wrong for: its object named another, or none
    kept            \* ConfigMaps of the store that the reconciler has found gone

clusterVars == <<contents, cluster, changes>>
queueVars == <<queue, current, dirty, retry>>
store == <<loraAdapterToBaseModel, configmapAdapters, baseModels>>
history == <<counted, miscounted, kept>>
vars == <<clusterVars, queueVars, store, history>>

InQueue(c) == \E i \in DOMAIN queue : queue[i] = c
Reconciling(c) == current # None /\ current.name = c
Pending(c) == InQueue(c) \/ Reconciling(c) \/ c \in retry

Init ==
    /\ contents \in Worlds
    /\ cluster = [c \in ConfigMaps |-> None] /\ changes = 0
    /\ queue = <<>> /\ current = None /\ dirty = FALSE /\ retry = {}
    /\ loraAdapterToBaseModel = <<>>
    /\ configmapAdapters = <<>>
    /\ baseModels = <<>>
    /\ counted = <<>> /\ miscounted = {} /\ kept = {}

-----------------------------------------------------------------------------
(* The cluster and the work queue, which holds a key once and takes a key  *)
(* that is being reconciled again when that is done.                       *)
hasIPPManagedLabel(o) == o # None /\ o.label

Enqueue(c) ==
    /\ queue' = IF InQueue(c) \/ Reconciling(c) THEN queue ELSE Append(queue, c)
    /\ dirty' = (dirty \/ Reconciling(c))

(* ippManagedPredicate: the object before or after the change has the      *)
(* label.                                                                  *)
Change(c, object) ==
    /\ changes < MaxChanges /\ object # cluster[c]
    /\ changes' = changes + 1
    /\ cluster' = [cluster EXCEPT ![c] = object]
    /\ IF hasIPPManagedLabel(cluster[c]) \/ hasIPPManagedLabel(object)
       THEN Enqueue(c) ELSE UNCHANGED <<queue, dirty>>
    /\ UNCHANGED <<contents, current, retry, store, history>>

AdaptersOf(o) == IF o = None \/ o.adapters = None THEN {} ELSE o.adapters

(* Users keep adapter names unique, as docs/configuration.md asks them to. *)
WriteConfigMap(c) ==
    \E o \in contents[c] :
        /\ \A d \in ConfigMaps \ {c} : AdaptersOf(o) \cap AdaptersOf(cluster[d]) = {}
        /\ Change(c, o)

DeleteConfigMap(c) == Deletes /\ Change(c, None)

Requeue(c) ==
    /\ c \in retry
    /\ retry' = retry \ {c}
    /\ Enqueue(c)
    /\ UNCHANGED <<clusterVars, current, store, history>>

-----------------------------------------------------------------------------
(* Reconcile, up to Get.                                                   *)
GetConfigMap ==
    /\ current = None /\ queue # <<>>
    /\ current' = [name |-> Head(queue), object |-> cluster[Head(queue)]]
    /\ queue' = Tail(queue)
    /\ UNCHANGED <<clusterVars, dirty, retry, store, history>>

(* Faulty: the error of Get is swallowed.                                  *)
GetFailsForgets ==
    /\ current = None /\ queue # <<>>
    /\ queue' = Tail(queue)
    /\ UNCHANGED <<clusterVars, current, dirty, retry, store, history>>

GetFails ==
    /\ current = None /\ queue # <<>>
    /\ retry' = retry \cup {Head(queue)}
    /\ queue' = Tail(queue)
    /\ UNCHANGED <<clusterVars, current, dirty, store, history>>

(* The worker is done with a key: it is enqueued again if it is dirty, and *)
(* after a back-off if there was an error.                                 *)
Done(failed) ==
    /\ current' = None /\ dirty' = FALSE
    /\ queue' = IF dirty THEN Append(queue, current.name) ELSE queue
    /\ retry' = IF failed THEN retry \cup {current.name} ELSE retry

(* A map with entries added or overwritten, and with entries deleted.      *)
With(f, keys, v) == [k \in DOMAIN f \cup keys |-> IF k \in keys THEN v ELSE f[k]]
Without(f, keys) == [k \in DOMAIN f \ keys |-> f[k]]

(* A lookup in baseModels: zero if there is no entry.                      *)
Count(base) == IF base \in DOMAIN baseModels THEN baseModels[base] ELSE 0

(* Faulty: the ConfigMap is counted at every update.                       *)
updateCountsAgain(c, base, newAdapters) ==
    /\ loraAdapterToBaseModel' = With(loraAdapterToBaseModel, newAdapters, base)
    /\ configmapAdapters' = With(configmapAdapters, {c}, newAdapters)
    /\ baseModels' = With(baseModels, {base}, Count(base) + 1)

configMapUpdateOrAddIfNotExist(c, base, newAdapters) ==
    LET exists == c \in DOMAIN configmapAdapters
        removed == IF exists THEN configmapAdapters[c] \ newAdapters ELSE {}
    IN /\ loraAdapterToBaseModel' =
            Without(With(loraAdapterToBaseModel, newAdapters, base), removed)
       /\ configmapAdapters' = With(configmapAdapters, {c}, newAdapters)
       /\ baseModels' = IF exists THEN baseModels
                        ELSE With(baseModels, {base}, Count(base) + 1)

(* Faulty: the base model goes with the first of its ConfigMaps.           *)
configMapDeleteDropsBase(c, base) ==
    IF c \notin DOMAIN configmapAdapters THEN UNCHANGED store
    ELSE /\ loraAdapterToBaseModel' = Without(loraAdapterToBaseModel, configmapAdapters[c])
         /\ configmapAdapters' = Without(configmapAdapters, {c})
         /\ baseModels' = Without(baseModels, {base})

(* Faulty: the adapters of a ConfigMap that left keep their mapping.       *)
configMapDeleteKeepsAdapters(c, base) ==
    IF c \notin DOMAIN configmapAdapters THEN UNCHANGED store
    ELSE /\ configmapAdapters' = Without(configmapAdapters, {c})
         /\ baseModels' = IF base = None THEN baseModels
                          ELSE IF Count(base) = 1 THEN Without(baseModels, {base})
                          ELSE With(baseModels, {base}, Count(base) - 1)
         /\ UNCHANGED loraAdapterToBaseModel

(* The base model's counter goes down only if the object names one.        *)
configMapDelete(c, base) ==
    IF c \notin DOMAIN configmapAdapters THEN UNCHANGED store
    ELSE /\ loraAdapterToBaseModel' = Without(loraAdapterToBaseModel, configmapAdapters[c])
         /\ configmapAdapters' = Without(configmapAdapters, {c})
         /\ baseModels' = IF base = None THEN baseModels
                          ELSE IF Count(base) = 1 THEN Without(baseModels, {base})
                          ELSE With(baseModels, {base}, Count(base) - 1)

(* parseConfigMap succeeds.                                                *)
Parses(o) == o.base # None /\ o.adapters # None

(* What the properties remember of a ConfigMap that was found gone, that   *)
(* left, or that was added.                                                *)
RememberGone(c) ==
    /\ kept' = IF c \in DOMAIN configmapAdapters THEN kept \cup {c} ELSE kept
    /\ UNCHANGED <<counted, miscounted>>
RememberLeft(c, base) ==
    /\ kept' = kept \ {c} /\ counted' = Without(counted, {c})
    /\ miscounted' = IF c \in DOMAIN counted /\ counted[c] # base
                     THEN miscounted \cup ({counted[c], base} \ {None}) ELSE miscounted
RememberAdded(c, base) ==
    /\ kept' = kept \ {c} /\ UNCHANGED miscounted
    /\ counted' = IF c \in DOMAIN configmapAdapters THEN counted ELSE With(counted, {c}, base)

(* Reconcile, after Get.  For an object that was not found the store is    *)
(* asked to delete a ConfigMap without a name, which it does not know.     *)
Reconcile ==
    LET o == current.object
        c == current.name
    IN /\ current # None
       /\ \/ o = None /\ UNCHANGED store /\ RememberGone(c) /\ Done(FALSE)
          \/ /\ o # None
             /\ \/ /\ o.terminating \/ ~hasIPPManagedLabel(o)
                   /\ configMapDelete(c, o.base) /\ RememberLeft(c, o.base)
                   /\ Done(FALSE)
                \/ /\ ~o.terminating /\ hasIPPManagedLabel(o)
                   /\ \/ /\ Parses(o)
                         /\ configMapUpdateOrAddIfNotExist(c, o.base, o.adapters)
                         /\ RememberAdded(c, o.base)
                         /\ Done(FALSE)
                      \/ ~Parses(o) /\ UNCHANGED <<store, history>> /\ Done(TRUE)
       /\ UNCHANGED clusterVars

(* What ProcessRequest writes into the header ("" is None).                *)
getBaseModel(name) ==
    IF name \in DOMAIN loraAdapterToBaseModel THEN loraAdapterToBaseModel[name]
    ELSE IF name \in DOMAIN baseModels THEN name ELSE None

-----------------------------------------------------------------------------
Next ==
    \/ \E c \in ConfigMaps : WriteConfigMap(c) \/ DeleteConfigMap(c) \/ Requeue(c)
    \/ GetConfigMap \/ GetFails \/ Reconcile

(* The manager's worker runs, a back-off ends, and an API server that is   *)
(* asked again and again answers in the end.                               *)
Fairness ==
    /\ WF_vars(Reconcile)
    /\ \A c \in ConfigMaps : WF_vars(Requeue(c)) /\ SF_vars(GetConfigMap /\ Head(queue) = c)

Spec == Init /\ [][Next]_vars /\ Fairness

-----------------------------------------------------------------------------
(* The object is one the reconciler adds to the store.                     *)
Valid(o) == o # None /\ o.label /\ ~o.terminating /\ o.base # None /\ o.adapters # None

(* The queue and the store keep their types: what a ConfigMap is said to   *)
(* list is a set of adapters, a key is queued once.                        *)
TypeOK ==
    /\ contents \in Worlds
    /\ cluster \in [ConfigMaps -> Objects \cup {None}] /\ changes \in 0..MaxChanges
    /\ queue \in Seq(ConfigMaps) /\ retry \subseteq ConfigMaps /\ dirty \in BOOLEAN
    /\ current \in Gets \cup {None}
    /\ \A i, j \in DOMAIN queue : queue[i] = queue[j] => i = j
    /\ current # None => ~InQueue(current.name)
    /\ \A a \in DOMAIN loraAdapterToBaseModel :
        a \in Adapters /\ loraAdapterToBaseModel[a] \in BaseModels
    /\ \A c \in DOMAIN configmapAdapters : c \in ConfigMaps /\ configmapAdapters[c] \subseteq Adapters
    /\ \A m \in DOMAIN baseModels : m \in BaseModels /\ baseModels[m] \in Int
    /\ DOMAIN counted = DOMAIN configmapAdapters /\ kept \subseteq DOMAIN configmapAdapters
    /\ miscounted \subseteq BaseModels

(* Users who give an adapter to one ConfigMap only and a ConfigMap one     *)
(* base model, which it may lose.                                          *)
OwnNames(w) ==
    \A c \in ConfigMaps : \A o \in w[c] :
        /\ \A d \in ConfigMaps \ {c} : \A p \in w[d] : AdaptersOf(o) \cap AdaptersOf(p) = {}
        /\ \A p \in w[c] : o.base # None /\ p.base # None => o.base = p.base

(* docs/configuration.md: "A requested model name that matches a           *)
(* `baseModel` maps to that base model", one "that matches an entry in an  *)
(* `adapters` list maps to that ConfigMap's `baseModel`" - once the        *)
(* ConfigMap has been reconciled, if users keep to OwnNames.               *)
Served(c) ==
    /\ getBaseModel(cluster[c].base) = cluster[c].base
    /\ \A a \in cluster[c].adapters : getBaseModel(a) = cluster[c].base
EveryMappingServed == \A c \in ConfigMaps : Valid(cluster[c]) /\ ~Pending(c) => Served(c)
MappingServed == OwnNames(contents) => EveryMappingServed

(* An adapter that resolves is listed by a ConfigMap that gives it this    *)
(* base model now: one that lost its label, is being deleted or dropped    *)
(* the adapter has left the mapping once it is reconciled, also while the  *)
(* adapter moves between ConfigMaps and base models.  (One that is gone    *)
(* has not left it: see DeletedNamesForgotten.)                            *)
ResolvedAdapterListed ==
    \A a \in DOMAIN loraAdapterToBaseModel : \E c \in DOMAIN configmapAdapters :
        /\ a \in configmapAdapters[c]
        /\ \/ Pending(c) \/ c \in kept
           \/ /\ Valid(cluster[c]) /\ a \in cluster[c].adapters
              /\ loraAdapterToBaseModel[a] = cluster[c].base

(* baseModels counts the ConfigMaps of each base model, and has no entry   *)
(* when there is none, whatever the order of additions and removals - as   *)
(* long as no ConfigMap left with another base model than it came with, or *)
(* without one (configMapDelete counts down what the object names then).   *)
CountedUnder(m) == {c \in DOMAIN counted : counted[c] = m}
BaseModelsCounted ==
    \A m \in BaseModels \ miscounted :
        IF CountedUnder(m) = {} THEN m \notin DOMAIN baseModels
        ELSE m \in DOMAIN baseModels /\ baseModels[m] = Cardinality(CountedUnder(m))

(* A ConfigMap that stays valid is reconciled and served in the end,       *)
(* whatever errors Get returns on the way, if users keep to OwnNames.      *)
EventuallyServed ==
    \A w \in {v \in Worlds : OwnNames(v)} : \A c \in ConfigMaps : \A o \in {p \in w[c] : Valid(p)} :
        contents = w /\ cluster[c] = o ~> (cluster[c] = o => Served(c))

-----------------------------------------------------------------------------
(* docs/configuration.md: "A name that matches nothing yields an empty     *)
(* base-model header", and "no IPP restart is needed when they change":    *)
(* when everything is reconciled, an adapter no ConfigMap lists resolves   *)
(* to nothing.  The code keeps what a deleted ConfigMap listed.            *)
DeletedNamesForgotten ==
    (\A c \in ConfigMaps : ~Pending(c)) =>
        \A a \in Adapters : getBaseModel(a) # None =>
            \E c \in ConfigMaps : a \in AdaptersOf(cluster[c])
=============================================================================
