--------------------------- MODULE ModelRegistryProofs ---------------------------
(***************************************************************************)
(* Proofs about ModelRegistry, for any models, prices, groups and contents *)
(* of the config file, any faults and any number of changes.               *)
(***************************************************************************)
EXTENDS ModelRegistry, TLAPS

(* What syncModels has written so far: a model with its price, and with    *)
(* its groups, too.                                                        *)
Priced(m) == m \in Present /\ store[m].price = ToTokenPrices(cfg.prices[m])
Written(m) == Priced(m) /\ store[m].groups = Membership(cfg, m)
Plain(m) == store[m].price = None /\ store[m].groups = {}

(* Each stage of syncModels: the models left to write are listed ones and  *)
(* the others are written; what is left to delete is not listed, and what  *)
(* else is not listed was made by an extractor.                            *)
SyncInv ==
    /\ pc \in {"model", "price", "groups"} =>
        /\ todo \subseteq Desired(cfg)
        /\ \A m \in Desired(cfg) \ todo : Written(m) \/ (pc # "model" /\ m = cur)
    /\ pc \in {"price", "groups"} => cur \in Desired(cfg) \cap Present
    /\ pc = "groups" => Priced(cur)
    /\ pc = "delete" =>
        /\ todo \cap Desired(cfg) = {}
        /\ \A m \in Desired(cfg) : Written(m)
        /\ \A m \in Present \ (Desired(cfg) \cup todo) : Plain(m)
    /\ pc \in {"unwatched", "idle", "stopped"} => Holds(cfg)

(* The config a file stands for, and when the file has been read since it  *)
(* was changed last.                                                       *)
ConfigOf(content) == IF content = Missing THEN EmptyConfig ELSE content
ReadInv ==
    /\ events <= writes
    /\ pc \notin {"new", "failed"} /\ events = 0 /\ ~missed /\ file # Corrupt
        => cfg = ConfigOf(file)

(* A published count is the extractor's unless the extractor is between    *)
(* its count and its Put; it then holds the entry itself or a Model that   *)
(* is no longer the entry.                                                 *)
CountInv ==
    /\ held # None /\ held.entry => held.model \in Present
    /\ \A m \in Present :
        \/ store[m].count \in {None, counters[m]}
        \/ held # None /\ held.entry /\ held.model = m

IInv == TypeOK /\ SyncInv /\ ReadInv /\ CountInv

-----------------------------------------------------------------------------
(* The configs that are synced list models, each with a price.             *)
LEMMA ConfigFacts ==
  ASSUME NEW c \in Readable
  PROVE  /\ Desired(c) \subseteq Models
         /\ \A m \in Desired(c) : ToTokenPrices(c.prices[m]) \in AllPrices
         /\ \A m \in Models : Membership(c, m) \in SUBSET Groups
<1>1. CASE c \in Configs
  BY <1>1, RegistryAssumption DEF Desired, Membership, AllPrices
<1>2. CASE c = EmptyConfig
  BY <1>2 DEF EmptyConfig, Desired, Membership
<1> QED BY <1>1, <1>2 DEF Readable

(* Nothing that is a Model, or a Model somebody holds, is None.            *)
LEMMA NoneIsNothing ==
  /\ None \notin Models /\ None \notin ModelAttributes /\ None \notin HeldModels
  /\ NewModel \in ModelAttributes
<1>1. NewModel \in ModelAttributes
  BY DEF NewModel, ModelAttributes
<1> QED BY <1>1, RegistryAssumption

(* GetOrCreateModel adds at most one entry, a new one, and changes none.   *)
LEMMA GetOrCreateAdds ==
  ASSUME TypeOK, NEW m \in Models, GetOrCreateModel(m)
  PROVE  /\ store' \in [Models -> ModelAttributes \cup {None}]
         /\ m \in Present' /\ Present' = Present \cup {m}
         /\ \A x \in Present : store'[x] = store[x]
         /\ m \notin Present => store'[m] = NewModel
BY NoneIsNothing DEF TypeOK, GetOrCreateModel, Present

(* The stages keep what they say when an entry is added without changing   *)
(* another, whoever adds it.                                               *)
LEMMA NewEntryKeepsSync ==
  ASSUME TypeOK, SyncInv, NEW m \in Models, GetOrCreateModel(m),
         UNCHANGED syncVars
  PROVE  SyncInv'
<1> USE DEF SyncInv, syncVars
<1>1. /\ Present' = Present \cup {m}
      /\ \A x \in Present : store'[x] = store[x]
      /\ m \notin Present => store'[m] = NewModel
  BY GetOrCreateAdds
<1>2. \A x \in Models : /\ Priced(x) => Priced(x)'
                        /\ Written(x) => Written(x)'
  BY <1>1 DEF Priced, Written, Present, Membership
<1>3. \A x \in Present' : x \notin Present => Plain(x)'
  BY <1>1 DEF Plain, NewModel
<1>4. \A x \in Present : Plain(x) => Plain(x)'
  BY <1>1 DEF Plain
<1>5. Desired(cfg) \subseteq Models
  BY ConfigFacts DEF TypeOK, Readable
<1>6. CASE pc \in {"model", "price", "groups"}
  BY <1>1, <1>2, <1>5, <1>6 DEF TypeOK
<1>7. CASE pc = "delete"
  BY <1>1, <1>2, <1>3, <1>4, <1>5, <1>7
<1>8. CASE pc \in {"unwatched", "idle", "stopped"}
  BY <1>1, <1>5, <1>8 DEF Holds, NewModel, Desired, Membership
<1> QED BY <1>6, <1>7, <1>8

(* Put of an attribute on the model that is being synced: an entry stays   *)
(* one, and no other entry nor any count changes.                          *)
LEMMA SyncWrites ==
  ASSUME TypeOK, SyncInv, SyncPrice \/ SyncGroups
  PROVE  /\ cur \in Desired(cfg) /\ cur \in Present /\ cur \in Models
         /\ store[cur] \in ModelAttributes
         /\ store' \in [Models -> ModelAttributes \cup {None}]
         /\ Present' = Present
         /\ store'[cur].count = store[cur].count
         /\ \A x \in Models \ {cur} : store'[x] = store[x]
<1>1. cur \in Desired(cfg) /\ cur \in Present /\ cur \in Models
  BY ConfigFacts DEF SyncPrice, SyncGroups, SyncInv, Present
<1>2. store[cur] \in ModelAttributes
  BY <1>1 DEF TypeOK, Present
<1>3. ToTokenPrices(cfg.prices[cur]) \in AllPrices /\ Membership(cfg, cur) \in SUBSET Groups
  BY <1>1, ConfigFacts DEF TypeOK, Readable
<1>4. /\ store'[cur] \in ModelAttributes /\ store'[cur].count = store[cur].count
      /\ \A x \in Models \ {cur} : store'[x] = store[x]
  BY <1>1, <1>2, <1>3 DEF SyncPrice, SyncGroups, TypeOK, ModelAttributes
<1>5. store' \in [Models -> ModelAttributes \cup {None}]
  BY <1>1, <1>4 DEF SyncPrice, SyncGroups, TypeOK
<1>6. Present' = Present
  BY <1>1, <1>4, NoneIsNothing DEF Present
<1> QED BY <1>1, <1>2, <1>4, <1>5, <1>6

(* Put of a count keeps the entries with their prices and groups.          *)
LEMMA PutKeepsEntries ==
  ASSUME TypeOK, CountInv, ExtractPut
  PROVE  /\ Present' = Present
         /\ \A x \in Present : /\ store'[x].price = store[x].price
                               /\ store'[x].groups = store[x].groups
<1>1. CASE ~held.entry
  BY <1>1 DEF ExtractPut, Present
<1>2. CASE held.entry
  <2>1. /\ held.model \in Models /\ store[held.model] \in ModelAttributes
        /\ counters[held.model] \in Nat
    BY <1>2 DEF ExtractPut, CountInv, Present, TypeOK, HeldModels
  <2>2. /\ store'[held.model] \in ModelAttributes
        /\ store'[held.model].price = store[held.model].price
        /\ store'[held.model].groups = store[held.model].groups
        /\ \A x \in Models \ {held.model} : store'[x] = store[x]
    BY <1>2, <2>1 DEF ExtractPut, TypeOK, ModelAttributes
  <2> QED BY <2>1, <2>2, NoneIsNothing DEF Present
<1> QED BY <1>1, <1>2

LEMMA Bounds == MaxWrites \in Nat /\ MaxCount \in Nat
BY RegistryAssumption

LEMMA RegistryInit == Init => IInv
<1> SUFFICES ASSUME Init PROVE IInv
  OBVIOUS
<1>1. TypeOK
  <2>1. missed \in BOOLEAN /\ watching \in BOOLEAN
    BY DEF Init
  <2>2. /\ file \in Contents /\ pc \in States /\ cfg \in Readable
        /\ todo \subseteq Models /\ cur \in Models \cup {None}
        /\ held \in HeldModels \cup {None}
    BY DEF Init, States, Readable
  <2>3. writes \in 0..MaxWrites /\ events \in 0..MaxWrites
    BY Bounds DEF Init
  <2>4. counters \in [Models -> 0..MaxCount]
    BY Bounds DEF Init
  <2>5. store \in [Models -> ModelAttributes \cup {None}]
    BY DEF Init
  <2> QED BY <2>1, <2>2, <2>3, <2>4, <2>5 DEF TypeOK
<1>2. Present = {}
  BY DEF Init, Present
<1>3. SyncInv /\ ReadInv /\ CountInv
  BY <1>2 DEF Init, SyncInv, ReadInv, CountInv
<1> QED BY <1>1, <1>3 DEF IInv

-----------------------------------------------------------------------------
(* Every action keeps the types.                                           *)
LEMMA TypesKept == IInv /\ [Next]_vars => TypeOK'
<1> SUFFICES ASSUME TypeOK, SyncInv, ReadInv, CountInv, [Next]_vars PROVE TypeOK'
  BY DEF IInv
<1> USE Bounds DEF TypeOK, States
<1>1. ASSUME NEW c \in Contents, WriteFile(c) \/ RemountFile(c) PROVE TypeOK'
  <2>1. missed' \in BOOLEAN /\ watching' \in BOOLEAN
    BY <1>1 DEF WriteFile, RemountFile, syncVars
  <2>2. events' \in 0..MaxWrites /\ writes' \in 0..MaxWrites
    <3>1. /\ writes < MaxWrites /\ writes' = writes + 1
          /\ events' = events \/ events' = events + 1
      BY <1>1 DEF WriteFile, RemountFile
    <3> QED BY <3>1 DEF ReadInv
  <2> QED BY <1>1, <2>1, <2>2 DEF WriteFile, RemountFile, syncVars, extractVars
<1>2. CASE Start
  <2>1. missed' \in BOOLEAN /\ watching' \in BOOLEAN
    BY <1>2 DEF Start, BeginSync
  <2>2. file \in Readable => Desired(file) \subseteq Models
    BY ConfigFacts DEF Readable
  <2>3. /\ pc' \in States /\ cfg' \in Readable
        /\ todo' \subseteq Models /\ cur' \in Models \cup {None}
    BY <1>2, <2>2 DEF Start, BeginSync
  <2> QED BY <1>2, <2>1, <2>3 DEF Start, extractVars
<1>3. CASE AddWatch \/ StopWatch
  BY <1>3 DEF AddWatch, StopWatch, configVars, extractVars
<1>4. CASE HandleEvent
  <2>1. missed' \in BOOLEAN /\ watching' \in BOOLEAN
    BY <1>4 DEF HandleEvent, BeginSync, syncVars
  <2>2. /\ file \in Readable => Desired(file) \subseteq Models
        /\ Desired(EmptyConfig) \subseteq Models
    BY ConfigFacts DEF Readable
  <2>3. /\ pc' \in States /\ cfg' \in Readable
        /\ todo' \subseteq Models /\ cur' \in Models \cup {None}
    BY <1>4, <2>2 DEF HandleEvent, BeginSync, syncVars, Readable
  <2>4. events' \in 0..MaxWrites
    <3>1. events > 0 /\ events' = events - 1
      BY <1>4 DEF HandleEvent
    <3> QED BY <3>1
  <2>5. UNCHANGED <<file, writes, store, counters, held>>
    BY <1>4 DEF HandleEvent, extractVars
  <2> QED BY <2>1, <2>3, <2>4, <2>5
<1>5. ASSUME NEW m \in Models, SyncModel(m) PROVE TypeOK'
  BY <1>5, GetOrCreateAdds DEF SyncModel, configVars, extractVars
<1>6. ASSUME NEW m \in Models, SyncDelete(m) PROVE TypeOK'
  BY <1>6, NoneIsNothing DEF SyncDelete, DeleteModel, configVars, HeldModels
<1>7. CASE SyncPrice \/ SyncGroups
  BY <1>7, SyncWrites DEF SyncPrice, SyncGroups, configVars, extractVars
<1>8. CASE SyncList \/ SyncReturns
  BY <1>8 DEF SyncList, SyncReturns, Present, configVars, extractVars
<1>9. ASSUME NEW m \in Models, ExtractCount(m) PROVE TypeOK'
  <2>1. store' \in [Models -> ModelAttributes \cup {None}]
    BY <1>9, GetOrCreateAdds DEF ExtractCount
  <2>2. held' \in HeldModels
    BY <1>9 DEF ExtractCount, HeldModels
  <2>3. counters' \in [Models -> 0..MaxCount]
    BY <1>9 DEF ExtractCount
  <2> QED BY <1>9, <2>1, <2>2, <2>3 DEF ExtractCount, configVars, syncVars
<1>10. ASSUME NEW m \in Models, LookupTokenPrices(m) PROVE TypeOK'
  BY <1>10, GetOrCreateAdds DEF LookupTokenPrices, configVars, syncVars, extractVars
<1>11. CASE ExtractPut
  <2>1. ASSUME held.entry PROVE store[held.model] \in ModelAttributes /\ held.model \in Models
    BY <1>11, <2>1 DEF ExtractPut, CountInv, Present, HeldModels
  <2>2. ASSUME held.entry PROVE counters[held.model] \in Nat
    BY <2>1, <2>2
  <2> QED BY <1>11, <2>1, <2>2 DEF ExtractPut, configVars, syncVars, ModelAttributes
<1>12. CASE UNCHANGED vars
  BY <1>12 DEF vars, configVars, syncVars, extractVars
<1> QED BY <1>1, <1>2, <1>3, <1>4, <1>5, <1>6, <1>7, <1>8, <1>9, <1>10, <1>11, <1>12
           DEF Next, SyncSteps

(* syncModels goes from stage to stage as SyncInv says, although the       *)
(* extractors add entries meanwhile.                                       *)
LEMMA SyncKept == IInv /\ [Next]_vars => SyncInv'
<1> SUFFICES ASSUME TypeOK, SyncInv, CountInv, [Next]_vars PROVE SyncInv'
  BY DEF IInv
<1>0. /\ Desired(cfg) \subseteq Models
      /\ todo \subseteq Models
  BY ConfigFacts DEF TypeOK, Readable
<1>1. ASSUME UNCHANGED <<store, pc, cfg, todo, cur>> PROVE SyncInv'
  BY <1>1 DEF SyncInv, Priced, Written, Plain, Present, Holds, Desired, Membership
<1>2. ASSUME NEW c \in Contents, WriteFile(c) \/ RemountFile(c) PROVE SyncInv'
  BY <1>1, <1>2 DEF WriteFile, RemountFile, syncVars
<1>3. ASSUME NEW c, BeginSync(c) PROVE SyncInv'
  BY <1>3 DEF BeginSync, SyncInv
<1>4. CASE Start
  BY <1>3, <1>4 DEF Start, SyncInv
<1>5. CASE HandleEvent
  BY <1>1, <1>3, <1>5 DEF HandleEvent, syncVars
<1>6. CASE AddWatch \/ StopWatch
  BY <1>6 DEF AddWatch, StopWatch, SyncInv, Holds, Present, Desired, Membership
<1>7. ASSUME NEW m \in Models, SyncModel(m) PROVE SyncInv'
  <2>1. /\ Present' = Present \cup {m}
        /\ \A x \in Present : store'[x] = store[x]
    BY <1>7, GetOrCreateAdds DEF SyncModel
  <2>2. /\ pc = "model" /\ pc' = "price" /\ m \in todo
        /\ cur' = m /\ todo' = todo \ {m} /\ cfg' = cfg
    BY <1>7 DEF SyncModel
  <2>3. m \in Desired(cfg) /\ Desired(cfg)' = Desired(cfg)
    BY <2>2 DEF SyncInv, Desired
  <2>4. \A x \in Desired(cfg) \ todo : Written(x)
    BY <2>2 DEF SyncInv
  <2>5. \A x \in Desired(cfg) \ todo : Written(x)'
    BY <2>1, <2>2, <2>4 DEF Written, Priced, Present, Membership
  <2> QED BY <2>1, <2>2, <2>3, <2>5 DEF SyncInv
<1>8. CASE SyncPrice \/ SyncGroups
  <2>1. cur \in Desired(cfg) /\ cur \in Present /\ cur \in Models
    BY <1>8, SyncWrites
  <2>2. store[cur] \in ModelAttributes
    BY <1>8, SyncWrites
  <2>3. /\ UNCHANGED <<cfg, todo, cur>> /\ Desired(cfg)' = Desired(cfg)
        /\ \A x \in Models \ {cur} : store'[x] = store[x]
    BY <1>8, SyncWrites DEF SyncPrice, SyncGroups, Desired
  <2>5. Present' = Present
    BY <1>8, SyncWrites
  <2>6. \A x \in Models \ {cur} : Written(x) => Written(x)'
    BY <2>3, <2>5 DEF Written, Priced, Membership
  <2>7. /\ todo \subseteq Desired(cfg)
        /\ \A x \in Desired(cfg) \ todo : Written(x) \/ x = cur
    BY <1>8 DEF SyncPrice, SyncGroups, SyncInv
  <2>8. CASE SyncPrice
    <3>1. Priced(cur)'
      BY <2>1, <2>2, <2>3, <2>5, <2>8 DEF SyncPrice, Priced, TypeOK, ModelAttributes
    <3> QED BY <1>0, <2>1, <2>3, <2>5, <2>6, <2>7, <2>8, <3>1 DEF SyncInv, SyncPrice
  <2>9. CASE SyncGroups
    <3>1. Priced(cur)
      BY <2>9 DEF SyncGroups, SyncInv
    <3>2. Written(cur)'
      BY <2>1, <2>2, <2>3, <2>5, <2>9, <3>1
         DEF SyncGroups, Priced, Written, TypeOK, ModelAttributes, Membership
    <3> QED BY <1>0, <2>1, <2>3, <2>5, <2>6, <2>7, <2>9, <3>2 DEF SyncInv, SyncGroups
  <2> QED BY <1>8, <2>8, <2>9
<1>9. CASE SyncList
  <2>1. \A x \in Desired(cfg) : Written(x)
    BY <1>9 DEF SyncList, SyncInv
  <2>2. \A x \in Desired(cfg) : Written(x)'
    BY <1>9, <2>1 DEF SyncList, Written, Priced, Present, Membership
  <2> QED BY <1>9, <2>2 DEF SyncList, SyncInv, Present, Desired
<1>10. ASSUME NEW m \in Models, SyncDelete(m) PROVE SyncInv'
  <2>1. /\ pc = "delete" /\ m \in todo /\ todo' = todo \ {m} /\ UNCHANGED <<pc, cfg, cur>>
        /\ Desired(cfg)' = Desired(cfg)
        /\ store' = [store EXCEPT ![m] = None]
    BY <1>10 DEF SyncDelete, DeleteModel, Desired
  <2>2. Present' = Present \ {m} /\ \A x \in Present' : store'[x] = store[x]
    BY <2>1 DEF Present, TypeOK
  <2>3. m \notin Desired(cfg)
    BY <2>1 DEF SyncInv
  <2>4. \A x \in Desired(cfg) : Written(x)'
    BY <2>1, <2>2, <2>3 DEF SyncInv, Written, Priced, Membership
  <2>5. \A x \in Present' : Plain(x) => Plain(x)'
    BY <2>2 DEF Plain
  <2> QED BY <2>1, <2>2, <2>3, <2>4, <2>5 DEF SyncInv
<1>11. CASE SyncReturns
  <2>1. Holds(cfg)
    BY <1>11 DEF SyncReturns, SyncInv, Holds, Written, Priced, Plain
  <2> QED BY <1>11, <2>1 DEF SyncReturns, SyncInv, Holds, Present, Desired, Membership
<1>12. ASSUME NEW m \in Models, ExtractCount(m) \/ LookupTokenPrices(m) PROVE SyncInv'
  BY <1>12, NewEntryKeepsSync DEF ExtractCount, LookupTokenPrices
<1>13. CASE ExtractPut
  <2>1. /\ UNCHANGED <<pc, cfg, todo, cur>>
        /\ Desired(cfg)' = Desired(cfg)
    BY <1>13 DEF ExtractPut, syncVars, Desired
  <2>2. /\ Present' = Present
        /\ \A x \in Present : store'[x].price = store[x].price /\ store'[x].groups = store[x].groups
    BY <1>13, PutKeepsEntries
  <2>3. \A x \in Models : /\ Priced(x)' <=> Priced(x)
                          /\ Written(x)' <=> Written(x)
                          /\ x \in Present => (Plain(x)' <=> Plain(x))
    BY <2>1, <2>2 DEF Priced, Written, Plain, Membership
  <2>4. Holds(cfg)' <=> Holds(cfg)
    BY <2>1, <2>2 DEF Holds, Membership
  <2> QED BY <1>0, <2>1, <2>2, <2>3, <2>4 DEF SyncInv, Present
<1>14. CASE UNCHANGED vars
  BY <1>1, <1>14 DEF vars, syncVars
<1> QED BY <1>2, <1>4, <1>5, <1>6, <1>7, <1>8, <1>9, <1>10, <1>11, <1>12, <1>13, <1>14
           DEF Next, SyncSteps

(* The config applied last is the file's unless a change is still to be    *)
(* noticed.                                                                *)
LEMMA ReadKept == IInv /\ [Next]_vars => ReadInv'
<1> SUFFICES ASSUME TypeOK, ReadInv, [Next]_vars PROVE ReadInv'
  BY DEF IInv
<1>0. events \in Nat /\ writes \in Nat
  BY Bounds DEF TypeOK
<1>1. ASSUME UNCHANGED <<file, writes, events, missed, cfg>>,
             pc \in {"new", "failed"} => pc' \in {"new", "failed"}
      PROVE  ReadInv'
  BY <1>1 DEF ReadInv
<1>2. ASSUME NEW c \in Contents, WriteFile(c) PROVE ReadInv'
  <2>1. CASE watching
    <3>1. events' = events + 1 /\ writes' = writes + 1
      BY <1>2, <2>1 DEF WriteFile
    <3> QED BY <1>0, <3>1 DEF ReadInv
  <2>2. CASE ~watching
    <3>1. /\ events' = events /\ writes' = writes + 1 /\ pc' = pc
          /\ pc = "new" \/ missed'
      BY <1>2, <2>2 DEF WriteFile, syncVars
    <3> QED BY <1>0, <3>1 DEF ReadInv
  <2> QED BY <2>1, <2>2
<1>3. ASSUME NEW c \in Contents, RemountFile(c) PROVE ReadInv'
  <2>1. events' = events /\ writes' = writes + 1 /\ missed'
    BY <1>3 DEF RemountFile
  <2> QED BY <1>0, <2>1 DEF ReadInv
<1>4. CASE Start
  <2>1. events' = events /\ writes' = writes /\ file' = file
    BY <1>4 DEF Start
  <2>2. CASE pc' = "failed"
    BY <2>1, <2>2 DEF ReadInv
  <2>3. CASE file \in Readable /\ BeginSync(file)
    BY <2>1, <2>3, RegistryAssumption DEF ReadInv, BeginSync, ConfigOf
  <2> QED BY <1>4, <2>2, <2>3 DEF Start
<1>5. CASE HandleEvent
  <2>1. events' = events - 1 /\ events > 0 /\ writes' = writes /\ file' = file
    BY <1>5 DEF HandleEvent
  <2>2. events' <= writes'
    BY <1>0, <2>1 DEF ReadInv
  <2>3. CASE missed'
    BY <2>2, <2>3 DEF ReadInv
  <2>4. CASE file \in Readable /\ BeginSync(file)
    BY <2>1, <2>2, <2>4, RegistryAssumption DEF ReadInv, BeginSync, ConfigOf
  <2>5. CASE file = Missing /\ BeginSync(EmptyConfig)
    BY <2>1, <2>2, <2>5 DEF ReadInv, BeginSync, ConfigOf
  <2>6. CASE file = Corrupt
    BY <2>1, <2>2, <2>6 DEF ReadInv
  <2> QED BY <1>5, <2>3, <2>4, <2>5, <2>6 DEF HandleEvent
<1>6. CASE AddWatch \/ StopWatch
  BY <1>6 DEF AddWatch, StopWatch, configVars, ReadInv
<1>7. CASE SyncSteps
  BY <1>1, <1>7 DEF SyncSteps, SyncModel, SyncDelete, SyncPrice, SyncGroups, SyncList,
                    SyncReturns, configVars
<1>8. ASSUME NEW m \in Models, ExtractCount(m) \/ LookupTokenPrices(m) PROVE ReadInv'
  BY <1>1, <1>8 DEF ExtractCount, LookupTokenPrices, configVars, syncVars
<1>9. CASE ExtractPut \/ UNCHANGED vars
  BY <1>1, <1>9 DEF ExtractPut, vars, configVars, syncVars
<1> QED BY <1>2, <1>3, <1>4, <1>5, <1>6, <1>7, <1>8, <1>9 DEF Next

(* No old count is left on an entry, whoever deletes and re-creates it     *)
(* while the extractor holds a Model.                                      *)
LEMMA CountKept == IInv /\ [Next]_vars => CountInv'
<1> SUFFICES ASSUME TypeOK, SyncInv, CountInv, [Next]_vars PROVE CountInv'
  BY DEF IInv
<1>1. ASSUME UNCHANGED <<store, counters, held>> PROVE CountInv'
  BY <1>1 DEF CountInv, Present
<1>2. ASSUME NEW m \in Models, GetOrCreateModel(m), UNCHANGED <<counters, held>>
      PROVE  CountInv'
  <2>1. /\ Present' = Present \cup {m}
        /\ \A x \in Present : store'[x] = store[x]
        /\ m \notin Present => store'[m] = NewModel
    BY <1>2, GetOrCreateAdds
  <2> QED BY <1>2, <2>1 DEF CountInv, NewModel
<1>3. ASSUME NEW m \in Models, ExtractCount(m) PROVE CountInv'
  <2>1. /\ Present' = Present \cup {m}
        /\ \A x \in Present : store'[x] = store[x]
        /\ m \notin Present => store'[m] = NewModel
    BY <1>3, GetOrCreateAdds DEF ExtractCount
  <2>2. /\ held = None /\ held' = [model |-> m, entry |-> TRUE]
        /\ \A x \in Models \ {m} : counters'[x] = counters[x]
    BY <1>3 DEF ExtractCount, TypeOK
  <2>3. held' # None
    <3>1. held' \in HeldModels
      BY <2>2 DEF HeldModels
    <3> QED BY <3>1, NoneIsNothing
  <2> QED BY <2>1, <2>2, <2>3 DEF CountInv, Present
<1>4. CASE ExtractPut
  <2>1. CASE ~held.entry
    BY <1>4, <2>1 DEF ExtractPut, CountInv, Present
  <2>2. CASE held.entry
    <3>1. held.model \in Models /\ store[held.model] \in ModelAttributes
      BY <1>4, <2>2 DEF ExtractPut, CountInv, Present, TypeOK, HeldModels
    <3>2. /\ store'[held.model].count = counters[held.model]
          /\ \A x \in Models \ {held.model} : store'[x] = store[x]
          /\ held' = None /\ counters' = counters
      BY <1>4, <2>2, <3>1 DEF ExtractPut, TypeOK, ModelAttributes
    <3> QED BY <3>1, <3>2 DEF CountInv, Present
  <2> QED BY <2>1, <2>2
<1>5. ASSUME NEW m \in Models, SyncDelete(m) PROVE CountInv'
  <2>1. Present' = Present \ {m} /\ \A x \in Present' : store'[x] = store[x]
    BY <1>5 DEF SyncDelete, DeleteModel, Present, TypeOK
  <2>2. /\ counters' = counters
        /\ held # None /\ held.model = m =>
              held' = [held EXCEPT !.entry = FALSE]
        /\ ~(held # None /\ held.model = m) => held' = held
    BY <1>5 DEF SyncDelete, DeleteModel
  <2>3. held # None => held \in HeldModels
    BY DEF TypeOK
  <2>4. CASE held # None /\ held.model = m
    <3>1. held'.entry = FALSE
      BY <2>2, <2>3, <2>4 DEF HeldModels
    <3>2. \A x \in Present' : store[x].count \in {None, counters[x]}
      BY <2>1, <2>4 DEF CountInv
    <3> QED BY <2>1, <2>2, <3>1, <3>2 DEF CountInv
  <2>5. CASE ~(held # None /\ held.model = m)
    BY <2>1, <2>2, <2>5 DEF CountInv
  <2> QED BY <2>4, <2>5
<1>6. CASE SyncPrice \/ SyncGroups
  <2>1. UNCHANGED <<counters, held>>
    BY <1>6 DEF SyncPrice, SyncGroups, extractVars
  <2> QED BY <1>6, <2>1, SyncWrites DEF CountInv, Present
<1>7. ASSUME NEW m \in Models, SyncModel(m) PROVE CountInv'
  BY <1>2, <1>7 DEF SyncModel, extractVars
<1>8. ASSUME NEW m \in Models, LookupTokenPrices(m) PROVE CountInv'
  BY <1>2, <1>8 DEF LookupTokenPrices, extractVars
<1>9. ASSUME NEW c \in Contents, WriteFile(c) \/ RemountFile(c) PROVE CountInv'
  BY <1>1, <1>9 DEF WriteFile, RemountFile, extractVars
<1>10. CASE Start \/ AddWatch \/ HandleEvent \/ StopWatch \/ SyncList \/ SyncReturns
            \/ UNCHANGED vars
  BY <1>1, <1>10 DEF Start, AddWatch, HandleEvent, StopWatch, SyncList, SyncReturns, vars,
                     extractVars
<1> QED BY <1>3, <1>4, <1>5, <1>6, <1>7, <1>8, <1>9, <1>10 DEF Next, SyncSteps

-----------------------------------------------------------------------------
LEMMA RegistryNext == IInv /\ [Next]_vars => IInv'
BY TypesKept, SyncKept, ReadKept, CountKept DEF IInv

(* Every step keeps the inductive invariant: types, how far a sync has     *)
(* come, what was read of the file, and the counts.                        *)
THEOREM Invariance == Spec => []IInv
BY RegistryInit, RegistryNext, PTL DEF Spec

(* The registry, the datasource and the extractor keep their types, for    *)
(* every config file.                                                      *)
THEOREM TypeCorrect == Spec => []TypeOK
<1>1. IInv => TypeOK
  BY DEF IInv
<1> QED BY <1>1, Invariance, PTL

(* Whatever is done to the config file and whatever models the extractors  *)
(* create meanwhile, between two syncs the registry holds the config       *)
(* synced last, and with no event left to handle the file's (syncModels,   *)
(* the watch loop).                                                        *)
THEOREM RegistryConverges == Spec => []Converged
<1>1. IInv => Converged
  <2> SUFFICES ASSUME IInv PROVE Converged
    OBVIOUS
  <2>1. pc \in {"unwatched", "idle", "stopped"} => Holds(cfg)
    BY DEF IInv, SyncInv
  <2>2. pc = "idle" /\ events = 0 /\ ~missed /\ file # Corrupt => cfg = ConfigOf(file)
    BY DEF IInv, ReadInv
  <2> QED BY <2>1, <2>2 DEF Converged, ConfigOf
<1> QED BY <1>1, Invariance, PTL

(* A model that was deleted and created again never shows an old count.    *)
THEOREM CountsAreFresh == Spec => []PublishedCountFresh
<1>1. IInv => PublishedCountFresh
  BY DEF IInv, CountInv, PublishedCountFresh
<1> QED BY <1>1, Invariance, PTL

(* A reload never takes away a model that the old and the new config list. *)
THEOREM ReloadKeepsListed == Spec => ListedModelsStay
<1>1. IInv /\ [Next]_vars =>
        [\A m \in Present \cap Desired(cfg) : m \in Desired(cfg') => m \in Present']_vars
  <2> SUFFICES ASSUME TypeOK, SyncInv, CountInv, [Next]_vars,
                      NEW m \in Present, m \in Desired(cfg)
               PROVE  m \in Present'
    BY DEF IInv
  <2>1. ASSUME store' = store PROVE m \in Present'
    BY <2>1 DEF Present
  <2>2. ASSUME NEW x \in Models, GetOrCreateModel(x) PROVE m \in Present'
    BY <2>2, GetOrCreateAdds
  <2>3. ASSUME NEW x \in Models, SyncDelete(x) PROVE m \in Present'
    BY <2>3 DEF SyncDelete, DeleteModel, SyncInv, Present, TypeOK
  <2>4. CASE SyncPrice \/ SyncGroups
    BY <2>4, SyncWrites
  <2>5. CASE ExtractPut
    BY <2>5, PutKeepsEntries
  <2> QED BY <2>1, <2>2, <2>3, <2>4, <2>5
          DEF Next, SyncSteps, WriteFile, RemountFile, Start, AddWatch, HandleEvent, StopWatch,
              SyncModel, SyncList, SyncReturns, ExtractCount, LookupTokenPrices, vars
<1> QED BY <1>1, Invariance, PTL DEF Spec, ListedModelsStay
=============================================================================
