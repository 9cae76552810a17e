----------------------------- MODULE ConfigLoader -----------------------------
(***************************************************************************)
(* LoadConfiguration: from a decoded configuration to the pipeline that    *)
(* the ext_proc server runs.  One step per function it calls, in order; an *)
(* error ends the load.  The model selectors are wired in steps of their   *)
(* own, plugin by plugin, with the profiles in the order in which a Go map *)
(* happens to be iterated.                                                 *)
(*                                                                         *)
(* A plugin instance is its name, and all that matters of its type is      *)
(* which interfaces it implements.                                         *)
(***************************************************************************)
EXTENDS Naturals, Sequences, SequencesExt, FiniteSets

CONSTANTS
    Configs,        \* the configurations to load
    Implements,     \* [plugin types -> sets of interfaces]
    Registry,       \* the types registered by registerInTreePlugins
    SinglePicker,   \* type (and default name) of the single-profile picker
    DefaultPicker,  \* the max-score picker made when none is configured
    Nil             \* no reference, no type

Interfaces == {"RequestProcessor", "ResponseProcessor", "ResponseChunkProcessor",
               "ResponseHeadersProcessor", "ProfilePicker", "ModelSelector", "Filter", "Scorer",
               "Picker", "Collector", "Extractor", "DataSource"}

IsList(s) == s \in Seq(ToSet(s))

ASSUME LoaderAssumption ==
    /\ \A c \in Configs :
        /\ {"profilePicker", "profiles", "datalayer"} \subseteq DOMAIN c
        /\ IsList(c.datalayer) /\ IsList(c.profiles)
        /\ \A i \in DOMAIN c.profiles : IsList(c.profiles[i].request) /\ IsList(c.profiles[i].response)
    /\ \A t \in DOMAIN Implements : Implements[t] \subseteq Interfaces
    /\ Registry \subseteq DOMAIN Implements /\ SinglePicker \in Registry
    /\ "ProfilePicker" \in Implements[SinglePicker]
    /\ Nil \notin DOMAIN Implements

VARIABLES
    raw,            \* the configuration being loaded
    phase,          \* the function that runs next
    handle,         \* [names -> types]: the plugins instantiated
    profilePicker,  \* a plugin name, or Nil
    profiles,       \* [profile names -> built profiles]
    postProcessors, \* body post-processors
    registered,     \* what the data layer was given: <<section, name>>
    unwired,        \* profiles that buildModelSelector has not come to
    current,        \* the profile it is at, or Nil
    next,           \* and the request plugin of it that is next
    pipelines       \* [names of model selectors -> pipelines]

wiringVars == <<unwired, current, next, pipelines>>
lvars == <<raw, phase, handle, profilePicker, profiles, postProcessors, registered, wiringVars>>

Nothing == [x \in {} |-> Nil]
Phases == {"instantiatePlugins", "applyPluginDefaults", "profilePicker", "buildProfiles",
           "buildPreProcessors", "buildPostProcessors", "buildDatalayerSources",
           "buildModelSelector", "loaded", "failed"}

LInit ==
    /\ raw \in Configs /\ phase = "instantiatePlugins"
    /\ handle = Nothing /\ profilePicker = Nil /\ profiles = Nothing /\ postProcessors = <<>>
    /\ registered = {} /\ unwired = {} /\ current = Nil /\ next = 1 /\ pipelines = Nothing

Fail == phase' = "failed"
Is(name, interface) == name \in DOMAIN handle /\ interface \in Implements[handle[name]]
IsAny(name, interfaces) == \E x \in interfaces : Is(name, x)

(* The elements of a sequence at some places, in order; the references to  *)
(* plugins of a kind, and the others.                                      *)
Nth(places, k) == CHOOSE i \in places : Cardinality({j \in places : j <= i}) = k
At(s, places) == [k \in 1..Cardinality(places) |-> s[Nth(places, k)]]
Places(refs, interface) == {i \in DOMAIN refs : Is(refs[i].pluginRef, interface)}
Those(refs, interface) == At(refs, Places(refs, interface))
Rest(refs, interface) == At(refs, DOMAIN refs \ Places(refs, interface))

-----------------------------------------------------------------------------
(* A plugin without a name is named after its type.                        *)
NameOf(spec) == IF spec.name = Nil THEN spec.type ELSE spec.name

instantiatePlugins ==
    /\ phase = "instantiatePlugins"
    /\ LET specs == raw.plugins
           Instantiated(i) ==
               /\ specs[i].type \in Registry /\ specs[i].valid
               /\ \A j \in DOMAIN specs : NameOf(specs[j]) = NameOf(specs[i]) => i = j
       IN IF specs # <<>> /\ \A i \in DOMAIN specs : Instantiated(i)
          THEN /\ phase' = "applyPluginDefaults"
               /\ handle' = [n \in {NameOf(specs[i]) : i \in DOMAIN specs} |->
                                (CHOOSE s \in ToSet(specs) : NameOf(s) = n).type]
          ELSE Fail /\ UNCHANGED handle
    /\ UNCHANGED <<raw, profilePicker, profiles, postProcessors, registered, wiringVars>>

(* Without a reference, the only picker there is; without a picker, the    *)
(* single-profile picker when there is one profile.                        *)
applyPluginDefaults ==
    /\ phase = "applyPluginDefaults"
    /\ LET pickers == {n \in DOMAIN handle : Is(n, "ProfilePicker")}
       IN \/ raw.profilePicker # Nil /\ phase' = "profilePicker" /\ UNCHANGED <<raw, handle>>
          \/ /\ raw.profilePicker = Nil
             /\ \E p \in pickers : pickers = {p} /\ raw' = [raw EXCEPT !.profilePicker = p]
             /\ phase' = "profilePicker" /\ UNCHANGED handle
          \/ /\ raw.profilePicker = Nil /\ pickers = {} /\ Len(raw.profiles) = 1
             /\ handle' = [n \in DOMAIN handle \cup {SinglePicker} |->
                              IF n = SinglePicker THEN SinglePicker ELSE handle[n]]
             /\ raw' = [raw EXCEPT !.profilePicker = SinglePicker]
             /\ phase' = "profilePicker"
          \/ /\ raw.profilePicker = Nil
             /\ \/ \E p, q \in pickers : p # q
                \/ pickers = {} /\ Len(raw.profiles) # 1
             /\ Fail /\ UNCHANGED <<raw, handle>>
    /\ UNCHANGED <<profilePicker, profiles, postProcessors, registered, wiringVars>>

(* What is no ProfilePicker is an error that is logged, not returned.      *)
resolveProfilePicker ==
    /\ phase = "profilePicker"
    /\ profilePicker' = IF Is(raw.profilePicker, "ProfilePicker") THEN raw.profilePicker ELSE Nil
    /\ phase' = "buildProfiles"
    /\ UNCHANGED <<raw, handle, profiles, postProcessors, registered, wiringVars>>

-----------------------------------------------------------------------------
SelectorRoles == {"Filter", "Scorer", "Picker"}

(* Faulty: what cannot be placed is dropped.                               *)
ProfileLenient(p) ==
    /\ p.name # Nil /\ (p.request # <<>> \/ p.response # <<>>)
    /\ \A r \in ToSet(p.request) :
        Is(r.pluginRef, "Scorer") => Is(r.pluginRef, "RequestProcessor") \/ r.weight
    /\ \A r \in ToSet(p.response) : r.pluginRef \in DOMAIN handle
    /\ Those(p.response, "ResponseProcessor") = <<>>
        \/ Those(p.response, "ResponseChunkProcessor") = <<>>

(* Faulty: body and chunk processors may be mixed.                         *)
ProfileMixed(p) ==
    /\ p.name # Nil /\ (p.request # <<>> \/ p.response # <<>>)
    /\ \A r \in ToSet(p.request) :
        \/ Is(r.pluginRef, "RequestProcessor")
        \/ /\ IsAny(r.pluginRef, SelectorRoles)
           /\ Is(r.pluginRef, "Scorer") => r.weight
    /\ \A r \in ToSet(p.response) :
        IsAny(r.pluginRef, {"ResponseProcessor", "ResponseChunkProcessor"})

(* What buildProfiles accepts: every reference has a place, a scorer has a *)
(* weight, and body and chunk processors are not mixed.                    *)
ProfileOK(p) ==
    /\ p.name # Nil /\ (p.request # <<>> \/ p.response # <<>>)
    /\ \A r \in ToSet(p.request) :
        \/ Is(r.pluginRef, "RequestProcessor")
        \/ /\ IsAny(r.pluginRef, SelectorRoles)
           /\ Is(r.pluginRef, "Scorer") => r.weight
    /\ \A r \in ToSet(p.response) :
        IsAny(r.pluginRef, {"ResponseProcessor", "ResponseChunkProcessor"})
    /\ Those(p.response, "ResponseProcessor") = <<>> \/ Rest(p.response, "ResponseProcessor") = <<>>

(* A reference goes to the first place it fits.                            *)
BuildProfile(p) ==
    [request |-> Those(p.request, "RequestProcessor"), selector |-> Rest(p.request, "RequestProcessor"),
     response |-> Those(p.response, "ResponseProcessor"), chunk |-> Rest(p.response, "ResponseProcessor"),
     buffering |-> Those(p.response, "ResponseProcessor") # <<>>]

(* The last profile of a name counts.                                      *)
buildProfiles ==
    /\ phase = "buildProfiles"
    /\ LET ps == raw.profiles
           LastOf(n) == CHOOSE i \in DOMAIN ps :
                          ps[i].name = n /\ \A j \in DOMAIN ps : ps[j].name = n => j <= i
       IN IF ps # <<>> /\ \A p \in ToSet(ps) : ProfileOK(p)
          THEN /\ phase' = "buildPreProcessors"
               /\ profiles' = [n \in {p.name : p \in ToSet(ps)} |-> BuildProfile(ps[LastOf(n)])]
          ELSE Fail /\ UNCHANGED profiles
    /\ UNCHANGED <<raw, handle, profilePicker, postProcessors, registered, wiringVars>>

buildPreProcessors ==
    /\ phase = "buildPreProcessors"
    /\ phase' = IF \A r \in ToSet(raw.preProcessing) : Is(r.pluginRef, "RequestProcessor")
                THEN "buildPostProcessors" ELSE "failed"
    /\ UNCHANGED <<raw, handle, profilePicker, profiles, postProcessors, registered, wiringVars>>

(* Body post-processors make every profile buffer, and exclude chunk       *)
(* processors.                                                             *)
buildPostProcessors ==
    /\ phase = "buildPostProcessors"
    /\ LET body == Those(raw.postProcessing, "ResponseProcessor")
           fits == \A r \in ToSet(raw.postProcessing) :
                       IsAny(r.pluginRef, {"ResponseProcessor", "ResponseHeadersProcessor"})
       IN IF fits /\ (body = <<>> \/ \A n \in DOMAIN profiles : profiles[n].chunk = <<>>)
          THEN /\ phase' = "buildDatalayerSources"
               /\ postProcessors' = body
               /\ profiles' = [n \in DOMAIN profiles |->
                                  [profiles[n] EXCEPT !.buffering = @ \/ body # <<>>]]
          ELSE Fail /\ UNCHANGED <<postProcessors, profiles>>
    /\ UNCHANGED <<raw, handle, profilePicker, registered, wiringVars>>

NewPipeline == [filters |-> <<>>, scorers |-> <<>>, picker |-> Nil]

(* Collectors, extractors and datasources, in this order; those before the *)
(* first bad reference stay registered.                                    *)
buildDatalayerSources ==
    /\ phase = "buildDatalayerSources"
    /\ LET refs == raw.datalayer
           bad == {i \in DOMAIN refs : ~Is(refs[i].pluginRef, refs[i].section)}
       IN /\ registered' = {refs[i] : i \in {j \in DOMAIN refs : \A k \in bad : j < k}}
          /\ phase' = IF bad = {} THEN "buildModelSelector" ELSE "failed"
    /\ unwired' = DOMAIN profiles
    /\ pipelines' = [n \in {x \in DOMAIN handle : Is(x, "ModelSelector")} |-> NewPipeline]
    /\ UNCHANGED <<raw, handle, profilePicker, profiles, postProcessors, current, next>>

-----------------------------------------------------------------------------
PluginRefs(refs) == [i \in DOMAIN refs |-> refs[i].pluginRef]

(* Faulty: a plugin is given to the first role it implements only.         *)
AddPluginsOnce(pipe, refs) ==
    LET filters == PluginRefs(At(refs, Places(refs, "Filter") \ Places(refs, "Scorer")))
        scorers == PluginRefs(Those(refs, "Scorer"))
        pickers == PluginRefs(Those(refs, "Picker"))
    IN IF Len(pickers) > 1 \/ (pickers # <<>> /\ pipe.picker # Nil) THEN Nil
       ELSE [filters |-> pipe.filters \o filters, scorers |-> pipe.scorers \o scorers,
             picker |-> CASE pickers # <<>> -> Head(pickers)
                          [] pickers = <<>> /\ pipe.picker = Nil -> DefaultPicker
                          [] OTHER -> pipe.picker]

(* ModelSelectorPipeline.AddPlugins, then the default picker: a second     *)
(* picker is an error.                                                     *)
AddPlugins(pipe, refs) ==
    LET filters == PluginRefs(Those(refs, "Filter"))
        scorers == PluginRefs(Those(refs, "Scorer"))
        pickers == PluginRefs(Those(refs, "Picker"))
    IN IF Len(pickers) > 1 \/ (pickers # <<>> /\ pipe.picker # Nil) THEN Nil
       ELSE [filters |-> pipe.filters \o filters, scorers |-> pipe.scorers \o scorers,
             picker |-> CASE pickers # <<>> -> Head(pickers)
                          [] pickers = <<>> /\ pipe.picker = Nil -> DefaultPicker
                          [] OTHER -> pipe.picker]

(* The outer loop of buildModelSelector: the next profile, in any order.   *)
buildModelSelector(n) ==
    /\ phase = "buildModelSelector" /\ current = Nil /\ n \in unwired
    /\ unwired' = unwired \ {n} /\ current' = n /\ next' = 1
    /\ UNCHANGED <<raw, phase, handle, profilePicker, profiles, postProcessors, registered, pipelines>>

(* The inner loop: a model selector among the request plugins gets the     *)
(* selector plugins of the profile.                                        *)
wirePlugin ==
    /\ phase = "buildModelSelector" /\ current # Nil /\ next <= Len(profiles[current].request)
    /\ LET ms == profiles[current].request[next].pluginRef
           wired == AddPlugins(pipelines[ms], profiles[current].selector)
       IN \/ ~Is(ms, "ModelSelector") /\ UNCHANGED <<phase, pipelines>>
          \/ Is(ms, "ModelSelector") /\ wired # Nil
             /\ pipelines' = [pipelines EXCEPT ![ms] = wired] /\ UNCHANGED phase
          \/ Is(ms, "ModelSelector") /\ wired = Nil /\ Fail /\ UNCHANGED pipelines
    /\ next' = next + 1
    /\ UNCHANGED <<raw, handle, profilePicker, profiles, postProcessors, registered, unwired, current>>

(* After the last plugin of the last profile, the configuration is loaded. *)
endOfProfile ==
    /\ phase = "buildModelSelector" /\ current # Nil /\ next > Len(profiles[current].request)
    /\ current' = Nil
    /\ phase' = IF unwired = {} THEN "loaded" ELSE phase
    /\ UNCHANGED <<raw, handle, profilePicker, profiles, postProcessors, registered,
                   unwired, next, pipelines>>

-----------------------------------------------------------------------------
LNext ==
    \/ instantiatePlugins \/ applyPluginDefaults \/ resolveProfilePicker
    \/ buildProfiles \/ buildPreProcessors \/ buildPostProcessors \/ buildDatalayerSources
    \/ (\E n \in DOMAIN profiles : buildModelSelector(n)) \/ wirePlugin \/ endOfProfile

LSpec == LInit /\ [][LNext]_lvars

-----------------------------------------------------------------------------
Loaded == phase = "loaded"

(* The load and what it builds keep their types.                           *)
LTypeOK ==
    /\ phase \in Phases
    /\ \A n \in DOMAIN handle : handle[n] \in Registry
    /\ profilePicker = Nil \/ Is(profilePicker, "ProfilePicker")
    /\ unwired \subseteq DOMAIN profiles /\ current \in DOMAIN profiles \cup {Nil} /\ next \in Nat \ {0}
    /\ \A n \in DOMAIN pipelines : Is(n, "ModelSelector")
    /\ \A r \in registered : Is(r.pluginRef, r.section)

(* In a configuration that loads, every reference in a profile, in pre-    *)
(* and post-processing and in the data layer is to a plugin that can do    *)
(* what the place asks for, also in a profile that another of its name     *)
(* replaces.  The profilePicker is the exception: LoadConfiguration goes   *)
(* on after the error of one that is none, with a nil picker (see          *)
(* LoadedConfigHasPicker); a file that names none gets the default.        *)
ReferencesServed ==
    Loaded =>
        /\ \A p \in ToSet(raw.profiles) :
            /\ \A r \in ToSet(p.request) :
                IsAny(r.pluginRef, SelectorRoles \cup {"RequestProcessor"})
            /\ \A r \in ToSet(p.response) :
                IsAny(r.pluginRef, {"ResponseProcessor", "ResponseChunkProcessor"})
        /\ \A r \in ToSet(raw.preProcessing) : Is(r.pluginRef, "RequestProcessor")
        /\ \A r \in ToSet(raw.postProcessing) :
            IsAny(r.pluginRef, {"ResponseProcessor", "ResponseHeadersProcessor"})
        /\ registered = ToSet(raw.datalayer)
        /\ raw.profilePicker # Nil
        /\ profilePicker = Nil => ~Is(raw.profilePicker, "ProfilePicker")

(* What a stream relies on (ExtProcStream!ServerSound): a profile buffers  *)
(* if it, or the server, has body processors, and then has no chunk        *)
(* processors - whatever was configured together.                          *)
StreamsSound ==
    Loaded => \A n \in DOMAIN profiles :
        LET p == profiles[n]
        IN /\ p.buffering = (p.response # <<>> \/ postProcessors # <<>>)
           /\ p.buffering => p.chunk = <<>>

(* The profiles that use a model selector.                                 *)
UsersOf(ms) == {n \in DOMAIN profiles : \E r \in ToSet(profiles[n].request) : r.pluginRef = ms}
UsedOnce(ms, n) ==
    \A i, j \in DOMAIN profiles[n].request :
        profiles[n].request[i].pluginRef = ms /\ profiles[n].request[j].pluginRef = ms => i = j
Pipeline(n) ==
    [filters |-> PluginRefs(Those(profiles[n].selector, "Filter")),
     scorers |-> PluginRefs(Those(profiles[n].selector, "Scorer")),
     picker |-> LET pickers == PluginRefs(Those(profiles[n].selector, "Picker"))
                IN IF pickers = <<>> THEN DefaultPicker ELSE Head(pickers)]

(* A model selector that one profile refers to, once, runs the filters,    *)
(* scorers and picker of that profile, each in every role it has, and      *)
(* nothing else (buildModelSelector).                                      *)
SoleSelectorComplete ==
    Loaded => \A ms \in DOMAIN pipelines, n \in DOMAIN profiles :
        UsersOf(ms) = {n} /\ UsedOnce(ms, n) => pipelines[ms] = Pipeline(n)

-----------------------------------------------------------------------------
(* Statements of the documentation that the code does not implement.       *)

(* docs/configuration.md: "Validation happens in the loader at startup";   *)
(* the loader's own message for a profilePicker that is none is "failed to *)
(* load the configuration".  The error is dropped; the first request that  *)
(* is to be given a profile calls a nil picker.                            *)
LoadedConfigHasPicker == Loaded => profilePicker # Nil

(* docs/plugins.md on model-selector: "The Filter, Scorer, and Picker      *)
(* plugins for this profile are declared in the same profile request list  *)
(* and wired into the selector".  A selector that two profiles share gets  *)
(* the plugins of both, for both.                                          *)
ProfilesKeepSelectors ==
    Loaded => \A n \in DOMAIN profiles : \A r \in ToSet(profiles[n].request) :
        Is(r.pluginRef, "ModelSelector") => pipelines[r.pluginRef] = Pipeline(n)
=============================================================================
