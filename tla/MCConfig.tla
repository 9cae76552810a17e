------------------------------- MODULE MCConfig -------------------------------
(***************************************************************************)
(* Configurations for ConfigLoader, put together from a few alternatives   *)
(* for each section: sound ones, references to nothing and to plugins of   *)
(* the wrong kind.                                                         *)
(***************************************************************************)
EXTENDS ConfigLoader, TLC

MCImplements ==
    "body-field-to-header" :> {"RequestProcessor"}
    @@ "model-selector" :> {"RequestProcessor", "ModelSelector"}
    @@ "guard" :> {"Filter", "Scorer"}
    @@ "random-picker" :> {"Picker"}
    @@ "session-affinity" :> {"Scorer", "ResponseProcessor"}
    @@ "censor" :> {"ResponseChunkProcessor"}
    @@ "model-name-to-header" :> {"ResponseHeadersProcessor"}
    @@ "single-profile-picker" :> {"ProfilePicker"}
    @@ "extractor" :> {"Extractor"}
MCTypes == DOMAIN MCImplements

Spec1(t) == [name |-> Nil, type |-> t, valid |-> TRUE]
Ref(n) == [pluginRef |-> n, weight |-> FALSE]
Scorer(n) == [pluginRef |-> n, weight |-> TRUE]

Basic == <<Spec1("body-field-to-header"), Spec1("model-selector"), Spec1("guard"),
           Spec1("random-picker"), Spec1("session-affinity"), Spec1("censor"),
           Spec1("model-name-to-header"), Spec1("extractor")>>

(* All sound but for: no plugins, an unregistered type, bad parameters, a  *)
(* name used twice; with one or two profile pickers.                       *)
PluginLists ==
    {Basic, <<>>, Append(Basic, Spec1("unheard-of")), Append(Basic, Head(Basic)),
     Append(Basic, [name |-> "broken", type |-> "extractor", valid |-> FALSE]),
     Append(Basic, Spec1("single-profile-picker")),
     Basic \o <<Spec1("single-profile-picker"),
                [name |-> "other", type |-> "single-profile-picker", valid |-> TRUE]>>}

Requests ==
    {<<Ref("body-field-to-header")>>, <<Ref("model-selector"), Scorer("guard")>>,
     <<Ref("model-selector"), Ref("random-picker"), Scorer("session-affinity")>>,
     <<Ref("model-selector"), Ref("random-picker"), Ref("random-picker")>>,
     <<Ref("guard")>>, <<Ref("extractor")>>, <<>>}
Responses ==
    {<<>>, <<Ref("session-affinity")>>, <<Ref("censor")>>, <<Ref("nobody")>>,
     <<Ref("session-affinity"), Ref("censor")>>}
Profile(n, req, resp) == [name |-> n, request |-> req, response |-> resp]

OneProfile == {<<Profile("p", req, resp)>> : req \in Requests, resp \in Responses}
TwoProfiles ==
    {<<Profile("p", req1, <<>>), Profile(q, req2, resp)>> :
        q \in {"p", "q"}, req1 \in Requests, req2 \in Requests, resp \in {<<>>, <<Ref("censor")>>}}

Sections(pickers, pres, posts, datalayers, specs, profs) ==
    [plugins : specs, profilePicker : pickers, preProcessing : pres, postProcessing : posts,
     datalayer : datalayers, profiles : profs]
InDatalayer(section, n) == [section |-> section, pluginRef |-> n]

MCConfigs ==
    Sections({Nil, "single-profile-picker", "censor"}, {<<>>}, {<<>>}, {<<>>}, PluginLists,
             OneProfile \cup TwoProfiles \cup {<<>>})
    \cup Sections({Nil}, {<<>>, <<Ref("body-field-to-header")>>, <<Ref("censor")>>},
                  {<<>>, <<Ref("session-affinity")>>, <<Ref("model-name-to-header")>>, <<Ref("censor")>>},
                  {<<>>, <<InDatalayer("Extractor", "extractor")>>,
                   <<InDatalayer("Extractor", "extractor"), InDatalayer("DataSource", "nobody")>>},
                  {Basic}, OneProfile)
=============================================================================
