---------------------------- MODULE ModelSelector ----------------------------
(***************************************************************************)
(* One model selection: ModelSelectorPlugin.ProcessRequest takes the       *)
(* models from the datastore and runs the pipeline - the model-group       *)
(* filter, the in-flight and the cost scorer, a picker - while the         *)
(* datasource and the extractors go on writing the attributes it reads.    *)
(* Every read of an attribute is one step.                                 *)
(*                                                                         *)
(* A score is a rational number <<numerator, denominator>>, a weight an    *)
(* integer number of thousandths; the loader takes negative weights too.   *)
(***************************************************************************)
EXTENDS Integers, FiniteSets, FiniteSetsExt

CONSTANTS
    Models,             \* model names
    Groups,             \* group names
    None,               \* no attribute, no result
    InflightWeight,     \* weight of the in-flight scorer, in thousandths, of any sign
    CostWeight,         \* weight of the cost scorer, in thousandths, of any sign
    Pickers,            \* pickers to choose from: "max", "random", "weighted"
    Underflow,          \* below this score (in thousandths, > 0) U^(1/score) may be 0
    MaxPrice, MaxCount, \* bounds: prices and counts
    MaxChanges          \* bound: attributes written during the selection

(* How a selection fails.                                                  *)
Outcomes == {"no candidates", "ResourceExhausted", "panic"}

ASSUME SelectorAssumption ==
    /\ IsFiniteSet(Models) /\ None \notin Models \cup Outcomes
    /\ Models \cap Outcomes = {}
    /\ InflightWeight \in Int /\ CostWeight \in Int /\ Underflow \in Nat \ {0}
    /\ Pickers \subseteq {"max", "random", "weighted"}
    /\ MaxPrice \in Nat /\ MaxCount \in Nat /\ MaxChanges \in Nat

VARIABLES
    attrs,      \* [Models in the datastore -> attributes]
    changed,    \* <<model, attribute>> pairs written since GetModels
    picker,     \* the configured picker
    request,    \* the request's "model" field
    phase,      \* the stage of the pipeline
    todo,       \* models this stage still has to read
    models,     \* the candidates left
    counts, sumPrices, prices,  \* what the scorers have read
    outcome     \* the selected model, an error, or None

readVars == <<todo, models, counts, sumPrices, prices>>
vars == <<attrs, changed, picker, request, phase, readVars, outcome>>

(* Absent or "auto"; a group; a name; not a string.                        *)
Requests ==
    [kind : {"auto", "malformed"}] \cup [kind : {"group"}, group : Groups]
        \cup [kind : {"name"}, name : Models]
Attributes == [price : (0..MaxPrice) \cup {None}, groups : SUBSET Groups, count : 0..MaxCount]

Init ==
    /\ \E present \in SUBSET Models : attrs \in [present -> Attributes]
    /\ changed = {}
    /\ picker \in Pickers /\ request \in Requests
    /\ phase = "new" /\ todo = {} /\ models = {}
    /\ counts = [m \in {} |-> 0] /\ sumPrices = 0 /\ prices = [m \in {} |-> 0]
    /\ outcome = None

-----------------------------------------------------------------------------
(* The writers: syncModels and the extractors Put new values.              *)
Write(m, key, value) ==
    /\ phase \notin {"new", "done"} /\ m \in DOMAIN attrs /\ Cardinality(changed) < MaxChanges
    /\ attrs[m][key] # value
    /\ attrs' = [attrs EXCEPT ![m][key] = value]
    /\ changed' = changed \cup {<<m, key>>}
    /\ UNCHANGED <<picker, request, phase, readVars, outcome>>

Writes ==
    \E m \in Models :
        \/ \E p \in 0..MaxPrice : Write(m, "price", p)
        \/ \E gs \in SUBSET Groups : Write(m, "groups", gs)
        \/ \E n \in 0..MaxCount : Write(m, "count", n)

-----------------------------------------------------------------------------
Fail(error) == phase' = "done" /\ outcome' = error

GetModels ==
    /\ phase = "new"
    /\ models' = DOMAIN attrs /\ todo' = DOMAIN attrs
    /\ IF DOMAIN attrs = {} THEN Fail("no candidates")
                            ELSE phase' = "filter" /\ UNCHANGED outcome
    /\ UNCHANGED <<attrs, changed, picker, request, counts, sumPrices, prices>>

(* Faulty: a name that starts with the prefix selects everything.          *)
KeepsLoosely(m) ==
    CASE request.kind = "auto" -> TRUE
      [] request.kind = "group" -> TRUE
      [] request.kind = "name" -> m = request.name
      [] OTHER -> FALSE

(* ModelGroupFilter on one candidate.                                      *)
Keeps(m) ==
    CASE request.kind = "auto" -> TRUE
      [] request.kind = "group" -> request.group \in attrs[m].groups
      [] request.kind = "name" -> m = request.name
      [] OTHER -> FALSE

FilterModel(m) ==
    /\ phase = "filter" /\ m \in todo
    /\ todo' = todo \ {m}
    /\ models' = IF Keeps(m) THEN models ELSE models \ {m}
    /\ UNCHANGED <<attrs, changed, picker, request, phase, counts, sumPrices, prices, outcome>>

(* Run after the filters: nothing left is a typed error.                   *)
FilterReturns ==
    /\ phase = "filter" /\ todo = {}
    /\ todo' = models
    /\ IF models = {} THEN Fail("ResourceExhausted")
                      ELSE phase' = "counts" /\ UNCHANGED outcome
    /\ UNCHANGED <<attrs, changed, picker, request, models, counts, sumPrices, prices>>

(* InflightRequestsScorer reads each count once.                           *)
ReadCount(m) ==
    /\ phase = "counts" /\ m \in todo
    /\ counts' = [x \in DOMAIN counts \cup {m} |-> IF x = m THEN attrs[m].count ELSE counts[x]]
    /\ todo' = todo \ {m}
    /\ UNCHANGED <<attrs, changed, picker, request, phase, models, sumPrices, prices, outcome>>

(* CostScorer reads no price when there is one candidate only ...          *)
CountsReturn ==
    /\ phase = "counts" /\ todo = {}
    /\ \/ Cardinality(models) = 1 /\ phase' = "pick" /\ UNCHANGED todo
       \/ Cardinality(models) > 1 /\ phase' = "sum" /\ todo' = models
    /\ UNCHANGED <<attrs, changed, picker, request, models, counts, sumPrices, prices, outcome>>

(* ... and otherwise adds the prices up (the type assertion on a missing   *)
(* attribute panics) ...                                                   *)
ReadPrice(m) ==
    /\ phase = "sum" /\ m \in todo
    /\ todo' = todo \ {m}
    /\ \/ /\ attrs[m].price # None
          /\ sumPrices' = sumPrices + attrs[m].price
          /\ UNCHANGED <<phase, outcome>>
       \/ /\ attrs[m].price = None
          /\ Fail("panic")
          /\ UNCHANGED sumPrices
    /\ UNCHANGED <<attrs, changed, picker, request, models, counts, prices>>

SumReturns ==
    /\ phase = "sum" /\ todo = {}
    /\ \/ sumPrices = 0 /\ phase' = "pick" /\ UNCHANGED todo
       \/ sumPrices > 0 /\ phase' = "prices" /\ todo' = models
    /\ UNCHANGED <<attrs, changed, picker, request, models, counts, sumPrices, prices, outcome>>

(* ... before it reads them again: they may have changed.                  *)
RereadPrice(m) ==
    /\ phase = "prices" /\ m \in todo
    /\ prices' = [x \in DOMAIN prices \cup {m} |-> IF x = m THEN attrs[m].price ELSE prices[x]]
    /\ todo' = todo \ {m}
    /\ UNCHANGED <<attrs, changed, picker, request, phase, models, counts, sumPrices, outcome>>

PricesReturn ==
    /\ phase = "prices" /\ todo = {}
    /\ phase' = "pick"
    /\ UNCHANGED <<attrs, changed, picker, request, readVars, outcome>>

-----------------------------------------------------------------------------
Leq(r, s) == r[1] * s[2] <= s[1] * r[2]
Positive(r) == r[1] > 0

(* Faulty: no clamping.                                                    *)
enforceNoRange(r) == r

enforceScoreRange(r) ==
    CASE r[1] < 0 -> <<0, 1>> [] r[1] > r[2] -> <<1, 1>> [] OTHER -> r

(* Faulty: the most loaded model scores 1.                                 *)
InflightScoreInverted(m) ==
    LET most == Max({counts[x] : x \in models})
        least == Min({counts[x] : x \in models})
    IN IF most = least THEN <<1, 1>> ELSE <<counts[m] - least, most - least>>

InflightScore(m) ==
    LET most == Max({counts[x] : x \in models})
        least == Min({counts[x] : x \in models})
    IN IF most = least THEN <<1, 1>> ELSE <<most - counts[m], most - least>>

CostScore(m) ==
    CASE Cardinality(models) = 1 -> <<1, 2>>
      [] Cardinality(models) # 1 /\ sumPrices = 0 -> <<1, 1>>
      [] OTHER -> <<sumPrices - prices[m], sumPrices>>

(* runScorerPlugins: the weighted sum, in thousandths.                     *)
Score(m) ==
    LET i == enforceScoreRange(InflightScore(m))
        c == enforceScoreRange(CostScore(m))
    IN <<InflightWeight * i[1] * c[2] + CostWeight * c[1] * i[2], i[2] * c[2]>>

(* ShuffleScoredModels: any of the candidates may come first.              *)
FirstOfShuffled(m) == m \in models

(* RandomPicker: the first after the shuffle.                              *)
RandomPick(m) == FirstOfShuffled(m)

(* MaxScorePicker: shuffle, sort by score, take the first.                 *)
MaxScorePick(m) == FirstOfShuffled(m) /\ \A x \in models : Leq(Score(x), Score(m))

(* Faulty: a score of zero gets a key like any other.                      *)
WeightedPickAny(m) == TRUE

(* WeightedRandomPicker: the largest key wins; a key is 0 for a score of   *)
(* zero or less, and U^(1/score), which a float64 can hold unless the score is     *)
(* small, for a positive one.  Without a positive score, at random.        *)
WeightedPick(m) ==
    \/ Positive(Score(m))
    \/ \A x \in models : Positive(Score(x)) => ~Leq(<<Underflow, 1>>, Score(x))

Pick(m) ==
    /\ phase = "pick" /\ m \in models
    /\ CASE picker = "max" -> MaxScorePick(m)
         [] picker = "weighted" -> WeightedPick(m)
         [] picker = "random" -> RandomPick(m)
    /\ phase' = "done" /\ outcome' = m
    /\ UNCHANGED <<attrs, changed, picker, request, readVars>>

-----------------------------------------------------------------------------
Next ==
    \/ Writes \/ GetModels \/ FilterReturns \/ CountsReturn \/ SumReturns \/ PricesReturn
    \/ \E m \in Models : \/ FilterModel(m) \/ ReadCount(m) \/ ReadPrice(m)
                         \/ RereadPrice(m) \/ Pick(m)

Spec == Init /\ [][Next]_vars

-----------------------------------------------------------------------------
(* The models the request asks for.                                        *)
Requested ==
    {m \in DOMAIN attrs :
        \/ request = [kind |-> "auto"]
        \/ \E g \in attrs[m].groups : request = [kind |-> "group", group |-> g]
        \/ request = [kind |-> "name", name |-> m]}
Selected == outcome \in Models
Stable(m, key) == <<m, key>> \notin changed

(* The selection keeps its types.                                          *)
TypeOK ==
    /\ changed \subseteq Models \X {"price", "groups", "count"}
    /\ phase \in {"new", "filter", "counts", "sum", "prices", "pick", "done"}
    /\ models \subseteq DOMAIN attrs /\ todo \subseteq models \cup DOMAIN attrs
    /\ DOMAIN counts \subseteq models /\ DOMAIN prices \subseteq models
    /\ sumPrices \in Nat
    /\ outcome \in Models \cup Outcomes \cup {None}

(* The selected model is one the request asked for, and a request is       *)
(* turned away only when no model fits it - as far as group membership did *)
(* not change meanwhile (Filter, Run).                                     *)
RequestHonoured ==
    phase = "done" =>
        /\ Selected /\ Stable(outcome, "groups") => outcome \in Requested
        /\ outcome = "ResourceExhausted" => \A m \in Requested : ~Stable(m, "groups")

(* The negative and the positive part of a weight.                         *)
Below(w) == IF w < 0 THEN w ELSE 0
Above(w) == IF w > 0 THEN w ELSE 0

(* Although the cost scorer reads every price twice, no model's score      *)
(* leaves the range its scorers' weights allow - from the sum of the       *)
(* negative ones to the sum of the positive ones - and a selection panics  *)
(* only over a model that a sync registered without a price, and only when *)
(* there was another candidate to compare it with (runScorerPlugins, Score *)
(* of the cost scorer).                                                    *)
ScoringSound ==
    /\ phase = "pick" => \A m \in models :
        /\ Leq(<<Below(InflightWeight) + Below(CostWeight), 1>>, Score(m))
        /\ Leq(Score(m), <<Above(InflightWeight) + Above(CostWeight), 1>>)
    /\ outcome = "panic" =>
        /\ Cardinality(models) > 1
        /\ \E m \in models : attrs[m].price = None \/ ~Stable(m, "price")

(* While nothing changes and both weights are positive, the max-score      *)
(* picker never selects a model that another candidate beats on one score  *)
(* and equals or beats on the other (Pick of the max-score picker).        *)
Dominates(x, m) ==
    /\ attrs[x].count <= attrs[m].count /\ attrs[x].price <= attrs[m].price
    /\ attrs[x].count < attrs[m].count \/ attrs[x].price < attrs[m].price
DominatedNotPicked ==
    picker = "max" /\ Selected /\ changed = {} /\ InflightWeight > 0 /\ CostWeight > 0 =>
        \A x \in models \ {outcome} : ~Dominates(x, outcome)

(* While nothing changes, the weighted picker never selects a model that   *)
(* has the most requests in flight and is the only one with a price, when  *)
(* another is free and has the fewest: the one's scores are zero, the      *)
(* other's total large enough for its key U^(1/score) not to underflow to  *)
(* the key of a zero score (Pick of the weighted picker).                  *)
Hopeless(m) ==
    /\ \A x \in models : attrs[x].count <= attrs[m].count
    /\ \A x \in models : attrs[x].price > 0 <=> x = m
    /\ \E x \in models : attrs[x].count < attrs[m].count
HopelessNotPicked ==
    /\ picker = "weighted" /\ Selected /\ changed = {} /\ Cardinality(models) > 1
    /\ InflightWeight + CostWeight >= Underflow
    => ~Hopeless(outcome)

-----------------------------------------------------------------------------
(* A statement of the code's comments that the code implements only while  *)
(* no key underflows: a key of 0 "effectively excludes them from           *)
(* selection" (weightedrandom/picker.go), so that a model whose score is   *)
(* zero is never picked at random while another candidate's is not.        *)
ZeroScoreExcluded ==
    picker = "weighted" /\ Selected /\ (\E m \in models : Positive(Score(m)))
        => Positive(Score(outcome))
=============================================================================
