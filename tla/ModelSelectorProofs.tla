------------------------- MODULE ModelSelectorProofs -------------------------
(***************************************************************************)
(* Proofs about ModelSelector, for any set of models and groups, weights,  *)
(* prices and counts, and any number of attributes written meanwhile.      *)
(***************************************************************************)
EXTENDS ModelSelector, Sequences, SequenceTheorems, FiniteSetTheorems, TLAPS

(* What the selection was given.                                           *)
AttrsInv ==
    /\ DOMAIN attrs \subseteq Models /\ attrs \in [DOMAIN attrs -> Attributes]
    /\ changed \subseteq Models \X {"price", "groups", "count"}
    /\ picker \in Pickers /\ request \in Requests

(* How far it is.                                                          *)
Running == {"new", "filter", "counts", "sum", "prices", "pick"}
StageInv ==
    /\ phase \in Running \cup {"done"}
    /\ models \subseteq DOMAIN attrs /\ todo \subseteq DOMAIN attrs
    /\ phase \in {"filter", "counts", "sum", "prices"} => todo \subseteq models
    /\ phase \in {"counts", "sum", "prices", "pick"} => models # {}
    /\ outcome \in Models \cup Outcomes \cup {None}
    /\ phase \in Running => outcome = None
    /\ outcome \in Models => outcome \in models

(* What the filter has kept, as far as group membership did not change.    *)
FilterInv ==
    phase # "new" => \A m \in DOMAIN attrs :
        Stable(m, "groups") /\ ~(phase = "filter" /\ m \in todo) => (m \in models <=> Keeps(m))

(* What the in-flight scorer has read.                                     *)
CountsInv ==
    /\ DOMAIN counts \subseteq models /\ counts \in [DOMAIN counts -> 0..MaxCount]
    /\ phase \in {"new", "filter"} => DOMAIN counts = {}
    /\ phase = "counts" => DOMAIN counts = models \ todo
    /\ phase \in {"sum", "prices", "pick"} => DOMAIN counts = models
    /\ \A m \in DOMAIN counts : Stable(m, "count") => counts[m] = attrs[m].count

(* What the cost scorer has read: for the sum, and again for the scores.   *)
Pricing == phase \in {"sum", "prices"} \/ (phase = "pick" /\ Cardinality(models) # 1)
Summed == IF phase = "sum" THEN models \ todo ELSE models
SumInv ==
    /\ sumPrices \in Nat
    /\ phase \in {"new", "filter", "counts"} => sumPrices = 0
    /\ phase \in {"sum", "prices"} => Cardinality(models) > 1
    /\ Pricing =>
        /\ \A m \in Summed : attrs[m].price \in 0..MaxPrice
        /\ changed = {} => \A m \in Summed : attrs[m].price <= sumPrices
        /\ changed = {} => \A m \in models :
            (\A x \in models \ {m} : attrs[x].price = 0) =>
                sumPrices = IF m \in Summed THEN attrs[m].price ELSE 0
PricesInv ==
    /\ DOMAIN prices \subseteq models /\ prices \in [DOMAIN prices -> 0..MaxPrice]
    /\ phase \in {"new", "filter", "counts", "sum"} => DOMAIN prices = {}
    /\ phase = "prices" => DOMAIN prices = models \ todo
    /\ phase = "pick" => Cardinality(models) = 1 \/ sumPrices = 0 \/ DOMAIN prices = models
    /\ \A m \in DOMAIN prices : Stable(m, "price") => prices[m] = attrs[m].price

(* How it ended.                                                           *)
PanicExplained ==
    outcome = "panic" =>
        /\ Cardinality(models) > 1
        /\ \E m \in models : attrs[m].price = None \/ ~Stable(m, "price")
EndInv ==
    /\ outcome = "ResourceExhausted" => models = {}
    /\ PanicExplained

IInv ==
    AttrsInv /\ StageInv /\ FilterInv /\ CountsInv /\ SumInv /\ PricesInv /\ EndInv

-----------------------------------------------------------------------------
(* The least and the greatest of a set of numbers.                         *)
LEMMA LeastNumber ==
  ASSUME NEW S, S \subseteq Nat, S # {}
  PROVE  \E x \in S : \A y \in S : x <= y
<1>1. PICK n \in S : TRUE
  OBVIOUS
<1> DEFINE T == {0..x : x \in {y \in S : y <= n}}
           R == StrictSubsetOrdering(0..n)
<1>2. IsWellFoundedOn(R, FiniteSubsetsOf(0..n))
  BY FS_StrictSubsetOrderingWellFounded
<1>3. T \subseteq FiniteSubsetsOf(0..n)
  <2>1. ASSUME NEW x \in S, x <= n PROVE 0..x \subseteq 0..n /\ IsFiniteSet(0..x)
    BY <2>1, FS_Interval
  <2> QED BY <2>1 DEF FiniteSubsetsOf
<1>4. T # {}
  BY <1>1
<1> HIDE DEF T, R
<1>5. PICK t \in T : \A u \in T : <<u, t>> \notin R
  BY <1>2, <1>3, <1>4, WFMin
<1>6. PICK x \in S : x <= n /\ t = 0..x
  BY <1>5 DEF T
<1>7. ASSUME NEW y \in S PROVE x <= y
  <2>1. SUFFICES ASSUME y < x PROVE FALSE
    BY <1>6
  <2>2. 0..y \in T /\ 0..y \subseteq 0..n /\ 0..x \subseteq 0..n
    BY <1>1, <1>6, <2>1 DEF T
  <2>3. 0..y \subseteq 0..x /\ 0..y # 0..x
    <3>1. x \in 0..x /\ x \notin 0..y
      BY <2>1
    <3> QED BY <2>1, <3>1
  <2> QED BY <1>5, <1>6, <2>2, <2>3 DEF R, StrictSubsetOrdering
<1> QED BY <1>7

LEMMA MinMax ==
  ASSUME NEW n \in Nat, NEW S, S \subseteq 0..n, S # {}
  PROVE  /\ Min(S) \in S /\ \A y \in S : Min(S) <= y
         /\ Max(S) \in S /\ \A y \in S : y <= Max(S)
<1>0. S \subseteq Nat
  OBVIOUS
<1>1. \E x \in S : \A y \in S : x <= y
  BY <1>0, LeastNumber
<1>2. \E x \in S : \A y \in S : x >= y
  <2> DEFINE T == {n - x : x \in S}
  <2>1. T \subseteq Nat /\ T # {}
    <3>1. \A x \in S : n - x \in Nat
      OBVIOUS
    <3> QED BY <3>1
  <2> HIDE DEF T
  <2>2. PICK t \in T : \A u \in T : t <= u
    BY <2>1, LeastNumber
  <2>3. PICK x \in S : t = n - x
    BY <2>2 DEF T
  <2>4. ASSUME NEW y \in S PROVE x >= y
    <3>1. n - y \in T
      BY DEF T
    <3>2. n - x <= n - y
      BY <2>2, <2>3, <3>1
    <3> QED BY <3>2
  <2> QED BY <2>4
<1>3. Min(S) \in S /\ \A y \in S : Min(S) <= y
  BY <1>1 DEF Min
<1>4. Max(S) \in S /\ \A y \in S : Max(S) >= y
  BY <1>2 DEF Max
<1>5. \A y \in S : y <= Max(S)
  BY <1>4
<1> QED BY <1>3, <1>4, <1>5

-----------------------------------------------------------------------------
(* Arithmetic of scores.                                                   *)
LEMMA Scale ==
  ASSUME NEW a \in Nat, NEW b \in Nat, NEW k \in Nat
  PROVE  /\ a * k \in Nat
         /\ a <= b => a * k <= b * k
         /\ a < b /\ k > 0 => a * k < b * k
         /\ a > 0 /\ k > 0 => a * k > 0
OBVIOUS

LEMMA Clamped ==
  ASSUME NEW a \in Int, NEW b \in Nat \ {0}
  PROVE  /\ enforceScoreRange(<<a, b>>)[1] \in Nat
         /\ enforceScoreRange(<<a, b>>)[2] \in Nat \ {0}
         /\ enforceScoreRange(<<a, b>>)[1] <= enforceScoreRange(<<a, b>>)[2]
         /\ a \in 0..b => enforceScoreRange(<<a, b>>) = <<a, b>>
BY DEF enforceScoreRange

LEMMA WeightedPart ==
  ASSUME NEW w \in Int, NEW i \in Nat, NEW d \in Nat, i <= d
  PROVE  /\ w * i \in Int /\ Below(w) * d \in Int /\ Above(w) * d \in Int
         /\ Below(w) * d <= w * i /\ w * i <= Above(w) * d
<1>1. CASE w >= 0
  <2>1. Below(w) = 0 /\ Above(w) = w
    BY <1>1 DEF Below, Above
  <2>2. w * i \in Nat /\ w * d \in Nat /\ w * i <= w * d
    <3>1. w \in Nat /\ w * i = i * w /\ w * d = d * w
      BY <1>1
    <3> QED BY <3>1, Scale
  <2> QED BY <2>1, <2>2
<1>2. CASE w < 0
  <2>1. Below(w) = w /\ Above(w) = 0
    BY <1>2 DEF Below, Above
  <2> DEFINE v == -w
  <2>2. v \in Nat
    BY <1>2
  <2>3. w * i = -(i * v) /\ w * d = -(d * v)
    OBVIOUS
  <2> HIDE DEF v
  <2>4. i * v \in Nat /\ d * v \in Nat /\ i * v <= d * v
    BY <2>2, Scale
  <2> QED BY <2>1, <2>3, <2>4
<1> QED BY <1>1, <1>2

LEMMA WeightedSum ==
  ASSUME NEW w \in Int, NEW v \in Int, NEW i \in Nat, NEW d \in Nat \ {0}, i <= d,
         NEW c \in Nat, NEW e \in Nat \ {0}, c <= e
  PROVE  /\ w * i * e + v * c * d \in Int
         /\ d * e \in Nat \ {0}
         /\ (Below(w) + Below(v)) * (d * e) <= w * i * e + v * c * d
         /\ w * i * e + v * c * d <= (Above(w) + Above(v)) * (d * e)
<1>1. i * e <= d * e /\ c * d <= e * d /\ i * e \in Nat /\ c * d \in Nat /\ d * e \in Nat /\ d * e > 0
  BY Scale
<1>2. e * d = d * e
  OBVIOUS
<1> DEFINE ie == i * e
           cd == c * d
           de == d * e
<1>3. w * i * e = w * ie /\ v * c * d = v * cd
  OBVIOUS
<1>4. ie \in Nat /\ cd \in Nat /\ de \in Nat /\ ie <= de /\ cd <= de
  BY <1>1, <1>2
<1> HIDE DEF ie, cd, de
<1>5. /\ w * ie \in Int /\ Below(w) * de \in Int /\ Above(w) * de \in Int
      /\ Below(w) * de <= w * ie /\ w * ie <= Above(w) * de
  BY <1>4, WeightedPart
<1>6. /\ v * cd \in Int /\ Below(v) * de \in Int /\ Above(v) * de \in Int
      /\ Below(v) * de <= v * cd /\ v * cd <= Above(v) * de
  BY <1>4, WeightedPart
<1>7. /\ (Below(w) + Below(v)) * de = Below(w) * de + Below(v) * de
      /\ (Above(w) + Above(v)) * de = Above(w) * de + Above(v) * de
  <2>1. Below(w) \in Int /\ Below(v) \in Int /\ Above(w) \in Int /\ Above(v) \in Int
    BY DEF Below, Above
  <2> QED BY <1>4, <2>1
<1>8. /\ (Below(w) + Below(v)) * de <= w * ie + v * cd
      /\ w * ie + v * cd <= (Above(w) + Above(v)) * de
      /\ w * ie + v * cd \in Int
  BY <1>5, <1>6, <1>7
<1> QED BY <1>1, <1>3, <1>8 DEF de

LEMMA BetterScore ==
  ASSUME NEW w \in Nat \ {0}, NEW v \in Nat \ {0}, NEW d \in Nat \ {0}, NEW e \in Nat \ {0},
         NEW i \in Nat, NEW j \in Nat, NEW b \in Nat, NEW c \in Nat,
         j <= i, c <= b, j < i \/ c < b
  PROVE  ~Leq(<<w * i * e + v * b * d, d * e>>, <<w * j * e + v * c * d, d * e>>)
<1>1. /\ w * i \in Nat /\ w * j \in Nat /\ v * b \in Nat /\ v * c \in Nat
      /\ w * j <= w * i /\ v * c <= v * b
      /\ j < i => w * j < w * i
      /\ c < b => v * c < v * b
  <2>1. w * i = i * w /\ w * j = j * w /\ v * b = b * v /\ v * c = c * v
    OBVIOUS
  <2> QED BY <2>1, Scale
<1> DEFINE wi == w * i
           wj == w * j
           vb == v * b
           vc == v * c
<1>2. /\ wi \in Nat /\ wj \in Nat /\ vb \in Nat /\ vc \in Nat /\ wj <= wi /\ vc <= vb
      /\ wj < wi \/ vc < vb
  BY <1>1
<1> HIDE DEF wi, wj, vb, vc
<1>3. /\ wi * e \in Nat /\ wj * e \in Nat /\ vb * d \in Nat /\ vc * d \in Nat
      /\ wj * e <= wi * e /\ vc * d <= vb * d
      /\ wj * e < wi * e \/ vc * d < vb * d
  BY <1>2, Scale
<1> DEFINE s == wi * e + vb * d
           t == wj * e + vc * d
           k == d * e
<1>4. s \in Nat /\ t \in Nat /\ t < s
  BY <1>3
<1>5. k \in Nat /\ k > 0
  BY Scale
<1> HIDE DEF s, t, k
<1>6. t * k < s * k /\ t * k \in Nat /\ s * k \in Nat
  BY <1>4, <1>5, Scale
<1>7. ~Leq(<<s, k>>, <<t, k>>)
  BY <1>6 DEF Leq
<1> QED BY <1>7 DEF s, t, k, wi, wj, vb, vc

-----------------------------------------------------------------------------
(* An attribute is written: the others stay, and the write is noted.       *)
LEMMA WriteChanges ==
  ASSUME AttrsInv, NEW m \in Models,
         \/ \E p \in 0..MaxPrice : Write(m, "price", p)
         \/ \E gs \in SUBSET Groups : Write(m, "groups", gs)
         \/ \E n \in 0..MaxCount : Write(m, "count", n)
  PROVE  /\ DOMAIN attrs' = DOMAIN attrs /\ attrs' \in [DOMAIN attrs -> Attributes]
         /\ changed' \subseteq Models \X {"price", "groups", "count"}
         /\ changed \subseteq changed' /\ changed' # {}
         /\ UNCHANGED <<picker, request, phase, readVars, outcome>>
         /\ phase # "new" /\ phase # "done"
         /\ \A x \in DOMAIN attrs :
              /\ attrs'[x].groups = attrs[x].groups \/ <<x, "groups">> \in changed'
              /\ attrs'[x].count = attrs[x].count \/ <<x, "count">> \in changed'
              /\ attrs'[x].price = attrs[x].price \/ <<x, "price">> \in changed'
              /\ attrs'[x].price = attrs[x].price \/ attrs'[x].price \in 0..MaxPrice
<1>0. attrs \in [DOMAIN attrs -> Attributes] /\ changed \subseteq Models \X {"price", "groups", "count"}
  BY DEF AttrsInv
<1>1. CASE \E p \in 0..MaxPrice : Write(m, "price", p)
  <2>1. PICK p \in 0..MaxPrice : Write(m, "price", p)
    BY <1>1
  <2>2. /\ m \in DOMAIN attrs /\ attrs' = [attrs EXCEPT ![m]["price"] = p]
        /\ changed' = changed \cup {<<m, "price">>}
        /\ UNCHANGED <<picker, request, phase, readVars, outcome>> /\ phase # "new" /\ phase # "done"
    BY <2>1 DEF Write
  <2>3. attrs[m] \in Attributes /\ attrs'[m] = [attrs[m] EXCEPT !["price"] = p]
    BY <1>0, <2>2
  <2>4. /\ attrs'[m] \in Attributes /\ attrs'[m].price = p
        /\ attrs'[m].groups = attrs[m].groups /\ attrs'[m].count = attrs[m].count
    BY <2>3 DEF Attributes
  <2>5. \A x \in DOMAIN attrs : x # m => attrs'[x] = attrs[x]
    BY <2>2
  <2>6. DOMAIN attrs' = DOMAIN attrs /\ attrs' \in [DOMAIN attrs -> Attributes]
    BY <1>0, <2>2, <2>4, <2>5
  <2>7. \A x \in DOMAIN attrs :
          /\ attrs'[x].groups = attrs[x].groups /\ attrs'[x].count = attrs[x].count
          /\ x = m \/ attrs'[x].price = attrs[x].price
    BY <2>4, <2>5
  <2>8. /\ changed' \subseteq Models \X {"price", "groups", "count"}
        /\ changed \subseteq changed' /\ <<m, "price">> \in changed'
    BY <1>0, <2>2
  <2> QED BY <2>2, <2>4, <2>6, <2>7, <2>8
<1>2. CASE \E gs \in SUBSET Groups : Write(m, "groups", gs)
  <2>1. PICK gs \in SUBSET Groups : Write(m, "groups", gs)
    BY <1>2
  <2>2. /\ m \in DOMAIN attrs /\ attrs' = [attrs EXCEPT ![m]["groups"] = gs]
        /\ changed' = changed \cup {<<m, "groups">>}
        /\ UNCHANGED <<picker, request, phase, readVars, outcome>> /\ phase # "new" /\ phase # "done"
    BY <2>1 DEF Write
  <2>3. attrs[m] \in Attributes /\ attrs'[m] = [attrs[m] EXCEPT !["groups"] = gs]
    BY <1>0, <2>2
  <2>4. /\ attrs'[m] \in Attributes
        /\ attrs'[m].price = attrs[m].price /\ attrs'[m].count = attrs[m].count
    BY <2>3 DEF Attributes
  <2>5. \A x \in DOMAIN attrs : x # m => attrs'[x] = attrs[x]
    BY <2>2
  <2>6. DOMAIN attrs' = DOMAIN attrs /\ attrs' \in [DOMAIN attrs -> Attributes]
    BY <1>0, <2>2, <2>4, <2>5
  <2>7. \A x \in DOMAIN attrs :
          /\ attrs'[x].price = attrs[x].price /\ attrs'[x].count = attrs[x].count
          /\ x = m \/ attrs'[x].groups = attrs[x].groups
    BY <2>4, <2>5
  <2>8. /\ changed' \subseteq Models \X {"price", "groups", "count"}
        /\ changed \subseteq changed' /\ <<m, "groups">> \in changed'
    BY <1>0, <2>2
  <2> QED BY <2>2, <2>4, <2>6, <2>7, <2>8
<1>3. CASE \E n \in 0..MaxCount : Write(m, "count", n)
  <2>1. PICK n \in 0..MaxCount : Write(m, "count", n)
    BY <1>3
  <2>2. /\ m \in DOMAIN attrs /\ attrs' = [attrs EXCEPT ![m]["count"] = n]
        /\ changed' = changed \cup {<<m, "count">>}
        /\ UNCHANGED <<picker, request, phase, readVars, outcome>> /\ phase # "new" /\ phase # "done"
    BY <2>1 DEF Write
  <2>3. attrs[m] \in Attributes /\ attrs'[m] = [attrs[m] EXCEPT !["count"] = n]
    BY <1>0, <2>2
  <2>4. /\ attrs'[m] \in Attributes
        /\ attrs'[m].price = attrs[m].price /\ attrs'[m].groups = attrs[m].groups
    BY <2>3 DEF Attributes
  <2>5. \A x \in DOMAIN attrs : x # m => attrs'[x] = attrs[x]
    BY <2>2
  <2>6. DOMAIN attrs' = DOMAIN attrs /\ attrs' \in [DOMAIN attrs -> Attributes]
    BY <1>0, <2>2, <2>4, <2>5
  <2>7. \A x \in DOMAIN attrs :
          /\ attrs'[x].price = attrs[x].price /\ attrs'[x].groups = attrs[x].groups
          /\ x = m \/ attrs'[x].count = attrs[x].count
    BY <2>4, <2>5
  <2>8. /\ changed' \subseteq Models \X {"price", "groups", "count"}
        /\ changed \subseteq changed' /\ <<m, "count">> \in changed'
    BY <1>0, <2>2
  <2> QED BY <2>2, <2>4, <2>6, <2>7, <2>8
<1> QED BY <1>1, <1>2, <1>3

LEMMA WritesKeeps ==
  ASSUME IInv, Writes
  PROVE  IInv'
<1> USE DEF IInv
<1>1. PICK m \in Models :
        \/ \E p \in 0..MaxPrice : Write(m, "price", p)
        \/ \E gs \in SUBSET Groups : Write(m, "groups", gs)
        \/ \E n \in 0..MaxCount : Write(m, "count", n)
  BY DEF Writes
<1>2. /\ DOMAIN attrs' = DOMAIN attrs /\ attrs' \in [DOMAIN attrs -> Attributes]
      /\ changed' \subseteq Models \X {"price", "groups", "count"}
      /\ changed \subseteq changed' /\ changed' # {}
      /\ UNCHANGED <<picker, request, phase, readVars, outcome>>
      /\ phase # "new" /\ phase # "done"
  BY <1>1, WriteChanges
<1>3. \A x \in DOMAIN attrs :
        /\ attrs'[x].groups = attrs[x].groups \/ <<x, "groups">> \in changed'
        /\ attrs'[x].count = attrs[x].count \/ <<x, "count">> \in changed'
        /\ attrs'[x].price = attrs[x].price \/ <<x, "price">> \in changed'
        /\ attrs'[x].price = attrs[x].price \/ attrs'[x].price \in 0..MaxPrice
  BY <1>1, WriteChanges
<1>4. AttrsInv'
  BY <1>2 DEF AttrsInv
<1>5. StageInv'
  BY <1>2 DEF StageInv, readVars
<1>6. FilterInv'
  <2>1. ASSUME NEW x \in DOMAIN attrs, Stable(x, "groups")' PROVE Keeps(x)' <=> Keeps(x)
    <3>1. attrs'[x].groups = attrs[x].groups /\ request' = request
      BY <1>2, <1>3, <2>1 DEF Stable
    <3> QED BY <3>1 DEF Keeps
  <2>2. \A x : Stable(x, "groups")' => Stable(x, "groups")
    BY <1>2 DEF Stable
  <2> QED BY <1>2, <2>1, <2>2 DEF FilterInv, readVars
<1>7. CountsInv'
  <2>1. \A x \in DOMAIN counts : x \in DOMAIN attrs
    BY DEF CountsInv, StageInv
  <2>2. \A x \in DOMAIN counts : Stable(x, "count")' => Stable(x, "count") /\ attrs'[x].count = attrs[x].count
    BY <1>2, <1>3, <2>1 DEF Stable
  <2> QED BY <1>2, <2>2 DEF CountsInv, readVars
<1>8. SumInv'
  <2>1. /\ (Pricing' <=> Pricing) /\ Summed' = Summed /\ phase' = phase /\ models' = models
        /\ sumPrices' = sumPrices
    BY <1>2 DEF Pricing, Summed, readVars
  <2>2. \A x \in Summed : x \in DOMAIN attrs
    BY DEF Summed, StageInv
  <2>3. Pricing => \A x \in Summed : attrs'[x].price \in 0..MaxPrice
    BY <1>3, <2>2 DEF SumInv
  <2>4. /\ sumPrices' \in Nat
        /\ phase' \in {"new", "filter", "counts"} => sumPrices' = 0
        /\ phase' \in {"sum", "prices"} => Cardinality(models') > 1
    BY <2>1 DEF SumInv
  <2>5. Pricing' => \A x \in Summed' : attrs'[x].price \in 0..MaxPrice
    BY <2>1, <2>3
  <2>6. changed' # {}
    BY <1>2
  <2> QED BY <2>4, <2>5, <2>6 DEF SumInv
<1>9. PricesInv'
  <2>1. \A x \in DOMAIN prices : Stable(x, "price")' => Stable(x, "price")
    BY <1>2 DEF Stable
  <2>2. \A x \in DOMAIN prices : Stable(x, "price")' => attrs'[x].price = attrs[x].price
    BY <1>3 DEF Stable, PricesInv, StageInv
  <2> QED BY <1>2, <2>1, <2>2 DEF PricesInv, readVars
<1>10. EndInv'
  <2>1. outcome' = None
    BY <1>2 DEF StageInv, Running
  <2> QED BY <2>1, SelectorAssumption DEF EndInv, PanicExplained, Outcomes
<1> QED BY <1>4, <1>5, <1>6, <1>7, <1>8, <1>9, <1>10

(* The steps of the pipeline write no attribute; until one ends the        *)
(* selection there is no outcome.                                          *)
LEMMA Unwritten ==
  ASSUME AttrsInv, UNCHANGED <<attrs, changed, picker, request>>
  PROVE  /\ AttrsInv'
         /\ \A m : Keeps(m)' <=> Keeps(m)
         /\ \A m : \A key \in {"price", "groups", "count"} : Stable(m, key)' <=> Stable(m, key)
<1>1. AttrsInv'
  BY DEF AttrsInv
<1>2. \A m : Keeps(m)' <=> Keeps(m)
  BY DEF Keeps
<1>3. \A m : \A key \in {"price", "groups", "count"} : Stable(m, key)' <=> Stable(m, key)
  BY DEF Stable
<1> QED BY <1>1, <1>2, <1>3

LEMMA NotEnded ==
  ASSUME StageInv, phase \in Running, outcome' = outcome
  PROVE  outcome' = None /\ EndInv' /\ outcome' \notin Models
BY SelectorAssumption DEF StageInv, EndInv, PanicExplained, Outcomes

LEMMA GetModelsKeeps ==
  ASSUME IInv, GetModels
  PROVE  IInv'
<1> USE DEF IInv
<1>0. /\ phase = "new" /\ models' = DOMAIN attrs /\ todo' = DOMAIN attrs
      /\ UNCHANGED <<attrs, changed, picker, request, counts, sumPrices, prices>>
      /\ \/ DOMAIN attrs = {} /\ phase' = "done" /\ outcome' = "no candidates"
         \/ DOMAIN attrs # {} /\ phase' = "filter" /\ outcome' = outcome
  BY DEF GetModels, Fail
<1>1. AttrsInv'
  BY <1>0, Unwritten
<1>2. "no candidates" \notin Models
  BY SelectorAssumption DEF Outcomes
<1>3. outcome = None /\ None \notin Models /\ None \notin Outcomes
  BY <1>0, SelectorAssumption DEF StageInv, Running
<1>4. StageInv'
  BY <1>0, <1>2, <1>3 DEF StageInv, Running, Outcomes
<1>5. FilterInv'
  BY <1>0 DEF FilterInv
<1>6. CountsInv'
  BY <1>0 DEF CountsInv
<1>7. SumInv'
  BY <1>0 DEF SumInv, Pricing
<1>8. PricesInv'
  BY <1>0 DEF PricesInv
<1>9. EndInv'
  BY <1>0, <1>3 DEF EndInv, PanicExplained, Outcomes
<1> QED BY <1>1, <1>4, <1>5, <1>6, <1>7, <1>8, <1>9

LEMMA FilterModelKeeps ==
  ASSUME IInv, NEW m \in Models, FilterModel(m)
  PROVE  IInv'
<1> USE DEF IInv
<1>0. /\ phase = "filter" /\ m \in todo /\ todo' = todo \ {m}
      /\ models' = (IF Keeps(m) THEN models ELSE models \ {m})
      /\ UNCHANGED <<attrs, changed, picker, request, phase, counts, sumPrices, prices, outcome>>
  BY DEF FilterModel
<1>1. /\ AttrsInv' /\ (\A x : Keeps(x)' <=> Keeps(x))
      /\ \A x : Stable(x, "groups")' <=> Stable(x, "groups")
  BY <1>0, Unwritten
<1>2. outcome' = None /\ EndInv' /\ outcome' \notin Models
  BY <1>0, NotEnded DEF Running
<1>3. StageInv'
  BY <1>0, <1>2 DEF StageInv, Running
<1>4. FilterInv'
  BY <1>0, <1>1 DEF FilterInv, StageInv
<1>5. CountsInv'
  BY <1>0 DEF CountsInv
<1>6. SumInv'
  BY <1>0 DEF SumInv, Pricing
<1>7. PricesInv'
  BY <1>0 DEF PricesInv
<1> QED BY <1>1, <1>2, <1>3, <1>4, <1>5, <1>6, <1>7

LEMMA FilterReturnsKeeps ==
  ASSUME IInv, FilterReturns
  PROVE  IInv'
<1> USE DEF IInv
<1>0. /\ phase = "filter" /\ todo = {} /\ todo' = models /\ models' = models
      /\ UNCHANGED <<attrs, changed, picker, request, counts, sumPrices, prices>>
      /\ \/ models = {} /\ phase' = "done" /\ outcome' = "ResourceExhausted"
         \/ models # {} /\ phase' = "counts" /\ outcome' = outcome
  BY DEF FilterReturns, Fail
<1>1. /\ AttrsInv' /\ (\A x : Keeps(x)' <=> Keeps(x))
      /\ \A x : Stable(x, "groups")' <=> Stable(x, "groups")
  BY <1>0, Unwritten
<1>2. /\ "ResourceExhausted" \notin Models
      /\ outcome = None /\ None \notin Models /\ None \notin Outcomes
  BY <1>0, SelectorAssumption DEF StageInv, Running, Outcomes
<1>3. StageInv'
  BY <1>0, <1>2 DEF StageInv, Running, Outcomes
<1>4. FilterInv'
  BY <1>0, <1>1 DEF FilterInv
<1>5. CountsInv'
  BY <1>0 DEF CountsInv
<1>6. SumInv'
  BY <1>0 DEF SumInv, Pricing
<1>7. PricesInv'
  BY <1>0 DEF PricesInv
<1>8. EndInv'
  BY <1>0, <1>2 DEF EndInv, PanicExplained, Outcomes
<1> QED BY <1>1, <1>3, <1>4, <1>5, <1>6, <1>7, <1>8

LEMMA ReadCountKeeps ==
  ASSUME IInv, NEW m \in Models, ReadCount(m)
  PROVE  IInv'
<1> USE DEF IInv
<1>0. /\ phase = "counts" /\ m \in todo /\ todo' = todo \ {m}
      /\ counts' = [x \in DOMAIN counts \cup {m} |-> IF x = m THEN attrs[m].count ELSE counts[x]]
      /\ UNCHANGED <<attrs, changed, picker, request, phase, models, sumPrices, prices, outcome>>
  BY DEF ReadCount
<1>1. /\ AttrsInv' /\ (\A x : Keeps(x)' <=> Keeps(x))
      /\ \A x : Stable(x, "groups")' <=> Stable(x, "groups")
      /\ \A x : Stable(x, "count")' <=> Stable(x, "count")
      /\ \A x : Stable(x, "price")' <=> Stable(x, "price")
  BY <1>0, Unwritten
<1>2. outcome' = None /\ EndInv' /\ outcome' \notin Models
  BY <1>0, NotEnded DEF Running
<1>3. StageInv'
  BY <1>0, <1>2 DEF StageInv, Running
<1>4. FilterInv'
  BY <1>0, <1>1 DEF FilterInv
<1>5. CountsInv'
  <2>1. m \in models /\ m \in DOMAIN attrs /\ attrs[m].count \in 0..MaxCount
    BY <1>0 DEF StageInv, AttrsInv, Attributes
  <2>2. /\ DOMAIN counts' = DOMAIN counts \cup {m} /\ DOMAIN counts = models \ todo
        /\ counts' \in [DOMAIN counts' -> 0..MaxCount]
    BY <1>0, <2>1 DEF CountsInv
  <2>3. \A x \in DOMAIN counts' : Stable(x, "count")' => counts'[x] = attrs'[x].count
    BY <1>0, <1>1 DEF CountsInv
  <2> QED BY <1>0, <2>1, <2>2, <2>3 DEF CountsInv
<1>6. SumInv'
  BY <1>0 DEF SumInv, Pricing
<1>7. PricesInv'
  BY <1>0, <1>1 DEF PricesInv
<1> QED BY <1>1, <1>2, <1>3, <1>4, <1>5, <1>6, <1>7

LEMMA CountsReturnKeeps ==
  ASSUME IInv, CountsReturn
  PROVE  IInv'
<1> USE DEF IInv
<1>0. /\ phase = "counts" /\ todo = {}
      /\ \/ Cardinality(models) = 1 /\ phase' = "pick" /\ todo' = todo
         \/ Cardinality(models) > 1 /\ phase' = "sum" /\ todo' = models
      /\ UNCHANGED <<attrs, changed, picker, request, models, counts, sumPrices, prices, outcome>>
  BY DEF CountsReturn
<1>1. /\ AttrsInv' /\ (\A x : Keeps(x)' <=> Keeps(x))
      /\ \A x : Stable(x, "groups")' <=> Stable(x, "groups")
      /\ \A x : Stable(x, "count")' <=> Stable(x, "count")
      /\ \A x : Stable(x, "price")' <=> Stable(x, "price")
  BY <1>0, Unwritten
<1>2. outcome' = None /\ EndInv' /\ outcome' \notin Models
  BY <1>0, NotEnded DEF Running
<1>3. StageInv'
  BY <1>0, <1>2 DEF StageInv, Running
<1>4. FilterInv'
  BY <1>0, <1>1 DEF FilterInv
<1>5. CountsInv'
  BY <1>0, <1>1 DEF CountsInv
<1>6. SumInv'
  <2>1. sumPrices' = 0 /\ Cardinality(models') = Cardinality(models)
    BY <1>0 DEF SumInv
  <2>2. CASE phase' = "pick"
    BY <1>0, <2>1, <2>2 DEF SumInv, Pricing
  <2>3. CASE phase' = "sum"
    <3>1. Summed' = {}
      BY <1>0, <2>3 DEF Summed
    <3> QED BY <1>0, <2>1, <2>3, <3>1 DEF SumInv
  <2> QED BY <1>0, <2>2, <2>3
<1>7. PricesInv'
  BY <1>0, <1>1 DEF PricesInv
<1> QED BY <1>1, <1>2, <1>3, <1>4, <1>5, <1>6, <1>7

LEMMA ReadPriceKeeps ==
  ASSUME IInv, NEW m \in Models, ReadPrice(m)
  PROVE  IInv'
<1> USE DEF IInv
<1> DEFINE p == attrs[m].price
<1>0. /\ phase = "sum" /\ m \in todo /\ todo' = todo \ {m}
      /\ \/ p # None /\ sumPrices' = sumPrices + p /\ phase' = phase /\ outcome' = outcome
         \/ p = None /\ phase' = "done" /\ outcome' = "panic" /\ sumPrices' = sumPrices
      /\ UNCHANGED <<attrs, changed, picker, request, models, counts, prices>>
  BY DEF ReadPrice, Fail
<1>1. /\ AttrsInv' /\ (\A x : Keeps(x)' <=> Keeps(x))
      /\ \A x : Stable(x, "groups")' <=> Stable(x, "groups")
      /\ \A x : Stable(x, "count")' <=> Stable(x, "count")
      /\ \A x : Stable(x, "price")' <=> Stable(x, "price")
  BY <1>0, Unwritten
<1>2. m \in models /\ m \in DOMAIN attrs /\ p \in (0..MaxPrice) \cup {None}
  BY <1>0 DEF StageInv, AttrsInv, Attributes
<1>3. "panic" \notin Models /\ outcome = None /\ None \notin Models /\ None \notin Outcomes
  BY <1>0, SelectorAssumption DEF StageInv, Running, Outcomes
<1>4. StageInv'
  BY <1>0, <1>3 DEF StageInv, Running, Outcomes
<1>5. FilterInv'
  BY <1>0, <1>1 DEF FilterInv
<1>6. CountsInv'
  BY <1>0, <1>1 DEF CountsInv
<1>7. PricesInv'
  BY <1>0, <1>1 DEF PricesInv
<1>8. Pricing /\ Summed = models \ todo /\ sumPrices \in Nat /\ Cardinality(models) > 1
  BY <1>0 DEF Pricing, Summed, SumInv
<1>9. EndInv'
  <2>1. CASE outcome' = outcome
    BY <1>0, <2>1, NotEnded DEF Running
  <2>2. CASE p = None /\ outcome' = "panic"
    BY <1>0, <1>2, <1>8, <2>2 DEF EndInv, PanicExplained
  <2> QED BY <1>0, <2>1, <2>2
<1>10. SumInv'
  <2>1. CASE phase' = "done" /\ sumPrices' = sumPrices
    BY <1>8, <2>1 DEF SumInv, Pricing
  <2>2. CASE p # None /\ sumPrices' = sumPrices + p /\ phase' = phase
    <3>1. p \in 0..MaxPrice /\ p \in Nat /\ sumPrices' \in Nat /\ sumPrices <= sumPrices' /\ p <= sumPrices'
      BY <1>2, <1>8, <2>2, SelectorAssumption
    <3>2. Summed' = Summed \cup {m} /\ m \notin Summed
      BY <1>0, <1>2, <1>8, <2>2 DEF Summed
    <3>3. \A x \in Summed : attrs[x].price \in 0..MaxPrice
      BY <1>8 DEF SumInv
    <3>4. \A x \in Summed' : attrs'[x].price \in 0..MaxPrice
      BY <1>0, <3>1, <3>2, <3>3
    <3>5. ASSUME changed' = {}, NEW x \in Summed' PROVE attrs'[x].price <= sumPrices'
      <4>1. x \in Summed => attrs[x].price <= sumPrices /\ attrs[x].price \in 0..MaxPrice
        BY <1>0, <1>8, <3>3, <3>5 DEF SumInv
      <4>2. CASE x = m
        BY <1>0, <3>1, <4>2
      <4>3. CASE x \in Summed
        BY <1>0, <1>8, <3>1, <4>1, <4>3, SelectorAssumption
      <4> QED BY <3>2, <4>2, <4>3
    <3>6. ASSUME changed' = {}, NEW y \in models', \A x \in models' \ {y} : attrs'[x].price = 0
          PROVE  sumPrices' = IF y \in Summed' THEN attrs'[y].price ELSE 0
      <4>1. /\ y \in models /\ changed = {} /\ \A x \in models \ {y} : attrs[x].price = 0
            /\ sumPrices = IF y \in Summed THEN attrs[y].price ELSE 0
        BY <1>0, <1>8, <3>6 DEF SumInv
      <4>2. CASE y = m
        <5>1. sumPrices = 0
          BY <3>2, <4>1, <4>2
        <5>2. sumPrices' = p
          BY <2>2, <3>1, <5>1
        <5> QED BY <1>0, <3>2, <4>2, <5>2
      <4>3. CASE y # m
        <5>1. p = 0 /\ sumPrices' = sumPrices
          BY <1>2, <1>8, <2>2, <4>1, <4>3
        <5>2. y \in Summed' <=> y \in Summed
          BY <3>2, <4>3
        <5> QED BY <1>0, <4>1, <5>1, <5>2
      <4> QED BY <4>2, <4>3
    <3>7. phase' = "sum" /\ Cardinality(models') > 1
      BY <1>0, <1>8, <2>2
    <3> QED BY <3>1, <3>4, <3>5, <3>6, <3>7 DEF SumInv
  <2> QED BY <1>0, <2>1, <2>2
<1> QED BY <1>1, <1>4, <1>5, <1>6, <1>7, <1>9, <1>10

LEMMA SumReturnsKeeps ==
  ASSUME IInv, SumReturns
  PROVE  IInv'
<1> USE DEF IInv
<1>0. /\ phase = "sum" /\ todo = {}
      /\ \/ sumPrices = 0 /\ phase' = "pick" /\ todo' = todo
         \/ phase' = "prices" /\ todo' = models
      /\ UNCHANGED <<attrs, changed, picker, request, models, counts, sumPrices, prices, outcome>>
  BY DEF SumReturns
<1>1. /\ AttrsInv' /\ (\A x : Keeps(x)' <=> Keeps(x))
      /\ \A x : Stable(x, "groups")' <=> Stable(x, "groups")
      /\ \A x : Stable(x, "count")' <=> Stable(x, "count")
      /\ \A x : Stable(x, "price")' <=> Stable(x, "price")
  BY <1>0, Unwritten
<1>2. outcome' = None /\ EndInv' /\ outcome' \notin Models
  BY <1>0, NotEnded DEF Running
<1>3. StageInv'
  BY <1>0, <1>2 DEF StageInv, Running
<1>4. FilterInv'
  BY <1>0, <1>1 DEF FilterInv
<1>5. CountsInv'
  BY <1>0, <1>1 DEF CountsInv
<1>6. SumInv'
  <2>1. Pricing /\ Summed = models /\ Summed' = models /\ models' = models /\ sumPrices' = sumPrices
    BY <1>0 DEF Pricing, Summed
  <2>2. sumPrices' \in Nat /\ Cardinality(models') > 1 /\ phase' \notin {"new", "filter", "counts"}
    BY <1>0 DEF SumInv
  <2> QED BY <1>0, <2>1, <2>2 DEF SumInv
<1>7. PricesInv'
  BY <1>0, <1>1 DEF PricesInv
<1> QED BY <1>1, <1>2, <1>3, <1>4, <1>5, <1>6, <1>7

LEMMA RereadPriceKeeps ==
  ASSUME IInv, NEW m \in Models, RereadPrice(m)
  PROVE  IInv'
<1> USE DEF IInv
<1>0. /\ phase = "prices" /\ m \in todo /\ todo' = todo \ {m}
      /\ prices' = [x \in DOMAIN prices \cup {m} |-> IF x = m THEN attrs[m].price ELSE prices[x]]
      /\ UNCHANGED <<attrs, changed, picker, request, phase, models, counts, sumPrices, outcome>>
  BY DEF RereadPrice
<1>1. /\ AttrsInv' /\ (\A x : Keeps(x)' <=> Keeps(x))
      /\ \A x : Stable(x, "groups")' <=> Stable(x, "groups")
      /\ \A x : Stable(x, "count")' <=> Stable(x, "count")
      /\ \A x : Stable(x, "price")' <=> Stable(x, "price")
  BY <1>0, Unwritten
<1>2. outcome' = None /\ EndInv' /\ outcome' \notin Models
  BY <1>0, NotEnded DEF Running
<1>3. StageInv'
  BY <1>0, <1>2 DEF StageInv, Running
<1>4. FilterInv'
  BY <1>0, <1>1 DEF FilterInv
<1>5. CountsInv'
  BY <1>0, <1>1 DEF CountsInv
<1>6. Pricing /\ Summed = models /\ Summed' = models
  BY <1>0 DEF Pricing, Summed
<1>7. SumInv'
  BY <1>0, <1>6 DEF SumInv
<1>8. PricesInv'
  <2>1. m \in models /\ attrs[m].price \in 0..MaxPrice
    BY <1>0, <1>6 DEF StageInv, SumInv
  <2>2. /\ DOMAIN prices' = DOMAIN prices \cup {m} /\ DOMAIN prices = models \ todo
        /\ prices' \in [DOMAIN prices' -> 0..MaxPrice]
    BY <1>0, <2>1 DEF PricesInv
  <2>3. \A x \in DOMAIN prices' : Stable(x, "price")' => prices'[x] = attrs'[x].price
    BY <1>0, <1>1 DEF PricesInv
  <2> QED BY <1>0, <2>1, <2>2, <2>3 DEF PricesInv
<1> QED BY <1>1, <1>2, <1>3, <1>4, <1>5, <1>7, <1>8

LEMMA PricesReturnKeeps ==
  ASSUME IInv, PricesReturn
  PROVE  IInv'
<1> USE DEF IInv
<1>0. /\ phase = "prices" /\ todo = {} /\ phase' = "pick"
      /\ UNCHANGED <<attrs, changed, picker, request, readVars, outcome>>
  BY DEF PricesReturn
<1>1. /\ AttrsInv' /\ (\A x : Keeps(x)' <=> Keeps(x))
      /\ \A x : Stable(x, "groups")' <=> Stable(x, "groups")
      /\ \A x : Stable(x, "count")' <=> Stable(x, "count")
      /\ \A x : Stable(x, "price")' <=> Stable(x, "price")
  BY <1>0, Unwritten
<1>2. outcome' = None /\ EndInv' /\ outcome' \notin Models
  BY <1>0, NotEnded DEF Running
<1>3. StageInv'
  BY <1>0, <1>2 DEF StageInv, Running, readVars
<1>4. FilterInv'
  BY <1>0, <1>1 DEF FilterInv, readVars
<1>5. CountsInv'
  BY <1>0, <1>1 DEF CountsInv, readVars
<1>6. Pricing /\ Summed = models /\ Summed' = models
  BY <1>0 DEF Pricing, Summed, readVars
<1>7. SumInv'
  BY <1>0, <1>6 DEF SumInv, readVars
<1>8. PricesInv'
  BY <1>0, <1>1 DEF PricesInv, readVars
<1> QED BY <1>1, <1>2, <1>3, <1>4, <1>5, <1>7, <1>8

LEMMA PickKeeps ==
  ASSUME IInv, NEW m \in Models, Pick(m)
  PROVE  IInv'
<1> USE DEF IInv
<1>0. /\ phase = "pick" /\ m \in models /\ phase' = "done" /\ outcome' = m
      /\ UNCHANGED <<attrs, changed, picker, request, readVars>>
  BY DEF Pick
<1>1. /\ AttrsInv' /\ (\A x : Keeps(x)' <=> Keeps(x))
      /\ \A x : Stable(x, "groups")' <=> Stable(x, "groups")
      /\ \A x : Stable(x, "count")' <=> Stable(x, "count")
      /\ \A x : Stable(x, "price")' <=> Stable(x, "price")
  BY <1>0, Unwritten
<1>2. StageInv'
  BY <1>0 DEF StageInv, Running, readVars
<1>3. FilterInv'
  BY <1>0, <1>1 DEF FilterInv, readVars
<1>4. CountsInv'
  BY <1>0, <1>1 DEF CountsInv, readVars
<1>5. SumInv'
  BY <1>0 DEF SumInv, Pricing, readVars
<1>6. PricesInv'
  BY <1>0, <1>1 DEF PricesInv, readVars
<1>7. EndInv'
  BY <1>0, SelectorAssumption DEF EndInv, PanicExplained, Outcomes
<1> QED BY <1>1, <1>2, <1>3, <1>4, <1>5, <1>6, <1>7

-----------------------------------------------------------------------------
LEMMA InitHolds == Init => IInv
<1> SUFFICES ASSUME Init PROVE IInv
  OBVIOUS
<1>1. PICK present \in SUBSET Models : attrs \in [present -> Attributes]
  BY DEF Init
<1>2. /\ changed = {} /\ picker \in Pickers /\ request \in Requests
      /\ phase = "new" /\ todo = {} /\ models = {} /\ sumPrices = 0 /\ outcome = None
      /\ counts = [m \in {} |-> 0] /\ prices = [m \in {} |-> 0]
  BY DEF Init
<1>3. AttrsInv
  BY <1>1, <1>2 DEF AttrsInv
<1>4. StageInv
  BY <1>2, SelectorAssumption DEF StageInv, Running
<1>5. FilterInv
  BY <1>2 DEF FilterInv
<1>6. CountsInv
  BY <1>2 DEF CountsInv
<1>7. SumInv
  BY <1>2 DEF SumInv, Pricing
<1>8. PricesInv
  BY <1>2 DEF PricesInv
<1>9. EndInv
  BY <1>2, SelectorAssumption DEF EndInv, PanicExplained, Outcomes
<1> QED BY <1>3, <1>4, <1>5, <1>6, <1>7, <1>8, <1>9 DEF IInv

LEMMA StutterKeeps ==
  ASSUME IInv, UNCHANGED vars
  PROVE  IInv'
<1> USE DEF IInv, vars, readVars
<1>1. /\ AttrsInv' /\ (\A x : Keeps(x)' <=> Keeps(x))
      /\ \A x : Stable(x, "groups")' <=> Stable(x, "groups")
      /\ \A x : Stable(x, "count")' <=> Stable(x, "count")
      /\ \A x : Stable(x, "price")' <=> Stable(x, "price")
  BY Unwritten
<1>2. StageInv'
  BY DEF StageInv
<1>3. FilterInv'
  BY <1>1 DEF FilterInv
<1>4. CountsInv'
  BY <1>1 DEF CountsInv
<1>5. SumInv'
  BY DEF SumInv, Pricing, Summed
<1>6. PricesInv'
  BY <1>1 DEF PricesInv
<1>7. EndInv'
  BY <1>1 DEF EndInv, PanicExplained
<1> QED BY <1>1, <1>2, <1>3, <1>4, <1>5, <1>6, <1>7

(* Every step keeps the inductive invariant: what each stage has read, and *)
(* what of it can still be relied on.                                      *)
THEOREM Invariance == Spec => []IInv
<1>1. IInv /\ [Next]_vars => IInv'
  <2> SUFFICES ASSUME IInv, [Next]_vars PROVE IInv'
    OBVIOUS
  <2>1. CASE Writes
    BY <2>1, WritesKeeps
  <2>2. CASE GetModels
    BY <2>2, GetModelsKeeps
  <2>3. CASE FilterReturns
    BY <2>3, FilterReturnsKeeps
  <2>4. CASE CountsReturn
    BY <2>4, CountsReturnKeeps
  <2>5. CASE SumReturns
    BY <2>5, SumReturnsKeeps
  <2>6. CASE PricesReturn
    BY <2>6, PricesReturnKeeps
  <2>7. ASSUME NEW m \in Models, FilterModel(m) PROVE IInv'
    BY <2>7, FilterModelKeeps
  <2>8. ASSUME NEW m \in Models, ReadCount(m) PROVE IInv'
    BY <2>8, ReadCountKeeps
  <2>9. ASSUME NEW m \in Models, ReadPrice(m) PROVE IInv'
    BY <2>9, ReadPriceKeeps
  <2>10. ASSUME NEW m \in Models, RereadPrice(m) PROVE IInv'
    BY <2>10, RereadPriceKeeps
  <2>11. ASSUME NEW m \in Models, Pick(m) PROVE IInv'
    BY <2>11, PickKeeps
  <2>12. CASE UNCHANGED vars
    BY <2>12, StutterKeeps
  <2> QED BY <2>1, <2>2, <2>3, <2>4, <2>5, <2>6, <2>7, <2>8, <2>9, <2>10, <2>11, <2>12 DEF Next
<1> QED BY <1>1, InitHolds, PTL DEF Spec

(* The candidates, the stages and what the scorers read keep their types.  *)
THEOREM TypeCorrect == Spec => []TypeOK
<1>1. IInv => TypeOK
  BY DEF IInv, AttrsInv, StageInv, Running, CountsInv, SumInv, PricesInv, TypeOK
<1> QED BY <1>1, Invariance, PTL

-----------------------------------------------------------------------------
LEMMA KeepsMeans ==
  ASSUME AttrsInv, NEW m \in DOMAIN attrs
  PROVE  Keeps(m) <=> m \in Requested
<1>1. request \in Requests /\ attrs[m].groups \subseteq Groups
  BY DEF AttrsInv, Attributes
<1>2. CASE request \in [kind : {"auto", "malformed"}]
  BY <1>2 DEF Keeps, Requested
<1>3. CASE request \in [kind : {"group"}, group : Groups]
  BY <1>1, <1>3 DEF Keeps, Requested
<1>4. CASE request \in [kind : {"name"}, name : Models]
  BY <1>4 DEF Keeps, Requested
<1> QED BY <1>1, <1>2, <1>3, <1>4 DEF Requests

(* For any models, groups and writes during the selection: the selected    *)
(* model is one that the request asks for, and a request is turned away    *)
(* only if none is - among models whose groups did not change meanwhile.   *)
THEOREM RequestsHonoured == Spec => []RequestHonoured
<1>1. IInv => RequestHonoured
  <2> SUFFICES ASSUME IInv, phase = "done"
               PROVE  /\ Selected /\ Stable(outcome, "groups") => outcome \in Requested
                      /\ outcome = "ResourceExhausted" => \A m \in Requested : ~Stable(m, "groups")
    BY DEF RequestHonoured
  <2>0. /\ \A m \in DOMAIN attrs : Stable(m, "groups") => (m \in models <=> Keeps(m))
        /\ \A m \in DOMAIN attrs : Keeps(m) <=> m \in Requested
        /\ models \subseteq DOMAIN attrs
    BY KeepsMeans DEF IInv, FilterInv, StageInv
  <2>1. ASSUME Selected, Stable(outcome, "groups") PROVE outcome \in Requested
    <3>1. outcome \in models
      BY <2>1 DEF IInv, StageInv, Selected
    <3> QED BY <2>0, <2>1, <3>1
  <2>2. ASSUME outcome = "ResourceExhausted", NEW m \in Requested PROVE ~Stable(m, "groups")
    <3>1. models = {} /\ m \in DOMAIN attrs
      BY <2>2 DEF IInv, EndInv, Requested
    <3> QED BY <2>0, <3>1
  <2> QED BY <2>1, <2>2
<1> QED BY <1>1, Invariance, PTL

-----------------------------------------------------------------------------
(* The scores at the end of the scorers: fractions between 0 and 1.        *)
LEMMA InflightFraction ==
  ASSUME IInv, phase = "pick"
  PROVE  \E most \in Nat, d \in Nat \ {0} :
           /\ \A m \in models : counts[m] \in Nat /\ counts[m] <= most
           /\ \/ /\ \A m \in models : InflightScore(m) = <<1, 1>>
                 /\ \A m, x \in models : counts[m] = counts[x]
              \/ /\ \A m \in models : /\ InflightScore(m) = <<most - counts[m], d>>
                                      /\ most - counts[m] <= d
                 /\ \E m \in models : counts[m] = most
                 /\ \E m \in models : most - counts[m] = d
<1> DEFINE S == {counts[x] : x \in models}
           most == Max(S)
           least == Min(S)
<1>1. models # {} /\ \A x \in models : counts[x] \in 0..MaxCount
  BY DEF IInv, StageInv, CountsInv
<1>2. MaxCount \in Nat /\ S \subseteq 0..MaxCount /\ S # {}
  BY <1>1, SelectorAssumption
<1>3. /\ \A m \in models : InflightScore(m) =
            IF most = least THEN <<1, 1>> ELSE <<most - counts[m], most - least>>
  BY DEF InflightScore
<1> HIDE DEF S
<1>4. /\ least \in S /\ \A y \in S : least <= y
      /\ most \in S /\ \A y \in S : y <= most
  BY <1>2, MinMax
<1> HIDE DEF most, least
<1>5. /\ most \in Nat /\ least \in Nat /\ least <= most
      /\ \A m \in models : counts[m] \in Nat /\ counts[m] <= most /\ least <= counts[m]
  BY <1>1, <1>2, <1>4 DEF S
<1>6. CASE most = least
  <2>1. \A m, x \in models : counts[m] = counts[x]
    BY <1>5, <1>6
  <2>2. 1 \in Nat \ {0}
    OBVIOUS
  <2> QED BY <1>3, <1>5, <1>6, <2>1, <2>2
<1>7. CASE most # least
  <2>1. most - least \in Nat \ {0}
    BY <1>5, <1>7
  <2>2. \E m \in models : counts[m] = most
    BY <1>4 DEF S
  <2>3. \E m \in models : most - counts[m] = most - least
    BY <1>4 DEF S
  <2>4. \A m \in models : most - counts[m] <= most - least
    BY <1>5
  <2> QED BY <1>3, <1>5, <1>7, <2>1, <2>2, <2>3, <2>4
<1> QED BY <1>6, <1>7

LEMMA CostFraction ==
  ASSUME IInv, phase = "pick"
  PROVE  \E d \in Nat \ {0} : \A m \in models :
           \E c \in Int : CostScore(m) = <<c, d>>
<1>1. CASE Cardinality(models) = 1
  <2>1. 1 \in Int /\ 2 \in Nat \ {0}
    OBVIOUS
  <2>2. \A m \in models : CostScore(m) = <<1, 2>>
    BY <1>1 DEF CostScore
  <2> QED BY <2>1, <2>2
<1>2. CASE Cardinality(models) # 1 /\ sumPrices = 0
  <2>1. 1 \in Int /\ 1 \in Nat \ {0}
    OBVIOUS
  <2>2. \A m \in models : CostScore(m) = <<1, 1>>
    BY <1>2 DEF CostScore
  <2> QED BY <2>1, <2>2
<1>3. CASE Cardinality(models) # 1 /\ sumPrices # 0
  <2>1. sumPrices \in Nat \ {0} /\ DOMAIN prices = models /\ prices \in [models -> 0..MaxPrice]
    BY <1>3 DEF IInv, SumInv, PricesInv
  <2>2. \A m \in models : CostScore(m) = <<sumPrices - prices[m], sumPrices>>
    BY <1>3 DEF CostScore
  <2>3. \A m \in models : sumPrices - prices[m] \in Int
    BY <2>1, SelectorAssumption
  <2> QED BY <2>1, <2>2, <2>3
<1> QED BY <1>1, <1>2, <1>3

(* For any models, prices and weights, and however prices change between   *)
(* the two reads: every score stays between 0 and the sum of the weights,  *)
(* and a selection panics only over a candidate without a price, and only  *)
(* when there is another candidate.                                        *)
THEOREM ScoresSound == Spec => []ScoringSound
<1>1. ASSUME IInv, phase = "pick", NEW m \in models
      PROVE  /\ Leq(<<Below(InflightWeight) + Below(CostWeight), 1>>, Score(m))
             /\ Leq(Score(m), <<Above(InflightWeight) + Above(CostWeight), 1>>)
  <2> DEFINE i == enforceScoreRange(InflightScore(m))
             c == enforceScoreRange(CostScore(m))
             n == InflightWeight * i[1] * c[2] + CostWeight * c[1] * i[2]
             d == i[2] * c[2]
  <2>1. \E a \in Int, b \in Nat \ {0} : InflightScore(m) = <<a, b>>
    <3>1. PICK most \in Nat, b \in Nat \ {0} :
            /\ counts[m] \in Nat
            /\ InflightScore(m) = <<1, 1>> \/ InflightScore(m) = <<most - counts[m], b>>
      BY <1>1, InflightFraction
    <3>2. most - counts[m] \in Int /\ 1 \in Int /\ 1 \in Nat \ {0}
      BY <3>1
    <3> QED BY <3>1, <3>2
  <2>2. \E a \in Int, b \in Nat \ {0} : CostScore(m) = <<a, b>>
    BY <1>1, CostFraction
  <2>3. i[1] \in Nat /\ i[2] \in Nat \ {0} /\ i[1] <= i[2]
    BY <2>1, Clamped
  <2>4. c[1] \in Nat /\ c[2] \in Nat \ {0} /\ c[1] <= c[2]
    BY <2>2, Clamped
  <2>5. Score(m) = <<n, d>>
    BY DEF Score
  <2> HIDE DEF i, c
  <2>6. /\ n \in Int /\ d \in Nat \ {0}
        /\ (Below(InflightWeight) + Below(CostWeight)) * d <= n
        /\ n <= (Above(InflightWeight) + Above(CostWeight)) * d
    BY <2>3, <2>4, WeightedSum, SelectorAssumption
  <2> HIDE DEF n, d
  <2>7. /\ Below(InflightWeight) + Below(CostWeight) \in Int
        /\ Above(InflightWeight) + Above(CostWeight) \in Int
    BY SelectorAssumption DEF Below, Above
  <2> QED BY <2>5, <2>6, <2>7 DEF Leq
<1>2. IInv => ScoringSound
  BY <1>1 DEF ScoringSound, IInv, EndInv, PanicExplained
<1> QED BY <1>2, Invariance, PTL
-----------------------------------------------------------------------------
(* What the scores come to while nothing is written: f is the in-flight    *)
(* part and g the cost part, over the common denominators d and e.         *)
InflightPart(f, d) ==
    /\ f \in [models -> 0..d]
    /\ \A m \in models : enforceScoreRange(InflightScore(m)) = <<f[m], d>>
    /\ \A m, x \in models : /\ attrs[x].count <= attrs[m].count => f[m] <= f[x]
                            /\ attrs[x].count < attrs[m].count => f[m] < f[x]
    /\ \E x \in models : f[x] = d
    /\ \A m \in models : (\A x \in models : attrs[x].count <= attrs[m].count) =>
                            f[m] = 0 \/ \A x \in models : attrs[x].count = attrs[m].count

CostPart(g, e) ==
    /\ g \in [models -> 0..e]
    /\ \A m \in models : enforceScoreRange(CostScore(m)) = <<g[m], e>>
    /\ \A m, x \in models : /\ attrs[x].price <= attrs[m].price => g[m] <= g[x]
                            /\ attrs[x].price < attrs[m].price => g[m] < g[x]
    /\ \A m \in models :
        attrs[m].price > 0 /\ (\A x \in models \ {m} : attrs[x].price = 0) =>
            g[m] = 0 /\ \A x \in models \ {m} : g[x] = e

LEMMA InflightParts ==
  ASSUME IInv, phase = "pick", changed = {}
  PROVE  \E d \in Nat \ {0} : \E f : InflightPart(f, d)
<1>1. \A m \in models : counts[m] = attrs[m].count
  BY DEF IInv, CountsInv, Stable
<1>2. PICK most \in Nat, d \in Nat \ {0} :
        /\ \A m \in models : counts[m] \in Nat /\ counts[m] <= most
        /\ \/ /\ \A m \in models : InflightScore(m) = <<1, 1>>
              /\ \A m, x \in models : counts[m] = counts[x]
           \/ /\ \A m \in models : /\ InflightScore(m) = <<most - counts[m], d>>
                                   /\ most - counts[m] <= d
              /\ \E m \in models : counts[m] = most
              /\ \E m \in models : most - counts[m] = d
  BY InflightFraction
<1>3. models # {}
  BY DEF IInv, StageInv
<1>4. CASE /\ \A m \in models : InflightScore(m) = <<1, 1>>
           /\ \A m, x \in models : counts[m] = counts[x]
  <2> DEFINE f == [m \in models |-> 1]
  <2>1. 1 \in Nat \ {0} /\ 1 \in 0..1 /\ f \in [models -> 0..1]
    OBVIOUS
  <2>2. \A m \in models : enforceScoreRange(InflightScore(m)) = <<f[m], 1>>
    BY <1>4, <2>1, Clamped
  <2>3. \A m, x \in models : attrs[m].count = attrs[x].count /\ attrs[x].count \in Nat /\ f[m] = f[x] /\ f[x] \in Nat
    BY <1>1, <1>2, <1>4
  <2>4. \E x \in models : f[x] = 1
    BY <1>3
  <2> HIDE DEF f
  <2>5. \A m, x \in models : /\ attrs[x].count <= attrs[m].count => f[m] <= f[x]
                             /\ attrs[x].count < attrs[m].count => f[m] < f[x]
    BY <2>3
  <2>6. InflightPart(f, 1)
    BY <2>1, <2>2, <2>3, <2>4, <2>5 DEF InflightPart
  <2> QED BY <2>1, <2>6
<1>5. CASE /\ \A m \in models : /\ InflightScore(m) = <<most - counts[m], d>>
                                /\ most - counts[m] <= d
           /\ \E m \in models : counts[m] = most
           /\ \E m \in models : most - counts[m] = d
  <2> DEFINE f == [m \in models |-> most - counts[m]]
  <2>1. \A m \in models : most - counts[m] \in 0..d
    BY <1>2, <1>5
  <2>2. f \in [models -> 0..d]
    BY <2>1
  <2>3. \A m \in models : enforceScoreRange(InflightScore(m)) = <<f[m], d>>
    BY <1>5, <2>1, Clamped
  <2>4. \A m \in models : f[m] = most - attrs[m].count /\ attrs[m].count \in Nat /\ attrs[m].count <= most
    BY <1>1, <1>2
  <2>5. \E x \in models : f[x] = d
    BY <1>5
  <2>6. \E x \in models : attrs[x].count = most
    BY <1>1, <1>5
  <2> HIDE DEF f
  <2>7. \A m, x \in models : /\ attrs[x].count <= attrs[m].count => f[m] <= f[x]
                             /\ attrs[x].count < attrs[m].count => f[m] < f[x]
    BY <2>4
  <2>8. \A m \in models : (\A x \in models : attrs[x].count <= attrs[m].count) => f[m] = 0
    BY <2>4, <2>6
  <2>9. InflightPart(f, d)
    BY <2>2, <2>3, <2>5, <2>7, <2>8 DEF InflightPart
  <2> QED BY <2>9
<1> QED BY <1>2, <1>4, <1>5

LEMMA CostParts ==
  ASSUME IInv, phase = "pick", changed = {}, Cardinality(models) # 1
  PROVE  \E e \in Nat \ {0} : \E g : CostPart(g, e)
<1>0. sumPrices \in Nat /\ MaxPrice \in Nat
  BY SelectorAssumption DEF IInv, SumInv
<1>1. \A m \in models : attrs[m].price \in 0..MaxPrice /\ attrs[m].price <= sumPrices
  BY DEF IInv, SumInv, Pricing, Summed
<1>2. \A m \in models : (\A x \in models \ {m} : attrs[x].price = 0) => sumPrices = attrs[m].price
  BY DEF IInv, SumInv, Pricing, Summed
<1>3. CASE sumPrices = 0
  <2> DEFINE g == [m \in models |-> 1]
  <2>1. 1 \in Nat \ {0} /\ 1 \in 0..1 /\ g \in [models -> 0..1]
    OBVIOUS
  <2>2. \A m \in models : CostScore(m) = <<1, 1>>
    BY <1>3 DEF CostScore
  <2>3. \A m \in models : enforceScoreRange(CostScore(m)) = <<g[m], 1>>
    BY <2>1, <2>2, Clamped
  <2>4. \A m \in models : attrs[m].price = 0 /\ g[m] = 1
    BY <1>0, <1>1, <1>3
  <2> HIDE DEF g
  <2>5. \A m, x \in models : /\ attrs[x].price <= attrs[m].price => g[m] <= g[x]
                             /\ attrs[x].price < attrs[m].price => g[m] < g[x]
    BY <2>4
  <2>6. \A m \in models : ~(attrs[m].price > 0)
    BY <2>4
  <2>7. CostPart(g, 1)
    BY <2>1, <2>3, <2>5, <2>6 DEF CostPart
  <2> QED BY <2>1, <2>7
<1>4. CASE sumPrices # 0
  <2> DEFINE g == [m \in models |-> sumPrices - attrs[m].price]
  <2>1. \A m \in models : sumPrices - attrs[m].price \in 0..sumPrices
    BY <1>0, <1>1
  <2>2. g \in [models -> 0..sumPrices]
    BY <2>1
  <2>3. \A m \in models : prices[m] = attrs[m].price
    BY <1>4 DEF IInv, PricesInv, Stable
  <2>4. \A m \in models : CostScore(m) = <<sumPrices - attrs[m].price, sumPrices>>
    BY <1>4, <2>3 DEF CostScore
  <2>5. sumPrices \in Nat \ {0}
    BY <1>0, <1>4
  <2>6. \A m \in models : enforceScoreRange(CostScore(m)) = <<g[m], sumPrices>>
    BY <2>1, <2>4, <2>5, Clamped
  <2>7. \A m \in models : g[m] = sumPrices - attrs[m].price /\ attrs[m].price \in Nat
    BY <1>1
  <2> HIDE DEF g
  <2>8. \A m, x \in models : /\ attrs[x].price <= attrs[m].price => g[m] <= g[x]
                             /\ attrs[x].price < attrs[m].price => g[m] < g[x]
    BY <1>0, <1>1, <2>7
  <2>9. ASSUME NEW m \in models, \A x \in models \ {m} : attrs[x].price = 0
        PROVE  g[m] = 0 /\ \A x \in models \ {m} : g[x] = sumPrices
    BY <1>0, <1>2, <2>7, <2>9
  <2>10. CostPart(g, sumPrices)
    BY <2>2, <2>6, <2>8, <2>9 DEF CostPart
  <2> QED BY <2>5, <2>10
<1> QED BY <1>3, <1>4

LEMMA ScoreParts ==
  ASSUME NEW d \in Nat \ {0}, NEW e \in Nat \ {0}, NEW f, NEW g,
         InflightPart(f, d), CostPart(g, e), NEW m \in models
  PROVE  /\ Score(m) = <<InflightWeight * f[m] * e + CostWeight * g[m] * d, d * e>>
         /\ f[m] \in Nat /\ g[m] \in Nat
<1>1. enforceScoreRange(InflightScore(m)) = <<f[m], d>> /\ f[m] \in 0..d
  BY DEF InflightPart
<1>2. enforceScoreRange(CostScore(m)) = <<g[m], e>> /\ g[m] \in 0..e
  BY DEF CostPart
<1> QED BY <1>1, <1>2 DEF Score

(* A result is a pick: no other step, once it is there, touches it or what *)
(* it was computed from.                                                   *)
LEMMA SelectedByPick ==
  ASSUME IInv, [Next]_vars, outcome' \in Models
  PROVE  UNCHANGED vars \/ \E m \in Models : Pick(m) /\ outcome' = m
<1>0. None \notin Models /\ Models \cap Outcomes = {} /\ Outcomes = {"no candidates", "ResourceExhausted", "panic"}
  BY SelectorAssumption DEF Outcomes
<1>1. phase \in Running => outcome \notin Models
  BY <1>0 DEF IInv, StageInv
<1>2. ~Writes
  BY <1>1 DEF Writes, Write, IInv, StageInv, Running
<1>3. ~GetModels /\ ~FilterReturns
  BY <1>0, <1>1 DEF GetModels, FilterReturns, Fail, Running
<1>4. ~CountsReturn /\ ~SumReturns /\ ~PricesReturn
  BY <1>1 DEF CountsReturn, SumReturns, PricesReturn, Running
<1>5. \A m \in Models : ~FilterModel(m) /\ ~ReadCount(m) /\ ~RereadPrice(m)
  BY <1>1 DEF FilterModel, ReadCount, RereadPrice, Running
<1>6. \A m \in Models : ~ReadPrice(m)
  BY <1>0, <1>1 DEF ReadPrice, Fail, Running
<1>7. \A m \in Models : Pick(m) => outcome' = m
  BY DEF Pick
<1> QED BY <1>2, <1>3, <1>4, <1>5, <1>6, <1>7 DEF Next

(* For any models, prices and counts, and any positive weights: the        *)
(* max-score picker never selects a candidate that another one beats on    *)
(* one score and does not lose to on the other.                            *)
THEOREM BestIsPicked == Spec => []DominatedNotPicked
<1>1. Init => DominatedNotPicked
  BY SelectorAssumption DEF Init, DominatedNotPicked, Selected
<1>2. ASSUME IInv, NEW m \in Models, Pick(m), picker = "max", changed = {},
             InflightWeight > 0, CostWeight > 0,
             NEW x \in models \ {m}, Dominates(x, m)
      PROVE  FALSE
  <2>0. InflightWeight \in Nat \ {0} /\ CostWeight \in Nat \ {0}
    BY <1>2, SelectorAssumption
  <2>1. phase = "pick" /\ m \in models /\ MaxScorePick(m)
    BY <1>2 DEF Pick
  <2>2. Cardinality(models) # 1
    <3>1. IsFiniteSet(models)
      BY <1>2, SelectorAssumption, FS_Subset DEF IInv, StageInv, AttrsInv
    <3> QED BY <2>1, <3>1, FS_Singleton
  <2>d. PICK d \in Nat \ {0} : \E f : InflightPart(f, d)
    BY <1>2, <2>1, InflightParts
  <2>3. PICK f : InflightPart(f, d)
    BY <2>d
  <2>e. PICK e \in Nat \ {0} : \E g : CostPart(g, e)
    BY <1>2, <2>1, <2>2, CostParts
  <2>4. PICK g : CostPart(g, e)
    BY <2>e
  <2>5. f[m] <= f[x] /\ g[m] <= g[x] /\ (f[m] < f[x] \/ g[m] < g[x])
    BY <1>2, <2>1, <2>3, <2>4 DEF InflightPart, CostPart, Dominates
  <2>6. /\ Score(m) = <<InflightWeight * f[m] * e + CostWeight * g[m] * d, d * e>>
        /\ Score(x) = <<InflightWeight * f[x] * e + CostWeight * g[x] * d, d * e>>
        /\ f[m] \in Nat /\ g[m] \in Nat /\ f[x] \in Nat /\ g[x] \in Nat
    <3>1. m \in models /\ x \in models
      BY <2>1
    <3>2. \A y \in models :
            /\ Score(y) = <<InflightWeight * f[y] * e + CostWeight * g[y] * d, d * e>>
            /\ f[y] \in Nat /\ g[y] \in Nat
      BY <2>3, <2>4, ScoreParts
    <3> QED BY <3>1, <3>2
  <2>7. ~Leq(Score(x), Score(m))
    <3> DEFINE i == f[x]
               j == f[m]
               b == g[x]
               c == g[m]
    <3>1. i \in Nat /\ j \in Nat /\ b \in Nat /\ c \in Nat
      BY <2>6
    <3>2. j <= i /\ c <= b /\ (j < i \/ c < b)
      BY <2>5
    <3>3. /\ Score(m) = <<InflightWeight * j * e + CostWeight * c * d, d * e>>
          /\ Score(x) = <<InflightWeight * i * e + CostWeight * b * d, d * e>>
      BY <2>6
    <3> HIDE DEF i, j, b, c
    <3>4. ~Leq(<<InflightWeight * i * e + CostWeight * b * d, d * e>>,
               <<InflightWeight * j * e + CostWeight * c * d, d * e>>)
      BY <2>0, <3>1, <3>2, BetterScore, Zenon
    <3> QED BY <3>3, <3>4, Zenon
  <2> QED BY <2>1, <2>7 DEF MaxScorePick
<1>3. ASSUME IInv, DominatedNotPicked, [Next]_vars PROVE DominatedNotPicked'
  <2>1. SUFFICES ASSUME outcome' \in Models, (picker = "max")', (changed = {})',
                        InflightWeight > 0, CostWeight > 0,
                        NEW x \in (models \ {outcome})', Dominates(x, outcome)'
                 PROVE  FALSE
    BY DEF DominatedNotPicked, Selected
  <2>2. CASE UNCHANGED vars
    BY <1>3, <2>1, <2>2 DEF DominatedNotPicked, Selected, Dominates, vars, readVars
  <2>3. CASE \E m \in Models : Pick(m) /\ outcome' = m
    <3>1. PICK m \in Models : Pick(m) /\ outcome' = m
      BY <2>3
    <3>2. UNCHANGED <<attrs, changed, picker, models>>
      BY <3>1 DEF Pick, readVars
    <3>3. Dominates(x, m)
      BY <2>1, <3>1, <3>2 DEF Dominates
    <3> QED BY <1>2, <1>3, <2>1, <3>1, <3>2, <3>3
  <2> QED BY <1>3, <2>1, <2>2, <2>3, SelectedByPick
<1> QED BY <1>1, <1>3, Invariance, PTL DEF Spec

(* For any models, prices and counts, and weights of any sign: the         *)
(* weighted picker never selects the busiest candidate that alone costs    *)
(* something, while the total score of the best one is large enough not to *)
(* underflow.                                                              *)
THEOREM ZeroIsNotPicked == Spec => []HopelessNotPicked
<1>0. InflightWeight \in Int /\ CostWeight \in Int /\ Underflow \in Nat \ {0}
  BY SelectorAssumption
<1>1. Init => HopelessNotPicked
  BY SelectorAssumption DEF Init, HopelessNotPicked, Selected
<1>2. ASSUME IInv, NEW m \in Models, Pick(m), picker = "weighted", changed = {},
             Cardinality(models) > 1, InflightWeight + CostWeight >= Underflow, Hopeless(m)
      PROVE  FALSE
  <2>1. phase = "pick" /\ m \in models /\ WeightedPick(m)
    BY <1>2 DEF Pick
  <2>2. Cardinality(models) # 1
    <3> DEFINE n == Cardinality(models)
    <3>1. n > 1
      BY <1>2
    <3> HIDE DEF n
    <3>2. n # 1
      BY <3>1
    <3> QED BY <3>2 DEF n
  <2>d. PICK d \in Nat \ {0} : \E f : InflightPart(f, d)
    BY <1>2, <2>1, InflightParts
  <2>3. PICK f : InflightPart(f, d)
    BY <2>d
  <2>e. PICK e \in Nat \ {0} : \E g : CostPart(g, e)
    BY <1>2, <2>1, <2>2, CostParts
  <2>4. PICK g : CostPart(g, e)
    BY <2>e
  <2>5. \A y \in models : attrs[y].count \in Nat /\ attrs[y].price \in Nat
    <3>1. \A y \in models : attrs[y] \in Attributes
      BY <1>2 DEF IInv, AttrsInv, StageInv
    <3>2. \A y \in models : attrs[y].price \in 0..MaxPrice
      BY <1>2, <2>1, <2>2 DEF IInv, SumInv, Pricing, Summed
    <3> QED BY <3>1, <3>2, SelectorAssumption DEF Attributes
  <2>6. f[m] = 0
    <3>1. \E y \in models : attrs[y].count # attrs[m].count
      BY <1>2, <2>1, <2>5 DEF Hopeless
    <3>2. \A y \in models : attrs[y].count <= attrs[m].count
      BY <1>2 DEF Hopeless
    <3> QED BY <2>1, <2>3, <3>1, <3>2 DEF InflightPart
  <2>7. PICK x \in models : f[x] = d
    BY <2>3 DEF InflightPart
  <2>8. x # m
    BY <2>6, <2>7
  <2>9. g[m] = 0 /\ g[x] = e
    <3>1. attrs[m].price > 0
      BY <1>2, <2>1 DEF Hopeless
    <3>2. \A y \in models \ {m} : attrs[y].price = 0
      <4>1. \A y \in models \ {m} : ~(attrs[y].price > 0)
        BY <1>2 DEF Hopeless
      <4> QED BY <2>5, <4>1
    <3> QED BY <2>1, <2>4, <2>8, <3>1, <3>2 DEF CostPart
  <2>10. Score(m) = <<InflightWeight * 0 * e + CostWeight * 0 * d, d * e>>
    <3>1. enforceScoreRange(InflightScore(m)) = <<0, d>>
      BY <2>1, <2>3, <2>6 DEF InflightPart
    <3>2. enforceScoreRange(CostScore(m)) = <<0, e>>
      BY <2>1, <2>4, <2>9 DEF CostPart
    <3> QED BY <3>1, <3>2 DEF Score
  <2>11. ~Positive(Score(m))
    <3>1. InflightWeight * 0 * e + CostWeight * 0 * d = 0
      BY <1>0
    <3> QED BY <2>10, <3>1 DEF Positive
  <2>12. Score(x) = <<InflightWeight * d * e + CostWeight * e * d, d * e>>
    <3>1. enforceScoreRange(InflightScore(x)) = <<d, d>>
      BY <2>3, <2>7 DEF InflightPart
    <3>2. enforceScoreRange(CostScore(x)) = <<e, e>>
      BY <2>4, <2>9 DEF CostPart
    <3> QED BY <3>1, <3>2 DEF Score
  <2> DEFINE k == d * e
             w == InflightWeight + CostWeight
  <2>13. k \in Nat /\ k > 0 /\ w \in Nat /\ w > 0 /\ Underflow <= w
    BY <1>0, <1>2, Scale
  <2>14. InflightWeight * d * e + CostWeight * e * d = w * k
    <3>1. InflightWeight * d * e = InflightWeight * (d * e) /\ CostWeight * e * d = CostWeight * (d * e)
      BY <1>0
    <3>2. InflightWeight * k + CostWeight * k = w * k
      BY <1>0, <2>13
    <3> QED BY <3>1, <3>2
  <2>15. Score(x) = <<w * k, k>>
    BY <2>12, <2>14
  <2> HIDE DEF k, w
  <2>16. w * k \in Nat /\ w * k > 0 /\ Underflow * k <= w * k
    BY <1>0, <2>13, Scale
  <2>17. Positive(Score(x)) /\ Leq(<<Underflow, 1>>, Score(x))
    BY <2>15, <2>16 DEF Positive, Leq
  <2> QED BY <2>1, <2>7, <2>11, <2>17 DEF WeightedPick
<1>3. ASSUME IInv, HopelessNotPicked, [Next]_vars PROVE HopelessNotPicked'
  <2>1. SUFFICES ASSUME outcome' \in Models, (picker = "weighted")', (changed = {})',
                        (Cardinality(models) > 1)', InflightWeight + CostWeight >= Underflow,
                        Hopeless(outcome)'
                 PROVE  FALSE
    BY DEF HopelessNotPicked, Selected
  <2>2. CASE UNCHANGED vars
    BY <1>3, <2>1, <2>2 DEF HopelessNotPicked, Selected, Hopeless, vars, readVars
  <2>3. CASE \E m \in Models : Pick(m) /\ outcome' = m
    <3>1. PICK m \in Models : Pick(m) /\ outcome' = m
      BY <2>3
    <3>2. UNCHANGED <<attrs, changed, picker, models>>
      BY <3>1 DEF Pick, readVars
    <3>3. Hopeless(m)
      BY <2>1, <3>1, <3>2 DEF Hopeless
    <3> QED BY <1>2, <1>3, <2>1, <3>1, <3>2, <3>3
  <2> QED BY <1>3, <2>1, <2>2, <2>3, SelectedByPick
<1> QED BY <1>1, <1>3, Invariance, PTL DEF Spec
=============================================================================
