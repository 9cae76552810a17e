------------------------------ MODULE CostDigest ------------------------------
(***************************************************************************)
(* What requests really cost: the RequestCostMetadataExtractor, called by  *)
(* the event loop with one event at a time, adds the cost of each response *)
(* to its model's digest, starts the digest anew at each window boundary   *)
(* and publishes snapshots of it; the CostGuard scorer, called by many     *)
(* streams, ranks models by the snapshots.                                 *)
(*                                                                         *)
(* A digest is the sequence of its samples.  (A t-digest compresses them;  *)
(* what the library computes from them is exact here.)                     *)
(***************************************************************************)
EXTENDS Integers, Sequences, FiniteSets, ResponsePayload

CONSTANTS
    Models,             \* model names
    Prices,             \* [input : Nat, output : Nat]: price per token
    Responses,          \* what a response says: a JSON body, a stream of lines, or neither
    windowDuration,     \* length of an epoch, 0: for ever
    flushInterval,      \* least time between two snapshots
    sampleThreshold,    \* samples that make a model explored
    Alpha, Whole,       \* the body is the cheapest Alpha / Whole of the samples
    Lambda,             \* weight of the tail
    MaxClock,           \* bound: time
    MaxSamples          \* bound: samples of two models together

(* What a response says it took; a sample of what it cost; what the        *)
(* extractor keeps of a model, and the datastore.                          *)
TokenCounts(r) == extractTokenCounts(EventBody(r))
Sample == [cost : Nat, at : 0..MaxClock]
Accumulators == [digest : Seq(Sample), lastFlush : 0..MaxClock, lastWindowStart : 0..MaxClock]
Registered == [prices : Prices \cup {None}, digest : Seq(Sample) \cup {None}]

ASSUME CostAssumption ==
    /\ IsFiniteSet(Models) /\ None \notin Models \cup Accumulators \cup Registered
    /\ Prices \subseteq [input : Nat, output : Nat]
    /\ \A r \in Responses : r.kind = "sse" => \A i \in DOMAIN r.lines : IsLine(r.lines[i])
    /\ \A r \in Responses : TokenCounts(r) \in (Nat \X Nat) \cup {None}
    /\ windowDuration \in Nat /\ flushInterval \in Nat
    /\ Whole \in Nat /\ Alpha \in 1..(Whole - 1) /\ Lambda \in Nat
    /\ sampleThreshold \in Nat /\ sampleThreshold > 0
    /\ MaxClock \in Nat /\ MaxSamples \in Nat

VARIABLES
    clock,      \* time
    store,      \* [Models -> prices and snapshot of a registered model, or None]
    state,      \* [Models -> accumulator or None]: e.state
    log,        \* [Models -> Seq(samples)]: all samples ever taken
    digests,    \* [candidates -> snapshot or None]: what a call of Score has read
    unread,     \* candidates it still has to read
    scores      \* what it returned, by candidate

extractVars == <<store, state, log>>
scoreVars == <<digests, unread, scores>>
vars == <<clock, extractVars, scoreVars>>

NoModels == [m \in {} |-> None]
NewModel == [prices |-> None, digest |-> None]

Init ==
    /\ clock = 0
    /\ store = [m \in Models |-> None] /\ state = [m \in Models |-> None]
    /\ log = [m \in Models |-> <<>>]
    /\ digests = NoModels /\ unread = {} /\ scores = NoModels

Tick ==
    /\ clock < MaxClock
    /\ clock' = clock + 1
    /\ UNCHANGED <<extractVars, scoreVars>>

-----------------------------------------------------------------------------
(* The model-config datasource prices a model, or removes it.  (A model    *)
(* that Score still has to read is not removed before: Score holds it, and *)
(* would read what it had when it was removed.)                            *)
PriceModel(m, p) ==
    /\ store' = [store EXCEPT ![m] = IF @ = None THEN [NewModel EXCEPT !.prices = p]
                                                 ELSE [@ EXCEPT !.prices = p]]
    /\ UNCHANGED <<clock, state, log, scoreVars>>

RemoveModel(m) ==
    /\ store[m] # None /\ m \notin unread
    /\ store' = [store EXCEPT ![m] = None]
    /\ UNCHANGED <<clock, state, log, scoreVars>>

-----------------------------------------------------------------------------
getOrCreateAccumulator(m) ==
    IF state[m] # None THEN state[m]
    ELSE [digest |-> <<>>, lastFlush |-> clock, lastWindowStart |-> clock]

(* Faulty: the start of the window is not moved.                           *)
EnterWindowForgets(acc) ==
    IF windowDuration > 0 /\ clock - acc.lastWindowStart >= windowDuration
    THEN [acc EXCEPT !.digest = <<>>] ELSE acc

(* A new epoch begins once the old one is windowDuration old.              *)
EnterWindow(acc) ==
    IF windowDuration > 0 /\ clock - acc.lastWindowStart >= windowDuration
    THEN [acc EXCEPT !.digest = <<>>, !.lastWindowStart = clock] ELSE acc

AddSample(acc, s) == LET a == EnterWindow(acc) IN [a EXCEPT !.digest = Append(@, s)]

(* Faulty: the digest itself is published, which the next sample changes.  *)
FlushAliased(m, acc, registered) ==
    LET due == flushInterval = 0 \/ clock - acc.lastFlush >= flushInterval
        shared == registered.digest # None
    IN /\ state' = [state EXCEPT ![m] = IF due THEN [acc EXCEPT !.lastFlush = clock] ELSE acc]
       /\ store' = [store EXCEPT ![m] = IF due \/ shared
                                        THEN [registered EXCEPT !.digest = acc.digest]
                                        ELSE registered]

(* A snapshot of the digest is published unless the last one is recent, on *)
(* the model that a second GetOrCreateModel finds: a new one, without      *)
(* prices, if the model was removed since its prices were looked up.       *)
Flush(m, acc, registered) ==
    LET due == flushInterval = 0 \/ clock - acc.lastFlush >= flushInterval
    IN /\ state' = [state EXCEPT ![m] = IF due THEN [acc EXCEPT !.lastFlush = clock] ELSE acc]
       /\ \/ store' = [store EXCEPT ![m] = IF due THEN [registered EXCEPT !.digest = acc.digest]
                                                  ELSE registered]
          \/ /\ due /\ m \notin unread
             /\ store' = [store EXCEPT ![m] = [NewModel EXCEPT !.digest = acc.digest]]

(* Extract on a response event: lookupTokenPrices registers the model; one *)
(* without prices, and a response without token counts, gives no sample.   *)
Extract(m, r) ==
    /\ \A x \in Models : Len(log[m]) + (IF x = m THEN 0 ELSE Len(log[x])) < MaxSamples
    /\ LET registered == IF store[m] = None THEN NewModel ELSE store[m]
           counts == TokenCounts(r)
           sample == [cost |-> counts[1] * registered.prices.input
                                 + counts[2] * registered.prices.output,
                      at |-> clock]
       IN IF registered.prices = None \/ counts = None
          THEN /\ store' = [store EXCEPT ![m] = registered]
               /\ UNCHANGED <<state, log>>
          ELSE /\ Flush(m, AddSample(getOrCreateAccumulator(m), sample), registered)
               /\ log' = [log EXCEPT ![m] = Append(@, sample)]
    /\ UNCHANGED <<clock, scoreVars>>

-----------------------------------------------------------------------------
(* Rational numbers <<numerator, denominator>>; <<1, 0>> is above all.     *)
Leq(r, s) == r[1] * s[2] <= s[1] * r[2]
Plus(r, s) == <<r[1] * s[2] + s[1] * r[2], r[2] * s[2]>>

(* The sum f[1] + ... + f[n].                                              *)
SumTo(f, n) ==
    LET sum[k \in 0..n] == IF k = 0 THEN 0 ELSE sum[k - 1] + f[k]
    IN sum[n]

(* The library's TrimmedMean: the samples in the order of their costs, and *)
(* of the sample that a limit cuts only the share on its side.  A share is *)
(* a number of parts, Whole for a sample that is not cut.                  *)
Place(d, i) ==
    Cardinality({j \in DOMAIN d : d[j].cost < d[i].cost \/ (d[j].cost = d[i].cost /\ j <= i)})
BodyShare(d, i) ==
    LET below == Alpha * Len(d) - Whole * (Place(d, i) - 1)
    IN IF below < 0 THEN 0 ELSE IF below > Whole THEN Whole ELSE below
TrimmedMean(d, share) ==
    LET count == SumTo(share, Len(d))
    IN IF count = 0 THEN <<0, 1>>
       ELSE <<SumTo([i \in DOMAIN d |-> share[i] * d[i].cost], Len(d)), count>>

(* TrimmedMean(0, alpha) and TrimmedMean(alpha, 1).                        *)
Body(d) == [i \in DOMAIN d |-> BodyShare(d, i)]
Rest(d) == [i \in DOMAIN d |-> Whole - BodyShare(d, i)]

rank(d) ==
    LET tail == TrimmedMean(d, Rest(d))
    IN Plus(TrimmedMean(d, Body(d)), <<Lambda * tail[1], tail[2]>>)

Explored(m) == digests[m] # None /\ Len(digests[m]) >= sampleThreshold
explored == {m \in DOMAIN digests : Explored(m)}

(* The k-th lowest rank.                                                   *)
RankAt(k) ==
    LET Below(m) == {x \in explored : ~Leq(rank(digests[m]), rank(digests[x]))}
        NotAbove(m) == {x \in explored : Leq(rank(digests[x]), rank(digests[m]))}
    IN rank(digests[CHOOSE m \in explored :
                        Cardinality(Below(m)) < k /\ k <= Cardinality(NotAbove(m))])

median ==
    LET n == Cardinality(explored)
        sum == Plus(RankAt((n + 1) \div 2), RankAt(n \div 2 + 1))
    IN <<sum[1], 2 * sum[2]>>

(* A score 1 / (1 + exp((rank - median) / sigma)) is kept as the distance  *)
(* median - rank, with which it grows; 0 is the neutral 0.5, and stands    *)
(* for equal ranks too; an infinite distance is 1.0.                       *)
neutralScore == <<0, 1>>
topScore == <<1, 0>>

(* Faulty: a dear model is above the median.                               *)
sigmoidInverted(r) == <<r[1] * median[2] - median[1] * r[2], r[2] * median[2]>>

sigmoid(r) == <<median[1] * r[2] - r[1] * median[2], r[2] * median[2]>>

exploit ==
    [m \in DOMAIN digests |->
        IF m \in explored /\ Cardinality(explored) >= 2 THEN sigmoid(rank(digests[m]))
                                                        ELSE neutralScore]

(* The models explore may pick: the under-explored ones, if any.           *)
explorable == IF explored = DOMAIN digests THEN explored ELSE DOMAIN digests \ explored

explore(pick) == [m \in DOMAIN digests |-> IF m = pick THEN topScore ELSE neutralScore]

(* A request is scored: Score reads the snapshots one after the other (a   *)
(* read is a copy), then explores or exploits.                             *)
BeginScore ==
    /\ digests = NoModels
    /\ unread' = {m \in Models : store[m] # None} /\ unread' # {}
    /\ digests' = [m \in unread' |-> None]
    /\ UNCHANGED <<clock, extractVars, scores>>

ReadDigest(m) ==
    /\ m \in unread
    /\ digests' = [digests EXCEPT ![m] = store[m].digest]
    /\ unread' = unread \ {m}
    /\ UNCHANGED <<clock, extractVars, scores>>

ComputeScores ==
    /\ digests # NoModels /\ unread = {} /\ scores = NoModels
    /\ \/ scores' = exploit
       \/ \E pick \in explorable : scores' = explore(pick)
    /\ UNCHANGED <<clock, extractVars, digests, unread>>

ScoreReturns ==
    /\ scores # NoModels
    /\ digests' = NoModels /\ scores' = NoModels
    /\ UNCHANGED <<clock, extractVars, unread>>

-----------------------------------------------------------------------------
Next ==
    \/ Tick \/ BeginScore \/ ComputeScores \/ ScoreReturns
    \/ \E m \in Models :
        \/ \E p \in Prices : PriceModel(m, p)
        \/ RemoveModel(m)
        \/ \E r \in Responses : Extract(m, r)
        \/ ReadDigest(m)

Spec == Init /\ [][Next]_vars

-----------------------------------------------------------------------------
IsDigest(d) == Len(d) <= MaxSamples /\ \A i \in DOMAIN d : d[i] \in Sample

(* The extractor, the registry and the scorer keep their types.            *)
TypeOK ==
    /\ clock \in 0..MaxClock
    /\ \A m \in Models :
        /\ store[m] # None => /\ store[m].prices \in Prices \cup {None}
                              /\ store[m].digest = None \/ IsDigest(store[m].digest)
        /\ state[m] # None => /\ IsDigest(state[m].digest)
                              /\ state[m].lastFlush \in 0..clock
                              /\ state[m].lastWindowStart \in 0..clock
        /\ IsDigest(log[m])
    /\ unread \subseteq DOMAIN digests /\ DOMAIN digests \subseteq Models
    /\ scores = NoModels \/ DOMAIN scores = DOMAIN digests

(* The epochs of a model's samples, as windowDuration is documented: the   *)
(* epoch of the i-th sample began with the sample start[i], where the one  *)
(* before was windowDuration old (or there was none).                      *)
IsEpochs(l, start) ==
    \A i \in DOMAIN l :
        start[i] = IF i > 1 /\ ~(/\ windowDuration > 0
                                 /\ l[i].at - l[start[i - 1]].at >= windowDuration)
                   THEN start[i - 1] ELSE i

(* A snapshot is a full account of one epoch up to its publication: all    *)
(* samples from the one that began the epoch, none left out and none of    *)
(* another epoch; and only samples taken less than flushInterval after its *)
(* last one are not in a snapshot yet - however long the model was quiet   *)
(* in between, and however the flush and window intervals fall (Extract).  *)
(* A quiet model keeps the snapshot it has: see OnlyCurrentEpoch.          *)
SnapshotCurrent ==
    \A m \in Models : store[m] # None /\ store[m].digest # None =>
        \E start \in [DOMAIN log[m] -> DOMAIN log[m]], last \in DOMAIN log[m] :
            /\ IsEpochs(log[m], start)
            /\ store[m].digest = SubSeq(log[m], start[last], last)
            /\ \A i \in (last + 1)..Len(log[m]) :
                log[m][i].at - log[m][last].at < flushInterval

(* A published snapshot is replaced at most once per flushInterval and     *)
(* never changes in between, although the extractor goes on adding to the  *)
(* digest it was taken from (Clone in Extract).                            *)
SnapshotStable ==
    [][\A m \in Models :
        store[m] # None /\ store'[m] # None /\ store[m].digest # store'[m].digest =>
            /\ state'[m].lastFlush = clock
            /\ state[m] = None \/ clock - state[m].lastFlush >= flushInterval]_vars

(* When a request exploits, the explored model with the lowest rank is     *)
(* scored no lower than any other candidate, an under-explored one         *)
(* included, and a model all of whose costs are below all costs of another *)
(* is not scored below it - also when snapshots are published between the  *)
(* reads (exploit).                                                        *)
CheapestNotBehind ==
    scores # NoModels /\ scores = exploit => \A x \in explored :
        /\ \/ \E y \in explored : ~Leq(rank(digests[x]), rank(digests[y]))
           \/ \A y \in DOMAIN scores : Leq(scores[y], scores[x])
        /\ \A y \in explored :
            (\A i \in DOMAIN digests[x], j \in DOMAIN digests[y] :
                digests[x][i].cost <= digests[y][j].cost) => Leq(scores[y], scores[x])

-----------------------------------------------------------------------------
(* A statement of the code's comments that the code does not implement:    *)
(* "published snapshots reflect only the current epoch" (windowDuration).  *)
(* The epoch of a model ends with its next sample, so the snapshot of a    *)
(* model without traffic stays, and is scored, for ever.                   *)
OnlyCurrentEpoch ==
    windowDuration > 0 => \A m \in DOMAIN digests \ unread :
        digests[m] # None => \A i \in DOMAIN digests[m] : clock - digests[m][i].at < windowDuration
=============================================================================
