------------------------------ MODULE MCPlugins ------------------------------
(***************************************************************************)
(* An instance for TLC of InferenceMessage and of SessionAffinity, which   *)
(* have no state in common: in a behaviour one of the two moves, and the   *)
(* other rests in an initial state.                                        *)
(***************************************************************************)
EXTENDS InferenceMessage, SessionAffinity

CONSTANTS length, trace, plain, model

(* "X-Gateway-Model-Name" is set, a lower-case header set and removed.     *)
MCSetKeys == {<<model, "mixed">>, <<plain, "lower">>, <<trace, "lower">>}
MCRemoveKeys == {<<plain, "lower">>, <<trace, "lower">>}

(* The instance is one EnvoyAgrees speaks about.                           *)
ASSUME MCSpelling == OneSpelling

MessageRests == Init /\ upstream = [n \in Names |-> None]
AffinityRests == AInit /\ sessionId = [c \in Clients |-> Nil]

MCInit == Init /\ AInit /\ (MessageRests \/ AffinityRests)
MCNext ==
    \/ AffinityRests /\ Next /\ UNCHANGED avars
    \/ MessageRests /\ ANext /\ UNCHANGED vars
MCSpec == MCInit /\ [][MCNext]_<<vars, avars>>

Symmetry == Permutations(Clients) \cup Permutations(Models) \cup Permutations(Ids \ {SharedId})
=============================================================================
