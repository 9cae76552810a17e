------------------------------ MODULE MCRegistry ------------------------------
(***************************************************************************)
(* Instances of ModelRegistry for TLC.                                     *)
(***************************************************************************)
EXTENDS ModelRegistry, TLC

CONSTANTS a, b, cheap, dear, fast

(* Both models; one of them, elsewhere priced and grouped; one valid and   *)
(* one skipped entry, whose model is in a group all the same.              *)
MCConfigs ==
    {[prices |-> (a :> cheap @@ b :> dear), groups |-> (fast :> {a})],
     [prices |-> (a :> dear), groups |-> (fast :> {})],
     [prices |-> (a :> Negative @@ b :> dear), groups |-> (fast :> {a, b})]}
=============================================================================
