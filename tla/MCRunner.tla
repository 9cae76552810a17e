------------------------------- MODULE MCRunner -------------------------------
(***************************************************************************)
(* Instances of Runner and InflightAccounting for TLC.                     *)
(***************************************************************************)
EXTENDS Runner

CONSTANTS s1

MCEvents == Streams \X {"request", "response"}
MCMaxTokens == [s \in Streams |-> IF s = s1 THEN 2 ELSE -1]
=============================================================================
