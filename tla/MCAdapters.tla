------------------------------ MODULE MCAdapters ------------------------------
(***************************************************************************)
(* Instances of AdaptersStore for TLC.                                     *)
(***************************************************************************)
EXTENDS AdaptersStore, TLC

CONSTANTS c1, c2, b1, b2, x, y

Object(label, terminating, base, adapters) ==
    [label |-> label, terminating |-> terminating, base |-> base, adapters |-> adapters]

(* Two slices of one base model, each with an adapter of its own; what     *)
(* leaves may have lost its base model, its adapter or both.               *)
OwnAdapters(base, a) ==
    {Object(TRUE, FALSE, base, {}), Object(TRUE, FALSE, base, {a}),
     Object(FALSE, FALSE, base, {a}), Object(FALSE, FALSE, None, {}),
     Object(TRUE, TRUE, base, {a}), Object(TRUE, TRUE, None, {}),
     Object(TRUE, FALSE, base, None), Object(TRUE, FALSE, None, {a})}
Slices == c1 :> OwnAdapters(b1, x) @@ c2 :> OwnAdapters(b1, y)

(* Two ConfigMaps that change their base models, share an adapter and      *)
(* leave with another base model, or without one.                          *)
AnyBase ==
    {Object(TRUE, FALSE, b1, {x}), Object(TRUE, FALSE, b2, {x}), Object(TRUE, FALSE, b2, {}),
     Object(FALSE, FALSE, b1, {x}), Object(FALSE, FALSE, None, {}), Object(TRUE, TRUE, b2, {})}
Shared == c1 :> AnyBase @@ c2 :> AnyBase

MCWorlds == {Slices, Shared}
=============================================================================
