----------------------------- MODULE MCDiOverride -----------------------------
(***************************************************************************)
(* override() while resolutions are in flight: A is built from B directly  *)
(* and through the transient C, so B's instance reaches A along two paths. *)
(***************************************************************************)
EXTENDS DiContainer, TLC

CONSTANTS A, B, C, NoProvider

MCReplacements == {<<>>, <<B>>}
MCRegistries == { (A :> <<C, B>> @@ B :> <<>> @@ C :> <<B>>) }
Symmetric == Permutations(Call)
=============================================================================
