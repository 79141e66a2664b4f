------------------------------ MODULE MCDiDispose ------------------------------
(***************************************************************************)
(* override() and dispose() against resolutions in flight, stale disposals *)
(* left by an override, and failing hooks.  A is built from B directly and *)
(* through the alias C, so B's instance reaches A along two paths.         *)
(***************************************************************************)
EXTENDS DiContainer, TLC

CONSTANTS A, B, C, NoProvider

MCReplacements == {<<>>}
MCRegistries == { (A :> <<C, B>> @@ B :> <<>> @@ C :> <<B>>) }
Symmetric == Permutations(Call)
=============================================================================
