------------------------------ MODULE MCDiResolve ------------------------------
(***************************************************************************)
(* Concurrent resolve() calls over small provider graphs: cyclic, diamond, *)
(* aliased, transient, with a missing provider and with an Optional one.   *)
(***************************************************************************)
EXTENDS DiContainer, TLC

CONSTANTS A, B, C, NoProvider

MCReplacements == {<<A>>}
Graph(a, b, c) == (A :> a @@ B :> b @@ C :> c)
MCRegistries ==
    { Graph(<<B>>, <<A>>, <<>>),                \* A and B need each other
      Graph(<<B>>, <<C>>, <<A>>),               \* a ring of three
      Graph(<<B, C>>, <<C>>, <<>>),             \* a diamond
      Graph(<<C, B>>, <<A, C>>, <<>>),          \* a cycle past a shared leaf
      Graph(<<B>>, <<C>>, NoProvider) }         \* an unregistered leaf
=============================================================================
