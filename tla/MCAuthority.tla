----------------------------- MODULE MCAuthority -----------------------------
(* Authority for TLC: a root, two contexts under it or one under the other, *)
(* each with a surface and a node of its own.                               *)
EXTENDS Authority, TLC

CONSTANTS c1, c2, k1, k2

TwoContexts == {c1, c2}
TwoSurfaces == {<<c1, 1>>, <<c2, 1>>}
TwoKeys == {k1, k2}
\* Contexts and keys are told apart by their names only.
AuthoritySymmetry == Permutations(TwoContexts) \union Permutations(TwoKeys)

CommitExpectations == {<<1, AnyRevision>>, <<1, 0>>, <<1, 1>>, <<2, 0>>}
SurfaceDefinitions ==
  {[profile |-> "generic", mapping |-> 1, policy |-> {}, valid |-> TRUE],
   [profile |-> "generic", mapping |-> 2, policy |-> {"capture"}, valid |-> TRUE],
   [profile |-> "generic", mapping |-> 1, policy |-> {}, valid |-> FALSE]}
TargetDescriptors ==
  {[geometry |-> 1, settled |-> TRUE], [geometry |-> 2, settled |-> FALSE]}
TwoClassSets == {Classes, {"scene"}}
=============================================================================
