------------------------------ MODULE Surfaces ------------------------------
(***************************************************************************)
(* Surfaces and the presentation target (surface.rs, target.rs): what they *)
(* are defined as, and the revisions and generations by which others name  *)
(* a definition.  Of a surface's definition the profile, the coordinate    *)
(* mapping, the sticky policy and whether it is valid are kept; of a       *)
(* target its geometry and whether it is settled.                          *)
(***************************************************************************)
EXTENDS Integers

CONSTANTS
  Definitions,       \* what surfaces are asked to be (bound)
  Descriptors,       \* what the target is described as (bound)
  MaxSurfaceRevision, MaxSurfaceGeneration, MaxTargetGeneration

VARIABLES
  surfaces,          \* the surfaces of the session, by their identities
  target             \* the presentation target and its generation

SurfaceType ==
  [profile: {d.profile : d \in Definitions}, mapping: {d.mapping : d \in Definitions},
   policy: SUBSET UNION {d.policy : d \in Definitions},
   revision: 1..MaxSurfaceRevision, generation: 1..MaxSurfaceGeneration]

TargetType ==
  [geometry: {d.geometry : d \in Descriptors}, settled: BOOLEAN,
   generation: 1..MaxTargetGeneration]

NewSurface(d) ==
  [profile |-> d.profile, mapping |-> d.mapping, policy |-> d.policy,
   revision |-> 1, generation |-> 1]
NewTarget(d) == [geometry |-> d.geometry, settled |-> d.settled, generation |-> 1]

(***************************************************************************)
(* replace_mutable: a conditional replacement of the mutable part.         *)
(***************************************************************************)
GenerationAfter(s, d) == IF d.mapping = s.mapping THEN s.generation ELSE s.generation + 1

Replaceable(s, expected, d) ==
  /\ expected = [revision |-> s.revision, generation |-> s.generation]
  /\ d.profile = s.profile /\ d.valid
  /\ s.revision < MaxSurfaceRevision
  /\ GenerationAfter(s, d) <= MaxSurfaceGeneration

Replaced(s, d) ==
  [s EXCEPT !.mapping = d.mapping, !.policy = @ \union d.policy,
            !.revision = @ + 1, !.generation = GenerationAfter(s, d)]

(***************************************************************************)
(* offer: a descriptor that only settles repeats the generation.           *)
(***************************************************************************)
\* Mutant: a descriptor that settles repeats the generation in any case.
SettlesAnyway(t, d) == ~t.settled /\ d.settled
Settles(t, d) == d.geometry = t.geometry /\ ~t.settled /\ d.settled

Same(t, d) == d.geometry = t.geometry /\ d.settled = t.settled

Offered(t, d) ==
  IF Same(t, d) \/ (~Settles(t, d) /\ t.generation = MaxTargetGeneration) THEN t
  ELSE [geometry |-> d.geometry, settled |-> d.settled,
        generation |-> IF Settles(t, d) THEN t.generation ELSE t.generation + 1]
============================================================================
