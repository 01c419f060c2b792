------------------------------- MODULE Scene -------------------------------
(***************************************************************************)
(* The retained scene of a session (scene.rs): nodes that show surfaces,   *)
(* changed by transactions that commit whole or not at all, and cleaned up *)
(* when a surface goes.  A node's geometry, fit and opacity are left out;  *)
(* complete identities (context and local id) name nodes and transactions. *)
(***************************************************************************)
EXTENDS Integers, FiniteSets, Sequences, Collections

CONSTANTS
  NodeIds, TransactionIds,
  MaxMutations,       \* mutations of one transaction (bound)
  MaxSceneRevision

ASSUME SceneAssumption == MaxSceneRevision \in Nat

VARIABLES
  nodes,              \* the surface each node shows
  scene_revision,
  scene_target,       \* the target generation the scene was made for
  transactions,       \* the mutations of each live transaction
  scene_result        \* what the last call returned

sceneVars == <<nodes, scene_revision, scene_target, transactions, scene_result>>

\* A mutation of the node with a complete identity; None deletes it.
Create(node, surface) == [op |-> "Create", node |-> node, surface |-> surface]
Update(node, surface) == [op |-> "Update", node |-> node, surface |-> surface]
Delete(node)          == [op |-> "Delete", node |-> node, surface |-> node]

SceneInit ==
  /\ nodes = Empty
  /\ scene_revision = 0
  /\ scene_target = 1
  /\ transactions = Empty
  /\ scene_result = "New"

SceneRefuses == scene_result' = "Refused" /\ UNCHANGED <<nodes, scene_revision, transactions>>

Live(t) == t \in DOMAIN transactions

Begin(t) ==
  /\ UNCHANGED scene_target
  /\ \/ Live(t) /\ SceneRefuses
     \/ ~Live(t) /\ transactions' = With(transactions, t, <<>>)
        /\ scene_result' = "Begun" /\ UNCHANGED <<nodes, scene_revision>>

\* create, update, delete: the node must be of the transaction's context.
Mutate(t, m) ==
  /\ Live(t) => Len(transactions[t]) < MaxMutations
  /\ UNCHANGED scene_target
  /\ \/ ~(Live(t) /\ m.node[1] = t[1]) /\ SceneRefuses
     \/ Live(t) /\ m.node[1] = t[1]
        /\ transactions' = [transactions EXCEPT ![t] = Append(@, m)]
        /\ scene_result' = "Queued" /\ UNCHANGED <<nodes, scene_revision>>

Abort(t) ==
  /\ transactions' = Minus(transactions, {t})
  /\ scene_result' = IF Live(t) THEN "Aborted" ELSE "Refused"
  /\ UNCHANGED <<nodes, scene_revision, scene_target>>

(***************************************************************************)
(* commit: the mutations run on a copy, which replaces the nodes only when *)
(* all of them succeed.  A copy is the set of the map; {} is a failure.    *)
(***************************************************************************)
Mutated(map, m) ==
  IF (m.op = "Create") = (m.node \in DOMAIN map) THEN {}
  ELSE {IF m.op = "Delete" THEN Minus(map, {m.node}) ELSE With(map, m.node, m.surface)}

\* Mutant: a mutation that fails is skipped.
CandidateSkipping(map, mutations) ==
  LET done[n \in 0..Len(mutations)] ==
        IF n = 0 THEN {map}
        ELSE UNION {IF Mutated(m, mutations[n]) = {} THEN {m} ELSE Mutated(m, mutations[n]) :
                      m \in done[n - 1]}
  IN done[Len(mutations)]

Candidate(map, mutations) ==
  LET done[n \in 0..Len(mutations)] ==
        IF n = 0 THEN {map} ELSE UNION {Mutated(m, mutations[n]) : m \in done[n - 1]}
  IN done[Len(mutations)]

\* The commit expects no scene revision.
AnyRevision == -1
Expected(target, revision) ==
  target = scene_target /\ revision \in {AnyRevision, scene_revision}

CommitScene(t, target, revision) ==
  /\ UNCHANGED scene_target
  /\ \/ ~(Expected(target, revision) /\ Live(t)) /\ SceneRefuses
     \/ /\ Expected(target, revision) /\ Live(t)
        /\ Candidate(nodes, transactions[t]) = {} \/ scene_revision = MaxSceneRevision
        /\ SceneRefuses
     \/ /\ Expected(target, revision) /\ Live(t) /\ scene_revision < MaxSceneRevision
        /\ nodes' \in Candidate(nodes, transactions[t])
        /\ scene_revision' = scene_revision + 1
        /\ transactions' = Minus(transactions, {t})
        /\ scene_result' = "Presented"

\* remove_surface_references for each of surfaces, one after the other; the
\* revision advances once for each that had nodes, until it is exhausted.
Showing(surface) == {n \in DOMAIN nodes : nodes[n] = surface}
Shown(surfaces) == {s \in surfaces : Showing(s) # {}}

RemoveSurfaceReferences(surfaces) ==
  LET advanced == scene_revision + Cardinality(Shown(surfaces)) IN
  /\ nodes' = Minus(nodes, UNION {Showing(s) : s \in surfaces})
  /\ scene_revision' = IF advanced > MaxSceneRevision THEN MaxSceneRevision ELSE advanced
============================================================================
