----------------------------- MODULE Authority -----------------------------
(***************************************************************************)
(* The state a presenter holds for a session: contexts, surfaces, the      *)
(* target, the scene and the results of keyed requests, changed by the     *)
(* requests of the session's principals.  A commit takes effect at a later *)
(* compositor boundary than the one at which it arrives, and whatever      *)
(* comes between has happened.  How a presenter composes the machines is   *)
(* not in the crate; it follows the documents.                             *)
(***************************************************************************)
EXTENDS Contexts, Scene, Surfaces, Idempotency, FiniteSetsExt

CONSTANTS
  ContextIds,        \* the ids besides Root
  SurfaceIds,        \* complete identities: a context and a local id
  ClassSets,         \* classes a context is asked for (bound)
  Amounts,           \* amounts a contract is asked for (bound)
  Expectations,      \* what commits expect: a target and a revision (bound)
  MaxRequests        \* requests and target changes of a session (bound)

ASSUME AuthorityAssumption ==
  /\ Amounts \subseteq Nat
  /\ \E most \in Amounts : \A amount \in Amounts : amount <= most

VARIABLES
  jobs,              \* accepted commits that wait for the compositor
  requests,          \* how many requests were made
  applied,           \* history: the scene revisions each key produced
  told               \* history: the results answered to each key

authorityVars == <<contexts, surfaces, target, cache, jobs, sceneVars>>
historyVars == <<applied, told>>
allVars == <<authorityVars, requests, historyVars>>

AuthorityInit ==
  /\ contexts = [id \in {Root} |->
                 NewContext(Root, Classes, [r \in Resources |-> Max(Amounts)])]
  /\ surfaces = Empty
  /\ target \in {NewTarget(d) : d \in {e \in Descriptors : e.settled}}
  /\ cache = Empty
  /\ jobs = {}
  /\ SceneInit
  /\ requests = 0
  /\ applied = [k \in Keys |-> {}]
  /\ told = [k \in Keys |-> {}]

Requested == requests < MaxRequests /\ requests' = requests + 1

(***************************************************************************)
(* Contexts.                                                               *)
(***************************************************************************)
\* The child exists when all of reserve_child succeeded; a parent at its
\* last revision has reserved for none.
CreateContext(id, parent, classes, amount) ==
  /\ Requested /\ ~Exists(id) /\ Delegable(parent)
  /\ LET p == contexts[parent]
         granted == Effective(p, amount, contexts[Root].contract)
         reserved == [contexts EXCEPT ![parent] = ReserveChild(p, granted)]
     IN contexts' = IF Exhausted(p) THEN reserved
                    ELSE With(reserved, id, NewContext(parent, classes \intersect p.classes, granted))
  /\ UNCHANGED <<surfaces, target, cache, jobs, sceneVars, historyVars>>

OwnedBy(ids) == {s \in DOMAIN surfaces : s[1] \in ids}

\* Mutant: every node goes with the first surface that goes.
TearDownAll(gone) == nodes' = Empty /\ UNCHANGED scene_revision
TearDown(gone) == RemoveSurfaceReferences(gone)

Revoke(id) ==
  /\ Requested /\ id # Root /\ Active(id)
  /\ LET gone == {c \in Subtree(id) : Active(c)} IN
     /\ contexts' = [c \in DOMAIN contexts |->
          IF c \in gone THEN RevokeContext(contexts[c])
          ELSE IF c = contexts[id].parent THEN ReleaseChild(contexts[c], contexts[id].contract)
          ELSE contexts[c]]
     /\ surfaces' = Minus(surfaces, OwnedBy(gone))
     /\ TearDown(OwnedBy(gone))
     /\ transactions' = Minus(transactions, {t \in DOMAIN transactions : t[1] \in gone})
     /\ scene_result' = "Cleaned"
  /\ UNCHANGED <<scene_target, target, cache, jobs, historyVars>>

(***************************************************************************)
(* Surfaces and the target.                                                *)
(***************************************************************************)
CreateSurface(s, d) ==
  /\ Requested /\ Active(s[1]) /\ s \notin DOMAIN surfaces /\ d.valid
  /\ surfaces' = With(surfaces, s, NewSurface(d))
  /\ UNCHANGED <<contexts, target, cache, jobs, sceneVars, historyVars>>

UpdateSurface(s, expected, d) ==
  /\ Requested /\ s \in DOMAIN surfaces
  /\ surfaces' = IF Replaceable(surfaces[s], expected, d)
                   THEN [surfaces EXCEPT ![s] = Replaced(@, d)] ELSE surfaces
  /\ UNCHANGED <<contexts, target, cache, jobs, sceneVars, historyVars>>

DestroySurface(s) ==
  /\ Requested /\ s \in DOMAIN surfaces
  /\ surfaces' = Minus(surfaces, {s})
  /\ TearDown({s})
  /\ scene_result' = "Cleaned"
  /\ UNCHANGED <<contexts, scene_target, transactions, target, cache, jobs, historyVars>>

\* The target changes by itself; a Scene keeps the generation it was made with.
OfferTarget(d) ==
  /\ Requested
  /\ target' = Offered(target, d)
  /\ UNCHANGED <<contexts, surfaces, cache, jobs, sceneVars, historyVars>>

(***************************************************************************)
(* The scene.                                                              *)
(***************************************************************************)
InScene(context) == Active(context) /\ "scene" \in contexts[context].classes

BeginTransaction(t) ==
  /\ Requested /\ InScene(t[1])
  /\ Begin(t)
  /\ UNCHANGED <<contexts, surfaces, target, cache, jobs, historyVars>>

MutateScene(t, m) ==
  /\ Requested /\ InScene(t[1])
  /\ m.op # "Delete" => m.surface \in DOMAIN surfaces
  /\ Mutate(t, m)
  /\ UNCHANGED <<contexts, surfaces, target, cache, jobs, historyVars>>

AbortTransaction(t) ==
  /\ Requested /\ InScene(t[1])
  /\ Abort(t)
  /\ UNCHANGED <<contexts, surfaces, target, cache, jobs, historyVars>>

(***************************************************************************)
(* Keyed commits.                                                          *)
(***************************************************************************)
Answers(key, answer) == told' = [told EXCEPT ![key] = @ \union {answer}]

\* Mutant: a request whose result is still to come is taken as new.
AcceptsPending(key, request) ==
  Fresh(key) \/ (Repeats(key, request) /\ cache[key].result = Pending)
Accepts(key, request) == Fresh(key)

RequestCommit(key, request) ==
  /\ Requested /\ InScene(request.transaction[1])
  /\ \/ /\ Accepts(key, request)
        /\ cache' = Reserved(key, request)
        /\ jobs' = jobs \union {[key |-> key, arrival |-> requests, request |-> request]}
        /\ UNCHANGED told
     \/ /\ Repeats(key, request) /\ ~Accepts(key, request)
        /\ Answers(key, cache[key].result)
        /\ UNCHANGED <<cache, jobs>>
     \/ /\ Conflicts(key, request) \/ (~Known(key) /\ Full)
        /\ UNCHANGED <<cache, jobs, told>>
  /\ UNCHANGED <<contexts, surfaces, target, sceneVars, applied>>

\* The compositor boundary: the commit takes effect or fails, and its
\* result is stored and sent, unless the session was interrupted meanwhile.
Present(job) ==
  LET r == job.request
      result == IF scene_result' = "Presented" THEN scene_revision' ELSE Failed
  IN
  /\ CommitScene(r.transaction, r.target, r.revision)
  /\ jobs' = jobs \ {job}
  /\ cache' = Stored(job.key, result)
  /\ IF cache'[job.key].result = result THEN Answers(job.key, result) ELSE UNCHANGED told
  /\ applied' = [applied EXCEPT ![job.key] = (@ \union {result}) \ {Failed}]
  /\ UNCHANGED <<contexts, surfaces, target, requests>>

\* A resumed session cannot prove what became of the commits that the loss
\* interrupted; some of them are still presented.
Interrupt ==
  /\ \E key \in DOMAIN cache : cache[key].result = Pending
  /\ jobs' \in SUBSET jobs
  /\ cache' = [key \in DOMAIN cache |-> Stored(key, Unknown)[key]]
  /\ UNCHANGED <<contexts, surfaces, target, sceneVars, requests, historyVars>>

(***************************************************************************)
(* What a session may ask.                                                 *)
(***************************************************************************)
Contracts == [Resources -> Amounts]
Surfaced == {s \in SurfaceIds : Exists(s[1])}
SceneNodes == ContextIds \X NodeIds
Transactions == ContextIds \X TransactionIds

Mutations(t) ==
  {Delete(n) : n \in SceneNodes}
    \union {Create(n, s) : n \in SceneNodes, s \in DOMAIN surfaces}
    \union {Update(n, s) : n \in SceneNodes, s \in DOMAIN surfaces}

CommitRequests ==
  {[transaction |-> t, target |-> e[1], revision |-> e[2]] :
     t \in Transactions, e \in Expectations}

ContextNext ==
  \/ \E id \in ContextIds, parent \in DOMAIN contexts, classes \in ClassSets,
        amount \in Contracts : CreateContext(id, parent, classes, amount)
  \/ \E id \in DOMAIN contexts : Revoke(id)

SurfaceNext ==
  \/ \E s \in Surfaced, d \in Definitions : CreateSurface(s, d)
  \/ \E s \in DOMAIN surfaces, d \in Definitions,
        expected \in [revision: 1..MaxSurfaceRevision, generation: 1..MaxSurfaceGeneration] :
        UpdateSurface(s, expected, d)
  \/ \E s \in DOMAIN surfaces : DestroySurface(s)
  \/ \E d \in Descriptors : OfferTarget(d)

SceneNext ==
  \/ \E t \in Transactions : BeginTransaction(t) \/ AbortTransaction(t)
  \/ \E t \in Transactions : \E m \in Mutations(t) : MutateScene(t, m)
  \/ \E key \in Keys : \E request \in CommitRequests : RequestCommit(key, request)
  \/ \E job \in jobs : Present(job)
  \/ Interrupt

AuthorityNext == ContextNext \/ SurfaceNext \/ SceneNext
AuthoritySpec == AuthorityInit /\ [][AuthorityNext]_allVars

(***************************************************************************)
(* Properties.                                                             *)
(***************************************************************************)
Jobs == [key: Keys, arrival: 0..MaxRequests, request: CommitRequests]
Results == {Pending, Unknown, Failed} \union 1..MaxSceneRevision

\* The authority's state has its types, and neither the cache nor a
\* transaction outgrows its limit.
AuthorityTypeOK ==
  /\ DOMAIN contexts \subseteq ContextIds \union {Root}
  /\ \A id \in DOMAIN contexts : contexts[id] \in ContextType
  /\ DOMAIN surfaces \subseteq SurfaceIds
  /\ \A s \in DOMAIN surfaces : surfaces[s] \in SurfaceType
  /\ target \in TargetType
  /\ DOMAIN nodes \subseteq SceneNodes /\ \A n \in DOMAIN nodes : nodes[n] \in SurfaceIds
  /\ scene_revision \in 0..MaxSceneRevision
  /\ \A t \in DOMAIN transactions : t \in Transactions /\ Len(transactions[t]) <= MaxMutations
  /\ DOMAIN cache \subseteq Keys /\ \A k \in DOMAIN cache : cache[k].result \in Results
  /\ Cardinality(DOMAIN cache) <= MaxEntries
  /\ jobs \subseteq Jobs


\* The units of a resource that contexts may use, one by one.
UnitsOf(children, r) == UNION {{c} \X (1..contexts[c].contract[r]) : c \in children}

\* What live children may use was set aside for them, and is within what
\* their parent has, whatever was created, revoked or refused before
\* (ReservationLedger, reserve_child, release_child).
DelegationCovered ==
  \A id \in DOMAIN contexts : \A r \in Resources :
    /\ Cardinality(UnitsOf(Children(id), r)) <= contexts[id].reserved[r]
    /\ contexts[id].reserved[r] <= contexts[id].contract[r]

\* What the mutations leave of a node, judged by the last one alone.
LastOf(n, mutations) == {i \in DOMAIN mutations : mutations[i].node = n}
Net(mutations) ==
  LET Kept(n) == IF LastOf(n, mutations) = {} THEN n \in DOMAIN nodes
                 ELSE mutations[Max(LastOf(n, mutations))].op # "Delete"
  IN [n \in {k \in SceneNodes : Kept(k)} |->
        IF LastOf(n, mutations) = {} THEN nodes[n]
        ELSE mutations[Max(LastOf(n, mutations))].surface]

\* A step that shows anything new is a commit: it applies one whole
\* transaction, under a new revision (commit of scene.rs).
AllOrNothing ==
  [][\/ \A n \in DOMAIN nodes' : n \in DOMAIN nodes /\ nodes'[n] = nodes[n]
     \/ /\ scene_revision' = scene_revision + 1
        /\ \E t \in DOMAIN transactions \ DOMAIN transactions' :
             nodes' = Net(transactions[t])]_allVars

\* A keyed request takes effect at most once, and whoever asks again hears
\* of that effect, of none, or that the outcome is unknown (idempotency.rs).
AppliedOnce ==
  \A k \in Keys :
    /\ Cardinality(applied[k]) <= 1
    /\ told[k] \ {Pending, Unknown, Failed} \subseteq applied[k]
    /\ Failed \in told[k] => applied[k] = {} /\ Unknown \notin told[k]

\* The end of a surface or of a context takes the nodes that show what went
\* and no other, under a new revision while there are any, and leaves other
\* contexts as they were but for what a parent had set aside
\* (remove_surface_references, release_child).
TeardownContained ==
  [][LET gone == DOMAIN surfaces \ DOMAIN surfaces'
         ended == {c \in DOMAIN contexts : Active(c) /\ contexts'[c].lifecycle # "Active"}
     IN gone # {} =>
       /\ nodes' = Minus(nodes, {n \in DOMAIN nodes : nodes[n] \in gone})
       /\ (\E n \in DOMAIN nodes : nodes[n] \in gone) =>
            scene_revision' > scene_revision \/ scene_revision = MaxSceneRevision
       /\ \A c \in DOMAIN contexts \ ended :
            [contexts'[c] EXCEPT !.reserved = contexts[c].reserved, !.revision = contexts[c].revision]
              = contexts[c]]_allVars

\* What others name a definition by tells it apart from every earlier one:
\* a target's generation its geometry, a surface's revision its policy, and
\* its generation its mapping; what a policy denies stays denied
\* (replace_mutable of surface.rs, offer of target.rs).
DefinitionNamed ==
  [][/\ target'.geometry # target.geometry => target'.generation > target.generation
     /\ \A s \in DOMAIN surfaces \intersect DOMAIN surfaces' :
          /\ surfaces'[s] # surfaces[s] => surfaces'[s].revision > surfaces[s].revision
          /\ surfaces'[s].mapping # surfaces[s].mapping
               => surfaces'[s].generation > surfaces[s].generation
          /\ surfaces[s].policy \subseteq surfaces'[s].policy]_allVars
============================================================================
