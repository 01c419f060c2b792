------------------------------ MODULE Contexts ------------------------------
(***************************************************************************)
(* Contexts and the ledger of what each has delegated (context.rs, the     *)
(* ReservationLedger of resource.rs).  A contract gives an amount of every *)
(* resource; what a context reserves for a child is not available for the  *)
(* next one.  The methods are operators from a context to a context, used  *)
(* by the handlers of Authority.                                           *)
(***************************************************************************)
EXTENDS Integers, FiniteSets

CONSTANTS
  Resources,        \* the resources a contract has an amount of
  Root,             \* the session's root context
  MaxContextRevision

VARIABLE contexts   \* the contexts of the session, by their ids

ASSUME ContextsAssumption == MaxContextRevision \in Nat \ {0}

Classes == {"scene", "delegate"}
Lifecycles == {"Active", "Expired", "Revoked", "Closed"}
Contract == [Resources -> Nat]

ContextType ==
  [parent: DOMAIN contexts, classes: SUBSET Classes, contract: Contract,
   reserved: Contract, revision: 1..MaxContextRevision, lifecycle: Lifecycles]

NewContext(parent, classes, contract) ==
  [parent |-> parent, classes |-> classes, contract |-> contract,
   reserved |-> [r \in Resources |-> 0], revision |-> 1, lifecycle |-> "Active"]

Exists(id) == id \in DOMAIN contexts
Active(id) == Exists(id) /\ contexts[id].lifecycle = "Active"

(***************************************************************************)
(* The ledger.                                                             *)
(***************************************************************************)
ComponentMin(a, b) == [r \in Resources |-> IF a[r] <= b[r] THEN a[r] ELSE b[r]]

\* Mutant: what is reserved for other children is granted again.
AvailableTwice(c) == c.contract
Available(c) == [r \in Resources |-> c.contract[r] - c.reserved[r]]

Effective(c, requested, policy) ==
  ComponentMin(ComponentMin(requested, policy), Available(c))

Reserve(c, amount) == [c EXCEPT !.reserved = [r \in Resources |-> @[r] + amount[r]]]

Releasable(c, amount) == \A r \in Resources : c.reserved[r] >= amount[r]
Release(c, amount) == [c EXCEPT !.reserved = [r \in Resources |-> @[r] - amount[r]]]

(***************************************************************************)
(* ContextState.                                                           *)
(***************************************************************************)
Exhausted(c) == c.revision = MaxContextRevision
\* An exhausted revision is reported, with the rest of the change made.
Advance(c) == IF Exhausted(c) THEN c ELSE [c EXCEPT !.revision = @ + 1]

\* reserve_child is within the parent's active authority.
Delegable(parent) == Active(parent) /\ "delegate" \in contexts[parent].classes

ReserveChild(c, amount) == Advance(Reserve(c, amount))
\* A release of more than is reserved is refused, and nothing changes.
ReleaseChild(c, amount) == IF Releasable(c, amount) THEN Advance(Release(c, amount)) ELSE c

RevokeContext(c) == Advance([c EXCEPT !.lifecycle = "Revoked"])

\* The context and all below it: the least set closed under children.
Subtree(id) ==
  {d \in DOMAIN contexts :
    \A S \in SUBSET DOMAIN contexts :
      /\ id \in S
      /\ \A c \in DOMAIN contexts \ {Root} : contexts[c].parent \in S => c \in S
      => d \in S}

Children(id) == {c \in DOMAIN contexts \ {Root} : contexts[c].parent = id /\ Active(c)}
============================================================================
