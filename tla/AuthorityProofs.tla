--------------------------- MODULE AuthorityProofs ---------------------------
(***************************************************************************)
(* Proofs about Authority: what live children of a context may use was set *)
(* aside for them, a keyed request takes effect at most once, a teardown   *)
(* takes what went and nothing else, and a definition is told apart from   *)
(* every earlier one.                                                      *)
(***************************************************************************)
EXTENDS Authority, FiniteSetTheorems, WellFoundedInduction, TLAPS

-----------------------------------------------------------------------------
(* The units that maps of amounts stand for.                               *)
Units(f, C) == UNION {{c} \X (1..f[c]) : c \in C}

LEMMA UnitsFinite ==
  ASSUME NEW D, NEW f \in [D -> Nat], NEW most \in Nat, \A c \in D : f[c] <= most,
         NEW C \in SUBSET D, IsFiniteSet(C)
  PROVE  IsFiniteSet(Units(f, C)) /\ Cardinality(Units(f, C)) \in Nat
<1>1. Units(f, C) \in SUBSET (C \X (1..most))
  BY DEF Units
<1>2. IsFiniteSet(1..most)
  BY FS_Interval
<1>3. IsFiniteSet(C \X (1..most))
  BY <1>2, FS_Product
<1> QED
  BY <1>1, <1>3, FS_Subset, FS_CardinalityType

LEMMA UnitsAdd ==
  ASSUME NEW D, NEW f \in [D -> Nat], NEW most \in Nat, \A c \in D : f[c] <= most,
         NEW C \in SUBSET D, IsFiniteSet(C), NEW id \in D, id \notin C
  PROVE  /\ IsFiniteSet(Units(f, C \union {id}))
         /\ Cardinality(Units(f, C \union {id})) = Cardinality(Units(f, C)) + f[id]
<1> DEFINE own == {id} \X (1..f[id])
<1>1. IsFiniteSet(Units(f, C)) /\ Cardinality(Units(f, C)) \in Nat
  BY UnitsFinite
<1>2. IsFiniteSet(own) /\ Cardinality(own) = f[id]
  <2>1. /\ IsFiniteSet({id}) /\ Cardinality({id}) = 1
        /\ IsFiniteSet(1..f[id]) /\ Cardinality(1..f[id]) = f[id] /\ f[id] \in Nat
    <3>1. f[id] \in Nat /\ 1 \in Int /\ f[id] \in Int
      OBVIOUS
    <3>2. IsFiniteSet(1..f[id]) /\ Cardinality(1..f[id]) = f[id]
      BY <3>1, FS_Interval
    <3> QED
      BY <3>1, <3>2, FS_Singleton
  <2>2. IsFiniteSet(own) /\ Cardinality(own) = 1 * f[id]
    <3> DEFINE one == {id}
               units == 1..f[id]
    <3>1. /\ IsFiniteSet(one) /\ IsFiniteSet(units)
          /\ Cardinality(one) = 1 /\ Cardinality(units) = f[id]
      BY <2>1
    <3>2. own = one \X units
      OBVIOUS
    <3> HIDE DEF one, units, own
    <3>3. /\ IsFiniteSet(one \X units)
          /\ Cardinality(one \X units) = Cardinality(one) * Cardinality(units)
      BY <3>1, FS_Product, Zenon
    <3> QED
      BY <3>1, <3>2, <3>3
  <2> QED
    BY <2>1, <2>2
<1>3. Units(f, C) \intersect own = {}
  BY DEF Units
<1>4. Units(f, C \union {id}) = Units(f, C) \union own
  BY DEF Units
<1> HIDE DEF own
<1>5. Cardinality(Units(f, C) \intersect own) = 0
  BY <1>3, FS_EmptySet
<1>6. /\ IsFiniteSet(Units(f, C) \union own)
      /\ Cardinality(Units(f, C) \union own)
           = Cardinality(Units(f, C)) + Cardinality(own) - Cardinality(Units(f, C) \intersect own)
  BY <1>1, <1>2, FS_Union
<1>7. f[id] \in Nat
  OBVIOUS
<1>8. Cardinality(Units(f, C) \union own) = Cardinality(Units(f, C)) + f[id]
  BY <1>1, <1>2, <1>5, <1>6, <1>7
<1> QED
  BY <1>4, <1>6, <1>8

LEMMA UnitsSubset ==
  ASSUME NEW D, NEW f \in [D -> Nat], NEW most \in Nat, \A c \in D : f[c] <= most,
         NEW C \in SUBSET D, IsFiniteSet(C), NEW B \in SUBSET C
  PROVE  /\ Cardinality(Units(f, B)) <= Cardinality(Units(f, C))
         /\ Cardinality(Units(f, B)) \in Nat /\ Cardinality(Units(f, C)) \in Nat
<1>1. Units(f, B) \in SUBSET Units(f, C)
  BY DEF Units
<1>2. IsFiniteSet(Units(f, C)) /\ Cardinality(Units(f, C)) \in Nat
  BY UnitsFinite
<1> QED
  BY <1>1, <1>2, FS_Subset, FS_CardinalityType

LEMMA UnitsSame ==
  ASSUME NEW C, NEW f, NEW g, \A c \in C : f[c] = g[c]
  PROVE  Units(f, C) = Units(g, C)
BY DEF Units

-----------------------------------------------------------------------------
(* The ledger of a context.                                                *)
Most == Max(Amounts)
ContextRecords(D) ==
  [parent: D, classes: SUBSET Classes, contract: [Resources -> 0..Most],
   reserved: [Resources -> Nat], revision: Nat, lifecycle: Lifecycles]

LEMMA MostFacts == Most \in Nat /\ \A amount \in Amounts : amount \in 0..Most
<1>1. Most \in Amounts /\ \A amount \in Amounts : Most >= amount
  BY AuthorityAssumption DEF Most, Max
<1> QED
  BY <1>1, AuthorityAssumption

LEMMA AdvanceFields ==
  ASSUME NEW D, NEW c \in ContextRecords(D)
  PROVE  /\ Advance(c) \in ContextRecords(D)
         /\ Advance(c).parent = c.parent /\ Advance(c).classes = c.classes
         /\ Advance(c).contract = c.contract /\ Advance(c).reserved = c.reserved
         /\ Advance(c).lifecycle = c.lifecycle
BY DEF Advance, ContextRecords

LEMMA ReserveFields ==
  ASSUME NEW D, NEW c \in ContextRecords(D), NEW amount \in [Resources -> Nat]
  PROVE  /\ ReserveChild(c, amount) \in ContextRecords(D)
         /\ ReserveChild(c, amount).parent = c.parent
         /\ ReserveChild(c, amount).classes = c.classes
         /\ ReserveChild(c, amount).contract = c.contract
         /\ ReserveChild(c, amount).lifecycle = c.lifecycle
         /\ \A r \in Resources :
              ReserveChild(c, amount).reserved[r] = c.reserved[r] + amount[r]
<1> DEFINE sum == [r \in Resources |-> c.reserved[r] + amount[r]]
<1>1. sum \in [Resources -> Nat] /\ \A r \in Resources : sum[r] = c.reserved[r] + amount[r]
  BY DEF ContextRecords
<1>2. Reserve(c, amount) = [c EXCEPT !.reserved = sum]
  BY DEF Reserve
<1> HIDE DEF sum
<1>3. /\ Reserve(c, amount) \in ContextRecords(D)
      /\ Reserve(c, amount).parent = c.parent /\ Reserve(c, amount).classes = c.classes
      /\ Reserve(c, amount).contract = c.contract
      /\ Reserve(c, amount).lifecycle = c.lifecycle
      /\ Reserve(c, amount).reserved = sum
  BY <1>1, <1>2 DEF ContextRecords
<1> QED
  BY <1>1, <1>3, AdvanceFields DEF ReserveChild

LEMMA ReleaseFields ==
  ASSUME NEW D, NEW c \in ContextRecords(D), NEW amount \in [Resources -> Nat]
  PROVE  /\ ReleaseChild(c, amount) \in ContextRecords(D)
         /\ ReleaseChild(c, amount).parent = c.parent
         /\ ReleaseChild(c, amount).classes = c.classes
         /\ ReleaseChild(c, amount).contract = c.contract
         /\ ReleaseChild(c, amount).lifecycle = c.lifecycle
         /\ \/ ReleaseChild(c, amount).reserved = c.reserved
            \/ \A r \in Resources : /\ c.reserved[r] >= amount[r]
                                    /\ ReleaseChild(c, amount).reserved[r]
                                         = c.reserved[r] - amount[r]
<1>1. CASE ~Releasable(c, amount)
  BY <1>1 DEF ReleaseChild
<1>2. CASE Releasable(c, amount)
  <2> DEFINE rest == [r \in Resources |-> c.reserved[r] - amount[r]]
  <2>1. \A r \in Resources : c.reserved[r] \in Nat /\ amount[r] \in Nat
                               /\ c.reserved[r] >= amount[r]
    BY <1>2 DEF ContextRecords, Releasable
  <2>2. /\ rest \in [Resources -> Nat]
        /\ \A r \in Resources : rest[r] = c.reserved[r] - amount[r]
    BY <2>1
  <2>3. Release(c, amount) = [c EXCEPT !.reserved = rest]
    BY DEF Release
  <2> HIDE DEF rest
  <2>4. /\ Release(c, amount) \in ContextRecords(D)
        /\ Release(c, amount).parent = c.parent /\ Release(c, amount).classes = c.classes
        /\ Release(c, amount).contract = c.contract
        /\ Release(c, amount).lifecycle = c.lifecycle
        /\ Release(c, amount).reserved = rest
    BY <2>2, <2>3 DEF ContextRecords
  <2>5. ReleaseChild(c, amount) = Advance(Release(c, amount))
    BY <1>2 DEF ReleaseChild
  <2> QED
    BY <2>1, <2>2, <2>4, <2>5, AdvanceFields
<1> QED
  BY <1>1, <1>2

LEMMA RevokeFields ==
  ASSUME NEW D, NEW c \in ContextRecords(D)
  PROVE  /\ RevokeContext(c) \in ContextRecords(D)
         /\ RevokeContext(c).parent = c.parent /\ RevokeContext(c).contract = c.contract
         /\ RevokeContext(c).reserved = c.reserved
         /\ RevokeContext(c).lifecycle = "Revoked"
<1> DEFINE q == [c EXCEPT !.lifecycle = "Revoked"]
<1>1. /\ q \in ContextRecords(D) /\ q.parent = c.parent /\ q.contract = c.contract
      /\ q.reserved = c.reserved /\ q.lifecycle = "Revoked"
  BY DEF ContextRecords, Lifecycles
<1>2. RevokeContext(c) = Advance(q)
  BY DEF RevokeContext
<1> HIDE DEF q
<1> QED
  BY <1>1, <1>2, AdvanceFields

\* A grant never exceeds what the parent has left, nor the session's policy.
LEMMA EffectiveWithin ==
  ASSUME NEW D, NEW p \in ContextRecords(D), NEW amount \in Contracts,
         NEW policy, policy = [r \in Resources |-> Most],
         \A r \in Resources : p.reserved[r] <= p.contract[r]
  PROVE  /\ Effective(p, amount, policy) \in [Resources -> 0..Most]
         /\ \A r \in Resources :
              Effective(p, amount, policy)[r] + p.reserved[r] <= p.contract[r]
<1> DEFINE left(r) == p.contract[r] - p.reserved[r]
           least(r) == IF amount[r] <= Most THEN amount[r] ELSE Most
           granted(r) == IF least(r) <= left(r) THEN least(r) ELSE left(r)
<1>1. Effective(p, amount, policy) = [r \in Resources |-> granted(r)]
  BY DEF Effective, ComponentMin, Available
<1>2. ASSUME NEW r \in Resources
      PROVE  granted(r) \in 0..Most /\ granted(r) + p.reserved[r] <= p.contract[r]
  <2>1. amount[r] \in 0..Most /\ Most \in Nat
    BY MostFacts DEF Contracts
  <2>2. p.contract[r] \in 0..Most /\ p.reserved[r] \in Nat /\ p.reserved[r] <= p.contract[r]
    BY DEF ContextRecords
  <2> QED
    BY <2>1, <2>2
<1> HIDE DEF granted
<1> QED
  BY <1>1, <1>2

-----------------------------------------------------------------------------
(* Delegation: the contexts are a finite tree of records under the root,   *)
(* whose contract is the policy, and every reservation covers the children.*)
ContextsInv ==
  /\ Root \in DOMAIN contexts /\ IsFiniteSet(DOMAIN contexts)
  /\ contexts \in [DOMAIN contexts -> ContextRecords(DOMAIN contexts)]
  /\ contexts[Root].contract = [r \in Resources |-> Most]
  /\ DelegationCovered

Amount(r) == [c \in DOMAIN contexts |-> contexts[c].contract[r]]

LEMMA UnitsOfUnits ==
  ASSUME NEW C \in SUBSET DOMAIN contexts, NEW r
  PROVE  UnitsOf(C, r) = Units(Amount(r), C)
BY DEF UnitsOf, Units, Amount

LEMMA AmountTyped ==
  ASSUME ContextsInv, NEW r \in Resources
  PROVE  /\ Amount(r) \in [DOMAIN contexts -> Nat]
         /\ \A c \in DOMAIN contexts : Amount(r)[c] <= Most
         /\ \A C \in SUBSET DOMAIN contexts : IsFiniteSet(C)
<1>1. \A c \in DOMAIN contexts : contexts[c].contract[r] \in 0..Most
  BY DEF ContextsInv, ContextRecords
<1> QED
  BY <1>1, MostFacts, FS_Subset DEF ContextsInv, Amount

LEMMA ChildrenWithin == \A id : Children(id) \in SUBSET DOMAIN contexts
BY DEF Children

\* A step after which the children of a context are among those it had, with
\* their contracts, and its contract and reservation are kept, covers it.
LEMMA CoverKept ==
  ASSUME ContextsInv, NEW id \in DOMAIN contexts, NEW r \in Resources,
         Children(id)' \in SUBSET Children(id),
         DOMAIN contexts \subseteq DOMAIN contexts',
         \A c \in Children(id) : contexts'[c].contract = contexts[c].contract,
         contexts'[id].contract = contexts[id].contract,
         contexts'[id].reserved[r] = contexts[id].reserved[r]
  PROVE  /\ Cardinality(UnitsOf(Children(id), r)') <= contexts'[id].reserved[r]
         /\ contexts'[id].reserved[r] <= contexts'[id].contract[r]
<1> DEFINE C == Children(id)
<1>b. PICK B : B = Children(id)'
  OBVIOUS
<1>1. B \in SUBSET C /\ C \in SUBSET DOMAIN contexts
  BY <1>b, ChildrenWithin
<1>2. UnitsOf(Children(id), r)' = UNION {{c} \X (1..contexts'[c].contract[r]) : c \in B}
  BY <1>b DEF UnitsOf
<1>3. \A c \in B : contexts'[c].contract = contexts[c].contract
  BY <1>1
<1>4. UnitsOf(Children(id), r)' = UnitsOf(B, r)
  BY <1>2, <1>3 DEF UnitsOf
<1>5. Cardinality(Units(Amount(r), C)) <= contexts[id].reserved[r]
  BY <1>1, UnitsOfUnits DEF ContextsInv, DelegationCovered
<1>6. contexts[id].reserved[r] \in Nat /\ contexts[id].reserved[r] <= contexts[id].contract[r]
  BY DEF ContextsInv, DelegationCovered, ContextRecords
<1> HIDE DEF C
<1>7. /\ Cardinality(Units(Amount(r), B)) <= Cardinality(Units(Amount(r), C))
      /\ Cardinality(Units(Amount(r), B)) \in Nat /\ Cardinality(Units(Amount(r), C)) \in Nat
  BY <1>1, AmountTyped, MostFacts, UnitsSubset
<1>8. UnitsOf(Children(id), r)' = Units(Amount(r), B)
  BY <1>1, <1>4, UnitsOfUnits
<1> QED
  BY <1>5, <1>6, <1>7, <1>8

LEMMA ContextsInit == AuthorityInit => ContextsInv
<1>1. SUFFICES ASSUME AuthorityInit PROVE ContextsInv
  OBVIOUS
<1> DEFINE policy == [r \in Resources |-> Most]
           root == NewContext(Root, Classes, policy)
<1>2. contexts = [id \in {Root} |-> root]
  BY <1>1 DEF AuthorityInit, Most
<1>3. policy \in [Resources -> 0..Most]
  BY MostFacts
<1> HIDE DEF policy
<1>4. root \in ContextRecords({Root}) /\ root.contract = policy
      /\ \A r \in Resources : root.reserved[r] = 0
  BY <1>3 DEF NewContext, ContextRecords, Lifecycles
<1> HIDE DEF root
<1>5. DOMAIN contexts = {Root} /\ contexts[Root] = root
  BY <1>2
<1>6. IsFiniteSet({Root})
  BY FS_Singleton
<1>7. ASSUME NEW id \in DOMAIN contexts, NEW r \in Resources
      PROVE  /\ Cardinality(UnitsOf(Children(id), r)) <= contexts[id].reserved[r]
             /\ contexts[id].reserved[r] <= contexts[id].contract[r]
  <2>1. Children(id) = {}
    BY <1>5 DEF Children
  <2>2. UnitsOf({}, r) = {}
    BY DEF UnitsOf
  <2>3. contexts[id].reserved[r] = 0 /\ contexts[id].contract[r] \in 0..Most
    BY <1>3, <1>4, <1>5, <1>7
  <2> QED
    BY <2>1, <2>2, <2>3, MostFacts, FS_EmptySet
<1> QED
  BY <1>2, <1>4, <1>5, <1>6, <1>7 DEF ContextsInv, DelegationCovered, policy

LEMMA CreateContextStep ==
  ASSUME ContextsInv, NEW id, NEW parent \in DOMAIN contexts, NEW classes,
         NEW amount \in Contracts, CreateContext(id, parent, classes, amount)
  PROVE  ContextsInv'
<1> DEFINE D == DOMAIN contexts
           p == contexts[parent]
           granted == Effective(p, amount, contexts[Root].contract)
           q == ReserveChild(p, granted)
           new == NewContext(parent, classes \intersect p.classes, granted)
           reserved == [contexts EXCEPT ![parent] = q]
<1>1. /\ id \notin D /\ Active(parent)
      /\ contexts' = IF Exhausted(p) THEN reserved ELSE With(reserved, id, new)
  BY DEF CreateContext, Exists, Delegable
<1>2. /\ p \in ContextRecords(D) /\ parent \in D /\ IsFiniteSet(D) /\ Root \in D
      /\ \A r \in Resources : /\ p.reserved[r] \in Nat /\ p.reserved[r] <= p.contract[r]
                              /\ p.contract[r] \in 0..Most
  <2>1. p \in ContextRecords(D) /\ \A r \in Resources : p.reserved[r] <= p.contract[r]
    BY DEF ContextsInv, DelegationCovered
  <2> QED
    BY <2>1 DEF ContextsInv, ContextRecords
<1>3. /\ granted \in [Resources -> 0..Most]
      /\ \A r \in Resources : granted[r] + p.reserved[r] <= p.contract[r]
  <2>1. contexts[Root].contract = [r \in Resources |-> Most]
    BY DEF ContextsInv
  <2> HIDE DEF p, D
  <2> QED
    BY <1>2, <2>1, EffectiveWithin
<1>4. granted \in [Resources -> Nat]
  BY <1>3, MostFacts
<1> HIDE DEF granted
<1>5. /\ q \in ContextRecords(D) /\ q.parent = p.parent /\ q.classes = p.classes
      /\ q.contract = p.contract /\ q.lifecycle = p.lifecycle
      /\ \A r \in Resources : q.reserved[r] = p.reserved[r] + granted[r]
  <2> HIDE DEF p, D
  <2> QED
    BY <1>2, <1>4, ReserveFields
<1>6. /\ new \in ContextRecords(D \union {id}) /\ new.parent = parent
      /\ new.contract = granted /\ new.lifecycle = "Active"
      /\ \A r \in Resources : new.reserved[r] = 0
  BY <1>2, <1>3 DEF NewContext, ContextRecords, Lifecycles
<1>7. /\ reserved \in [D -> ContextRecords(D)] /\ reserved[parent] = q
      /\ \A c \in D : c # parent => reserved[c] = contexts[c]
  BY <1>2, <1>5 DEF ContextsInv
<1> HIDE DEF q, new, reserved
\* What both outcomes have in common.
<1>8. ASSUME D \subseteq DOMAIN contexts',
             \A c \in D : contexts'[c] = reserved[c],
             contexts' \in [DOMAIN contexts' -> ContextRecords(DOMAIN contexts')],
             IsFiniteSet(DOMAIN contexts'),
             \A c \in D \ {parent} : Children(c)' \in SUBSET Children(c),
             \A r \in Resources :
               /\ Cardinality(UnitsOf(Children(parent), r)')
                    <= Cardinality(UnitsOf(Children(parent), r)) + granted[r],
             \A c \in DOMAIN contexts' \ D, r \in Resources :
               /\ Cardinality(UnitsOf(Children(c), r)') <= contexts'[c].reserved[r]
               /\ contexts'[c].reserved[r] <= contexts'[c].contract[r],
             \A r \in Resources : Cardinality(UnitsOf(Children(parent), r)') \in Nat
      PROVE  ContextsInv'
  <2>1. \A c \in D : /\ contexts'[c].contract = contexts[c].contract
                     /\ c # parent => contexts'[c] = contexts[c]
    BY <1>5, <1>7, <1>8
  <2>2. ASSUME NEW c \in D \ {parent}, NEW r \in Resources
        PROVE  /\ Cardinality(UnitsOf(Children(c), r)') <= contexts'[c].reserved[r]
               /\ contexts'[c].reserved[r] <= contexts'[c].contract[r]
    <3>1. Children(c) \in SUBSET D
      BY ChildrenWithin
    <3> QED
      BY <1>8, <2>1, <3>1, CoverKept
  <2>3. ASSUME NEW r \in Resources
        PROVE  /\ Cardinality(UnitsOf(Children(parent), r)') <= contexts'[parent].reserved[r]
               /\ contexts'[parent].reserved[r] <= contexts'[parent].contract[r]
    <3>1. Cardinality(UnitsOf(Children(parent), r)) <= p.reserved[r]
      BY DEF ContextsInv, DelegationCovered
    <3>2. Cardinality(UnitsOf(Children(parent), r)) \in Nat
      <4>1. Children(parent) \in SUBSET D /\ IsFiniteSet(Children(parent))
        BY <1>2, ChildrenWithin, FS_Subset
      <4> QED
        BY <4>1, AmountTyped, MostFacts, UnitsOfUnits, UnitsFinite
    <3>3. /\ contexts'[parent].reserved[r] = p.reserved[r] + granted[r]
          /\ contexts'[parent].contract[r] = p.contract[r]
      BY <1>2, <1>5, <1>7, <1>8
    <3>4. /\ granted[r] \in Nat /\ p.reserved[r] \in Nat /\ p.contract[r] \in Nat
          /\ granted[r] + p.reserved[r] <= p.contract[r]
      BY <1>2, <1>3, <1>4, MostFacts
    <3>5. /\ Cardinality(UnitsOf(Children(parent), r)')
               <= Cardinality(UnitsOf(Children(parent), r)) + granted[r]
          /\ Cardinality(UnitsOf(Children(parent), r)') \in Nat
      BY <1>8
    <3> HIDE DEF p
    <3> QED
      BY <3>1, <3>2, <3>3, <3>4, <3>5
  <2>4. DelegationCovered'
    BY <1>8, <2>2, <2>3 DEF DelegationCovered
  <2>5. contexts'[Root].contract = [r \in Resources |-> Most]
    BY <1>2, <2>1 DEF ContextsInv
  <2> QED
    BY <1>2, <1>8, <2>4, <2>5 DEF ContextsInv
<1>9. CASE Exhausted(p)
  <2>1. contexts' = reserved
    BY <1>1, <1>9
  <2>2. DOMAIN contexts' = D
    BY <1>7, <2>1
  <2>3. \A c \in D : Children(c)' = Children(c)
    BY <1>5, <1>7, <2>1, <2>2 DEF Children, Active, Exists
  <2>4. ASSUME NEW r \in Resources
        PROVE  UnitsOf(Children(parent), r)' = UnitsOf(Children(parent), r)
    BY <1>2, <1>5, <1>7, <2>1, <2>3, ChildrenWithin DEF UnitsOf
  <2>5. \A r \in Resources : Cardinality(UnitsOf(Children(parent), r)) \in Nat
    <3>1. Children(parent) \in SUBSET D /\ IsFiniteSet(Children(parent))
      BY <1>2, ChildrenWithin, FS_Subset
    <3> QED
      BY <3>1, AmountTyped, MostFacts, UnitsOfUnits, UnitsFinite
  <2> QED
    BY <1>2, <1>4, <1>7, <1>8, <2>1, <2>2, <2>3, <2>4, <2>5
<1>10. CASE ~Exhausted(p)
  <2>1. contexts' = [c \in D \union {id} |-> IF c = id THEN new ELSE reserved[c]]
    BY <1>1, <1>7, <1>10 DEF With
  <2>2. /\ DOMAIN contexts' = D \union {id} /\ contexts'[id] = new
        /\ \A c \in D : contexts'[c] = reserved[c]
    BY <1>1, <2>1
  <2>3. contexts' \in [D \union {id} -> ContextRecords(D \union {id})]
    <3>1. ContextRecords(D) \subseteq ContextRecords(D \union {id})
      BY DEF ContextRecords
    <3> QED
      BY <1>6, <1>7, <2>1, <3>1
  <2>4. IsFiniteSet(D \union {id})
    BY <1>2, FS_AddElement
  <2>5. \A c \in D \ {parent} : Children(c)' = Children(c)
    BY <1>1, <1>5, <1>6, <1>7, <2>2 DEF Children, Active, Exists
  <2>6. Children(parent)' = Children(parent) \union {id}
    BY <1>1, <1>2, <1>5, <1>6, <1>7, <2>2 DEF Children, Active, Exists
  <2>7. Children(id)' = {}
    <3>1. \A c \in D : contexts'[c].parent \in D
      BY <1>7, <2>2 DEF ContextRecords
    <3> QED
      BY <1>1, <1>2, <1>6, <2>2, <3>1 DEF Children
  <2>8. ASSUME NEW r \in Resources
        PROVE  /\ Cardinality(UnitsOf(Children(id), r)') <= contexts'[id].reserved[r]
               /\ contexts'[id].reserved[r] <= contexts'[id].contract[r]
    <3>1. UnitsOf(Children(id), r)' = {}
      BY <2>7 DEF UnitsOf
    <3>2. contexts'[id].reserved[r] = 0 /\ contexts'[id].contract[r] \in Nat
      BY <1>4, <1>6, <2>2
    <3> QED
      BY <3>1, <3>2, FS_EmptySet
  <2>9. ASSUME NEW r \in Resources
        PROVE  /\ Cardinality(UnitsOf(Children(parent), r)')
                    <= Cardinality(UnitsOf(Children(parent), r)) + granted[r]
               /\ Cardinality(UnitsOf(Children(parent), r)') \in Nat
    <3> DEFINE f == [c \in D \union {id} |-> IF c = id THEN granted[r] ELSE Amount(r)[c]]
               C == Children(parent)
    <3>1. /\ C \in SUBSET D /\ IsFiniteSet(C)
      BY <1>2, ChildrenWithin, FS_Subset
    <3>2. /\ f \in [D \union {id} -> Nat] /\ \A c \in D \union {id} : f[c] <= Most
      BY <1>3, <1>4, AmountTyped
    <3>3. \A c \in C : f[c] = Amount(r)[c]
      BY <1>1, <3>1
    <3>4. UnitsOf(Children(parent), r)' = Units(f, C \union {id})
      <4>1. UnitsOf(Children(parent), r)'
              = UNION {{c} \X (1..contexts'[c].contract[r]) : c \in C \union {id}}
        BY <2>6 DEF UnitsOf
      <4>2. \A c \in C \union {id} : contexts'[c].contract[r] = f[c]
        BY <1>1, <1>5, <1>6, <1>7, <2>2, <3>1 DEF Amount
      <4> HIDE DEF f, C
      <4> QED
        BY <4>1, <4>2 DEF Units
    <3>5. f[id] = granted[r] /\ granted[r] \in Nat
      BY <1>4
    <3>6. UnitsOf(C, r) = Units(f, C)
      <4> HIDE DEF f
      <4> QED
        BY <3>1, <3>3, UnitsOfUnits, UnitsSame
    <3> HIDE DEF f, C
    <3>7. id \notin C /\ C \in SUBSET (D \union {id}) /\ id \in D \union {id}
      BY <1>1, <3>1
    <3> HIDE DEF D
    <3>8. /\ Cardinality(Units(f, C \union {id})) = Cardinality(Units(f, C)) + f[id]
          /\ Cardinality(Units(f, C)) \in Nat
      BY <3>1, <3>2, <3>7, MostFacts, UnitsAdd, UnitsFinite
    <3> QED
      BY <3>4, <3>5, <3>6, <3>8 DEF C
  <2> QED
    BY <1>2, <1>8, <2>2, <2>3, <2>4, <2>5, <2>8, <2>9
<1> QED
  BY <1>9, <1>10

LEMMA RevokedContexts ==
  ASSUME ContextsInv, NEW id \in DOMAIN contexts, Revoke(id)
  PROVE  /\ DOMAIN contexts' = DOMAIN contexts
         /\ contexts' \in [DOMAIN contexts -> ContextRecords(DOMAIN contexts)]
         /\ id # Root /\ Active(id) /\ contexts'[id].lifecycle = "Revoked"
         /\ \A c \in DOMAIN contexts :
              /\ contexts'[c].parent = contexts[c].parent
              /\ contexts'[c].contract = contexts[c].contract
              /\ contexts'[c].lifecycle # "Active" \/ contexts'[c].lifecycle = contexts[c].lifecycle
              /\ \/ contexts'[c].reserved = contexts[c].reserved
                 \/ /\ c = contexts[id].parent
                    /\ \A r \in Resources :
                         /\ contexts[c].reserved[r] >= contexts[id].contract[r]
                         /\ contexts'[c].reserved[r]
                              = contexts[c].reserved[r] - contexts[id].contract[r]
<1> DEFINE D == DOMAIN contexts
           gone == {c \in Subtree(id) : Active(c)}
           amount == contexts[id].contract
           next(c) == IF c \in gone THEN RevokeContext(contexts[c])
                      ELSE IF c = contexts[id].parent THEN ReleaseChild(contexts[c], amount)
                      ELSE contexts[c]
<1>1. /\ contexts' = [c \in D |-> next(c)] /\ id # Root /\ Active(id)
  BY DEF Revoke
<1>2. id \in gone
  BY <1>1 DEF Subtree
<1>3. contexts \in [D -> ContextRecords(D)]
  BY DEF ContextsInv
<1>4. amount \in [Resources -> Nat]
  <2>1. contexts[id] \in ContextRecords(D)
    BY <1>3
  <2> QED
    BY <2>1, MostFacts DEF ContextRecords
<1> HIDE DEF gone, amount, D
<1>5. ASSUME NEW c \in D
      PROVE  /\ next(c) \in ContextRecords(D)
             /\ next(c).parent = contexts[c].parent
             /\ next(c).contract = contexts[c].contract
             /\ c \in gone => next(c).lifecycle = "Revoked"
             /\ c \notin gone => next(c).lifecycle = contexts[c].lifecycle
             /\ \/ next(c).reserved = contexts[c].reserved
                \/ /\ c = contexts[id].parent
                   /\ \A r \in Resources :
                        /\ contexts[c].reserved[r] >= amount[r]
                        /\ next(c).reserved[r] = contexts[c].reserved[r] - amount[r]
  <2>1. contexts[c] \in ContextRecords(D)
    BY <1>3
  <2>2. CASE c \in gone
    <3>1. next(c) = RevokeContext(contexts[c])
      BY <2>2
    <3> HIDE DEF next
    <3> QED
      BY <2>1, <2>2, <3>1, RevokeFields
  <2>3. CASE c \notin gone /\ c = contexts[id].parent
    <3>1. next(c) = ReleaseChild(contexts[c], amount)
      BY <2>3
    <3> HIDE DEF next
    <3> QED
      BY <1>4, <2>1, <2>3, <3>1, ReleaseFields
  <2>4. CASE c \notin gone /\ c # contexts[id].parent
    BY <2>1, <2>4
  <2> QED
    BY <2>2, <2>3, <2>4
<1> HIDE DEF next
<1>6. DOMAIN contexts' = D /\ \A c \in D : contexts'[c] = next(c)
  BY <1>1
<1>7. contexts' \in [D -> ContextRecords(D)]
  BY <1>1, <1>5
<1>8. id \in D
  BY DEF D
<1> QED
  BY <1>1, <1>2, <1>5, <1>6, <1>7, <1>8 DEF D, amount

LEMMA RevokeStep ==
  ASSUME ContextsInv, NEW id \in DOMAIN contexts, Revoke(id)
  PROVE  ContextsInv'
<1> DEFINE D == DOMAIN contexts
           amount == contexts[id].contract
           P == contexts[id].parent
<1>1. /\ DOMAIN contexts' = D /\ contexts' \in [D -> ContextRecords(D)]
      /\ id # Root /\ Active(id) /\ contexts'[id].lifecycle = "Revoked"
      /\ \A c \in D :
           /\ contexts'[c].parent = contexts[c].parent
           /\ contexts'[c].contract = contexts[c].contract
           /\ contexts'[c].lifecycle # "Active" \/ contexts'[c].lifecycle = contexts[c].lifecycle
           /\ \/ contexts'[c].reserved = contexts[c].reserved
              \/ /\ c = P
                 /\ \A r \in Resources :
                      /\ contexts[c].reserved[r] >= amount[r]
                      /\ contexts'[c].reserved[r] = contexts[c].reserved[r] - amount[r]
  BY RevokedContexts
<1>2. \A c \in D : Children(c)' \in SUBSET (Children(c) \ {id})
  BY <1>1 DEF Children, Active, Exists
<1>3. ASSUME NEW c \in D, NEW r \in Resources
      PROVE  /\ Cardinality(UnitsOf(Children(c), r)') <= contexts'[c].reserved[r]
             /\ contexts'[c].reserved[r] <= contexts'[c].contract[r]
  <2>1. CASE contexts'[c].reserved = contexts[c].reserved
    <3>1. \A d \in Children(c) : contexts'[d].contract = contexts[d].contract
      BY <1>1, ChildrenWithin
    <3> QED
      BY <1>1, <1>2, <2>1, <3>1, CoverKept
  <2>2. CASE /\ c = P
             /\ contexts[c].reserved[r] >= amount[r]
             /\ contexts'[c].reserved[r] = contexts[c].reserved[r] - amount[r]
    <3> DEFINE C == Children(c) \ {id}
               f == Amount(r)
    <3>b. PICK B : B = Children(c)'
      OBVIOUS
    <3>1. /\ id \in Children(c) /\ Children(c) \in SUBSET D /\ C \in SUBSET D
          /\ C \union {id} = Children(c) /\ id \notin C /\ B \in SUBSET C
      BY <1>1, <1>2, <2>2, <3>b, ChildrenWithin DEF Children
    <3>2. /\ f \in [D -> Nat] /\ \A d \in D : f[d] <= Most
          /\ IsFiniteSet(C) /\ f[id] = amount[r]
      BY <3>1, AmountTyped DEF Amount
    <3>3. /\ Cardinality(Units(f, Children(c))) <= contexts[c].reserved[r]
          /\ contexts[c].reserved[r] <= contexts[c].contract[r]
      BY <3>1, UnitsOfUnits DEF ContextsInv, DelegationCovered
    <3>4. UnitsOf(Children(c), r)' = Units(f, B)
      <4>1. UnitsOf(Children(c), r)' = UNION {{d} \X (1..contexts'[d].contract[r]) : d \in B}
        BY <3>b DEF UnitsOf
      <4>2. \A d \in B : contexts'[d].contract[r] = f[d]
        BY <1>1, <3>1 DEF Amount
      <4> HIDE DEF f
      <4> QED
        BY <4>1, <4>2 DEF Units
    <3>5. contexts[c].reserved[r] \in Nat /\ contexts[c].contract[r] \in Nat /\ amount[r] \in Nat
      <4>1. contexts[c] \in ContextRecords(D) /\ contexts[id] \in ContextRecords(D)
        BY DEF ContextsInv
      <4> QED
        BY <4>1, MostFacts DEF ContextRecords
    <3> HIDE DEF C, f, D, amount
    <3>6. Cardinality(Units(f, C \union {id})) = Cardinality(Units(f, C)) + f[id]
      <4>1. id \in D
        BY DEF D
      <4> QED
        BY <3>1, <3>2, <4>1, MostFacts, UnitsAdd
    <3>7. /\ Cardinality(Units(f, B)) <= Cardinality(Units(f, C))
          /\ Cardinality(Units(f, B)) \in Nat /\ Cardinality(Units(f, C)) \in Nat
      BY <3>1, <3>2, MostFacts, UnitsSubset
    <3>8. Cardinality(Units(f, Children(c))) = Cardinality(Units(f, C)) + amount[r]
      BY <3>1, <3>2, <3>6
    <3>9. contexts'[c].contract[r] = contexts[c].contract[r]
      BY <1>1
    <3> QED
      BY <2>2, <3>3, <3>4, <3>5, <3>7, <3>8, <3>9
  <2> QED
    BY <1>1, <2>1, <2>2
<1>4. DelegationCovered'
  BY <1>1, <1>3 DEF DelegationCovered
<1> QED
  BY <1>1, <1>4 DEF ContextsInv

LEMMA ContextsKept ==
  ASSUME ContextsInv, UNCHANGED contexts
  PROVE  ContextsInv'
BY DEF ContextsInv, DelegationCovered, UnitsOf, Children, Active, Exists

LEMMA ContextsStep ==
  ASSUME ContextsInv, [AuthorityNext]_allVars
  PROVE  ContextsInv'
<1>1. CASE UNCHANGED allVars
  BY <1>1, ContextsKept DEF allVars, authorityVars
<1>2. CASE ContextNext
  BY <1>2, CreateContextStep, RevokeStep DEF ContextNext
<1>3. CASE SurfaceNext
  <2>1. UNCHANGED contexts
    BY <1>3 DEF SurfaceNext, CreateSurface, UpdateSurface, DestroySurface, OfferTarget
  <2> QED
    BY <2>1, ContextsKept
<1>4. CASE SceneNext
  <2>1. UNCHANGED contexts
    BY <1>4 DEF SceneNext, BeginTransaction, AbortTransaction, MutateScene, RequestCommit,
                Present, Interrupt
  <2> QED
    BY <2>1, ContextsKept
<1> QED
  BY <1>1, <1>2, <1>3, <1>4 DEF AuthorityNext

\* The ledger covers what was delegated (ReservationLedger, reserve_child
\* and release_child): whatever was created, revoked or refused before, the
\* contracts of the live children of a context fit in what it has reserved,
\* and that fits in its own contract.  ContextsInv adds that contexts form
\* a finite map of records whose contracts stay within the root's.
THEOREM Covered == AuthoritySpec => []DelegationCovered
<1>1. AuthoritySpec => []ContextsInv
  BY ContextsInit, ContextsStep, PTL DEF AuthoritySpec
<1>2. ContextsInv => DelegationCovered
  BY DEF ContextsInv
<1> QED
  BY <1>1, <1>2, PTL

-----------------------------------------------------------------------------
(* Keyed requests.  The state of a key is told by its entry in the cache   *)
(* and by the job that waits for the compositor, of which there is at most *)
(* one.                                                                    *)
Effects == 1..MaxSceneRevision

\* No key: nothing happened.  A pending key had no effect yet.  After an
\* interruption the outcome is unknown, whether or not there was an effect.
KeyState(k) ==
  \/ k \notin DOMAIN cache /\ applied[k] = {} /\ told[k] = {}
  \/ /\ k \in DOMAIN cache /\ cache[k].result = Pending
     /\ applied[k] = {} /\ told[k] \subseteq {Pending}
  \/ /\ k \in DOMAIN cache /\ cache[k].result = Unknown
     /\ told[k] \subseteq {Pending, Unknown}
     /\ applied[k] = {} \/ \E n \in Effects : applied[k] = {n}
  \/ /\ k \in DOMAIN cache /\ cache[k].result = Failed
     /\ told[k] \subseteq {Pending, Failed} /\ applied[k] = {}
  \/ /\ k \in DOMAIN cache /\ cache[k].result \in Effects
     /\ told[k] \subseteq {Pending, cache[k].result} /\ applied[k] = {cache[k].result}

JobsInv ==
  /\ \A j \in jobs : /\ j.key \in DOMAIN cache
                     /\ cache[j.key].result \in {Pending, Unknown}
                     /\ applied[j.key] = {}
  /\ \A i, j \in jobs : i.key = j.key => i = j

CacheInv ==
  /\ scene_revision \in 0..MaxSceneRevision
  /\ IsFiniteSet(DOMAIN surfaces)
  /\ DOMAIN cache \subseteq Keys
  /\ cache \in [DOMAIN cache -> [request: {cache[k].request : k \in DOMAIN cache}, result: Int]]
  /\ applied \in [Keys -> SUBSET Int] /\ told \in [Keys -> SUBSET Int]
  /\ \A j \in jobs : j.key \in Keys
  /\ \A k \in Keys : KeyState(k)
  /\ JobsInv

LEMMA CacheMeansOnce == CacheInv => AppliedOnce
<1>1. SUFFICES ASSUME CacheInv, NEW k \in Keys
               PROVE  /\ Cardinality(applied[k]) <= 1
                      /\ told[k] \ {Pending, Unknown, Failed} \subseteq applied[k]
                      /\ Failed \in told[k] => applied[k] = {} /\ Unknown \notin told[k]
  BY DEF AppliedOnce
<1>2. KeyState(k)
  BY <1>1 DEF CacheInv
<1>3. Cardinality({}) = 0 /\ \A n : Cardinality({n}) = 1
  BY FS_EmptySet, FS_Singleton
<1>4. Cardinality(applied[k]) <= 1
  <2>1. applied[k] = {} \/ \E n : applied[k] = {n}
    BY <1>2 DEF KeyState
  <2>2. CASE applied[k] = {}
    BY <1>3, <2>2
  <2>3. CASE \E n : applied[k] = {n}
    <3>1. PICK n : applied[k] = {n}
      BY <2>3
    <3>2. Cardinality({n}) = 1
      BY <1>3
    <3> QED
      BY <3>1, <3>2
  <2> QED
    BY <2>1, <2>2, <2>3
<1>5. told[k] \ {Pending, Unknown, Failed} \subseteq applied[k]
  BY <1>2 DEF KeyState
<1>6. Failed \in told[k] => applied[k] = {} /\ Unknown \notin told[k]
  BY <1>2, SceneAssumption DEF KeyState, Failed, Unknown, Pending, Effects
<1> QED
  BY <1>4, <1>5, <1>6

LEMMA StoredResult ==
  ASSUME CacheInv, NEW key \in Keys, NEW result \in Int
  PROVE  /\ DOMAIN Stored(key, result) = DOMAIN cache
         /\ \A k \in DOMAIN cache :
              /\ Stored(key, result)[k].request = cache[k].request
              /\ Stored(key, result)[k].result
                   = IF k = key /\ cache[k].result = Pending THEN result ELSE cache[k].result
         /\ Stored(key, result) \in
              [DOMAIN cache -> [request: {cache[k].request : k \in DOMAIN cache}, result: Int]]
<1> DEFINE R == [request: {cache[k].request : k \in DOMAIN cache}, result: Int]
<1>1. cache \in [DOMAIN cache -> R]
  BY DEF CacheInv
<1>2. CASE key \in DOMAIN cache /\ cache[key].result = Pending
  <2> DEFINE q == [cache[key] EXCEPT !.result = result]
  <2>1. Stored(key, result) = [cache EXCEPT ![key] = q]
    BY <1>2 DEF Stored, Known
  <2>2. q \in R /\ q.request = cache[key].request /\ q.result = result
    BY <1>1, <1>2
  <2> HIDE DEF q, R
  <2> QED
    BY <1>1, <1>2, <2>1, <2>2 DEF R
<1>3. CASE ~(key \in DOMAIN cache /\ cache[key].result = Pending)
  <2>1. Stored(key, result) = cache
    BY <1>3 DEF Stored, Known
  <2> QED
    BY <1>1, <1>3, <2>1
<1> QED
  BY <1>2, <1>3

LEMMA CacheInit == AuthorityInit => CacheInv
<1>1. SUFFICES ASSUME AuthorityInit PROVE CacheInv
  OBVIOUS
<1>2. /\ surfaces = [k \in {} |-> k] /\ cache = [k \in {} |-> k] /\ jobs = {}
      /\ scene_revision = 0
      /\ applied = [k \in Keys |-> {}] /\ told = [k \in Keys |-> {}]
  BY <1>1 DEF AuthorityInit, SceneInit, Empty
<1>3. DOMAIN surfaces = {} /\ DOMAIN cache = {} /\ IsFiniteSet({})
  BY <1>2, FS_EmptySet
<1>4. cache \in [DOMAIN cache -> [request: {cache[k].request : k \in DOMAIN cache}, result: Int]]
  BY <1>2
<1> QED
  BY <1>2, <1>3, <1>4, SceneAssumption DEF CacheInv, KeyState, JobsInv

\* The part of a step that only the scene and the surfaces see.
LEMMA CacheKept ==
  ASSUME CacheInv, UNCHANGED <<cache, jobs, applied, told>>,
         scene_revision' \in 0..MaxSceneRevision, IsFiniteSet(DOMAIN surfaces')
  PROVE  CacheInv'
BY DEF CacheInv, KeyState, JobsInv

\* The surfaces that a teardown takes are finitely many, and the revision
\* goes up by those that were shown, until it is exhausted.
LEMMA TearDownRevision ==
  ASSUME scene_revision \in 0..MaxSceneRevision, IsFiniteSet(DOMAIN surfaces),
         NEW gone \in SUBSET DOMAIN surfaces, TearDown(gone)
  PROVE  /\ scene_revision' \in 0..MaxSceneRevision
         /\ nodes' = Minus(nodes, {n \in DOMAIN nodes : nodes[n] \in gone})
         /\ (\E n \in DOMAIN nodes : nodes[n] \in gone) =>
              scene_revision' > scene_revision \/ scene_revision = MaxSceneRevision
<1> DEFINE shown == Shown(gone)
           advanced == scene_revision + Cardinality(shown)
<1>1. shown \in SUBSET gone
  BY DEF Shown
<1>2. IsFiniteSet(shown) /\ Cardinality(shown) \in Nat
  BY <1>1, FS_Subset, FS_CardinalityType
<1>3. scene_revision' = IF advanced > MaxSceneRevision THEN MaxSceneRevision ELSE advanced
  BY DEF TearDown, RemoveSurfaceReferences
<1>4. nodes' = Minus(nodes, UNION {Showing(s) : s \in gone})
  BY DEF TearDown, RemoveSurfaceReferences
<1>5. UNION {Showing(s) : s \in gone} = {n \in DOMAIN nodes : nodes[n] \in gone}
  BY DEF Showing
<1>6. ASSUME NEW n \in DOMAIN nodes, nodes[n] \in gone
      PROVE  Cardinality(shown) # 0
  <2>1. nodes[n] \in shown
    BY <1>6 DEF Shown, Showing
  <2> QED
    BY <1>2, <2>1, FS_EmptySet
<1> HIDE DEF shown
<1>7. /\ scene_revision' \in 0..MaxSceneRevision
      /\ Cardinality(shown) # 0 =>
           scene_revision' > scene_revision \/ scene_revision = MaxSceneRevision
  BY <1>2, <1>3, SceneAssumption
<1>8. nodes' = Minus(nodes, {n \in DOMAIN nodes : nodes[n] \in gone})
  BY <1>4, <1>5
<1> QED
  BY <1>6, <1>7, <1>8

LEMMA RequestCommitStep ==
  ASSUME CacheInv, NEW key \in Keys, NEW request, RequestCommit(key, request)
  PROVE  CacheInv'
<1>1. UNCHANGED <<surfaces, scene_revision, applied>>
  BY DEF RequestCommit, sceneVars
<1>2. CASE UNCHANGED <<cache, jobs, told>>
  BY <1>1, <1>2, CacheKept DEF CacheInv
<1>3. CASE /\ Repeats(key, request) /\ Answers(key, cache[key].result)
           /\ UNCHANGED <<cache, jobs>>
  <2> DEFINE r == cache[key].result
  <2>1. /\ key \in DOMAIN cache /\ r \in Int /\ told \in [Keys -> SUBSET Int]
        /\ told' = [told EXCEPT ![key] = told[key] \union {r}]
    BY <1>3 DEF Repeats, Known, Answers, CacheInv
  <2>2. /\ told' \in [Keys -> SUBSET Int] /\ told'[key] = told[key] \union {r}
        /\ \A k \in Keys : k # key => told'[k] = told[k]
    BY <2>1
  <2>3. ASSUME NEW k \in Keys PROVE KeyState(k)'
    <3>1. KeyState(k)
      BY DEF CacheInv
    <3>2. CASE k = key
      BY <1>1, <1>3, <2>1, <2>2, <3>1, <3>2 DEF KeyState
    <3>3. CASE k # key
      BY <1>1, <1>3, <2>2, <3>1, <3>3 DEF KeyState
    <3> QED
      BY <3>2, <3>3
  <2> QED
    BY <1>1, <1>3, <2>2, <2>3 DEF CacheInv, JobsInv
<1>4. CASE /\ Fresh(key) /\ cache' = Reserved(key, request) /\ UNCHANGED told
           /\ jobs' = jobs \union {[key |-> key, arrival |-> requests, request |-> request]}
  <2> DEFINE job == [key |-> key, arrival |-> requests, request |-> request]
             entry == [request |-> request, result |-> Pending]
             K == DOMAIN cache \union {key}
  <2>1. /\ key \notin DOMAIN cache
        /\ cache' = [k \in K |-> IF k = key THEN entry ELSE cache[k]]
    BY <1>4 DEF Fresh, Known, Reserved, With
  <2>2. job.key = key /\ jobs' = jobs \union {job}
    BY <1>4
  <2>3. entry.request = request /\ entry.result = Pending /\ Pending \in Int
    BY DEF Pending
  <2>4. /\ DOMAIN cache' = K /\ cache'[key] = entry
        /\ \A k \in DOMAIN cache : cache'[k] = cache[k]
    BY <2>1
  <2>5. cache' \in [K -> [request: {cache'[k].request : k \in K}, result: Int]]
    <3>1. \A k \in DOMAIN cache :
            cache[k] \in [request: {cache[d].request : d \in DOMAIN cache}, result: Int]
      BY DEF CacheInv
    <3> DEFINE S == {cache'[k].request : k \in K}
    <3>2. \A k \in K : cache'[k].request \in S
      OBVIOUS
    <3>3. entry \in [request: S, result: Int]
      BY <2>3, <2>4, <3>2
    <3>4. ASSUME NEW k \in DOMAIN cache PROVE cache[k] \in [request: S, result: Int]
      <4>1. cache[k].request \in S
        BY <2>4, <3>2
      <4> HIDE DEF S
      <4> QED
        BY <3>1, <4>1
    <3> HIDE DEF S, entry
    <3>5. cache' \in [K -> [request: S, result: Int]]
      BY <2>1, <3>3, <3>4
    <3> QED
      BY <3>5 DEF S
  <2> HIDE DEF job, entry
  <2>6. KeyState(key)'
    <3>1. applied[key] = {} /\ told[key] = {}
      BY <2>1 DEF CacheInv, KeyState
    <3> QED
      BY <1>1, <1>4, <2>3, <2>4, <3>1 DEF KeyState
  <2>7. ASSUME NEW k \in Keys, k # key PROVE KeyState(k)'
    <3>1. KeyState(k)
      BY DEF CacheInv
    <3> QED
      BY <1>1, <1>4, <2>4, <2>7, <3>1 DEF KeyState
  <2>8. JobsInv'
    <3>1. \A j \in jobs : j.key \in DOMAIN cache /\ j.key # key
      BY <2>1 DEF CacheInv, JobsInv
    <3>2. cache'[key].result \in {Pending, Unknown} /\ applied[key] = {}
      BY <2>1, <2>3, <2>4 DEF CacheInv, KeyState
    <3>3. ASSUME NEW j \in jobs'
          PROVE  /\ j.key \in DOMAIN cache' /\ cache'[j.key].result \in {Pending, Unknown}
                 /\ applied'[j.key] = {}
      <4>1. CASE j = job
        BY <1>1, <2>2, <2>4, <3>2, <4>1
      <4>2. CASE j \in jobs
        BY <1>1, <2>4, <3>1, <4>2 DEF CacheInv, JobsInv
      <4> QED
        BY <2>2, <4>1, <4>2
    <3>4. \A i, j \in jobs' : i.key = j.key => i = j
      BY <2>2, <3>1 DEF CacheInv, JobsInv
    <3> QED
      BY <3>3, <3>4 DEF JobsInv
  <2>9. DOMAIN cache' \subseteq Keys /\ \A j \in jobs' : j.key \in Keys
    BY <2>2, <2>4 DEF CacheInv
  <2> QED
    BY <1>1, <1>4, <2>4, <2>5, <2>6, <2>7, <2>8, <2>9 DEF CacheInv
<1> QED
  BY <1>2, <1>3, <1>4 DEF RequestCommit, Accepts

\* The boundary is the commit's own: what it resulted in is stored and
\* answered only where no interruption made the outcome unknown.
LEMMA PresentStep ==
  ASSUME CacheInv, NEW job \in jobs, Present(job)
  PROVE  CacheInv'
<1> DEFINE key == job.key
<1>r. PICK result : result = IF scene_result' = "Presented" THEN scene_revision' ELSE Failed
  OBVIOUS
<1>1. /\ CommitScene(job.request.transaction, job.request.target, job.request.revision)
      /\ jobs' = jobs \ {job}
      /\ cache' = Stored(key, result)
      /\ IF cache'[key].result = result THEN Answers(key, result) ELSE UNCHANGED told
      /\ applied' = [applied EXCEPT ![key] = (applied[key] \union {result}) \ {Failed}]
      /\ UNCHANGED surfaces
  BY <1>r DEF Present
<1>2. /\ scene_revision' \in 0..MaxSceneRevision
      /\ result = Failed \/ result \in Effects
  <2>1. scene_revision \in 0..MaxSceneRevision
    BY DEF CacheInv
  <2>2. \/ scene_revision' = scene_revision /\ scene_result' = "Refused"
        \/ /\ scene_revision < MaxSceneRevision
           /\ scene_revision' = scene_revision + 1 /\ scene_result' = "Presented"
    BY <1>1 DEF CommitScene, SceneRefuses
  <2> QED
    BY <1>r, <2>1, <2>2, SceneAssumption DEF Effects
<1>3. /\ key \in Keys /\ key \in DOMAIN cache
      /\ cache[key].result \in {Pending, Unknown} /\ applied[key] = {}
      /\ KeyState(key)
  BY DEF CacheInv, JobsInv
<1>4. /\ result \in Int /\ Pending \in Int /\ Failed \in Int /\ Unknown \in Int
      /\ Pending # Unknown /\ Failed # Pending /\ Failed # Unknown
      /\ \A n \in Effects : n # Failed /\ n # Pending /\ n # Unknown /\ n \in Int
  BY <1>2, SceneAssumption DEF Pending, Failed, Unknown, Effects
<1> HIDE DEF key
<1>5. /\ DOMAIN cache' = DOMAIN cache
      /\ cache'[key].result = IF cache[key].result = Pending THEN result ELSE Unknown
      /\ \A k \in DOMAIN cache :
           /\ cache'[k].request = cache[k].request
           /\ k # key => cache'[k].result = cache[k].result
      /\ cache' \in [DOMAIN cache -> [request: {cache[k].request : k \in DOMAIN cache}, result: Int]]
  <2> DEFINE R == [DOMAIN cache -> [request: {cache[k].request : k \in DOMAIN cache}, result: Int]]
  <2>1. /\ DOMAIN cache' = DOMAIN cache
        /\ \A k \in DOMAIN cache :
             /\ cache'[k].request = cache[k].request
             /\ cache'[k].result
                  = IF k = key /\ cache[k].result = Pending THEN result ELSE cache[k].result
        /\ cache' \in R
    <3>1. CacheInv /\ key \in Keys /\ result \in Int /\ cache' = Stored(key, result)
      BY <1>1, <1>3, <1>4
    <3> QED
      BY <3>1, StoredResult
  <2> HIDE DEF R
  <2>2. cache'[key].result = IF cache[key].result = Pending THEN result ELSE Unknown
    BY <1>3, <2>1
  <2>3. \A k \in DOMAIN cache :
          /\ cache'[k].request = cache[k].request
          /\ k # key => cache'[k].result = cache[k].result
    BY <2>1
  <2> QED
    BY <2>1, <2>2, <2>3 DEF R
<1>6. /\ applied' \in [Keys -> SUBSET Int]
      /\ applied'[key] = IF result = Failed THEN {} ELSE {result}
      /\ \A k \in Keys : k # key => applied'[k] = applied[k]
  <2>1. applied \in [Keys -> SUBSET Int]
    BY DEF CacheInv
  <2> QED
    BY <1>1, <1>3, <1>4, <2>1
<1>7. /\ told' \in [Keys -> SUBSET Int]
      /\ told'[key] = IF cache[key].result = Pending THEN told[key] \union {result} ELSE told[key]
      /\ \A k \in Keys : k # key => told'[k] = told[k]
  <2>1. told \in [Keys -> SUBSET Int]
    BY DEF CacheInv
  <2>2. CASE cache[key].result = Pending
    <3>1. told' = [told EXCEPT ![key] = told[key] \union {result}]
      BY <1>1, <1>5, <2>2 DEF Answers
    <3> QED
      BY <1>3, <1>4, <2>1, <2>2, <3>1
  <2>3. CASE cache[key].result = Unknown
    <3>1. told' = told
      BY <1>1, <1>2, <1>4, <1>5, <2>3
    <3> QED
      BY <1>4, <2>1, <2>3, <3>1
  <2> QED
    BY <1>3, <2>2, <2>3
<1>8. KeyState(key)'
  <2>1. CASE cache[key].result = Pending
    <3>1. told[key] \subseteq {Pending}
      BY <1>3, <1>4, <2>1 DEF KeyState
    <3>2. CASE result = Failed
      BY <1>3, <1>5, <1>6, <1>7, <2>1, <3>1, <3>2 DEF KeyState
    <3>3. CASE result \in Effects
      <4>1. /\ cache'[key].result = result /\ applied'[key] = {result}
            /\ told'[key] \subseteq {Pending, result}
        BY <1>4, <1>5, <1>6, <1>7, <2>1, <3>1, <3>3
      <4> QED
        BY <1>3, <1>5, <3>3, <4>1 DEF KeyState
    <3> QED
      BY <1>2, <3>2, <3>3
  <2>2. CASE cache[key].result = Unknown
    <3>1. told[key] \subseteq {Pending, Unknown}
      BY <1>3, <1>4, <2>2 DEF KeyState
    <3>2. /\ cache'[key].result = Unknown /\ told'[key] \subseteq {Pending, Unknown}
          /\ applied'[key] = {} \/ \E n \in Effects : applied'[key] = {n}
      BY <1>2, <1>4, <1>5, <1>6, <1>7, <2>2, <3>1
    <3> QED
      BY <1>3, <1>5, <3>2 DEF KeyState
  <2> QED
    BY <1>3, <2>1, <2>2
<1>9. ASSUME NEW k \in Keys, k # key PROVE KeyState(k)'
  <2>1. KeyState(k)
    BY DEF CacheInv
  <2> QED
    BY <1>5, <1>6, <1>7, <1>9, <2>1 DEF KeyState
<1>10. JobsInv'
  <2>1. \A j \in jobs' : j \in jobs /\ j.key # key
    BY <1>1 DEF CacheInv, JobsInv, key
  <2>2. ASSUME NEW j \in jobs'
        PROVE  /\ j.key \in DOMAIN cache' /\ cache'[j.key].result \in {Pending, Unknown}
               /\ applied'[j.key] = {}
    BY <1>5, <1>6, <2>1 DEF CacheInv, JobsInv
  <2> QED
    BY <2>1, <2>2 DEF CacheInv, JobsInv
<1>11. /\ cache' \in [DOMAIN cache' ->
                        [request: {cache'[k].request : k \in DOMAIN cache'}, result: Int]]
       /\ DOMAIN cache' \subseteq Keys
  <2>1. {cache'[k].request : k \in DOMAIN cache'} = {cache[k].request : k \in DOMAIN cache}
    BY <1>5
  <2> QED
    BY <1>5, <2>1 DEF CacheInv
<1>12. IsFiniteSet(DOMAIN surfaces') /\ \A j \in jobs' : j.key \in Keys
  BY <1>1 DEF CacheInv
<1> QED
  BY <1>2, <1>6, <1>7, <1>8, <1>9, <1>10, <1>11, <1>12 DEF CacheInv

LEMMA InterruptStep ==
  ASSUME CacheInv, Interrupt
  PROVE  CacheInv'
<1>1. /\ jobs' \in SUBSET jobs
      /\ cache' = [key \in DOMAIN cache |-> Stored(key, Unknown)[key]]
      /\ UNCHANGED <<surfaces, scene_revision, applied, told>>
  BY DEF Interrupt, sceneVars, historyVars
<1>2. Unknown \in Int /\ Unknown # Pending
  BY DEF Unknown, Pending
<1> DEFINE R == [request: {cache[k].request : k \in DOMAIN cache}, result: Int]
<1>3. ASSUME NEW k \in DOMAIN cache
      PROVE  /\ cache'[k] \in R /\ cache'[k].request = cache[k].request
             /\ cache'[k].result = IF cache[k].result = Pending THEN Unknown ELSE cache[k].result
  <2>1. k \in Keys
    BY DEF CacheInv
  <2>2. /\ Stored(k, Unknown) \in [DOMAIN cache -> R]
        /\ Stored(k, Unknown)[k].request = cache[k].request
        /\ Stored(k, Unknown)[k].result
             = IF cache[k].result = Pending THEN Unknown ELSE cache[k].result
    BY <1>2, <2>1, StoredResult
  <2> HIDE DEF R
  <2> QED
    BY <1>1, <2>2
<1>4. DOMAIN cache' = DOMAIN cache
  BY <1>1
<1>5. cache' \in [DOMAIN cache' -> [request: {cache'[k].request : k \in DOMAIN cache'}, result: Int]]
  <2>1. {cache'[k].request : k \in DOMAIN cache'} = {cache[k].request : k \in DOMAIN cache}
    BY <1>3, <1>4
  <2>2. cache' \in [DOMAIN cache -> R]
    <3> HIDE DEF R
    <3> QED
      BY <1>1, <1>3
  <2> QED
    BY <1>4, <2>1, <2>2
<1> HIDE DEF R
<1>6. ASSUME NEW k \in Keys PROVE KeyState(k)'
  <2>1. KeyState(k)
    BY DEF CacheInv
  <2>2. CASE k \notin DOMAIN cache
    BY <1>1, <1>4, <2>1, <2>2 DEF KeyState
  <2>3. CASE k \in DOMAIN cache /\ cache[k].result = Pending
    <3>1. applied[k] = {} /\ told[k] \subseteq {Pending}
      BY <2>1, <2>3 DEF KeyState, Pending, Unknown, Failed, Effects
    <3> QED
      BY <1>1, <1>3, <1>4, <2>3, <3>1 DEF KeyState
  <2>4. CASE k \in DOMAIN cache /\ cache[k].result # Pending
    BY <1>1, <1>3, <1>4, <2>1, <2>4 DEF KeyState
  <2> QED
    BY <2>2, <2>3, <2>4
<1>7. JobsInv'
  BY <1>1, <1>2, <1>3, <1>4 DEF CacheInv, JobsInv
<1> QED
  BY <1>1, <1>4, <1>5, <1>6, <1>7 DEF CacheInv

LEMMA TearDownStep ==
  ASSUME CacheInv, NEW gone \in SUBSET DOMAIN surfaces, TearDown(gone),
         surfaces' = Minus(surfaces, gone), UNCHANGED <<cache, jobs, applied, told>>
  PROVE  CacheInv'
<1>1. scene_revision' \in 0..MaxSceneRevision
  BY TearDownRevision DEF CacheInv
<1>2. DOMAIN surfaces' \in SUBSET DOMAIN surfaces
  BY DEF Minus
<1>3. IsFiniteSet(DOMAIN surfaces')
  BY <1>2, FS_Subset DEF CacheInv
<1> QED
  BY <1>1, <1>3, CacheKept

LEMMA CacheStep ==
  ASSUME CacheInv, [AuthorityNext]_allVars
  PROVE  CacheInv'
<1>1. CASE UNCHANGED <<surfaces, cache, jobs, scene_revision, applied, told>>
  BY <1>1, CacheKept DEF CacheInv
<1>2. ASSUME NEW id \in DOMAIN contexts, Revoke(id) PROVE CacheInv'
  <2> DEFINE ids == {c \in Subtree(id) : Active(c)}
  <2>1. OwnedBy(ids) \in SUBSET DOMAIN surfaces
    BY DEF OwnedBy
  <2>2. /\ TearDown(OwnedBy(ids)) /\ surfaces' = Minus(surfaces, OwnedBy(ids))
        /\ UNCHANGED <<cache, jobs, applied, told>>
    BY <1>2 DEF Revoke, historyVars
  <2> HIDE DEF ids
  <2> QED
    BY <2>1, <2>2, TearDownStep
<1>3. ASSUME NEW s \in DOMAIN surfaces, DestroySurface(s) PROVE CacheInv'
  <2>1. /\ {s} \in SUBSET DOMAIN surfaces /\ TearDown({s}) /\ surfaces' = Minus(surfaces, {s})
        /\ UNCHANGED <<cache, jobs, applied, told>>
    BY <1>3 DEF DestroySurface, historyVars
  <2> QED
    BY <2>1, TearDownStep
<1>4. ASSUME NEW s, NEW d, CreateSurface(s, d) PROVE CacheInv'
  <2>1. /\ DOMAIN surfaces' = DOMAIN surfaces \union {s}
        /\ UNCHANGED <<cache, jobs, scene_revision, applied, told>>
    BY <1>4 DEF CreateSurface, With, sceneVars, historyVars
  <2>2. IsFiniteSet(DOMAIN surfaces')
    BY <2>1, FS_AddElement DEF CacheInv
  <2> QED
    BY <2>1, <2>2, CacheKept DEF CacheInv
<1>5. ASSUME NEW s, NEW expected, NEW d, UpdateSurface(s, expected, d) PROVE CacheInv'
  <2>1. /\ DOMAIN surfaces' = DOMAIN surfaces
        /\ UNCHANGED <<cache, jobs, scene_revision, applied, told>>
    BY <1>5 DEF UpdateSurface, sceneVars, historyVars
  <2> QED
    BY <2>1, CacheKept DEF CacheInv
<1>6. ASSUME NEW id, NEW parent, NEW classes, NEW amount,
             CreateContext(id, parent, classes, amount)
      PROVE  CacheInv'
  BY <1>1, <1>6 DEF CreateContext, sceneVars, historyVars
<1>7. ASSUME NEW d, OfferTarget(d) PROVE CacheInv'
  BY <1>1, <1>7 DEF OfferTarget, sceneVars, historyVars
<1>8. ASSUME NEW t, BeginTransaction(t) \/ AbortTransaction(t) \/ \E m \in Mutations(t) : MutateScene(t, m)
      PROVE  CacheInv'
  BY <1>1, <1>8 DEF BeginTransaction, AbortTransaction, MutateScene, Begin, Abort, Mutate,
                    SceneRefuses, historyVars
<1>9. CASE UNCHANGED allVars
  BY <1>1, <1>9 DEF allVars, authorityVars, sceneVars, historyVars
<1>10. CASE ContextNext
  BY <1>2, <1>6, <1>10 DEF ContextNext
<1>11. CASE SurfaceNext
  BY <1>3, <1>4, <1>5, <1>7, <1>11 DEF SurfaceNext
<1>12. CASE SceneNext
  BY <1>8, <1>12, RequestCommitStep, PresentStep, InterruptStep DEF SceneNext
<1> QED
  BY <1>9, <1>10, <1>11, <1>12 DEF AuthorityNext

LEMMA CacheAlways == AuthoritySpec => []CacheInv
BY CacheInit, CacheStep, PTL DEF AuthoritySpec

\* A keyed request (IdempotencyCache of idempotency.rs) takes effect at most
\* once, however often it is repeated and wherever an interruption falls:
\* what anyone is told is that effect, that there was none, or that the
\* outcome is unknown.  CacheInv ties the entry of a key to its effects, its
\* answers and the one job that may still carry it out.
THEOREM OnceApplied == AuthoritySpec => []AppliedOnce
BY CacheMeansOnce, CacheAlways, PTL

-----------------------------------------------------------------------------
(* What a step may not do.                                                 *)
SurfaceRecords ==
  [profile: {d.profile : d \in Definitions}, mapping: {d.mapping : d \in Definitions},
   policy: SUBSET UNION {d.policy : d \in Definitions}, revision: Nat, generation: Nat]
TargetRecords ==
  [geometry: {d.geometry : d \in Descriptors}, settled: {d.settled : d \in Descriptors},
   generation: Nat]

DefinitionsInv ==
  /\ surfaces \in [DOMAIN surfaces -> SurfaceRecords]
  /\ target \in TargetRecords

LEMMA DefinitionsInit == AuthorityInit => DefinitionsInv
<1>1. SUFFICES ASSUME AuthorityInit PROVE DefinitionsInv
  OBVIOUS
<1>2. PICK d \in Descriptors : target = NewTarget(d)
  BY <1>1 DEF AuthorityInit
<1>3. target \in TargetRecords
  BY <1>2 DEF NewTarget, TargetRecords
<1>4. surfaces = [k \in {} |-> k]
  BY <1>1 DEF AuthorityInit, Empty
<1> QED
  BY <1>3, <1>4 DEF DefinitionsInv

\* replace_mutable names a new definition by a greater revision, and a new
\* mapping by a greater generation.
LEMMA ReplacedFields ==
  ASSUME NEW s \in SurfaceRecords, NEW d \in Definitions
  PROVE  /\ Replaced(s, d) \in SurfaceRecords
         /\ Replaced(s, d).revision > s.revision
         /\ Replaced(s, d).mapping # s.mapping => Replaced(s, d).generation > s.generation
         /\ s.policy \subseteq Replaced(s, d).policy
<1> DEFINE g == GenerationAfter(s, d)
           p == s.policy \union d.policy
           m == d.mapping
           n == s.revision + 1
           q1 == [s EXCEPT !.mapping = m]
           q2 == [q1 EXCEPT !.policy = p]
           q3 == [q2 EXCEPT !.revision = n]
<1>1. /\ s.revision \in Nat /\ s.generation \in Nat /\ n \in Nat /\ n > s.revision
      /\ s = [profile |-> s.profile, mapping |-> s.mapping, policy |-> s.policy,
              revision |-> s.revision, generation |-> s.generation]
  BY DEF SurfaceRecords
<1>2. g \in Nat /\ (m # s.mapping => g > s.generation)
  BY <1>1 DEF GenerationAfter
<1>3. p \in SUBSET UNION {e.policy : e \in Definitions} /\ s.policy \subseteq p
  BY DEF SurfaceRecords
<1>4. q1 = [profile |-> s.profile, mapping |-> m, policy |-> s.policy,
            revision |-> s.revision, generation |-> s.generation]
  BY <1>1
<1>5. Replaced(s, d) = [q3 EXCEPT !.generation = g]
  BY <1>1 DEF Replaced
<1> HIDE DEF g, p, n, q1
<1>6. q2 = [profile |-> s.profile, mapping |-> m, policy |-> p,
            revision |-> s.revision, generation |-> s.generation]
  BY <1>4
<1> HIDE DEF q2
<1>7. q3 = [profile |-> s.profile, mapping |-> m, policy |-> p,
            revision |-> n, generation |-> s.generation]
  BY <1>6
<1> HIDE DEF q3
<1>8. Replaced(s, d) = [profile |-> s.profile, mapping |-> m, policy |-> p,
                        revision |-> n, generation |-> g]
  BY <1>5, <1>7
<1>9. s.profile \in {e.profile : e \in Definitions} /\ m \in {e.mapping : e \in Definitions}
  BY DEF SurfaceRecords
<1> HIDE DEF m
<1>10. Replaced(s, d) \in SurfaceRecords
  BY <1>1, <1>2, <1>3, <1>8, <1>9 DEF SurfaceRecords
<1>11. /\ Replaced(s, d).revision = n /\ Replaced(s, d).mapping = m
       /\ Replaced(s, d).generation = g /\ Replaced(s, d).policy = p
  BY <1>8
<1> QED
  BY <1>1, <1>2, <1>3, <1>10, <1>11

LEMMA OfferedFields ==
  ASSUME NEW t \in TargetRecords, NEW d \in Descriptors
  PROVE  /\ Offered(t, d) \in TargetRecords
         /\ Offered(t, d).geometry # t.geometry => Offered(t, d).generation > t.generation
BY DEF Offered, TargetRecords, Settles, Same

Named ==
  /\ target'.geometry # target.geometry => target'.generation > target.generation
  /\ \A s \in DOMAIN surfaces \intersect DOMAIN surfaces' :
       /\ surfaces'[s] # surfaces[s] => surfaces'[s].revision > surfaces[s].revision
       /\ surfaces'[s].mapping # surfaces[s].mapping
            => surfaces'[s].generation > surfaces[s].generation
       /\ surfaces[s].policy \subseteq surfaces'[s].policy

LEMMA TakenDefinitions ==
  ASSUME DefinitionsInv, NEW gone, surfaces' = Minus(surfaces, gone), UNCHANGED target
  PROVE  DefinitionsInv' /\ Named
<1>1. /\ DOMAIN surfaces' = DOMAIN surfaces \ gone
      /\ \A s \in DOMAIN surfaces' : surfaces'[s] = surfaces[s]
      /\ surfaces' = [s \in DOMAIN surfaces \ gone |-> surfaces[s]]
  BY DEF Minus
<1>2. surfaces' \in [DOMAIN surfaces' -> SurfaceRecords]
  BY <1>1 DEF DefinitionsInv
<1> QED
  BY <1>1, <1>2 DEF DefinitionsInv, Named

LEMMA DefinitionsStep ==
  ASSUME DefinitionsInv, [AuthorityNext]_allVars
  PROVE  DefinitionsInv' /\ Named
<1>1. CASE UNCHANGED <<surfaces, target>>
  BY <1>1 DEF DefinitionsInv, Named
<1>2. ASSUME NEW id \in DOMAIN contexts, Revoke(id) PROVE DefinitionsInv' /\ Named
  <2> DEFINE gone == OwnedBy({c \in Subtree(id) : Active(c)})
  <2>1. surfaces' = Minus(surfaces, gone) /\ UNCHANGED target
    BY <1>2 DEF Revoke
  <2> HIDE DEF gone
  <2> QED
    BY <2>1, TakenDefinitions
<1>3. ASSUME NEW s, DestroySurface(s) PROVE DefinitionsInv' /\ Named
  BY <1>3, TakenDefinitions DEF DestroySurface
<1>4. ASSUME NEW s, NEW d \in Definitions, CreateSurface(s, d)
      PROVE  DefinitionsInv' /\ Named
  <2> DEFINE new == NewSurface(d)
  <2>1. new \in SurfaceRecords
    BY DEF NewSurface, SurfaceRecords
  <2>2. /\ s \notin DOMAIN surfaces /\ UNCHANGED target
        /\ surfaces' = [k \in DOMAIN surfaces \union {s} |-> IF k = s THEN new ELSE surfaces[k]]
    BY <1>4 DEF CreateSurface, With
  <2> HIDE DEF new
  <2>3. surfaces' \in [DOMAIN surfaces' -> SurfaceRecords]
    BY <2>1, <2>2 DEF DefinitionsInv
  <2>4. \A k \in DOMAIN surfaces : surfaces'[k] = surfaces[k]
    BY <2>2
  <2> QED
    BY <2>2, <2>3, <2>4 DEF DefinitionsInv, Named
<1>5. ASSUME NEW s \in DOMAIN surfaces, NEW expected, NEW d \in Definitions,
             UpdateSurface(s, expected, d)
      PROVE  DefinitionsInv' /\ Named
  <2> DEFINE new == Replaced(surfaces[s], d)
  <2>1. UNCHANGED target /\ surfaces[s] \in SurfaceRecords
    BY <1>5 DEF UpdateSurface, DefinitionsInv
  <2>2. /\ new \in SurfaceRecords
        /\ new.revision > surfaces[s].revision
        /\ new.mapping # surfaces[s].mapping => new.generation > surfaces[s].generation
        /\ surfaces[s].policy \subseteq new.policy
    BY <2>1, ReplacedFields
  <2>3. surfaces' = surfaces \/ surfaces' = [surfaces EXCEPT ![s] = new]
    BY <1>5 DEF UpdateSurface
  <2> HIDE DEF new
  <2>4. CASE surfaces' = surfaces
    BY <1>1, <2>1, <2>4
  <2>5. CASE surfaces' = [surfaces EXCEPT ![s] = new]
    <3>1. /\ surfaces' \in [DOMAIN surfaces' -> SurfaceRecords]
          /\ DOMAIN surfaces' = DOMAIN surfaces /\ surfaces'[s] = new
          /\ \A k \in DOMAIN surfaces : k # s => surfaces'[k] = surfaces[k]
      BY <2>2, <2>5 DEF DefinitionsInv
    <3>2. ASSUME NEW k \in DOMAIN surfaces
          PROVE  /\ surfaces'[k] # surfaces[k] => surfaces'[k].revision > surfaces[k].revision
                 /\ surfaces'[k].mapping # surfaces[k].mapping
                      => surfaces'[k].generation > surfaces[k].generation
                 /\ surfaces[k].policy \subseteq surfaces'[k].policy
      BY <2>2, <3>1
    <3> QED
      BY <2>1, <3>1, <3>2 DEF DefinitionsInv, Named
  <2> QED
    BY <2>3, <2>4, <2>5
<1>6. ASSUME NEW d \in Descriptors, OfferTarget(d) PROVE DefinitionsInv' /\ Named
  <2>1. UNCHANGED surfaces /\ target' = Offered(target, d)
    BY <1>6 DEF OfferTarget
  <2>2. /\ target' \in TargetRecords
        /\ target'.geometry # target.geometry => target'.generation > target.generation
    BY <2>1, OfferedFields DEF DefinitionsInv
  <2> QED
    BY <2>1, <2>2 DEF DefinitionsInv, Named
<1>7. ASSUME NEW id, NEW parent, NEW classes, NEW amount,
             CreateContext(id, parent, classes, amount)
      PROVE  DefinitionsInv' /\ Named
  BY <1>1, <1>7 DEF CreateContext
<1>8. CASE UNCHANGED allVars
  BY <1>1, <1>8 DEF allVars, authorityVars
<1>9. CASE ContextNext
  BY <1>2, <1>7, <1>9 DEF ContextNext
<1>10. CASE SurfaceNext
  BY <1>3, <1>4, <1>5, <1>6, <1>10 DEF SurfaceNext
<1>11. CASE SceneNext
  BY <1>1, <1>11 DEF SceneNext, BeginTransaction, AbortTransaction, MutateScene,
                     RequestCommit, Present, Interrupt
<1> QED
  BY <1>8, <1>9, <1>10, <1>11 DEF AuthorityNext

\* Whoever holds a revision or a generation knows what it names: no step of
\* replace_mutable or offer changes a geometry, a definition or a mapping
\* under the same number, and a policy only grows.
THEOREM NamedOnce == AuthoritySpec => DefinitionNamed
<1>1. ASSUME DefinitionsInv, [AuthorityNext]_allVars
      PROVE  DefinitionsInv' /\
        [/\ target'.geometry # target.geometry => target'.generation > target.generation
         /\ \A s \in DOMAIN surfaces \intersect DOMAIN surfaces' :
              /\ surfaces'[s] # surfaces[s] => surfaces'[s].revision > surfaces[s].revision
              /\ surfaces'[s].mapping # surfaces[s].mapping
                   => surfaces'[s].generation > surfaces[s].generation
              /\ surfaces[s].policy \subseteq surfaces'[s].policy]_allVars
  BY <1>1, DefinitionsStep DEF Named
<1> QED
  BY <1>1, DefinitionsInit, PTL DEF AuthoritySpec, DefinitionNamed

-----------------------------------------------------------------------------
(* A teardown.                                                             *)
Gone == DOMAIN surfaces \ DOMAIN surfaces'
Ended == {c \in DOMAIN contexts : Active(c) /\ contexts'[c].lifecycle # "Active"}

Contained ==
  Gone # {} =>
    /\ nodes' = Minus(nodes, {n \in DOMAIN nodes : nodes[n] \in Gone})
    /\ (\E n \in DOMAIN nodes : nodes[n] \in Gone) =>
         scene_revision' > scene_revision \/ scene_revision = MaxSceneRevision
    /\ \A c \in DOMAIN contexts \ Ended :
         [contexts'[c] EXCEPT !.reserved = contexts[c].reserved, !.revision = contexts[c].revision]
           = contexts[c]

\* Two records of a context that agree but for the reservation and the
\* revision are the same once those are.
LEMMA SameButLedger ==
  ASSUME NEW D, NEW c \in ContextRecords(D), NEW d \in ContextRecords(D),
         d.parent = c.parent, d.classes = c.classes, d.contract = c.contract,
         d.lifecycle = c.lifecycle
  PROVE  [d EXCEPT !.reserved = c.reserved, !.revision = c.revision] = c
<1> DEFINE e == [d EXCEPT !.reserved = c.reserved]
<1>1. /\ c = [parent |-> c.parent, classes |-> c.classes, contract |-> c.contract,
              reserved |-> c.reserved, revision |-> c.revision, lifecycle |-> c.lifecycle]
      /\ d = [parent |-> d.parent, classes |-> d.classes, contract |-> d.contract,
              reserved |-> d.reserved, revision |-> d.revision, lifecycle |-> d.lifecycle]
  BY DEF ContextRecords
<1>2. e = [parent |-> c.parent, classes |-> c.classes, contract |-> c.contract,
           reserved |-> c.reserved, revision |-> d.revision, lifecycle |-> c.lifecycle]
  BY <1>1
<1>3. [d EXCEPT !.reserved = c.reserved, !.revision = c.revision]
        = [e EXCEPT !.revision = c.revision]
  BY <1>1
<1> HIDE DEF e
<1>4. [e EXCEPT !.revision = c.revision]
        = [parent |-> c.parent, classes |-> c.classes, contract |-> c.contract,
           reserved |-> c.reserved, revision |-> c.revision, lifecycle |-> c.lifecycle]
  BY <1>2
<1> QED
  BY <1>1, <1>3, <1>4

LEMMA RevokeContained ==
  ASSUME ContextsInv, CacheInv, NEW id \in DOMAIN contexts, Revoke(id)
  PROVE  Contained
<1> DEFINE ids == {c \in Subtree(id) : Active(c)}
           taken == OwnedBy(ids)
           amount == contexts[id].contract
           D == DOMAIN contexts
<1>1. /\ TearDown(taken) /\ surfaces' = Minus(surfaces, taken)
      /\ contexts' = [c \in D |->
          IF c \in ids THEN RevokeContext(contexts[c])
          ELSE IF c = contexts[id].parent THEN ReleaseChild(contexts[c], amount)
          ELSE contexts[c]]
      /\ \A c \in ids : Active(c)
  BY DEF Revoke
<1>2. taken \in SUBSET DOMAIN surfaces
  BY DEF OwnedBy
<1>3. contexts \in [D -> ContextRecords(D)] /\ id \in D
  BY DEF ContextsInv
<1>4. amount \in [Resources -> Nat]
  <2>1. contexts[id] \in ContextRecords(D)
    BY <1>3
  <2> QED
    BY <2>1, MostFacts DEF ContextRecords
<1> HIDE DEF ids, taken, amount, D
<1>5. Gone = taken
  BY <1>1, <1>2 DEF Gone, Minus
<1>6. /\ nodes' = Minus(nodes, {n \in DOMAIN nodes : nodes[n] \in taken})
      /\ (\E n \in DOMAIN nodes : nodes[n] \in taken) =>
           scene_revision' > scene_revision \/ scene_revision = MaxSceneRevision
  BY <1>1, <1>2, TearDownRevision DEF CacheInv
<1>7. ASSUME NEW c \in D, c \notin Ended
      PROVE  [contexts'[c] EXCEPT !.reserved = contexts[c].reserved,
                                  !.revision = contexts[c].revision] = contexts[c]
  <2>1. contexts[c] \in ContextRecords(D)
    BY <1>3
  <2>2. CASE c \in ids
    <3>1. contexts'[c].lifecycle = "Revoked"
      BY <1>1, <2>1, <2>2, RevokeFields
    <3> QED
      BY <1>1, <1>7, <2>2, <3>1 DEF Ended, D
  <2>3. CASE c \notin ids /\ c = contexts[id].parent
    <3>1. contexts'[c] = ReleaseChild(contexts[c], amount)
      BY <1>1, <2>3
    <3>2. /\ contexts'[c] \in ContextRecords(D)
          /\ contexts'[c].parent = contexts[c].parent
          /\ contexts'[c].classes = contexts[c].classes
          /\ contexts'[c].contract = contexts[c].contract
          /\ contexts'[c].lifecycle = contexts[c].lifecycle
      BY <1>4, <2>1, <3>1, ReleaseFields
    <3> QED
      BY <2>1, <3>2, SameButLedger
  <2>4. CASE c \notin ids /\ c # contexts[id].parent
    <3>1. contexts'[c] = contexts[c]
      BY <1>1, <2>4
    <3> QED
      BY <2>1, <3>1, SameButLedger
  <2> QED
    BY <2>2, <2>3, <2>4
<1> QED
  BY <1>5, <1>6, <1>7 DEF Contained, D

LEMMA DestroyContained ==
  ASSUME ContextsInv, CacheInv, NEW s \in DOMAIN surfaces, DestroySurface(s)
  PROVE  Contained
<1>1. TearDown({s}) /\ surfaces' = Minus(surfaces, {s}) /\ UNCHANGED contexts
  BY DEF DestroySurface
<1>2. Gone = {s} /\ {s} \in SUBSET DOMAIN surfaces
  BY <1>1 DEF Gone, Minus
<1>3. /\ nodes' = Minus(nodes, {n \in DOMAIN nodes : nodes[n] \in {s}})
      /\ (\E n \in DOMAIN nodes : nodes[n] \in {s}) =>
           scene_revision' > scene_revision \/ scene_revision = MaxSceneRevision
  BY <1>1, <1>2, TearDownRevision DEF CacheInv
<1>4. ASSUME NEW c \in DOMAIN contexts
      PROVE  [contexts'[c] EXCEPT !.reserved = contexts[c].reserved,
                                  !.revision = contexts[c].revision] = contexts[c]
  <2>1. contexts[c] \in ContextRecords(DOMAIN contexts) /\ contexts'[c] = contexts[c]
    BY <1>1 DEF ContextsInv
  <2> QED
    BY <2>1, SameButLedger
<1> QED
  BY <1>2, <1>3, <1>4 DEF Contained

LEMMA ContainedStep ==
  ASSUME ContextsInv, CacheInv, [AuthorityNext]_allVars
  PROVE  Contained
<1>1. CASE DOMAIN surfaces \subseteq DOMAIN surfaces'
  BY <1>1 DEF Contained, Gone
<1>2. CASE UNCHANGED surfaces
  BY <1>1, <1>2
<1>3. ASSUME NEW s, NEW d, CreateSurface(s, d) PROVE Contained
  BY <1>1, <1>3 DEF CreateSurface, With
<1>4. ASSUME NEW s, NEW expected, NEW d, UpdateSurface(s, expected, d) PROVE Contained
  BY <1>1, <1>4 DEF UpdateSurface
<1>5. CASE UNCHANGED allVars
  BY <1>2, <1>5 DEF allVars, authorityVars
<1>6. CASE ContextNext
  BY <1>2, <1>6, RevokeContained DEF ContextNext, CreateContext
<1>7. CASE SurfaceNext
  BY <1>2, <1>3, <1>4, <1>7, DestroyContained DEF SurfaceNext, OfferTarget
<1>8. CASE SceneNext
  BY <1>2, <1>8 DEF SceneNext, BeginTransaction, AbortTransaction, MutateScene,
                    RequestCommit, Present, Interrupt
<1> QED
  BY <1>5, <1>6, <1>7, <1>8 DEF AuthorityNext

\* The end of surfaces or of contexts (remove_surface_references, revoke,
\* release_child) takes exactly the nodes that show what went, under a new
\* revision if there are any, and no other context sees more of it than a
\* parent its reservation returned.
THEOREM TeardownIsContained == AuthoritySpec => TeardownContained
<1>1. ASSUME ContextsInv, CacheInv, [AuthorityNext]_allVars
      PROVE  [LET gone == DOMAIN surfaces \ DOMAIN surfaces'
                  ended == {c \in DOMAIN contexts : Active(c) /\ contexts'[c].lifecycle # "Active"}
              IN gone # {} =>
                /\ nodes' = Minus(nodes, {n \in DOMAIN nodes : nodes[n] \in gone})
                /\ (\E n \in DOMAIN nodes : nodes[n] \in gone) =>
                     scene_revision' > scene_revision \/ scene_revision = MaxSceneRevision
                /\ \A c \in DOMAIN contexts \ ended :
                     [contexts'[c] EXCEPT !.reserved = contexts[c].reserved,
                                          !.revision = contexts[c].revision]
                       = contexts[c]]_allVars
  BY <1>1, ContainedStep DEF Contained, Gone, Ended
<1> QED
  BY <1>1, ContextsInit, ContextsStep, CacheInit, CacheStep, PTL DEF AuthoritySpec, TeardownContained

-----------------------------------------------------------------------------
(* The scene: what a transaction leaves of a scene is told by the last     *)
(* mutation of each node, by induction over its mutations.                 *)
LEMMA Turns ==
  ASSUME NEW N \in Nat, NEW S, 0 \in S, \A n \in 1..N : n - 1 \in S => n \in S
  PROVE  N \in S
<1> DEFINE left == {n \in 0..N : n \notin S}
           less == OpToRel(<, Nat)
<1> SUFFICES ASSUME N \notin S PROVE FALSE
  OBVIOUS
<1>1. left \subseteq Nat /\ left # {}
  OBVIOUS
<1>2. IsWellFoundedOn(less, Nat)
  BY NatLessThanWellFounded
<1>3. \A m, n \in Nat : m < n => <<m, n>> \in less
  BY DEF OpToRel
<1> HIDE DEF less
<1>4. \E n \in left : \A m \in left : <<m, n>> \notin less
  <2> HIDE DEF left
  <2> QED
    BY <1>1, <1>2, WFMin
<1>5. PICK n \in left : \A m \in left : <<m, n>> \notin less
  BY <1>4
<1>6. n \in 1..N /\ n - 1 \in 0..N /\ n - 1 \in Nat /\ n - 1 < n
  OBVIOUS
<1>7. n - 1 \in S
  <2>1. <<n - 1, n>> \in less
    BY <1>3, <1>6
  <2>2. n - 1 \notin left
    BY <1>5, <2>1
  <2> QED
    BY <1>6, <2>2
<1> QED
  BY <1>6, <1>7

MutationRecords ==
  [op: {"Create", "Update", "Delete"}, node: SceneNodes, surface: SurfaceIds \union SceneNodes]

NodesTyped(map) ==
  /\ map = [n \in DOMAIN map |-> map[n]]
  /\ DOMAIN map \subseteq SceneNodes /\ \A n \in DOMAIN map : map[n] \in SurfaceIds

TransactionTyped(mutations) ==
  /\ mutations \in Seq(MutationRecords)
  /\ \A i \in 1..Len(mutations) : mutations[i].op # "Delete" => mutations[i].surface \in SurfaceIds

\* What the first k mutations leave, judged by the last one of each node.
LastUpTo(n, mutations, k) == {i \in 1..k : mutations[i].node = n}
Kept(map, n, mutations, k) ==
  IF LastUpTo(n, mutations, k) = {} THEN n \in DOMAIN map
  ELSE mutations[Max(LastUpTo(n, mutations, k))].op # "Delete"
NetUpTo(map, mutations, k) ==
  [n \in {x \in SceneNodes : Kept(map, x, mutations, k)} |->
     IF LastUpTo(n, mutations, k) = {} THEN map[n]
     ELSE mutations[Max(LastUpTo(n, mutations, k))].surface]

LEMMA LastAfter ==
  ASSUME NEW mutations \in Seq(MutationRecords), NEW k \in 1..Len(mutations), NEW n
  PROVE  IF mutations[k].node = n
           THEN LastUpTo(n, mutations, k) # {} /\ Max(LastUpTo(n, mutations, k)) = k
           ELSE LastUpTo(n, mutations, k) = LastUpTo(n, mutations, k - 1)
<1>1. CASE mutations[k].node = n
  <2> DEFINE last == LastUpTo(n, mutations, k)
  <2>1. k \in last /\ \A i \in last : i \in Int /\ k >= i
    BY <1>1 DEF LastUpTo
  <2> HIDE DEF last
  <2>2. \A m \in last : (\A i \in last : m >= i) => m = k
    BY <2>1
  <2>3. Max(last) = k
    BY <2>1, <2>2 DEF Max
  <2> QED
    BY <1>1, <2>1, <2>3 DEF last
<1>2. CASE mutations[k].node # n
  BY <1>2 DEF LastUpTo
<1> QED
  BY <1>1, <1>2

\* One mutation leads from what the ones before it leave to what they leave with it.
LEMMA MutatedNet ==
  ASSUME NEW map, NodesTyped(map), NEW mutations, TransactionTyped(mutations),
         NEW k \in 1..Len(mutations),
         NEW after \in Mutated(NetUpTo(map, mutations, k - 1), mutations[k])
  PROVE  after = NetUpTo(map, mutations, k)
<1> DEFINE m == mutations[k]
           before == NetUpTo(map, mutations, k - 1)
           net == NetUpTo(map, mutations, k)
<1>1. mutations \in Seq(MutationRecords) /\ m \in MutationRecords
  BY DEF TransactionTyped
<1>2. m.node \in SceneNodes
  BY <1>1 DEF MutationRecords
<1>3. ASSUME NEW n \in SceneNodes
      PROVE  /\ n # m.node => /\ n \in DOMAIN net <=> n \in DOMAIN before
                              /\ n \in DOMAIN net => net[n] = before[n]
             /\ n = m.node => /\ n \in DOMAIN net <=> m.op # "Delete"
                              /\ n \in DOMAIN net => net[n] = m.surface
  <2>1. CASE n # m.node
    BY <1>1, <2>1, LastAfter DEF NetUpTo, Kept
  <2>2. CASE n = m.node
    BY <1>1, <2>2, LastAfter DEF NetUpTo, Kept
  <2> QED
    BY <2>1, <2>2
<1>4. DOMAIN net \subseteq SceneNodes /\ DOMAIN before \subseteq SceneNodes
      /\ net = [n \in DOMAIN net |-> net[n]]
  BY DEF NetUpTo
<1>5. after = IF m.op = "Delete" THEN Minus(before, {m.node}) ELSE With(before, m.node, m.surface)
  BY DEF Mutated
<1> HIDE DEF m, before, net
<1>6. CASE m.op = "Delete"
  <2>1. DOMAIN before \ {m.node} = DOMAIN net
    BY <1>2, <1>3, <1>4, <1>6
  <2>2. \A n \in DOMAIN net : net[n] = before[n]
    BY <1>3, <1>4, <2>1
  <2>3. after = [n \in DOMAIN net |-> before[n]]
    BY <1>5, <1>6, <2>1 DEF Minus
  <2> QED
    BY <1>4, <2>2, <2>3 DEF net
<1>7. CASE m.op # "Delete"
  <2>1. DOMAIN before \union {m.node} = DOMAIN net
    BY <1>2, <1>3, <1>4, <1>7
  <2>2. \A n \in DOMAIN net : net[n] = IF n = m.node THEN m.surface ELSE before[n]
    BY <1>3, <1>4, <2>1
  <2>3. after = [n \in DOMAIN net |-> IF n = m.node THEN m.surface ELSE before[n]]
    BY <1>5, <1>7, <2>1 DEF With
  <2> QED
    BY <1>4, <2>2, <2>3 DEF net
<1> QED
  BY <1>6, <1>7

\* The copies that a commit runs its mutations on, one mutation after another.
LEMMA CandidateTurns ==
  ASSUME NEW map, NEW mutations \in Seq(MutationRecords)
  PROVE  LET N == Len(mutations) IN
         \E done : /\ done = [n \in 0..N |->
                        IF n = 0 THEN {map} ELSE UNION {Mutated(m, mutations[n]) : m \in done[n - 1]}]
                   /\ Candidate(map, mutations) = done[N]
<1> DEFINE N == Len(mutations)
           Next(copies, n) == UNION {Mutated(m, mutations[n]) : m \in copies}
           Goes(h, k) == h = [n \in 0..k |-> IF n = 0 THEN {map} ELSE Next(h[n - 1], n)]
           S == {k \in 0..N : \E h : Goes(h, k)}
<1>1. N \in Nat
  OBVIOUS
<1>2. 0 \in S
  <2> DEFINE h == [n \in 0..0 |-> {map}]
  <2> HIDE DEF Next
  <2>1. Goes(h, 0)
    BY Z3
  <2>2. 0 \in 0..N
    BY <1>1
  <2> HIDE DEF h, Goes, N
  <2> QED
    BY <2>1, <2>2
<1>3. ASSUME NEW k \in 1..N, k - 1 \in S PROVE k \in S
  <2>1. PICK h : Goes(h, k - 1)
    BY <1>3
  <2> DEFINE g == [n \in 0..k |-> IF n = k THEN Next(h[k - 1], k) ELSE h[n]]
  <2> HIDE DEF Next
  <2>2. ASSUME NEW n \in 0..k
        PROVE  g[n] = IF n = 0 THEN {map} ELSE Next(g[n - 1], n)
    <3>1. CASE n = k
      BY <3>1
    <3>2. CASE n # k
      <4>1. n \in 0..(k - 1) /\ (n # 0 => n - 1 \in 0..k /\ n - 1 # k)
        BY <3>2
      <4>2. h[n] = IF n = 0 THEN {map} ELSE Next(h[n - 1], n)
        BY <2>1, <4>1
      <4> QED
        BY <3>2, <4>1, <4>2
    <3> QED
      BY <3>1, <3>2
  <2>3. Goes(g, k)
    BY <2>2
  <2>4. k \in 0..N
    BY <1>1
  <2> HIDE DEF g, Goes, N
  <2> QED
    BY <2>3, <2>4
<1>4. N \in S
  <2> HIDE DEF S, N
  <2> QED
    BY <1>1, <1>2, <1>3, Turns
<1>5. \E h : Goes(h, N)
  BY <1>4
<1> DEFINE done == CHOOSE h : Goes(h, N)
<1>6. Goes(done, N)
  BY <1>5
<1>7. Candidate(map, mutations) = done[N]
  BY DEF Candidate
<1> QED
  BY <1>6, <1>7

\* What a commit leaves is the net effect of its whole transaction.
LEMMA CandidateNet ==
  ASSUME NEW map, NodesTyped(map), NEW mutations, TransactionTyped(mutations),
         NEW after \in Candidate(map, mutations)
  PROVE  after = NetUpTo(map, mutations, Len(mutations)) /\ NodesTyped(after)
<1> DEFINE N == Len(mutations)
<1>1. mutations \in Seq(MutationRecords) /\ N \in Nat
  BY DEF TransactionTyped
<1>2. PICK done : /\ done = [n \in 0..N |->
                       IF n = 0 THEN {map} ELSE UNION {Mutated(m, mutations[n]) : m \in done[n - 1]}]
                  /\ Candidate(map, mutations) = done[N]
  BY <1>1, CandidateTurns
<1> DEFINE S == {n \in 0..N : \A m \in done[n] : m = NetUpTo(map, mutations, n) /\ NodesTyped(m)}
<1>3. 0 \in S
  <2>1. done[0] = {map}
    BY <1>1, <1>2
  <2>2. \A n : LastUpTo(n, mutations, 0) = {}
    BY DEF LastUpTo
  <2>3. DOMAIN map \subseteq SceneNodes /\ map = [n \in DOMAIN map |-> map[n]]
    BY DEF NodesTyped
  <2>4. {x \in SceneNodes : Kept(map, x, mutations, 0)} = DOMAIN map
    BY <2>2, <2>3 DEF Kept
  <2>5. NetUpTo(map, mutations, 0) = map
    BY <2>2, <2>3, <2>4 DEF NetUpTo
  <2> QED
    BY <1>1, <2>1, <2>5
<1>4. ASSUME NEW n \in 1..N, n - 1 \in S PROVE n \in S
  <2>1. n \in 0..N /\ n # 0
    BY <1>1
  <2>2. done[n] = UNION {Mutated(m, mutations[n]) : m \in done[n - 1]}
    BY <1>2, <2>1
  <2>3. ASSUME NEW m \in done[n - 1], NEW p \in Mutated(m, mutations[n])
        PROVE  p = NetUpTo(map, mutations, n) /\ NodesTyped(p)
    <3>1. m = NetUpTo(map, mutations, n - 1) /\ NodesTyped(m)
      BY <1>4
    <3>2. p = NetUpTo(map, mutations, n)
      BY <3>1, MutatedNet
    <3> DEFINE last == mutations[n]
    <3>3. /\ last \in MutationRecords
          /\ last.op # "Delete" => last.surface \in SurfaceIds
      BY <1>1 DEF TransactionTyped
    <3>4. p = IF last.op = "Delete" THEN Minus(m, {last.node}) ELSE With(m, last.node, last.surface)
      BY DEF Mutated
    <3>5. last.node \in SceneNodes
      BY <3>3 DEF MutationRecords
    <3> HIDE DEF last
    <3>6. NodesTyped(p)
      BY <3>1, <3>3, <3>4, <3>5 DEF NodesTyped, Minus, With
    <3> QED
      BY <3>2, <3>6
  <2> QED
    BY <2>1, <2>2, <2>3
<1>5. N \in S
  <2> HIDE DEF S, N
  <2> QED
    BY <1>1, <1>3, <1>4, Turns
<1> QED
  BY <1>2, <1>5

-----------------------------------------------------------------------------
(* Commits are whole.  Nodes and transactions have the types that make the *)
(* net effect of a transaction a scene.                                    *)
SceneInv ==
  /\ NodesTyped(nodes)
  /\ DOMAIN surfaces \subseteq SurfaceIds
  /\ \A t \in DOMAIN transactions : TransactionTyped(transactions[t])

\* What a step may do to the scene: take nodes, or apply a whole transaction.
Whole ==
  \/ \A n \in DOMAIN nodes' : n \in DOMAIN nodes /\ nodes'[n] = nodes[n]
  \/ /\ scene_revision' = scene_revision + 1
     /\ \E t \in DOMAIN transactions \ DOMAIN transactions' :
          nodes' = Net(transactions[t])

LEMMA SceneInitInv == AuthorityInit => SceneInv
BY DEF AuthorityInit, SceneInit, SceneInv, Empty, NodesTyped

LEMMA SceneKept ==
  ASSUME SceneInv, UNCHANGED nodes, DOMAIN surfaces' \subseteq SurfaceIds,
         DOMAIN transactions' \subseteq DOMAIN transactions,
         \A t \in DOMAIN transactions' : transactions'[t] = transactions[t]
  PROVE  SceneInv' /\ Whole
BY DEF SceneInv, Whole, NodesTyped, TransactionTyped, MutationRecords, SceneNodes

\* A teardown takes nodes and may end transactions.
LEMMA SceneTornDown ==
  ASSUME SceneInv, NEW gone, TearDown(gone), surfaces' = Minus(surfaces, gone),
         DOMAIN transactions' \subseteq DOMAIN transactions,
         \A t \in DOMAIN transactions' : transactions'[t] = transactions[t]
  PROVE  SceneInv' /\ Whole
<1> DEFINE shown == UNION {Showing(s) : s \in gone}
<1>1. nodes' = Minus(nodes, shown)
  BY DEF TearDown, RemoveSurfaceReferences
<1> HIDE DEF shown
<1>2. NodesTyped(nodes')
  BY <1>1 DEF SceneInv, NodesTyped, Minus
<1>3. DOMAIN surfaces' \subseteq SurfaceIds
  BY DEF SceneInv, Minus
<1>4. Whole
  BY <1>1 DEF Whole, Minus
<1>5. \A t \in DOMAIN transactions' : TransactionTyped(transactions'[t])
  BY DEF SceneInv
<1> QED
  BY <1>2, <1>3, <1>4, <1>5 DEF SceneInv, NodesTyped, TransactionTyped, MutationRecords, SceneNodes

\* A queued mutation is one that the transaction's client could make.
LEMMA SceneMutated ==
  ASSUME SceneInv, NEW t, NEW m \in Mutations(t), MutateScene(t, m)
  PROVE  SceneInv' /\ Whole
<1>1. /\ UNCHANGED <<nodes, surfaces>>
      /\ \/ UNCHANGED transactions
         \/ t \in DOMAIN transactions /\ transactions' = [transactions EXCEPT ![t] = Append(@, m)]
  BY DEF MutateScene, Mutate, SceneRefuses, Live
<1>2. CASE UNCHANGED transactions
  BY <1>1, <1>2, SceneKept DEF SceneInv
<1>3. CASE /\ t \in DOMAIN transactions
           /\ transactions' = [transactions EXCEPT ![t] = Append(@, m)]
  <2> DEFINE longer == Append(transactions[t], m)
  <2>1. transactions[t] \in Seq(MutationRecords) /\ TransactionTyped(transactions[t])
    BY <1>3 DEF SceneInv, TransactionTyped
  <2>2. m \in MutationRecords /\ (m.op # "Delete" => m.surface \in SurfaceIds)
    BY DEF Mutations, Create, Update, Delete, MutationRecords, SceneInv
  <2>3. TransactionTyped(longer)
    <3>1. longer \in Seq(MutationRecords) /\ Len(longer) = Len(transactions[t]) + 1
      BY <2>1, <2>2
    <3>2. ASSUME NEW i \in 1..Len(longer), longer[i].op # "Delete"
          PROVE  longer[i].surface \in SurfaceIds
      <4>1. longer[i] = m \/ (i \in 1..Len(transactions[t]) /\ longer[i] = transactions[t][i])
        BY <2>1, <2>2, <3>1
      <4> QED
        BY <2>1, <2>2, <3>2, <4>1 DEF TransactionTyped
    <3> QED
      BY <3>1, <3>2 DEF TransactionTyped
  <2> HIDE DEF longer
  <2>4. \A x \in DOMAIN transactions' : TransactionTyped(transactions'[x])
    BY <1>3, <2>3 DEF SceneInv, longer
  <2>5. Whole
    BY <1>1 DEF Whole
  <2> QED
    BY <1>1, <2>4, <2>5 DEF SceneInv, NodesTyped, TransactionTyped, MutationRecords, SceneNodes
<1> QED
  BY <1>1, <1>2, <1>3

\* commit: the scene is what the whole transaction makes of it, or as before.
LEMMA ScenePresented ==
  ASSUME SceneInv, NEW job, Present(job)
  PROVE  SceneInv' /\ Whole
<1> DEFINE t == job.request.transaction
<1>1. /\ UNCHANGED surfaces
      /\ \/ UNCHANGED <<nodes, transactions>>
         \/ /\ t \in DOMAIN transactions
            /\ nodes' \in Candidate(nodes, transactions[t])
            /\ scene_revision' = scene_revision + 1
            /\ transactions' = Minus(transactions, {t})
  BY DEF Present, CommitScene, SceneRefuses, Live
<1> HIDE DEF t
<1>2. CASE UNCHANGED <<nodes, transactions>>
  BY <1>1, <1>2, SceneKept DEF SceneInv
<1>3. CASE /\ t \in DOMAIN transactions
           /\ nodes' \in Candidate(nodes, transactions[t])
           /\ scene_revision' = scene_revision + 1
           /\ transactions' = Minus(transactions, {t})
  <2> DEFINE mutations == transactions[t]
  <2>1. NodesTyped(nodes) /\ TransactionTyped(mutations)
    BY <1>3 DEF SceneInv
  <2>2. mutations \in Seq(MutationRecords)
    BY <2>1 DEF TransactionTyped
  <2>3. nodes' = NetUpTo(nodes, mutations, Len(mutations)) /\ NodesTyped(nodes')
    BY <1>3, <2>1, CandidateNet
  <2> HIDE DEF mutations
  <2>4. \A n : LastOf(n, mutations) = LastUpTo(n, mutations, Len(mutations))
    BY <2>2 DEF LastOf, LastUpTo
  <2>5. Net(mutations) = NetUpTo(nodes, mutations, Len(mutations))
    BY <2>4 DEF Net, NetUpTo, Kept
  <2>6. t \in DOMAIN transactions \ DOMAIN transactions'
    BY <1>3 DEF Minus
  <2>7. Whole
    BY <1>3, <2>3, <2>5, <2>6 DEF Whole, mutations
  <2>8. \A x \in DOMAIN transactions' : TransactionTyped(transactions'[x])
    BY <1>3 DEF SceneInv, Minus
  <2> QED
    BY <1>1, <2>3, <2>7, <2>8 DEF SceneInv, NodesTyped, TransactionTyped, MutationRecords, SceneNodes
<1> QED
  BY <1>1, <1>2, <1>3

LEMMA SceneStep ==
  ASSUME SceneInv, [AuthorityNext]_allVars
  PROVE  SceneInv' /\ Whole
<1>1. CASE UNCHANGED <<nodes, transactions, surfaces>>
  BY <1>1, SceneKept DEF SceneInv
<1>2. ASSUME NEW id \in DOMAIN contexts, Revoke(id) PROVE SceneInv' /\ Whole
  <2> DEFINE ids == {c \in Subtree(id) : Active(c)}
  <2>1. /\ TearDown(OwnedBy(ids)) /\ surfaces' = Minus(surfaces, OwnedBy(ids))
        /\ transactions' = Minus(transactions, {t \in DOMAIN transactions : t[1] \in ids})
    BY <1>2 DEF Revoke
  <2> HIDE DEF ids
  <2>2. /\ DOMAIN transactions' \subseteq DOMAIN transactions
        /\ \A t \in DOMAIN transactions' : transactions'[t] = transactions[t]
    BY <2>1 DEF Minus
  <2> QED
    BY <2>1, <2>2, SceneTornDown
<1>3. ASSUME NEW s, DestroySurface(s) PROVE SceneInv' /\ Whole
  BY <1>3, SceneTornDown DEF DestroySurface
<1>4. ASSUME NEW s \in Surfaced, NEW d, CreateSurface(s, d) PROVE SceneInv' /\ Whole
  <2>1. /\ s \in SurfaceIds /\ DOMAIN surfaces' = DOMAIN surfaces \union {s}
        /\ UNCHANGED <<nodes, transactions>>
    BY <1>4 DEF CreateSurface, With, Surfaced, sceneVars
  <2> QED
    BY <2>1, SceneKept DEF SceneInv
<1>5. ASSUME NEW s, NEW expected, NEW d, UpdateSurface(s, expected, d) PROVE SceneInv' /\ Whole
  <2>1. DOMAIN surfaces' = DOMAIN surfaces /\ UNCHANGED <<nodes, transactions>>
    BY <1>5 DEF UpdateSurface, sceneVars
  <2> QED
    BY <2>1, SceneKept DEF SceneInv
<1>6. ASSUME NEW d, OfferTarget(d) PROVE SceneInv' /\ Whole
  BY <1>1, <1>6 DEF OfferTarget, sceneVars
<1>7. ASSUME NEW t, BeginTransaction(t) PROVE SceneInv' /\ Whole
  <2>1. /\ UNCHANGED <<nodes, surfaces>>
        /\ UNCHANGED transactions \/ transactions' = With(transactions, t, <<>>)
    BY <1>7 DEF BeginTransaction, Begin, SceneRefuses
  <2>2. TransactionTyped(<<>>)
    BY DEF TransactionTyped
  <2>3. \A x \in DOMAIN transactions' : TransactionTyped(transactions'[x])
    BY <2>1, <2>2 DEF SceneInv, With
  <2>4. Whole
    BY <2>1 DEF Whole
  <2> QED
    BY <2>1, <2>3, <2>4 DEF SceneInv, NodesTyped, TransactionTyped, MutationRecords, SceneNodes
<1>8. ASSUME NEW t, AbortTransaction(t) PROVE SceneInv' /\ Whole
  <2>1. UNCHANGED <<nodes, surfaces>> /\ transactions' = Minus(transactions, {t})
    BY <1>8 DEF AbortTransaction, Abort
  <2> QED
    BY <2>1, SceneKept DEF SceneInv, Minus
<1>9. ASSUME NEW id, NEW parent, NEW classes, NEW amount,
             CreateContext(id, parent, classes, amount)
      PROVE  SceneInv' /\ Whole
  BY <1>1, <1>9 DEF CreateContext, sceneVars
<1>10. ASSUME NEW key, NEW request, RequestCommit(key, request) PROVE SceneInv' /\ Whole
  BY <1>1, <1>10 DEF RequestCommit, sceneVars
<1>11. CASE Interrupt
  BY <1>1, <1>11 DEF Interrupt, sceneVars
<1>12. CASE UNCHANGED allVars
  BY <1>1, <1>12 DEF allVars, authorityVars, sceneVars
<1>13. CASE ContextNext
  BY <1>2, <1>9, <1>13 DEF ContextNext
<1>14. CASE SurfaceNext
  BY <1>3, <1>4, <1>5, <1>6, <1>14 DEF SurfaceNext
<1>15. CASE SceneNext
  BY <1>7, <1>8, <1>10, <1>11, <1>15, SceneMutated, ScenePresented DEF SceneNext
<1> QED
  BY <1>12, <1>13, <1>14, <1>15 DEF AuthorityNext

\* A scene never shows part of a transaction (commit of scene.rs): a step
\* that shows anything new applies one whole transaction, to the effect that
\* its last mutation of each node tells, and under a new revision.
THEOREM CommitsAreWhole == AuthoritySpec => AllOrNothing
<1>1. ASSUME SceneInv, [AuthorityNext]_allVars
      PROVE  SceneInv' /\
        [\/ \A n \in DOMAIN nodes' : n \in DOMAIN nodes /\ nodes'[n] = nodes[n]
         \/ /\ scene_revision' = scene_revision + 1
            /\ \E t \in DOMAIN transactions \ DOMAIN transactions' :
                 nodes' = Net(transactions[t])]_allVars
  BY <1>1, SceneStep DEF Whole
<1> QED
  BY <1>1, SceneInitInv, PTL DEF AuthoritySpec, AllOrNothing
=============================================================================
