------------------------------- MODULE Records -------------------------------
(***************************************************************************)
(* How the protocol reads a record: a map of numbered keys that a schema   *)
(* knows (StrictMap of messages.rs).  A record here is a function from the *)
(* names of the fields to values, with the object identifier of its header *)
(* under "header" where the decoder is given it.  A nested map is flat:    *)
(* its keys carry its name.                                                *)
(*                                                                         *)
(* A value is a number.  Unsigned integers are 0 to 5, and Widest, which   *)
(* does not fit in 32 bits; limits of the code are moved into that range,  *)
(* their order kept.  A text, a byte string or an array is a number too,   *)
(* that says which of the texts the rules tell apart it is.                *)
(***************************************************************************)
EXTENDS Integers, Functions

Widest == 9            \* u64::MAX
AnotherType == -1      \* a CBOR value of another type than the schema asks for
WrongLength == -2      \* a byte string of another length
Null == -3             \* the CBOR null

U64 == 0..5 \union {Widest}
U32 == 0..5
Bool == {0, 1}
Fixed == {1, 2}        \* byte strings of the one length taken
Values == U64 \union {AnotherType, WrongLength, Null}

\* Texts: empty, two ordinary ones, one that is too long, one that is not safe.
Empty == 0
Ordinary == {1, 2}
TooLong == 3
Unsafe == 4
Text == 0..4

Fields(names, type) == [f \in names |-> type]

\* The fields of both; of those that both have, the first's.
p ++ q == [f \in DOMAIN p \union DOMAIN q |-> IF f \in DOMAIN p THEN p[f] ELSE q[f]]

(***************************************************************************)
(* StrictMap::new and the accessors: no key the schema does not know, none *)
(* missing, each of its type.                                              *)
(***************************************************************************)
ReadsWith(required, optional, p) ==
  LET known == required ++ optional IN
  /\ DOMAIN required \subseteq DOMAIN p
  /\ \A f \in DOMAIN p \ {"header"} : f \in DOMAIN known /\ p[f] \in known[f]

Reads(required, p) == ReadsWith(required, <<>>, p)

\* StrictMap::preserving: keys beyond the last known one are kept, not refused.
ReadsPreserving(required, p) ==
  \A f \in DOMAIN required : f \in DOMAIN p /\ p[f] \in required[f]

\* What an absent key means.
Get(p, f, default) == IF f \in DOMAIN p THEN p[f] ELSE default

Has(p, f) == f \in DOMAIN p

\* Both or neither.
Same(a, b) == a <=> b

NonzeroAll(p, names) == \A f \in names : p[f] # 0

HeaderIs(p, f) == p["header"] = p[f]

Select(p, names) == Restrict(p, DOMAIN p \intersect names)

\* A key left out when it holds what its absence means.
WithoutDefault(p, f, default) ==
  IF Get(p, f, default) = default THEN Restrict(p, DOMAIN p \ {f}) ELSE p

\* A surface has a generation, no surface has none.
Scoped(p) == Same(p.surface_id = 0, p.surface_generation = 0)

\* A record as a program writes it.
Built(kind, header, p) == [kind |-> kind, fields |-> [header |-> header] ++ p]

MAX_RECORD_BODY == 3        \* HARD_MAX_RECORD_BODY
=============================================================================
