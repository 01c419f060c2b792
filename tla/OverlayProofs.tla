---------------------------- MODULE OverlayProofs ----------------------------
(***************************************************************************)
(* Theorems about the overlay window manager, for every set of windows and *)
(* owners, every family of shapes and every limit.                         *)
(***************************************************************************)
EXTENDS OverlayWindows, FiniteSetTheorems, SequenceTheorems, WellFoundedInduction, TLAPS

(***************************************************************************)
(* Loops.  A recursive function over the turns of a loop exists, and what  *)
(* every turn keeps holds at the end.                                      *)
(***************************************************************************)
LEMMA Turns ==
  ASSUME NEW N \in Nat, NEW S, 0 \in S, \A n \in 1..N : n - 1 \in S => n \in S
  PROVE  \A n \in 0..N : n \in S
<1>. DEFINE left == {n \in 0..N : n \notin S}
            less == OpToRel(<, Nat)
<1>. SUFFICES ASSUME left # {} PROVE FALSE
  OBVIOUS
<1>1. left \subseteq Nat
  OBVIOUS
<1>2. IsWellFoundedOn(less, Nat)
  BY NatLessThanWellFounded
<1>3. \A m, n \in Nat : m < n => <<m, n>> \in less
  BY DEF OpToRel
<1>. HIDE DEF less
<1>4. \E n \in left : \A m \in left : <<m, n>> \notin less
  <2>. HIDE DEF left
  <2>. QED BY <1>1, <1>2, WFMin
<1>5. PICK n \in left : \A m \in left : <<m, n>> \notin less
  BY <1>4
<1>6. n \in 1..N /\ n - 1 \in 0..N /\ n - 1 \in Nat /\ n - 1 < n
  OBVIOUS
<1>7. n - 1 \in S
  <2>1. <<n - 1, n>> \in less
    BY <1>3, <1>6
  <2>2. n - 1 \notin left
    BY <1>5, <2>1
  <2>. QED BY <1>6, <2>2
<1>. QED BY <1>6, <1>7

(***************************************************************************)
(* Subsequences by place: what filter and retain leave of a list.          *)
(***************************************************************************)
\* Every rank up to their number is taken by one place, and by one alone, and
\* the ranks are in the order of the places.
LEMMA RankIsOneToOne ==
  ASSUME NEW n \in Nat, NEW places \in SUBSET (1..n)
  PROVE  /\ IsFiniteSet(places) /\ Cardinality(places) \in Nat
         /\ \A i \in places : Rank(places, i) \in 1..Cardinality(places)
         /\ \A i, j \in places : i < j => Rank(places, i) < Rank(places, j)
         /\ \A i, j \in places : Rank(places, i) = Rank(places, j) => i = j
         /\ \A r \in 1..Cardinality(places) : \E i \in places : Rank(places, i) = r
<1>. DEFINE upto(i) == {j \in places : j <= i}
            size == Cardinality(places)
            rank == [i \in places |-> Rank(places, i)]
<1>1. IsFiniteSet(places) /\ size \in Nat
  <2>1. IsFiniteSet(1..n)
    BY FS_Interval
  <2>. QED BY <2>1, FS_Subset, FS_CardinalityType
<1>2. ASSUME NEW i \in places
      PROVE  /\ IsFiniteSet(upto(i)) /\ Rank(places, i) \in Nat
             /\ Rank(places, i) <= size /\ Rank(places, i) # 0
  <2>1. upto(i) \in SUBSET places /\ i \in upto(i)
    OBVIOUS
  <2>2. IsFiniteSet(upto(i)) /\ Cardinality(upto(i)) <= size /\ Cardinality(upto(i)) \in Nat
    BY <1>1, <2>1, FS_Subset, FS_CardinalityType
  <2>. QED BY <2>1, <2>2, FS_EmptySet DEF Rank
<1>3. ASSUME NEW i \in places, NEW j \in places, i < j
      PROVE  Rank(places, i) < Rank(places, j)
  <2>1. upto(i) \in SUBSET upto(j) /\ j \in upto(j) /\ j \notin upto(i)
    <3>1. i \in Int /\ j \in Int /\ \A k \in places : k \in Int
      OBVIOUS
    <3>2. \A k \in Int : k <= i => k <= j
      BY <1>3, <3>1
    <3>3. j <= j /\ ~(j <= i)
      BY <1>3, <3>1
    <3>. QED BY <3>1, <3>2, <3>3
  <2>2. Cardinality(upto(i)) <= Cardinality(upto(j)) /\ Cardinality(upto(i)) # Cardinality(upto(j))
    BY <1>2, <2>1, FS_Subset
  <2>3. Cardinality(upto(i)) \in Nat /\ Cardinality(upto(j)) \in Nat
    BY <1>2 DEF Rank
  <2>. QED BY <2>2, <2>3 DEF Rank
<1>4. \A i, j \in places : Rank(places, i) = Rank(places, j) => i = j
  <2>1. \A i, j \in places : i < j \/ j < i \/ i = j
    OBVIOUS
  <2>2. \A i, j \in Nat : i < j => i # j
    OBVIOUS
  <2>3. \A i \in places : Rank(places, i) \in Nat
    BY <1>2
  <2>. QED BY <1>3, <2>1, <2>2, <2>3
<1>5. \A i \in places : Rank(places, i) \in 1..size
  <2>. HIDE DEF size
  <2>1. \A k \in Nat : k <= size /\ k # 0 => k \in 1..size
    BY <1>1
  <2>. QED BY <1>2, <2>1
<1>6. rank \in Injection(places, 1..size)
  BY <1>4, <1>5 DEF Injection, IsInjective
<1>7. IsFiniteSet(1..size) /\ Cardinality(1..size) = size
  BY <1>1, FS_Interval
<1>8. rank \in Surjection(places, 1..size)
  BY <1>6, <1>7, FS_Injection
<1>. QED BY <1>1, <1>3, <1>4, <1>5, <1>8 DEF Surjection

\* What is at the places is the elements that were there, each once.
LEMMA AtPlacesProperties ==
  ASSUME NEW S, NEW seq \in Seq(S), NEW places \in SUBSET (1..Len(seq))
  PROVE  LET kept == AtPlaces(seq, places) IN
         /\ kept \in Seq(S)
         /\ \A n \in 1..Len(kept) : \E i \in places : kept[n] = seq[i] /\ Rank(places, i) = n
         /\ \A i \in places : Rank(places, i) \in 1..Len(kept) /\ kept[Rank(places, i)] = seq[i]
         /\ \A i, j \in places : i < j => Rank(places, i) < Rank(places, j)
<1>. DEFINE kept == AtPlaces(seq, places)
            size == Cardinality(places)
            place(n) == CHOOSE i \in places : Rank(places, i) = n
<1>1. /\ size \in Nat
      /\ \A i \in places : Rank(places, i) \in 1..size
      /\ \A i, j \in places : i < j => Rank(places, i) < Rank(places, j)
      /\ \A i, j \in places : Rank(places, i) = Rank(places, j) => i = j
      /\ \A r \in 1..size : \E i \in places : Rank(places, i) = r
  <2>1. Len(seq) \in Nat
    OBVIOUS
  <2>. QED BY <2>1, RankIsOneToOne
<1>2. \A n \in 1..size : place(n) \in places /\ Rank(places, place(n)) = n
  BY <1>1
<1>3. kept = [n \in 1..size |-> seq[place(n)]]
  BY DEF AtPlaces
<1>. HIDE DEF place
<1>4. \A n \in 1..size : seq[place(n)] \in S
  <2>1. \A i \in places : seq[i] \in S
    OBVIOUS
  <2>. QED BY <1>2, <2>1
<1>5. kept \in Seq(S) /\ Len(kept) = size
  BY <1>1, <1>3, <1>4
<1>6. \A i \in places : place(Rank(places, i)) = i
  BY <1>1, <1>2
<1>. HIDE DEF kept, size
<1>7. \A n \in 1..Len(kept) : \E i \in places : kept[n] = seq[i] /\ Rank(places, i) = n
  BY <1>2, <1>3, <1>5
<1>8. \A i \in places : Rank(places, i) \in 1..Len(kept) /\ kept[Rank(places, i)] = seq[i]
  BY <1>1, <1>3, <1>5, <1>6
<1>. QED BY <1>1, <1>5, <1>7, <1>8 DEF kept

(***************************************************************************)
(* Lists of windows: what is on one, once, and before what.                *)
(***************************************************************************)
On(seq, x) == \E i \in 1..Len(seq) : seq[i] = x
Once(seq) == \A i, j \in 1..Len(seq) : seq[i] = seq[j] => i = j
Before(seq, a, b) == \E i, j \in 1..Len(seq) : i < j /\ seq[i] = a /\ seq[j] = b

LEMMA OnlyProperties ==
  ASSUME NEW S, NEW seq \in Seq(S), NEW wanted
  PROVE  /\ Only(seq, wanted) \in Seq(S)
         /\ \A x : On(Only(seq, wanted), x) <=> On(seq, x) /\ x \in wanted
         /\ Once(seq) => Once(Only(seq, wanted))
         /\ \A a, b \in wanted : Before(seq, a, b) => Before(Only(seq, wanted), a, b)
<1>. DEFINE places == {i \in DOMAIN seq : seq[i] \in wanted}
            kept == AtPlaces(seq, places)
<1>1. Only(seq, wanted) = kept
  BY DEF Only
<1>2. places \in SUBSET (1..Len(seq)) /\ \A i \in 1..Len(seq) : i \in places <=> seq[i] \in wanted
  OBVIOUS
<1>. HIDE DEF places
<1>3. /\ kept \in Seq(S)
      /\ \A n \in 1..Len(kept) : \E i \in places : kept[n] = seq[i] /\ Rank(places, i) = n
      /\ \A i \in places : Rank(places, i) \in 1..Len(kept) /\ kept[Rank(places, i)] = seq[i]
      /\ \A i, j \in places : i < j => Rank(places, i) < Rank(places, j)
  BY <1>2, AtPlacesProperties
<1>. HIDE DEF kept
<1>4. \A x : On(kept, x) <=> On(seq, x) /\ x \in wanted
  <2>1. ASSUME NEW x, On(kept, x)
        PROVE  On(seq, x) /\ x \in wanted
    <3>1. PICK n \in 1..Len(kept) : kept[n] = x
      BY <2>1 DEF On
    <3>2. PICK i \in places : kept[n] = seq[i]
      BY <1>3
    <3>. QED BY <1>2, <3>1, <3>2 DEF On
  <2>2. ASSUME NEW x, On(seq, x), x \in wanted
        PROVE  On(kept, x)
    <3>1. PICK i \in 1..Len(seq) : seq[i] = x
      BY <2>2 DEF On
    <3>2. i \in places
      BY <1>2, <2>2, <3>1
    <3>. QED BY <1>3, <3>1, <3>2 DEF On
  <2>. QED BY <2>1, <2>2
<1>5. ASSUME Once(seq) PROVE Once(kept)
  <2>. SUFFICES ASSUME NEW m \in 1..Len(kept), NEW n \in 1..Len(kept), kept[m] = kept[n]
                PROVE  m = n
    BY DEF Once
  <2>1. PICK i \in places : kept[m] = seq[i] /\ Rank(places, i) = m
    BY <1>3
  <2>2. PICK j \in places : kept[n] = seq[j] /\ Rank(places, j) = n
    BY <1>3
  <2>3. i = j
    BY <1>2, <1>5, <2>1, <2>2 DEF Once
  <2>. QED BY <2>1, <2>2, <2>3
<1>6. ASSUME NEW a \in wanted, NEW b \in wanted, Before(seq, a, b)
      PROVE  Before(kept, a, b)
  <2>1. PICK i \in 1..Len(seq), j \in 1..Len(seq) : i < j /\ seq[i] = a /\ seq[j] = b
    BY <1>6 DEF Before
  <2>2. i \in places /\ j \in places
    BY <1>2, <2>1
  <2>3. /\ Rank(places, i) \in 1..Len(kept) /\ kept[Rank(places, i)] = a
        /\ Rank(places, j) \in 1..Len(kept) /\ kept[Rank(places, j)] = b
        /\ Rank(places, i) < Rank(places, j)
    BY <1>3, <2>1, <2>2
  <2>. QED BY <2>3 DEF Before
<1>. QED BY <1>1, <1>3, <1>4, <1>5, <1>6

LEMMA ConcatOn ==
  ASSUME NEW S, NEW s \in Seq(S), NEW t \in Seq(S)
  PROVE  /\ s \o t \in Seq(S)
         /\ \A x : On(s \o t, x) <=> On(s, x) \/ On(t, x)
         /\ \A a, b : Before(s, a, b) \/ Before(t, a, b) => Before(s \o t, a, b)
         /\ \A a, b : On(s, a) /\ On(t, b) => Before(s \o t, a, b)
<1>. DEFINE c == s \o t
<1>1. /\ c \in Seq(S) /\ Len(c) = Len(s) + Len(t) /\ Len(s) \in Nat /\ Len(t) \in Nat
      /\ \A i \in 1..Len(s) : c[i] = s[i]
      /\ \A i \in 1..Len(t) : c[Len(s) + i] = t[i]
  OBVIOUS
<1>2. \A i \in 1..(Len(s) + Len(t)) :
        i \in 1..Len(s) \/ (i - Len(s) \in 1..Len(t) /\ c[i] = t[i - Len(s)])
  OBVIOUS
<1>. HIDE DEF c
<1>3. \A i \in 1..Len(s) : i \in 1..Len(c)
  BY <1>1
<1>4. \A i \in 1..Len(t) : Len(s) + i \in 1..Len(c)
  BY <1>1
<1>5. \A x : On(c, x) <=> On(s, x) \/ On(t, x)
  <2>1. ASSUME NEW x, On(c, x) PROVE On(s, x) \/ On(t, x)
    BY <1>1, <1>2, <2>1 DEF On
  <2>2. ASSUME NEW x, On(s, x) PROVE On(c, x)
    BY <1>1, <1>3, <2>2 DEF On
  <2>3. ASSUME NEW x, On(t, x) PROVE On(c, x)
    BY <1>1, <1>4, <2>3 DEF On
  <2>. QED BY <2>1, <2>2, <2>3
<1>6. ASSUME NEW a, NEW b, Before(s, a, b) PROVE Before(c, a, b)
  BY <1>1, <1>3, <1>6 DEF Before
<1>7. ASSUME NEW a, NEW b, Before(t, a, b) PROVE Before(c, a, b)
  <2>1. PICK i \in 1..Len(t), j \in 1..Len(t) : i < j /\ t[i] = a /\ t[j] = b
    BY <1>7 DEF Before
  <2>2. Len(s) + i < Len(s) + j
    BY <1>1, <2>1
  <2>. QED BY <1>1, <1>4, <2>1, <2>2 DEF Before
<1>8. ASSUME NEW a, NEW b, On(s, a), On(t, b) PROVE Before(c, a, b)
  <2>1. PICK i \in 1..Len(s), j \in 1..Len(t) : s[i] = a /\ t[j] = b
    BY <1>8 DEF On
  <2>2. i < Len(s) + j
    BY <1>1, <2>1
  <2>. QED BY <1>1, <1>3, <1>4, <2>1, <2>2 DEF Before
<1>. QED BY <1>1, <1>5, <1>6, <1>7, <1>8 DEF c

LEMMA ConcatOnce ==
  ASSUME NEW S, NEW s \in Seq(S), NEW t \in Seq(S), Once(s), Once(t),
         \A x : ~(On(s, x) /\ On(t, x))
  PROVE  Once(s \o t)
<1>. DEFINE c == s \o t
<1>. SUFFICES ASSUME NEW i \in 1..Len(c), NEW j \in 1..Len(c), c[i] = c[j]
              PROVE  i = j
  BY DEF Once
<1>1. Len(c) = Len(s) + Len(t) /\ Len(s) \in Nat /\ Len(t) \in Nat
  OBVIOUS
<1>2. \A k \in 1..Len(c) : \/ k \in 1..Len(s) /\ c[k] = s[k]
                           \/ k - Len(s) \in 1..Len(t) /\ c[k] = t[k - Len(s)]
  OBVIOUS
<1>. HIDE DEF c
<1>3. CASE i \in 1..Len(s) /\ c[i] = s[i] /\ j \in 1..Len(s) /\ c[j] = s[j]
  BY <1>3 DEF Once
<1>4. CASE /\ i - Len(s) \in 1..Len(t) /\ c[i] = t[i - Len(s)]
           /\ j - Len(s) \in 1..Len(t) /\ c[j] = t[j - Len(s)]
  <2>1. i - Len(s) = j - Len(s)
    BY <1>4 DEF Once
  <2>. QED BY <1>1, <2>1
<1>5. CASE i \in 1..Len(s) /\ c[i] = s[i] /\ j - Len(s) \in 1..Len(t) /\ c[j] = t[j - Len(s)]
  BY <1>5 DEF On
<1>6. CASE j \in 1..Len(s) /\ c[j] = s[j] /\ i - Len(s) \in 1..Len(t) /\ c[i] = t[i - Len(s)]
  BY <1>6 DEF On
<1>. QED BY <1>2, <1>3, <1>4, <1>5, <1>6

LEMMA AppendOn ==
  ASSUME NEW S, NEW s \in Seq(S), NEW e \in S
  PROVE  /\ Append(s, e) \in Seq(S)
         /\ \A x : On(Append(s, e), x) <=> On(s, x) \/ x = e
         /\ Once(s) /\ ~On(s, e) => Once(Append(s, e))
         /\ \A a, b : Before(s, a, b) => Before(Append(s, e), a, b)
         /\ \A a : On(s, a) => Before(Append(s, e), a, e)
<1>. DEFINE c == Append(s, e)
<1>1. /\ c \in Seq(S) /\ Len(c) = Len(s) + 1 /\ Len(s) \in Nat
      /\ \A i \in 1..Len(s) : i \in 1..Len(c) /\ c[i] = s[i] /\ i < Len(c)
      /\ Len(c) \in 1..Len(c) /\ c[Len(c)] = e
      /\ \A i \in 1..Len(c) : i \in 1..Len(s) \/ i = Len(c)
  OBVIOUS
<1>. HIDE DEF c
<1>2. \A x : On(c, x) <=> On(s, x) \/ x = e
  BY <1>1 DEF On
<1>3. Once(s) /\ ~On(s, e) => Once(c)
  BY <1>1 DEF Once, On
<1>4. \A a, b : Before(s, a, b) => Before(c, a, b)
  BY <1>1 DEF Before
<1>5. \A a : On(s, a) => Before(c, a, e)
  BY <1>1 DEF Before, On
<1>. QED BY <1>1, <1>2, <1>3, <1>4, <1>5 DEF c

\* A list that is cut in two.
LEMMA CutOn ==
  ASSUME NEW S, NEW s \in Seq(S), NEW at \in 0..Len(s), Once(s)
  PROVE  LET f == SubSeq(s, 1, at)
             g == SubSeq(s, at + 1, Len(s)) IN
         /\ f \in Seq(S) /\ g \in Seq(S) /\ Once(f) /\ Once(g)
         /\ \A x : On(s, x) <=> On(f, x) \/ On(g, x)
         /\ \A x : ~(On(f, x) /\ On(g, x))
         /\ \A a, b : Before(s, a, b) => \/ Before(f, a, b)
                                         \/ Before(g, a, b)
                                         \/ On(f, a) /\ On(g, b)
         /\ at # 0 => On(f, s[at])
<1>. DEFINE f == SubSeq(s, 1, at)
            g == SubSeq(s, at + 1, Len(s))
<1>1. Len(s) \in Nat /\ at \in Nat /\ at <= Len(s)
  OBVIOUS
<1>2. /\ f \in Seq(S) /\ Len(f) = at
      /\ \A i \in 1..at : f[i] = s[i]
  OBVIOUS
<1>3. /\ g \in Seq(S) /\ Len(g) = Len(s) - at
      /\ \A i \in 1..(Len(s) - at) : g[i] = s[at + i]
  OBVIOUS
<1>. HIDE DEF f, g
<1>4. \A i \in 1..Len(s) : \/ i \in 1..Len(f) /\ f[i] = s[i] /\ i <= at
                           \/ i - at \in 1..Len(g) /\ g[i - at] = s[i] /\ i > at
  BY <1>1, <1>2, <1>3
<1>5. \A i \in 1..Len(f) : i \in 1..Len(s) /\ f[i] = s[i] /\ i <= at
  BY <1>1, <1>2
<1>6. \A i \in 1..Len(g) : at + i \in 1..Len(s) /\ g[i] = s[at + i] /\ at + i > at
  BY <1>1, <1>3
<1>7. Once(f)
  BY <1>5 DEF Once
<1>8. Once(g)
  <2>. SUFFICES ASSUME NEW i \in 1..Len(g), NEW j \in 1..Len(g), g[i] = g[j] PROVE i = j
    BY DEF Once
  <2>1. at + i = at + j
    BY <1>6 DEF Once
  <2>. QED BY <1>1, <1>3, <2>1
<1>9. \A x : On(s, x) <=> On(f, x) \/ On(g, x)
  <2>1. ASSUME NEW x, On(s, x) PROVE On(f, x) \/ On(g, x)
    BY <1>4, <2>1 DEF On
  <2>2. ASSUME NEW x, On(f, x) PROVE On(s, x)
    BY <1>5, <2>2 DEF On
  <2>3. ASSUME NEW x, On(g, x) PROVE On(s, x)
    BY <1>6, <2>3 DEF On
  <2>. QED BY <2>1, <2>2, <2>3
<1>10. ASSUME NEW x, On(f, x), On(g, x) PROVE FALSE
  <2>1. PICK i \in 1..Len(f), j \in 1..Len(g) : f[i] = x /\ g[j] = x
    BY <1>10 DEF On
  <2>2. i = at + j
    BY <1>5, <1>6, <2>1 DEF Once
  <2>. QED BY <1>1, <1>3, <1>5, <2>1, <2>2
<1>11. ASSUME NEW a, NEW b, Before(s, a, b)
       PROVE  Before(f, a, b) \/ Before(g, a, b) \/ (On(f, a) /\ On(g, b))
  <2>1. PICK i \in 1..Len(s), j \in 1..Len(s) : i < j /\ s[i] = a /\ s[j] = b
    BY <1>11 DEF Before
  <2>2. CASE j <= at
    <3>1. i \in 1..Len(f) /\ j \in 1..Len(f) /\ f[i] = a /\ f[j] = b
      BY <1>1, <1>2, <2>1, <2>2
    <3>. QED BY <2>1, <3>1 DEF Before
  <2>3. CASE i > at
    <3>1. /\ i - at \in 1..Len(g) /\ j - at \in 1..Len(g) /\ i - at < j - at
          /\ g[i - at] = a /\ g[j - at] = b
      BY <1>1, <1>4, <2>1, <2>3
    <3>. QED BY <3>1 DEF Before
  <2>4. CASE i <= at /\ j > at
    BY <1>1, <1>4, <2>1, <2>4 DEF On
  <2>. QED BY <1>1, <2>2, <2>3, <2>4
<1>12. at # 0 => On(f, s[at])
  BY <1>1, <1>2 DEF On
<1>. QED BY <1>2, <1>3, <1>7, <1>8, <1>9, <1>10, <1>11, <1>12 DEF f, g

LEMMA BeforeOrder ==
  ASSUME NEW S, NEW s \in Seq(S), Once(s)
  PROVE  /\ \A a : ~Before(s, a, a)
         /\ \A a, b, c : Before(s, a, b) /\ Before(s, b, c) => Before(s, a, c)
         /\ \A a, b : Before(s, a, b) => On(s, a) /\ On(s, b)
<1>1. \A i, j \in 1..Len(s) : i < j => i # j
  OBVIOUS
<1>2. \A i, j, k \in 1..Len(s) : i < j /\ j < k => i < k
  OBVIOUS
<1>3. \A a : ~Before(s, a, a)
  BY <1>1 DEF Before, Once
<1>4. ASSUME NEW a, NEW b, NEW c, Before(s, a, b), Before(s, b, c)
      PROVE  Before(s, a, c)
  <2>1. PICK i \in 1..Len(s), j \in 1..Len(s) : i < j /\ s[i] = a /\ s[j] = b
    BY <1>4 DEF Before
  <2>2. PICK k \in 1..Len(s), l \in 1..Len(s) : k < l /\ s[k] = b /\ s[l] = c
    BY <1>4 DEF Before
  <2>3. j = k
    BY <2>1, <2>2 DEF Once
  <2>. QED BY <1>2, <2>1, <2>2, <2>3 DEF Before
<1>5. \A a, b : Before(s, a, b) => On(s, a) /\ On(s, b)
  BY DEF Before, On
<1>. QED BY <1>3, <1>4, <1>5

(***************************************************************************)
(* The state of the manager, in parts that its private functions keep: a   *)
(* record of its types, windows in families of one owner, a stack that     *)
(* holds every window once and above its parent, and what owners heard.    *)
(***************************************************************************)
Fields == {"windows", "stack", "focus", "hover", "history", "swallowed", "swallowed_escape",
           "capture", "events", "overflowed", "told_focus", "told_hover"}

Window == [mode: {"Floating", "Popup", "Modal"}, parent: Ids \union {None},
           visible: BOOLEAN, revision: 1..MaxRevision, scene: 0..MaxScene]
Event == [window: Ids, class: {"Input", "Motion", "Unsettled", "Notice"}, scene: 0..MaxScene]
Hover == [window: Ids, region: Regions]
Capture == [window: Ids, gesture: BOOLEAN, region: Regions \union {0}]

WindowsTyped(windows) ==
  /\ DOMAIN windows \subseteq Ids
  /\ \A id \in DOMAIN windows :
       /\ windows[id] \in Window
       /\ [mode |-> windows[id].mode, parent |-> windows[id].parent] \in Shapes[id]

EventsTyped(events) ==
  /\ DOMAIN events \subseteq Owners
  /\ \A o \in DOMAIN events : events[o] \in Seq(Event) /\ Len(events[o]) <= MaxPending

Typed(u) ==
  /\ DOMAIN u = Fields
  /\ WindowsTyped(u.windows)
  /\ u.stack \in Seq(Ids) /\ u.history \in Seq(Ids)
  /\ u.focus \in Ids \union {None}
  /\ u.hover \in Hover \union {None}
  /\ u.capture \in Capture \union {None}
  /\ EventsTyped(u.events)
  /\ u.overflowed \subseteq Owners /\ DOMAIN u.events \intersect u.overflowed = {}
  /\ u.told_focus \subseteq Ids /\ u.told_hover \subseteq Ids

Families(windows) ==
  \A id \in DOMAIN windows : windows[id].parent # None =>
    windows[id].parent \in DOMAIN windows /\ Owner[windows[id].parent] = Owner[id]

Stacked(windows, stack) ==
  /\ Once(stack)
  /\ \A id : On(stack, id) <=> id \in DOMAIN windows
  /\ \A id \in DOMAIN windows : windows[id].parent # None =>
       Before(stack, windows[id].parent, id)

Base(u) == Typed(u) /\ Families(u.windows) /\ Stacked(u.windows, u.stack)

FocusHeard(u) == u.told_focus \subseteq {u.focus}
HoverHeard(u) == \A id \in u.told_hover : u.hover # None /\ u.hover.window = id
CaptureSeen(u) == u.capture # None => EffectivelyVisible(u, u.capture.window)

LEMMA NoneApart ==
  /\ None \notin Ids
  /\ \A h \in Hover : h # None /\ h.window \in Ids
  /\ \A c \in Capture : c # None /\ c.window \in Ids
  BY NoneAssumption DEF Hover, Capture

(***************************************************************************)
(* Lines of ancestors.                                                     *)
(***************************************************************************)
LEMMA Lines ==
  ASSUME NEW u, Typed(u)
  PROVE  /\ \A c \in Ids : Descends(u, c, c)
         /\ \A c \in DOMAIN u.windows, a \in Ids :
              u.windows[c].parent # None /\ Descends(u, u.windows[c].parent, a) =>
                Descends(u, c, a)
         /\ \A c \in DOMAIN u.windows, a \in Ids : Descends(u, c, a) /\ c # a =>
              u.windows[c].parent # None /\ Descends(u, u.windows[c].parent, a)
         /\ \A c \in Ids, a \in Ids :
              c \notin DOMAIN u.windows /\ Descends(u, c, a) => c = a
<1>1. /\ DOMAIN u.windows \subseteq Ids
      /\ \A c \in DOMAIN u.windows : u.windows[c].parent \in Ids \union {None}
  BY DEF Typed, WindowsTyped, Window
<1>2. \A c \in Ids : Descends(u, c, c)
  BY DEF Descends
<1>3. ASSUME NEW c \in DOMAIN u.windows, NEW a \in Ids, u.windows[c].parent # None,
             Descends(u, u.windows[c].parent, a)
      PROVE  Descends(u, c, a)
  BY <1>3 DEF Descends, Closed, Exists
<1>4. ASSUME NEW c \in DOMAIN u.windows, NEW a \in Ids, Descends(u, c, a), c # a
      PROVE  u.windows[c].parent # None /\ Descends(u, u.windows[c].parent, a)
  <2>1. u.windows[c].parent # None
    <3>1. ASSUME u.windows[c].parent = None PROVE FALSE
      <4>1. {c} \in SUBSET Ids /\ Closed(u, {c})
        BY <1>1, <3>1 DEF Closed
      <4>. QED BY <1>4, <4>1 DEF Descends
    <3>. QED BY <3>1
  <2>2. ASSUME NEW line \in SUBSET Ids, u.windows[c].parent \in line, Closed(u, line)
        PROVE  a \in line
    <3>1. line \union {c} \in SUBSET Ids /\ Closed(u, line \union {c})
      BY <1>1, <2>2 DEF Closed
    <3>. QED BY <1>4, <3>1 DEF Descends
  <2>. QED BY <2>1, <2>2 DEF Descends
<1>5. ASSUME NEW c \in Ids, NEW a \in Ids, c \notin DOMAIN u.windows, Descends(u, c, a)
      PROVE  c = a
  <2>1. Closed(u, {c})
    BY <1>5 DEF Closed, Exists
  <2>. QED BY <1>5, <2>1 DEF Descends
<1>. QED BY <1>2, <1>3, <1>4, <1>5

\* A window and its ancestors have one owner, and exist.
LEMMA FamilyOwner ==
  ASSUME NEW u, Typed(u), Families(u.windows), NEW c \in DOMAIN u.windows, NEW a \in Ids,
         Descends(u, c, a)
  PROVE  a \in DOMAIN u.windows /\ Owner[a] = Owner[c]
<1>. DEFINE line == {x \in DOMAIN u.windows : Owner[x] = Owner[c]}
<1>1. line \in SUBSET Ids /\ c \in line
  BY DEF Typed, WindowsTyped
<1>2. Closed(u, line)
  BY DEF Closed, Families
<1>. QED BY <1>1, <1>2 DEF Descends

\* A window is stacked above its ancestors.
LEMMA AncestorBefore ==
  ASSUME NEW u, Base(u), NEW c \in DOMAIN u.windows, NEW a \in Ids, Descends(u, c, a), c # a
  PROVE  Before(u.stack, a, c)
<1>. DEFINE line == {x \in Ids : x = c \/ Before(u.stack, x, c)}
<1>1. /\ u.stack \in Seq(Ids) /\ Once(u.stack) /\ DOMAIN u.windows \subseteq Ids
      /\ \A x \in DOMAIN u.windows : u.windows[x].parent # None =>
           u.windows[x].parent \in Ids /\ Before(u.stack, u.windows[x].parent, x)
  BY DEF Base, Typed, WindowsTyped, Families, Stacked
<1>2. Closed(u, line)
  BY <1>1, BeforeOrder DEF Closed, Exists
<1>3. line \in SUBSET Ids /\ c \in line
  BY <1>1
<1>4. a \in line
  BY <1>2, <1>3 DEF Descends
<1>. QED BY <1>4

(***************************************************************************)
(* Changes of the stack.                                                   *)
(***************************************************************************)
\* Windows go, and with each its descendants: the rest stays in order.
LEMMA StackedOnly ==
  ASSUME NEW windows, Families(windows), DOMAIN windows \subseteq Ids,
         NEW stack \in Seq(Ids), Stacked(windows, stack), NEW left \in SUBSET Ids,
         NEW kept, DOMAIN kept = DOMAIN windows \intersect left,
         \A id \in DOMAIN kept : kept[id].parent = windows[id].parent,
         \A id \in DOMAIN kept : kept[id].parent # None => kept[id].parent \in left
  PROVE  Stacked(kept, Only(stack, left))
<1>1. /\ Only(stack, left) \in Seq(Ids)
      /\ \A x : On(Only(stack, left), x) <=> On(stack, x) /\ x \in left
      /\ Once(stack) => Once(Only(stack, left))
      /\ \A a, b \in left : Before(stack, a, b) => Before(Only(stack, left), a, b)
  BY OnlyProperties
<1>. QED BY <1>1 DEF Stacked

\* A new window is put on top of the stack.
LEMMA StackedAppend ==
  ASSUME NEW windows, NEW stack \in Seq(Ids), Stacked(windows, stack), NEW id \in Ids,
         id \notin DOMAIN windows,
         NEW more, DOMAIN more = DOMAIN windows \union {id},
         \A x \in DOMAIN windows : more[x].parent = windows[x].parent,
         more[id].parent # None => more[id].parent \in DOMAIN windows
  PROVE  Stacked(more, Append(stack, id))
BY AppendOn DEF Stacked

\* A family that is raised stays above its parents.
LEMMA StackedRaised ==
  ASSUME NEW u, Base(u), NEW id \in DOMAIN u.windows
  PROVE  LET group == Group(u, id)
             raised == Only(u.stack, Ids \ group) \o Only(u.stack, group) IN
         raised \in Seq(Ids) /\ Stacked(u.windows, raised)
<1>. DEFINE group == Group(u, id)
            rest == Only(u.stack, Ids \ group)
            top == Only(u.stack, group)
<1>1. /\ u.stack \in Seq(Ids) /\ Once(u.stack) /\ DOMAIN u.windows \subseteq Ids
      /\ \A x : On(u.stack, x) <=> x \in DOMAIN u.windows
      /\ \A x \in DOMAIN u.windows : u.windows[x].parent # None =>
           /\ u.windows[x].parent \in DOMAIN u.windows
           /\ Before(u.stack, u.windows[x].parent, x)
  BY DEF Base, Typed, WindowsTyped, Families, Stacked
<1>2. /\ rest \in Seq(Ids) /\ Once(rest)
      /\ \A x : On(rest, x) <=> On(u.stack, x) /\ x \in Ids \ group
      /\ \A a, b \in Ids \ group : Before(u.stack, a, b) => Before(rest, a, b)
  BY <1>1, OnlyProperties
<1>3. /\ top \in Seq(Ids) /\ Once(top)
      /\ \A x : On(top, x) <=> On(u.stack, x) /\ x \in group
      /\ \A a, b \in group : Before(u.stack, a, b) => Before(top, a, b)
  BY <1>1, OnlyProperties
<1>4. \A x \in DOMAIN u.windows :
        u.windows[x].parent # None /\ u.windows[x].parent \in group => x \in group
  BY <1>1, Lines DEF Group, Base, Typed, WindowsTyped
<1>. HIDE DEF rest, top, group
<1>5. /\ rest \o top \in Seq(Ids) /\ Once(rest \o top)
      /\ \A x : On(rest \o top, x) <=> On(rest, x) \/ On(top, x)
      /\ \A a, b : Before(rest, a, b) \/ Before(top, a, b) => Before(rest \o top, a, b)
      /\ \A a, b : On(rest, a) /\ On(top, b) => Before(rest \o top, a, b)
  BY <1>2, <1>3, ConcatOn, ConcatOnce
<1>6. \A x : On(rest \o top, x) <=> x \in DOMAIN u.windows
  BY <1>1, <1>2, <1>3, <1>5
<1>7. ASSUME NEW x \in DOMAIN u.windows, u.windows[x].parent # None
      PROVE  Before(rest \o top, u.windows[x].parent, x)
  <2>1. CASE x \notin group
    BY <1>1, <1>2, <1>4, <1>5, <1>7, <2>1
  <2>2. CASE x \in group /\ u.windows[x].parent \in group
    BY <1>1, <1>3, <1>5, <1>7, <2>2
  <2>3. CASE x \in group /\ u.windows[x].parent \notin group
    BY <1>1, <1>2, <1>3, <1>5, <1>7, <2>3
  <2>. QED BY <2>1, <2>2, <2>3
<1>. QED BY <1>5, <1>6, <1>7 DEF Stacked, rest, top, group

\* A family that is lowered is put directly above its parent.
LEMMA StackedLowered ==
  ASSUME NEW u, Base(u), NEW id \in DOMAIN u.windows
  PROVE  LET v == LowerGroup(u, id) IN
         v.stack \in Seq(Ids) /\ Stacked(u.windows, v.stack)
<1>. DEFINE group == Group(u, id)
            rest == Only(u.stack, Ids \ group)
            mid == Only(u.stack, group)
            parent == u.windows[id].parent
            at == IF parent = None THEN 0 ELSE CHOOSE i \in 1..Len(rest) : rest[i] = parent
            f == SubSeq(rest, 1, at)
            g == SubSeq(rest, at + 1, Len(rest))
            fm == f \o mid
<1>1. /\ u.stack \in Seq(Ids) /\ Once(u.stack) /\ DOMAIN u.windows \subseteq Ids
      /\ \A x : On(u.stack, x) <=> x \in DOMAIN u.windows
      /\ \A x \in DOMAIN u.windows : u.windows[x].parent # None =>
           /\ u.windows[x].parent \in DOMAIN u.windows
           /\ Before(u.stack, u.windows[x].parent, x)
  BY DEF Base, Typed, WindowsTyped, Families, Stacked
<1>2. /\ rest \in Seq(Ids) /\ Once(rest)
      /\ \A x : On(rest, x) <=> On(u.stack, x) /\ x \in Ids \ group
      /\ \A a, b \in Ids \ group : Before(u.stack, a, b) => Before(rest, a, b)
  BY <1>1, OnlyProperties
<1>3. /\ mid \in Seq(Ids) /\ Once(mid)
      /\ \A x : On(mid, x) <=> On(u.stack, x) /\ x \in group
      /\ \A a, b \in group : Before(u.stack, a, b) => Before(mid, a, b)
  BY <1>1, OnlyProperties
<1>4. \A x \in DOMAIN u.windows :
        u.windows[x].parent # None /\ u.windows[x].parent \in group => x \in group
  BY <1>1, Lines DEF Group, Base, Typed, WindowsTyped
<1>5. \A x \in DOMAIN u.windows : x \in group /\ x # id =>
        u.windows[x].parent # None /\ u.windows[x].parent \in group
  BY <1>1, Lines DEF Group, Base, Typed, WindowsTyped
<1>6. parent # None => parent \notin group
  <2>1. ASSUME parent # None, parent \in group PROVE FALSE
    <3>1. parent \in DOMAIN u.windows /\ Before(u.stack, parent, id)
      BY <1>1, <2>1
    <3>2. parent # id => Before(u.stack, id, parent)
      BY <2>1, <3>1, <1>1, AncestorBefore DEF Group
    <3>. QED BY <1>1, <3>1, <3>2, BeforeOrder
  <2>. QED BY <2>1
<1>7. LowerGroup(u, id).stack = fm \o g
  BY DEF LowerGroup, Base, Typed, Fields
<1>8. /\ at \in 0..Len(rest)
      /\ parent # None => at # 0 /\ rest[at] = parent
  <2>1. Len(rest) \in Nat
    BY <1>2
  <2>2. CASE parent = None
    BY <2>1, <2>2
  <2>3. CASE parent # None
    <3>1. On(rest, parent)
      BY <1>1, <1>2, <1>6, <2>3
    <3>2. at \in 1..Len(rest) /\ rest[at] = parent
      BY <2>3, <3>1 DEF On
    <3>. HIDE DEF at, rest, parent
    <3>. QED BY <2>1, <3>2
  <2>. QED BY <2>2, <2>3
<1>. HIDE DEF at, parent, rest, mid, group
<1>9. /\ f \in Seq(Ids) /\ g \in Seq(Ids) /\ Once(f) /\ Once(g)
      /\ \A x : On(rest, x) <=> On(f, x) \/ On(g, x)
      /\ \A x : ~(On(f, x) /\ On(g, x))
      /\ \A a, b : Before(rest, a, b) => \/ Before(f, a, b)
                                         \/ Before(g, a, b)
                                         \/ On(f, a) /\ On(g, b)
      /\ parent # None => On(f, parent)
  BY <1>2, <1>8, CutOn
<1>. HIDE DEF f, g
<1>10. /\ fm \in Seq(Ids) /\ Once(fm)
       /\ \A x : On(fm, x) <=> On(f, x) \/ On(mid, x)
       /\ \A a, b : Before(f, a, b) \/ Before(mid, a, b) => Before(fm, a, b)
       /\ \A a, b : On(f, a) /\ On(mid, b) => Before(fm, a, b)
  BY <1>2, <1>3, <1>9, ConcatOn, ConcatOnce
<1>. HIDE DEF fm
<1>11. /\ fm \o g \in Seq(Ids) /\ Once(fm \o g)
       /\ \A x : On(fm \o g, x) <=> On(fm, x) \/ On(g, x)
       /\ \A a, b : Before(fm, a, b) \/ Before(g, a, b) => Before(fm \o g, a, b)
       /\ \A a, b : On(fm, a) /\ On(g, b) => Before(fm \o g, a, b)
  BY <1>2, <1>3, <1>9, <1>10, ConcatOn, ConcatOnce
<1>12. \A x : On(fm \o g, x) <=> x \in DOMAIN u.windows
  BY <1>1, <1>2, <1>3, <1>9, <1>10, <1>11
<1>13. ASSUME NEW x \in DOMAIN u.windows, u.windows[x].parent # None
       PROVE  Before(fm \o g, u.windows[x].parent, x)
  <2>1. CASE x \notin group
    <3>1. Before(rest, u.windows[x].parent, x)
      BY <1>1, <1>2, <1>4, <1>13, <2>1
    <3>. QED BY <3>1, <1>9, <1>10, <1>11
  <2>2. CASE x \in group /\ x # id
    <3>1. Before(mid, u.windows[x].parent, x)
      BY <1>1, <1>3, <1>5, <1>13, <2>2
    <3>. QED BY <3>1, <1>10, <1>11
  <2>3. CASE x = id /\ x \in group
    <3>1. On(f, parent) /\ On(mid, id) /\ u.windows[id].parent = parent
      BY <1>1, <1>3, <1>9, <1>13, <2>3 DEF parent
    <3>. QED BY <2>3, <3>1, <1>10, <1>11
  <2>. QED BY <2>1, <2>2, <2>3
<1>. QED BY <1>7, <1>11, <1>12, <1>13 DEF Stacked

(***************************************************************************)
(* What a later state of a call keeps of an earlier one.  A window goes    *)
(* only when it is one that the call closes, or with all the others of an  *)
(* owner that is revoked and reported; a queue only grows, or goes with    *)
(* such an owner; the capture stays, with its window, or is given up.      *)
(***************************************************************************)
Loud == {"Input", "Motion"}
Quiet == {"Unsettled", "Notice"}

\* A queue that continues another; keys, buttons, wheel and motion that it adds
\* are for windows in `heard`.
Extends(s, t, heard) ==
  /\ Len(s) <= Len(t) /\ \A i \in 1..Len(s) : t[i] = s[i]
  /\ \A i \in 1..Len(t) : i > Len(s) /\ t[i].class \in Loud => t[i].window \in heard


WindowsFollow(u, v, closed) ==
  /\ DOMAIN v.windows \subseteq DOMAIN u.windows
  /\ \A id \in DOMAIN v.windows : v.windows[id] = u.windows[id]
  /\ \A id \in DOMAIN u.windows \ DOMAIN v.windows :
       \/ id \in closed
       \/ Owner[id] \in v.overflowed /\ \A x \in DOMAIN v.windows : Owner[x] # Owner[id]

QueuesFollow(u, v) ==
  /\ u.overflowed \subseteq v.overflowed
  /\ DOMAIN v.events \subseteq DOMAIN u.events
  /\ \A o \in DOMAIN u.events : IF o \in DOMAIN v.events THEN Extends(u.events[o], v.events[o], {})
                                                          ELSE o \in v.overflowed

CaptureFollows(u, v) ==
  v.capture # None =>
    /\ v.capture = u.capture
    /\ u.capture.window \in DOMAIN u.windows => u.capture.window \in DOMAIN v.windows

FollowsBut(u, v, closed) ==
  WindowsFollow(u, v, closed) /\ QueuesFollow(u, v) /\ CaptureFollows(u, v)

Follows(u, v) == FollowsBut(u, v, {})

LEMMA FollowsSelf ==
  ASSUME NEW u, Typed(u), NEW closed
  PROVE  FollowsBut(u, u, closed)
<1>1. \A o \in DOMAIN u.events : Len(u.events[o]) \in Nat
  BY DEF Typed, EventsTyped
<1>. QED BY <1>1 DEF FollowsBut, WindowsFollow, QueuesFollow, CaptureFollows, Extends

LEMMA FollowsOn ==
  ASSUME NEW u, Typed(u), NEW v, Typed(v), NEW w, Typed(w), NEW closed, NEW more,
         FollowsBut(u, v, closed), FollowsBut(v, w, more)
  PROVE  FollowsBut(u, w, closed \union more)
<1>1. WindowsFollow(u, w, closed \union more)
  BY DEF FollowsBut, WindowsFollow, QueuesFollow
<1>2. QueuesFollow(u, w)
  <2>1. /\ \A o \in DOMAIN u.events : Len(u.events[o]) \in Nat
        /\ \A o \in DOMAIN v.events : Len(v.events[o]) \in Nat
        /\ \A o \in DOMAIN w.events : Len(w.events[o]) \in Nat
    BY DEF Typed, EventsTyped
  <2>2. \A s, t, r : Len(s) \in Nat /\ Len(t) \in Nat /\ Len(r) \in Nat
                      /\ Extends(s, t, {}) /\ Extends(t, r, {}) => Extends(s, r, {})
    BY DEF Extends
  <2>3. /\ u.overflowed \subseteq v.overflowed /\ v.overflowed \subseteq w.overflowed
        /\ DOMAIN v.events \subseteq DOMAIN u.events /\ DOMAIN w.events \subseteq DOMAIN v.events
        /\ \A o \in DOMAIN u.events : IF o \in DOMAIN v.events
             THEN Extends(u.events[o], v.events[o], {}) ELSE o \in v.overflowed
        /\ \A o \in DOMAIN v.events : IF o \in DOMAIN w.events
             THEN Extends(v.events[o], w.events[o], {}) ELSE o \in w.overflowed
    BY DEF FollowsBut, QueuesFollow
  <2>4. \A o \in DOMAIN u.events : IF o \in DOMAIN w.events
             THEN Extends(u.events[o], w.events[o], {}) ELSE o \in w.overflowed
    BY <2>1, <2>2, <2>3
  <2>. QED BY <2>3, <2>4 DEF QueuesFollow
<1>3. CaptureFollows(u, w)
  BY DEF FollowsBut, CaptureFollows
<1>. QED BY <1>1, <1>2, <1>3 DEF FollowsBut

LEMMA FollowsOnward ==
  ASSUME NEW u, Typed(u), NEW v, Typed(v), NEW w, Typed(w), Follows(u, v), Follows(v, w)
  PROVE  Follows(u, w)
<1>1. {} \union {} = {}
  OBVIOUS
<1>. QED BY <1>1, FollowsOn DEF Follows

\* What is visible stays visible while it exists: its line of ancestors is of
\* one owner.
LEMMA VisibleStays ==
  ASSUME NEW u, Base(u), NEW v, Base(v), Follows(u, v), NEW c \in DOMAIN v.windows,
         EffectivelyVisible(u, c)
  PROVE  EffectivelyVisible(v, c)
<1>1. PICK line \in SUBSET {x \in DOMAIN u.windows : u.windows[x].visible} :
        c \in line /\ Closed(u, line)
  BY DEF EffectivelyVisible
<1>. DEFINE kept == {x \in line : Owner[x] = Owner[c]}
<1>2. \A x \in kept : x \in DOMAIN v.windows /\ v.windows[x] = u.windows[x]
  BY DEF Follows, FollowsBut, WindowsFollow
<1>3. kept \in SUBSET {x \in DOMAIN v.windows : v.windows[x].visible} /\ c \in kept
  BY <1>1, <1>2
<1>4. Closed(v, kept)
  BY <1>1, <1>2 DEF Closed, Exists, Base, Families
<1>. QED BY <1>3, <1>4 DEF EffectivelyVisible

LEMMA CaptureStays ==
  ASSUME NEW u, Base(u), NEW v, Base(v), Follows(u, v), CaptureSeen(u)
  PROVE  CaptureSeen(v)
<1>. SUFFICES ASSUME v.capture # None PROVE EffectivelyVisible(v, v.capture.window)
  BY DEF CaptureSeen
<1>1. /\ v.capture = u.capture
      /\ u.capture.window \in DOMAIN u.windows => u.capture.window \in DOMAIN v.windows
  BY DEF Follows, FollowsBut, CaptureFollows
<1>2. EffectivelyVisible(u, v.capture.window)
  BY <1>1 DEF CaptureSeen
<1>3. v.capture.window \in DOMAIN u.windows
  BY <1>2 DEF EffectivelyVisible
<1>. QED BY <1>1, <1>2, <1>3, VisibleStays

(***************************************************************************)
(* revoke_owner and emit.                                                  *)
(***************************************************************************)
LEMMA PurgeFields ==
  ASSUME NEW u, Typed(u), NEW o
  PROVE  LET v == Purge(u, o)
             gone == WindowsOf(o) IN
         /\ DOMAIN v = Fields
         /\ v.overflowed = u.overflowed \ {o}
         /\ v.events     = Minus(u.events, {o})
         /\ v.windows    = Minus(u.windows, gone)
         /\ v.stack      = Only(u.stack, Ids \ gone)
         /\ v.history    = Only(u.history, Ids \ gone)
         /\ v.focus      = IF u.focus \in gone THEN None ELSE u.focus
         /\ v.told_focus = u.told_focus \ gone
         /\ v.told_hover = u.told_hover \ gone
         /\ v.capture    = IF u.capture # None /\ u.capture.window \in gone THEN None
                                                                      ELSE u.capture
         /\ v.hover = u.hover
  BY DEF Purge, Typed, Fields

\* revoke_owner leaves whole families, and what owners heard stays true.
LEMMA PurgeKeeps ==
  ASSUME NEW u, Base(u), NEW o \in Owners
  PROVE  LET v == Purge(u, o) IN
         /\ Base(v)
         /\ FocusHeard(u) => FocusHeard(v)
         /\ HoverHeard(u) => HoverHeard(v)
         /\ CaptureSeen(u) => CaptureSeen(v)
<1>. DEFINE v == Purge(u, o)
            gone == WindowsOf(o)
<1>1. /\ DOMAIN v = Fields
      /\ v.overflowed = u.overflowed \ {o}
      /\ v.events     = Minus(u.events, {o})
      /\ v.windows    = Minus(u.windows, gone)
      /\ v.stack      = Only(u.stack, Ids \ gone)
      /\ v.history    = Only(u.history, Ids \ gone)
      /\ v.focus      = IF u.focus \in gone THEN None ELSE u.focus
      /\ v.told_focus = u.told_focus \ gone
      /\ v.told_hover = u.told_hover \ gone
      /\ v.capture    = IF u.capture # None /\ u.capture.window \in gone THEN None ELSE u.capture
      /\ v.hover = u.hover
  BY PurgeFields DEF Base
<1>. HIDE DEF v
<1>2. /\ DOMAIN v.windows = DOMAIN u.windows \intersect (Ids \ gone)
      /\ \A id \in DOMAIN v.windows : v.windows[id] = u.windows[id]
      /\ \A id \in DOMAIN v.windows : Owner[id] # o
  BY <1>1 DEF Minus, Base, Typed, WindowsTyped, WindowsOf
<1>3. \A id \in gone : Owner[id] = o
  BY DEF WindowsOf
<1>4. Families(v.windows)
  <2>1. DOMAIN u.windows \subseteq Ids
    BY DEF Base, Typed, WindowsTyped
  <2>. QED BY <1>2, <1>3, <2>1 DEF Families, Base
<1>5. Stacked(v.windows, v.stack)
  <2>1. \A id \in DOMAIN v.windows : v.windows[id].parent # None =>
          v.windows[id].parent \in Ids \ gone
    BY <1>2, <1>4 DEF Families
  <2>2. Families(u.windows) /\ Stacked(u.windows, u.stack) /\ u.stack \in Seq(Ids)
        /\ DOMAIN u.windows \subseteq Ids
    BY DEF Base, Typed, WindowsTyped
  <2>3. Ids \ gone \in SUBSET Ids
    OBVIOUS
  <2>4. \A id \in DOMAIN v.windows : v.windows[id].parent = u.windows[id].parent
    BY <1>2
  <2>. HIDE DEF gone
  <2>5. Stacked(v.windows, Only(u.stack, Ids \ gone))
    BY <1>2, <2>1, <2>2, <2>3, <2>4, StackedOnly
  <2>. QED BY <1>1, <2>5
<1>6. v.stack \in Seq(Ids) /\ v.history \in Seq(Ids)
  BY <1>1, OnlyProperties DEF Base, Typed
<1>7. WindowsTyped(v.windows) /\ EventsTyped(v.events)
  BY <1>1, <1>2 DEF Base, Typed, WindowsTyped, EventsTyped, Minus
<1>8. v.overflowed \subseteq Owners /\ DOMAIN v.events \intersect v.overflowed = {}
  BY <1>1 DEF Base, Typed, Minus
<1>9. Typed(v)
  BY <1>1, <1>6, <1>7, <1>8 DEF Base, Typed
<1>10. FocusHeard(u) => FocusHeard(v)
  BY <1>1 DEF FocusHeard
<1>11. HoverHeard(u) => HoverHeard(v)
  BY <1>1 DEF HoverHeard
<1>12. ASSUME CaptureSeen(u), v.capture # None
       PROVE  EffectivelyVisible(v, v.capture.window)
  <2>. DEFINE c == v.capture.window
  <2>1. v.capture = u.capture /\ c \notin gone
    BY <1>1, <1>12
  <2>2. PICK line \in SUBSET {x \in DOMAIN u.windows : u.windows[x].visible} :
          c \in line /\ Closed(u, line)
    BY <1>12, <2>1 DEF CaptureSeen, EffectivelyVisible
  <2>. DEFINE kept == {x \in line : x \notin gone}
  <2>3. \A x \in kept : x \in DOMAIN v.windows
    BY <1>2 DEF Base, Typed, WindowsTyped
  <2>. HIDE DEF gone
  <2>4. kept \in SUBSET {x \in DOMAIN v.windows : v.windows[x].visible} /\ c \in kept
    BY <1>2, <2>1, <2>2, <2>3
  <2>5. Closed(v, kept)
    <3>. SUFFICES ASSUME NEW x \in kept, v.windows[x].parent # None
                  PROVE  v.windows[x].parent \in kept
      BY DEF Closed
    <3>1. x \in DOMAIN v.windows /\ v.windows[x] = u.windows[x]
      BY <1>2, <2>3
    <3>2. v.windows[x].parent \in line
      BY <2>2, <3>1 DEF Closed, Exists
    <3>3. v.windows[x].parent \in DOMAIN v.windows
      BY <1>4, <3>1 DEF Families
    <3>. QED BY <1>2, <3>2, <3>3
  <2>. QED BY <2>4, <2>5 DEF EffectivelyVisible
<1>. QED BY <1>4, <1>5, <1>9, <1>10, <1>11, <1>12 DEF Base, CaptureSeen, v

\* An owner that cannot receive is revoked and reported.
LEMMA ExpelKeeps ==
  ASSUME NEW u, Base(u), NEW o \in Owners
  PROVE  LET v == Expel(u, o) IN
         /\ Base(v) /\ Follows(u, v)
         /\ v.hover = u.hover
         /\ v.told_focus \subseteq u.told_focus /\ v.told_hover \subseteq u.told_hover
         /\ \/ v.focus = u.focus
            \/ /\ v.focus = None /\ u.focus \notin DOMAIN v.windows
               /\ u.focus \notin v.told_focus
         /\ \A id \in DOMAIN v.windows : Owner[id] # o
<1>. DEFINE p == Purge(u, o)
            v == Expel(u, o)
            gone == WindowsOf(o)
<1>1. /\ DOMAIN p = Fields
      /\ p.overflowed = u.overflowed \ {o}
      /\ p.events     = Minus(u.events, {o})
      /\ p.windows    = Minus(u.windows, gone)
      /\ p.focus      = IF u.focus \in gone THEN None ELSE u.focus
      /\ p.told_focus = u.told_focus \ gone
      /\ p.told_hover = u.told_hover \ gone
      /\ p.capture    = IF u.capture # None /\ u.capture.window \in gone THEN None ELSE u.capture
      /\ p.hover = u.hover
  <2>1. Typed(u)
    BY DEF Base
  <2>. HIDE DEF v, gone
  <2>2. /\ DOMAIN p = Fields
        /\ p.overflowed = u.overflowed \ {o}
        /\ p.events     = Minus(u.events, {o})
        /\ p.hover      = u.hover
    <3>1. DOMAIN p = Fields /\ p.overflowed = u.overflowed \ {o}
      BY <2>1, PurgeFields
    <3>2. p.events = Minus(u.events, {o}) /\ p.hover = u.hover
      BY <2>1, PurgeFields
    <3>. QED BY <3>1, <3>2
  <2>3. /\ p.windows    = Minus(u.windows, gone)
        /\ p.told_focus = u.told_focus \ gone
        /\ p.told_hover = u.told_hover \ gone
    BY <2>1, PurgeFields DEF gone
  <2>4. /\ p.focus   = IF u.focus \in gone THEN None ELSE u.focus
        /\ p.capture = IF u.capture # None /\ u.capture.window \in gone THEN None ELSE u.capture
    BY <2>1, PurgeFields DEF gone
  <2>. HIDE DEF p
  <2>. QED BY <2>2, <2>3, <2>4
<1>2. Base(p)
  BY PurgeKeeps
<1>3. v = [p EXCEPT !.overflowed = p.overflowed \union {o}]
  BY DEF Expel
<1>. HIDE DEF p, v
<1>4. /\ DOMAIN v = Fields /\ v.overflowed = u.overflowed \union {o}
      /\ v.windows = p.windows /\ v.stack = p.stack /\ v.focus = p.focus /\ v.hover = p.hover
      /\ v.history = p.history /\ v.capture = p.capture /\ v.events = p.events
      /\ v.told_focus = p.told_focus /\ v.told_hover = p.told_hover
  BY <1>1, <1>3 DEF Fields
<1>5. u.overflowed \subseteq Owners /\ DOMAIN u.events \intersect u.overflowed = {}
      /\ DOMAIN u.windows \subseteq Ids
  BY DEF Base, Typed, WindowsTyped
<1>6. Base(v)
  BY <1>1, <1>2, <1>4, <1>5 DEF Base, Typed, Minus
<1>7. /\ DOMAIN v.windows = DOMAIN u.windows \ gone
      /\ \A id \in DOMAIN v.windows : v.windows[id] = u.windows[id]
  BY <1>1, <1>4 DEF Minus
<1>8. \A id \in Ids : id \in gone <=> Owner[id] = o
  BY DEF WindowsOf
<1>9. WindowsFollow(u, v, {})
  BY <1>4, <1>5, <1>7, <1>8 DEF WindowsFollow
<1>10. QueuesFollow(u, v)
  <2>1. /\ DOMAIN v.events = DOMAIN u.events \ {o}
        /\ \A x \in DOMAIN v.events : v.events[x] = u.events[x]
    BY <1>1, <1>4 DEF Minus
  <2>2. \A x \in DOMAIN u.events : Extends(u.events[x], u.events[x], {})
    BY DEF Extends, Base, Typed, EventsTyped
  <2>. QED BY <1>4, <2>1, <2>2 DEF QueuesFollow
<1>11. CaptureFollows(u, v)
  BY <1>1, <1>4, <1>7 DEF CaptureFollows
<1>12. Follows(u, v)
  BY <1>9, <1>10, <1>11 DEF Follows, FollowsBut
<1>13. \A id \in DOMAIN v.windows : Owner[id] # o
  BY <1>5, <1>7, <1>8
<1>. QED BY <1>1, <1>4, <1>6, <1>7, <1>12, <1>13 DEF v

\* A sequence that ends with an element is the rest of it with that element.
LEMMA FrontProperties ==
  ASSUME NEW S, NEW q \in Seq(S), q # <<>>
  PROVE  /\ Front(q) \in Seq(S) /\ Len(Front(q)) = Len(q) - 1
         /\ \A i \in 1..Len(Front(q)) : Front(q)[i] = q[i]
         /\ Last(q) \in S /\ Last(q) = q[Len(q)]
<1>1. Len(q) \in Nat \ {0}
  BY EmptySeq
<1>2. \A i \in 1..(Len(q) - 1) : q[i] \in S
  BY <1>1, ElementOfSeq
<1>3. /\ SubSeq(q, 1, Len(q) - 1) \in Seq(S) /\ Len(SubSeq(q, 1, Len(q) - 1)) = Len(q) - 1
      /\ \A i \in 1..(Len(q) - 1) : SubSeq(q, 1, Len(q) - 1)[i] = q[i]
  <2>. DEFINE n == Len(q) - 1
  <2>1. n \in Nat /\ 1 \in Int /\ n \in Int /\ (\A i \in 1..n : q[i] \in S)
    BY <1>1, <1>2
  <2>. HIDE DEF n
  <2>2. /\ SubSeq(q, 1, n) \in Seq(S) /\ Len(SubSeq(q, 1, n)) = IF 1 <= n THEN n - 1 + 1 ELSE 0
        /\ \A i \in 1..(n - 1 + 1) : SubSeq(q, 1, n)[i] = q[1 + i - 1]
    BY <2>1, SubSeqProperties
  <2>3. Len(SubSeq(q, 1, n)) = n
    BY <2>1, <2>2
  <2>4. \A i \in 1..n : SubSeq(q, 1, n)[i] = q[i]
    <3>1. \A i \in 1..n : i \in 1..(n - 1 + 1) /\ 1 + i - 1 = i
      BY <2>1
    <3>. QED BY <2>2, <3>1
  <2>. QED BY <2>2, <2>3, <2>4 DEF n
<1>4. q[Len(q)] \in S
  BY <1>1, ElementOfSeq
<1>. QED BY <1>3, <1>4 DEF Front, Last

\* The queue that emit leaves continues the one it found, though an update
\* may take the place of one that is the same.
LEMMA QueueExtends ==
  ASSUME NEW q \in Seq(Event), NEW e \in Event, Len(q) <= MaxPending,
         NEW rest, rest = IF Coalesces(q, e) THEN Front(q) ELSE q, ~Full(rest),
         NEW heard, e.class \in Loud => e.window \in heard
  PROVE  /\ Append(rest, e) \in Seq(Event) /\ Len(Append(rest, e)) <= MaxPending
         /\ Extends(q, Append(rest, e), heard)
<1>1. MaxPending \in Nat /\ Len(q) \in Nat
  BY OverlayAssumption
<1>2. CASE Coalesces(q, e)
  <2>1. q # <<>> /\ Last(q) = e /\ rest = Front(q)
    BY <1>2 DEF Coalesces
  <2>2. /\ rest \in Seq(Event) /\ Len(rest) = Len(q) - 1
        /\ \A i \in 1..Len(rest) : rest[i] = q[i]
        /\ q[Len(q)] = e
    BY <2>1, FrontProperties
  <2>3. /\ Append(rest, e) \in Seq(Event) /\ Len(Append(rest, e)) = Len(q)
        /\ \A i \in 1..Len(rest) : Append(rest, e)[i] = rest[i]
        /\ Append(rest, e)[Len(q)] = e
    BY <1>1, <2>2
  <2>4. \A i \in 1..Len(q) : i \in 1..Len(rest) \/ i = Len(q)
    BY <1>1, <2>2
  <2>. QED BY <1>1, <2>2, <2>3, <2>4 DEF Extends
<1>3. CASE ~Coalesces(q, e)
  <2>1. rest = q /\ ~(Len(q) >= MaxPending)
    BY <1>3 DEF Full
  <2>2. /\ Append(q, e) \in Seq(Event) /\ Len(Append(q, e)) = Len(q) + 1
        /\ \A i \in 1..Len(q) : Append(q, e)[i] = q[i]
    OBVIOUS
  <2>. QED BY <1>1, <2>1, <2>2 DEF Extends
<1>. QED BY <1>2, <1>3

\* An event is queued, and nothing else changes.
Enqueued(u, v, id, heard) ==
  /\ Base(v)
  /\ v.windows = u.windows /\ v.stack = u.stack /\ v.focus = u.focus /\ v.hover = u.hover
  /\ v.history = u.history /\ v.capture = u.capture /\ v.overflowed = u.overflowed
  /\ v.told_focus = u.told_focus /\ v.told_hover = u.told_hover
  /\ DOMAIN v.events = DOMAIN u.events
  /\ \A x \in DOMAIN u.events : Extends(u.events[x], v.events[x], heard)

LEMMA QueuedKeeps ==
  ASSUME NEW u, Base(u), NEW id \in Ids, NEW class \in Quiet \union Loud,
         Receives(u, id), ~Full(Queue(u, id, class)),
         NEW heard, class \in Loud => id \in heard
  PROVE  Enqueued(u, Send(u, id, class), id, heard)
<1>. DEFINE v == Send(u, id, class)
            o == Owner[id]
            rest == Queue(u, id, class)
            e == EventOf(u, id, class)
            q == u.events[o]
<1>1. v = [u EXCEPT !.events[o] = Append(rest, e)]
  BY DEF Send, Quiet, Loud
<1>2. o \in Owners /\ id \in DOMAIN u.windows /\ o \in DOMAIN u.events /\ ~Full(rest)
  BY OverlayAssumption DEF Receives, Exists
<1>3. /\ e \in Event /\ e.class = class /\ e.window = id
      /\ q \in Seq(Event) /\ Len(q) <= MaxPending
  BY <1>2 DEF Base, Typed, WindowsTyped, EventsTyped, EventOf, Event, Window, Quiet, Loud
<1>4. rest = IF Coalesces(q, e) THEN Front(q) ELSE q
  BY DEF Queue
<1>. HIDE DEF rest, e
<1>5. /\ Append(rest, e) \in Seq(Event) /\ Len(Append(rest, e)) <= MaxPending
      /\ Extends(q, Append(rest, e), heard)
  <2>. HIDE DEF q
  <2>. QED BY <1>2, <1>3, <1>4, QueueExtends
<1>. DEFINE new == Append(rest, e)
<1>. HIDE DEF new, o
<1>6. /\ DOMAIN v = Fields /\ v.events = [u.events EXCEPT ![o] = new]
      /\ v.windows = u.windows /\ v.stack = u.stack /\ v.focus = u.focus /\ v.hover = u.hover
      /\ v.history = u.history /\ v.capture = u.capture /\ v.overflowed = u.overflowed
      /\ v.told_focus = u.told_focus /\ v.told_hover = u.told_hover
  BY <1>1 DEF Base, Typed, Fields, new
<1>. HIDE DEF v
<1>7. /\ DOMAIN v.events = DOMAIN u.events
      /\ \A x \in DOMAIN u.events : v.events[x] = IF x = o THEN new ELSE u.events[x]
  BY <1>2, <1>6
<1>8. EventsTyped(v.events)
  BY <1>5, <1>7 DEF Base, Typed, EventsTyped, new
<1>9. Base(v)
  BY <1>6, <1>7, <1>8 DEF Base, Typed
<1>10. \A x \in DOMAIN u.events : Extends(u.events[x], u.events[x], heard)
  BY DEF Extends, Base, Typed, EventsTyped
<1>. QED BY <1>5, <1>6, <1>7, <1>9, <1>10 DEF Enqueued, new, v

\* emit, but for the focus that it may restore: the event is queued or
\* dropped, or its owner is revoked and reported.
LEMMA SendKeeps ==
  ASSUME NEW u, Base(u), NEW id \in Ids, NEW class \in Quiet \union {"Invalid"}
  PROVE  LET v == Send(u, id, class) IN
         /\ Base(v) /\ Follows(u, v)
         /\ v.hover = u.hover
         /\ v.told_focus \subseteq u.told_focus /\ v.told_hover \subseteq u.told_hover
         /\ \/ v.focus = u.focus
            \/ /\ v.focus = None /\ u.focus \notin DOMAIN v.windows
               /\ u.focus \notin v.told_focus
<1>. DEFINE v == Send(u, id, class)
            o == Owner[id]
<1>1. o \in Owners
  BY OverlayAssumption
<1>2. CASE class = "Invalid" \/ (Receives(u, id) /\ Full(Queue(u, id, class)))
  <2>1. v = Expel(u, o)
    BY <1>2 DEF Send
  <2>. HIDE DEF v, o
  <2>. QED BY <1>1, <2>1, ExpelKeeps DEF v
<1>3. CASE /\ ~(class = "Invalid" \/ (Receives(u, id) /\ Full(Queue(u, id, class))))
           /\ Receives(u, id)
  <2>1. Enqueued(u, v, id, {})
    BY <1>3, QueuedKeeps DEF Loud, Quiet
  <2>. HIDE DEF v
  <2>2. WindowsFollow(u, v, {}) /\ CaptureFollows(u, v)
    BY <2>1 DEF Enqueued, WindowsFollow, CaptureFollows
  <2>3. QueuesFollow(u, v)
    BY <2>1 DEF Enqueued, QueuesFollow
  <2>. QED BY <2>1, <2>2, <2>3 DEF Enqueued, Follows, FollowsBut, v
<1>4. CASE /\ ~(class = "Invalid" \/ (Receives(u, id) /\ Full(Queue(u, id, class))))
           /\ ~Receives(u, id)
  <2>1. v = u
    BY <1>4 DEF Send
  <2>2. Follows(u, u)
    BY FollowsSelf DEF Base, Follows
  <2>. HIDE DEF v
  <2>. QED BY <2>1, <2>2 DEF v
<1>. QED BY <1>2, <1>3, <1>4

\* A state whose windows, stack and queues are those of an earlier one.
LEMMA StillKeeps ==
  ASSUME NEW u, Base(u), NEW v, DOMAIN v = Fields,
         v.windows = u.windows, v.stack = u.stack, v.events = u.events,
         v.overflowed = u.overflowed, v.history \in Seq(Ids),
         v.capture = u.capture \/ v.capture = None,
         v.focus \in Ids \union {None}, v.hover \in Hover \union {None},
         v.told_focus \subseteq Ids, v.told_hover \subseteq Ids
  PROVE  Base(v) /\ Follows(u, v)
<1>1. Base(v)
  BY DEF Base, Typed
<1>2. FollowsBut(u, u, {})
  BY FollowsSelf DEF Base
<1>. QED BY <1>1, <1>2 DEF Follows, FollowsBut, WindowsFollow, QueuesFollow, CaptureFollows

LEMMA FinalIn ==
  ASSUME NEW S, NEW seq \in Seq(S)
  PROVE  Final(seq) = None \/ On(seq, Final(seq))
<1>1. CASE seq = <<>>
  BY <1>1 DEF Final
<1>2. CASE seq # <<>>
  <2>1. Len(seq) \in 1..Len(seq)
    BY <1>2, EmptySeq
  <2>. QED BY <1>2, <2>1 DEF Final, Last, On
<1>. QED BY <1>1, <1>2

LEMMA ForemostIn ==
  ASSUME NEW u, Base(u), NEW wanted
  PROVE  Foremost(u, wanted) = None \/ Foremost(u, wanted) \in wanted
<1>. DEFINE found == Only(u.stack, wanted)
<1>1. found \in Seq(Ids) /\ \A x : On(found, x) => x \in wanted
  BY OnlyProperties DEF Base, Typed
<1>. HIDE DEF found
<1>2. Foremost(u, wanted) = Final(found)
  BY DEF Foremost, found
<1>. QED BY <1>1, <1>2, FinalIn

LEMMA CandidateIn ==
  ASSUME NEW u, Base(u)
  PROVE  FocusCandidate(u) \in Ids \union {None}
<1>. DEFINE able == {id \in Ids : Eligible(u, id)}
            found == Only(u.history, able)
<1>1. found \in Seq(Ids) /\ \A x : On(found, x) => x \in able
  BY OnlyProperties DEF Base, Typed
<1>. HIDE DEF found
<1>2. FocusCandidate(u) = Final(found)
  BY DEF FocusCandidate, found
<1>. QED BY <1>1, <1>2, FinalIn

(***************************************************************************)
(* Focus.  What a call keeps while it sends events and moves the focus.    *)
(***************************************************************************)
Heard(u, v) ==
  /\ Base(v) /\ FocusHeard(v) /\ Follows(u, v)
  /\ v.hover = u.hover /\ v.told_hover \subseteq u.told_hover

LEMMA HeardOnward ==
  ASSUME NEW u, Base(u), NEW v, NEW w, Heard(u, v), Heard(v, w)
  PROVE  Heard(u, w)
<1>1. Follows(u, w)
  BY FollowsOnward DEF Heard, Base
<1>. QED BY <1>1 DEF Heard

LEMMA GainedKeeps ==
  ASSUME NEW s, Base(s), FocusHeard(s), NEW id \in Ids, Exists(s, id) => s.focus = id
  PROVE  Heard(s, Gained(s, id))
<1>. DEFINE v == Gained(s, id)
<1>1. /\ DOMAIN v = Fields /\ v.windows = s.windows /\ v.stack = s.stack /\ v.events = s.events
      /\ v.overflowed = s.overflowed /\ v.history = s.history /\ v.capture = s.capture
      /\ v.focus = s.focus /\ v.hover = s.hover /\ v.told_hover = s.told_hover
      /\ v.told_focus = IF Exists(s, id) THEN s.told_focus \union {id} ELSE s.told_focus
  BY DEF Gained, Base, Typed, Fields
<1>. HIDE DEF v
<1>2. v.told_focus \subseteq Ids /\ v.told_focus \subseteq {v.focus}
  BY <1>1 DEF FocusHeard, Base, Typed
<1>3. Base(v) /\ Follows(s, v)
  BY <1>1, <1>2, StillKeeps DEF Base, Typed
<1>. QED BY <1>1, <1>2, <1>3 DEF Heard, FocusHeard, v

\* The focus is on another window, and its owner has not heard of it.
LEMMA FocusedKeeps ==
  ASSUME NEW u, Base(u), NEW next \in Ids \union {None}, u.told_focus = {}
  PROVE  LET w == [u EXCEPT !.focus = next] IN
         /\ Heard(u, w) /\ w.focus = next /\ w.told_focus = {} /\ w.capture = u.capture
         /\ w.windows = u.windows
<1>. DEFINE w == [u EXCEPT !.focus = next]
<1>1. /\ DOMAIN w = Fields /\ w.windows = u.windows /\ w.stack = u.stack /\ w.events = u.events
      /\ w.overflowed = u.overflowed /\ w.history = u.history /\ w.capture = u.capture
      /\ w.focus = next /\ w.hover = u.hover /\ w.told_hover = u.told_hover /\ w.told_focus = {}
  BY DEF Base, Typed, Fields
<1>. HIDE DEF w
<1>2. Base(w) /\ Follows(u, w)
  BY <1>1, StillKeeps DEF Base, Typed
<1>. QED BY <1>1, <1>2 DEF Heard, FocusHeard, w

\* A turn of restore_focus, when no window has the focus.
LEMMA OfferKeeps ==
  ASSUME NEW u, Base(u), FocusHeard(u)
  PROVE  Heard(u, Offer(u))
<1>1. PICK next \in Ids \union {None} : next = FocusCandidate(u)
  BY CandidateIn
<1>2. CASE u.focus # None \/ next = None
  <2>1. Offer(u) = u
    BY <1>1, <1>2 DEF Offer
  <2>. QED BY <2>1, FollowsSelf DEF Heard, Base, Follows
<1>3. CASE u.focus = None /\ next # None
  <2>. DEFINE w == [u EXCEPT !.focus = next]
              s == Send(w, next, "Notice")
  <2>1. Offer(u) = Gained(s, next)
    BY <1>1, <1>3 DEF Offer
  <2>2. u.told_focus = {}
    BY <1>3, NoneApart DEF FocusHeard, Base, Typed
  <2>3. Heard(u, w) /\ w.focus = next /\ w.told_focus = {}
    BY <2>2, FocusedKeeps
  <2>. HIDE DEF w
  <2>4. next \in Ids /\ "Notice" \in Quiet \union {"Invalid"}
    BY <1>3 DEF Quiet
  <2>5. /\ Base(s) /\ Follows(w, s) /\ s.hover = w.hover
        /\ s.told_focus \subseteq w.told_focus /\ s.told_hover \subseteq w.told_hover
        /\ s.focus = w.focus \/ (s.focus = None /\ w.focus \notin DOMAIN s.windows)
    BY <2>3, <2>4, SendKeeps DEF Heard
  <2>. HIDE DEF s
  <2>6. s.told_focus = {} /\ (Exists(s, next) => s.focus = next) /\ Heard(w, s)
    BY <2>3, <2>5 DEF Exists, Heard, FocusHeard
  <2>7. Heard(s, Gained(s, next))
    BY <2>4, <2>5, <2>6, GainedKeeps DEF Heard
  <2>8. Heard(u, s)
    BY <2>3, <2>6, HeardOnward
  <2>. QED BY <2>1, <2>7, <2>8, HeardOnward
<1>. QED BY <1>2, <1>3

LEMMA SettleTurns ==
  ASSUME NEW u
  PROVE  LET N == Cardinality(Owners) IN
         /\ N \in Nat
         /\ \E turns : /\ turns = [n \in 0..N |-> IF n = 0 THEN u ELSE Offer(turns[n - 1])]
                       /\ Settle(u) = turns[N]
<1>. DEFINE N == Cardinality(Owners)
            Goes(h, m) == h = [n \in 0..m |-> IF n = 0 THEN u ELSE Offer(h[n - 1])]
            S == {m \in 0..N : \E h : Goes(h, m)}
<1>1. N \in Nat
  BY OverlayAssumption, FS_CardinalityType
<1>2. 0 \in S
  <2>. DEFINE h == [n \in 0..0 |-> u]
  <2>1. Goes(h, 0)
    BY Z3
  <2>2. 0 \in 0..N
    BY <1>1
  <2>. HIDE DEF h, Goes, N
  <2>. QED BY <2>1, <2>2
<1>3. ASSUME NEW m \in 1..N, m - 1 \in S PROVE m \in S
  <2>1. PICK h : Goes(h, m - 1)
    BY <1>3
  <2>. DEFINE g == [n \in 0..m |-> IF n = m THEN Offer(h[m - 1]) ELSE h[n]]
  <2>2. ASSUME NEW n \in 0..m
        PROVE  g[n] = IF n = 0 THEN u ELSE Offer(g[n - 1])
    <3>1. CASE n = m
      BY <3>1
    <3>2. CASE n # m
      <4>1. n \in 0..(m - 1) /\ (n # 0 => n - 1 \in 0..m /\ n - 1 # m)
        BY <3>2
      <4>2. h[n] = IF n = 0 THEN u ELSE Offer(h[n - 1])
        BY <2>1, <4>1
      <4>. QED BY <3>2, <4>1, <4>2
    <3>. QED BY <3>1, <3>2
  <2>3. Goes(g, m)
    BY <2>2
  <2>4. m \in 0..N
    BY <1>1
  <2>. HIDE DEF g, Goes, N
  <2>. QED BY <2>3, <2>4
<1>4. N \in S
  <2>. HIDE DEF S, N
  <2>1. \A n \in 0..N : n \in S
    BY <1>1, <1>2, <1>3, Turns
  <2>. QED BY <1>1, <2>1
<1>5. \E h : Goes(h, N)
  BY <1>4
<1>. DEFINE turns == CHOOSE h : Goes(h, N)
<1>6. Goes(turns, N)
  BY <1>5
<1>7. Settle(u) = turns[N]
  BY DEF Settle
<1>. QED BY <1>1, <1>6, <1>7

LEMMA SettleKeeps ==
  ASSUME NEW u, Base(u), FocusHeard(u)
  PROVE  Heard(u, Settle(u))
<1>. DEFINE N == Cardinality(Owners)
<1>1. N \in Nat
  BY SettleTurns
<1>2. PICK turns : /\ turns = [n \in 0..N |-> IF n = 0 THEN u ELSE Offer(turns[n - 1])]
                   /\ Settle(u) = turns[N]
  BY SettleTurns
<1>. DEFINE S == {n \in 0..N : Heard(u, turns[n])}
<1>. HIDE DEF N
<1>3. 0 \in S
  <2>1. turns[0] = u
    BY <1>1, <1>2
  <2>. QED BY <1>1, <2>1, FollowsSelf DEF Heard, Base, Follows
<1>4. ASSUME NEW n \in 1..N, n - 1 \in S PROVE n \in S
  <2>1. turns[n] = Offer(turns[n - 1])
    BY <1>1, <1>2
  <2>2. Heard(turns[n - 1], turns[n])
    BY <1>4, <2>1, OfferKeeps DEF Heard
  <2>. QED BY <1>4, <2>2, HeardOnward
<1>5. N \in S
  <2>. HIDE DEF S
  <2>1. \A n \in 0..N : n \in S
    BY <1>1, <1>3, <1>4, Turns
  <2>. QED BY <1>1, <2>1
<1>. QED BY <1>2, <1>5

\* emit: whoever has the focus afterwards, what owners heard is true.
LEMMA EmitKeeps ==
  ASSUME NEW u, Base(u), FocusHeard(u), NEW id \in Ids, NEW class \in Quiet \union {"Invalid"}
  PROVE  LET v == Emit(u, id, class) IN
         Heard(u, v) /\ (Exists(v, u.focus) => v.focus = u.focus)
<1>. DEFINE s == Send(u, id, class)
            v == Emit(u, id, class)
<1>1. /\ Base(s) /\ Follows(u, s) /\ s.hover = u.hover
      /\ s.told_focus \subseteq u.told_focus /\ s.told_hover \subseteq u.told_hover
      /\ \/ s.focus = u.focus
         \/ /\ s.focus = None /\ u.focus \notin DOMAIN s.windows /\ u.focus \notin s.told_focus
  BY SendKeeps
<1>2. v = IF s.focus = u.focus THEN s ELSE Settle(s)
  BY DEF Emit, Refocus
<1>. HIDE DEF s, v
<1>3. Heard(u, s)
  BY <1>1 DEF Heard, FocusHeard
<1>4. CASE s.focus = u.focus
  BY <1>2, <1>3, <1>4 DEF v
<1>5. CASE s.focus # u.focus
  <2>1. v = Settle(s) /\ u.focus \notin DOMAIN s.windows
    BY <1>1, <1>2, <1>5
  <2>2. Heard(s, v)
    BY <1>3, <2>1, SettleKeeps DEF Heard
  <2>3. u.focus \notin DOMAIN v.windows
    BY <2>1, <2>2 DEF Heard, Follows, FollowsBut, WindowsFollow
  <2>. QED BY <1>3, <2>2, <2>3, HeardOnward DEF Exists, v
<1>. QED BY <1>4, <1>5

\* While nothing has the focus, emit restores none.
LEMMA EmitUnfocused ==
  ASSUME NEW u, Base(u), u.focus = None, NEW id \in Ids, NEW class \in Quiet \union {"Invalid"}
  PROVE  LET v == Emit(u, id, class) IN
         /\ Base(v) /\ Follows(u, v) /\ v.hover = u.hover /\ v.focus = None
         /\ v.told_focus \subseteq u.told_focus /\ v.told_hover \subseteq u.told_hover
<1>. DEFINE s == Send(u, id, class)
            v == Emit(u, id, class)
<1>1. /\ Base(s) /\ Follows(u, s) /\ s.hover = u.hover
      /\ s.told_focus \subseteq u.told_focus /\ s.told_hover \subseteq u.told_hover
      /\ s.focus = u.focus \/ s.focus = None
  BY SendKeeps
<1>2. v = IF s.focus = u.focus THEN s ELSE Settle(s)
  BY DEF Emit, Refocus
<1>. HIDE DEF s, v
<1>. QED BY <1>1, <1>2 DEF v

LEMMA LoseFocusKeeps ==
  ASSUME NEW u, Base(u), FocusHeard(u)
  PROVE  LET v == LoseFocus(u) IN Heard(u, v) /\ v.focus = None /\ v.told_focus = {}
<1>. DEFINE v == LoseFocus(u)
            f == u.focus
            w == [u EXCEPT !.focus = None]
            s == Emit(w, f, "Notice")
            t == Emit(s, f, "Notice")
<1>1. CASE u.focus = None
  <2>1. v = u
    BY <1>1 DEF LoseFocus
  <2>2. u.told_focus = {}
    BY <1>1, NoneApart DEF FocusHeard, Base, Typed
  <2>. HIDE DEF v
  <2>. QED BY <1>1, <2>1, <2>2, FollowsSelf DEF Heard, Base, Follows, v
<1>2. CASE u.focus # None
  <2>1. v = [t EXCEPT !.told_focus = t.told_focus \ {f}]
    BY <1>2 DEF LoseFocus, Lost
  <2>2. f \in Ids /\ "Notice" \in Quiet \union {"Invalid"}
    BY <1>2 DEF Quiet, Base, Typed
  <2>3. /\ DOMAIN w = Fields /\ w.windows = u.windows /\ w.stack = u.stack
        /\ w.events = u.events /\ w.overflowed = u.overflowed /\ w.history = u.history
        /\ w.capture = u.capture /\ w.focus = None /\ w.hover = u.hover
        /\ w.told_hover = u.told_hover /\ w.told_focus = u.told_focus
    BY DEF Base, Typed, Fields
  <2>. HIDE DEF w, s, t, v, f
  <2>4. Base(w) /\ Follows(u, w)
    BY <2>3, StillKeeps DEF Base, Typed
  <2>5. /\ Base(s) /\ Follows(w, s) /\ s.hover = w.hover /\ s.focus = None
        /\ s.told_focus \subseteq w.told_focus /\ s.told_hover \subseteq w.told_hover
    BY <2>2, <2>3, <2>4, EmitUnfocused DEF s
  <2>6. /\ Base(t) /\ Follows(s, t) /\ t.hover = s.hover /\ t.focus = None
        /\ t.told_focus \subseteq s.told_focus /\ t.told_hover \subseteq s.told_hover
    BY <2>2, <2>5, EmitUnfocused DEF t
  <2>7. t.told_focus \ {f} = {}
    BY <2>3, <2>5, <2>6 DEF FocusHeard, f
  <2>8. /\ DOMAIN v = Fields /\ v.windows = t.windows /\ v.stack = t.stack
        /\ v.events = t.events /\ v.overflowed = t.overflowed /\ v.history = t.history
        /\ v.capture = t.capture /\ v.focus = None /\ v.hover = t.hover
        /\ v.told_hover = t.told_hover /\ v.told_focus = {}
    BY <2>1, <2>6, <2>7 DEF Base, Typed, Fields
  <2>9. Base(v) /\ Follows(t, v)
    BY <2>6, <2>8, StillKeeps DEF Base, Typed
  <2>10. Follows(u, v)
    <3>1. Typed(u) /\ Typed(w) /\ Typed(s) /\ Typed(t) /\ Typed(v)
      BY <2>4, <2>5, <2>6, <2>9 DEF Base
    <3>2. Follows(u, s)
      BY <3>1, <2>4, <2>5, FollowsOnward
    <3>3. Follows(u, t)
      BY <3>1, <3>2, <2>6, FollowsOnward
    <3>. QED BY <3>1, <3>3, <2>9, FollowsOnward
  <2>11. v.hover = u.hover /\ v.told_hover \subseteq u.told_hover
    BY <2>3, <2>5, <2>6, <2>8
  <2>. QED BY <2>8, <2>9, <2>10, <2>11 DEF Heard, FocusHeard, v
<1>. QED BY <1>1, <1>2

LEMMA GainFocusKeeps ==
  ASSUME NEW u, Base(u), u.told_focus = {}, NEW next \in Ids \union {None}
  PROVE  Heard(u, GainFocus(u, next))
<1>. DEFINE w == [u EXCEPT !.focus = next]
            s == Emit(w, next, "Notice")
<1>1. Heard(u, w) /\ w.focus = next /\ w.told_focus = {}
  BY FocusedKeeps
<1>. HIDE DEF w
<1>2. CASE next = None
  BY <1>1, <1>2 DEF GainFocus, w
<1>3. CASE next # None
  <2>1. GainFocus(u, next) = Gained(s, next)
    BY <1>3 DEF GainFocus, w
  <2>. HIDE DEF s
  <2>2. Heard(w, s) /\ (Exists(s, next) => s.focus = next)
    BY <1>1, <1>3, EmitKeeps DEF Heard, Quiet, s
  <2>3. Heard(s, Gained(s, next))
    BY <1>3, <2>2, GainedKeeps DEF Heard
  <2>4. Heard(u, s)
    BY <1>1, <2>2, HeardOnward
  <2>. QED BY <2>1, <2>3, <2>4, HeardOnward
<1>. QED BY <1>2, <1>3

LEMMA ChangeFocusKeeps ==
  ASSUME NEW u, Base(u), FocusHeard(u), NEW next \in Ids \union {None}
  PROVE  Heard(u, ChangeFocus(u, next))
<1>1. CASE u.focus = next
  <2>1. ChangeFocus(u, next) = u
    BY <1>1 DEF ChangeFocus
  <2>. QED BY <2>1, FollowsSelf DEF Heard, Base, Follows
<1>2. CASE u.focus # next
  <2>. DEFINE s == LoseFocus(u)
  <2>1. ChangeFocus(u, next) = GainFocus(s, next)
    BY <1>2 DEF ChangeFocus
  <2>2. Heard(u, s) /\ s.told_focus = {}
    BY LoseFocusKeeps
  <2>. HIDE DEF s
  <2>3. Heard(s, GainFocus(s, next))
    BY <2>2, GainFocusKeeps DEF Heard
  <2>. QED BY <2>1, <2>2, <2>3, HeardOnward
<1>. QED BY <1>1, <1>2

LEMMA RestoreFocusKeeps ==
  ASSUME NEW u, Base(u), FocusHeard(u)
  PROVE  Heard(u, RestoreFocus(u))
BY CandidateIn, ChangeFocusKeeps DEF RestoreFocus

LEMMA RevokeOwnerKeeps ==
  ASSUME NEW u, Base(u), FocusHeard(u), NEW o \in Owners
  PROVE  LET v == RevokeOwner(u, o) IN
         /\ Base(v) /\ FocusHeard(v)
         /\ HoverHeard(u) => HoverHeard(v)
         /\ CaptureSeen(u) => CaptureSeen(v)
         /\ DOMAIN v.events \subseteq DOMAIN u.events \ {o}
         /\ \A x \in DOMAIN u.events \ {o} :
              IF x \in DOMAIN v.events THEN Extends(u.events[x], v.events[x], {})
                                       ELSE x \in v.overflowed
<1>. DEFINE p == Purge(u, o)
            v == RevokeOwner(u, o)
<1>1. /\ Base(p) /\ FocusHeard(p)
      /\ HoverHeard(u) => HoverHeard(p)
      /\ CaptureSeen(u) => CaptureSeen(p)
  BY PurgeKeeps
<1>2. v = p \/ v = Settle(p)
  BY DEF RevokeOwner, Refocus
<1>. HIDE DEF v
<1>7. /\ DOMAIN p.events = DOMAIN u.events \ {o}
      /\ \A x \in DOMAIN u.events \ {o} : p.events[x] = u.events[x]
  <2>1. p.events = Minus(u.events, {o})
    BY PurgeFields DEF Base
  <2>. HIDE DEF p
  <2>. QED BY <2>1 DEF Minus
<1>. HIDE DEF p
<1>3. Heard(p, v)
  <2>1. Heard(p, p)
    BY <1>1, FollowsSelf DEF Heard, Base, Follows
  <2>2. Heard(p, Settle(p))
    BY <1>1, SettleKeeps
  <2>. QED BY <1>2, <2>1, <2>2
<1>4. Base(v) /\ FocusHeard(v) /\ Follows(p, v)
      /\ v.hover = p.hover /\ v.told_hover \subseteq p.told_hover
  BY <1>3 DEF Heard
<1>5. HoverHeard(p) => HoverHeard(v)
  BY <1>4 DEF HoverHeard
<1>6. CaptureSeen(p) => CaptureSeen(v)
  BY <1>1, <1>4, CaptureStays
<1>9. DOMAIN v.events \subseteq DOMAIN u.events \ {o}
  BY <1>4, <1>7 DEF Follows, FollowsBut, QueuesFollow
<1>8. \A x \in DOMAIN u.events \ {o} :
        IF x \in DOMAIN v.events THEN Extends(u.events[x], v.events[x], {}) ELSE x \in v.overflowed
  BY <1>4, <1>7 DEF Follows, FollowsBut, QueuesFollow
<1>. QED BY <1>1, <1>4, <1>5, <1>6, <1>8, <1>9 DEF v

(***************************************************************************)
(* Capture and hover.                                                      *)
(***************************************************************************)
LEMMA CancelCaptureKeeps ==
  ASSUME NEW u, Base(u), FocusHeard(u), NEW id \in Ids
  PROVE  LET v == CancelCapture(u, id) IN
         Heard(u, v) /\ (v.capture # None => v.capture.window # id)
<1>. DEFINE v == CancelCapture(u, id)
            w == [u EXCEPT !.capture = None]
<1>1. CASE u.capture # None /\ u.capture.window = id
  <2>1. v = Emit(w, id, "Notice")
    BY <1>1 DEF CancelCapture
  <2>2. /\ DOMAIN w = Fields /\ w.windows = u.windows /\ w.stack = u.stack
        /\ w.events = u.events /\ w.overflowed = u.overflowed /\ w.history = u.history
        /\ w.capture = None /\ w.focus = u.focus /\ w.hover = u.hover
        /\ w.told_hover = u.told_hover /\ w.told_focus = u.told_focus
    BY DEF Base, Typed, Fields
  <2>. HIDE DEF w, v
  <2>3. Base(w) /\ Follows(u, w)
    BY <2>2, StillKeeps DEF Base, Typed
  <2>4. Heard(u, w)
    BY <2>2, <2>3 DEF Heard, FocusHeard
  <2>5. Heard(w, v)
    BY <2>1, <2>4, EmitKeeps DEF Heard, Quiet
  <2>6. v.capture = None
    BY <2>2, <2>5 DEF Heard, Follows, FollowsBut, CaptureFollows
  <2>. QED BY <2>4, <2>5, <2>6, HeardOnward DEF v
<1>2. CASE ~(u.capture # None /\ u.capture.window = id)
  <2>1. v = u
    BY <1>2 DEF CancelCapture
  <2>. HIDE DEF v
  <2>. QED BY <1>2, <2>1, FollowsSelf DEF Heard, Base, Follows, v
<1>. QED BY <1>1, <1>2

\* What a change of the hover keeps.
Pointed(u, v) == Base(v) /\ FocusHeard(v) /\ HoverHeard(v) /\ Follows(u, v)

LEMMA PointedOnward ==
  ASSUME NEW u, Base(u), NEW v, NEW w, Pointed(u, v), Pointed(v, w)
  PROVE  Pointed(u, w)
<1>1. Follows(u, w)
  BY FollowsOnward DEF Pointed, Base
<1>. QED BY <1>1 DEF Pointed

LEMMA HeardPoints ==
  ASSUME NEW u, HoverHeard(u), NEW v, Heard(u, v)
  PROVE  Pointed(u, v)
  BY DEF Heard, Pointed, HoverHeard

LEMMA SetHoverKeeps ==
  ASSUME NEW u, Base(u), FocusHeard(u), HoverHeard(u), NEW next \in Hover \union {None}
  PROVE  LET v == SetHover(u, next) IN
         Pointed(u, v) /\ (next = None => v.hover = None)
<1>. DEFINE v == SetHover(u, next)
            x == LeaveHover(u)
<1>1. CASE u.hover = next
  <2>1. v = u
    BY <1>1 DEF SetHover
  <2>. HIDE DEF v
  <2>. QED BY <1>1, <2>1, FollowsSelf DEF Pointed, Base, Follows, v
<1>2. Base(x) /\ FocusHeard(x) /\ Follows(u, x) /\ x.told_hover = {}
  <2>1. CASE u.hover = None
    <3>1. x = u
      BY <2>1 DEF LeaveHover
    <3>2. u.told_hover = {}
      BY <2>1 DEF HoverHeard
    <3>. HIDE DEF x
    <3>. QED BY <3>1, <3>2, FollowsSelf DEF Base, Follows
  <2>2. CASE u.hover # None
    <3>. DEFINE h == u.hover.window
                s == Emit(u, h, "Notice")
    <3>1. x = [s EXCEPT !.told_hover = s.told_hover \ {h}]
      BY <2>2 DEF LeaveHover
    <3>2. h \in Ids
      BY <2>2, NoneApart DEF Base, Typed
    <3>. HIDE DEF s, h, x
    <3>3. Heard(u, s)
      BY <3>2, EmitKeeps DEF Quiet, s
    <3>4. /\ DOMAIN x = Fields /\ x.windows = s.windows /\ x.stack = s.stack
          /\ x.events = s.events /\ x.overflowed = s.overflowed /\ x.history = s.history
          /\ x.capture = s.capture /\ x.focus = s.focus /\ x.hover = s.hover
          /\ x.told_focus = s.told_focus /\ x.told_hover = s.told_hover \ {h}
      BY <3>1, <3>3 DEF Heard, Base, Typed, Fields
    <3>5. Base(x) /\ Follows(s, x)
      BY <3>3, <3>4, StillKeeps DEF Heard, Base, Typed
    <3>6. Follows(u, x)
      BY <3>3, <3>5, FollowsOnward DEF Heard, Base
    <3>7. x.told_hover = {}
      BY <3>3, <3>4 DEF Heard, HoverHeard, h
    <3>. QED BY <3>3, <3>4, <3>5, <3>6, <3>7 DEF Heard, FocusHeard
  <2>. QED BY <2>1, <2>2
<1>3. CASE u.hover # next
  <2>. DEFINE y == [x EXCEPT !.hover = next]
  <2>. HIDE DEF x
  <2>1. v = EnterHover(x, next)
    BY <1>3 DEF SetHover, x
  <2>2. /\ DOMAIN y = Fields /\ y.windows = x.windows /\ y.stack = x.stack
        /\ y.events = x.events /\ y.overflowed = x.overflowed /\ y.history = x.history
        /\ y.capture = x.capture /\ y.focus = x.focus /\ y.hover = next
        /\ y.told_focus = x.told_focus /\ y.told_hover = {}
    BY <1>2 DEF Base, Typed, Fields
  <2>. HIDE DEF v, y
  <2>3. Base(y) /\ Follows(x, y) /\ FocusHeard(y) /\ HoverHeard(y)
    BY <1>2, <2>2, StillKeeps DEF Base, Typed, FocusHeard, HoverHeard
  <2>4. Pointed(u, y)
    BY <1>2, <2>3, FollowsOnward DEF Pointed, Base
  <2>5. CASE next = None
    <3>1. v = y
      BY <2>1, <2>5 DEF EnterHover, y
    <3>. QED BY <2>2, <2>4, <3>1 DEF v
  <2>6. CASE next # None
    <3>. DEFINE s == Emit(y, next.window, "Notice")
    <3>1. v = Entered(s, next.window)
      BY <2>1, <2>6 DEF EnterHover, y
    <3>2. next.window \in Ids
      BY <2>6, NoneApart
    <3>. HIDE DEF s
    <3>3. Heard(y, s)
      BY <2>3, <3>2, EmitKeeps DEF Quiet, s
    <3>4. /\ DOMAIN v = Fields /\ v.windows = s.windows /\ v.stack = s.stack
          /\ v.events = s.events /\ v.overflowed = s.overflowed /\ v.history = s.history
          /\ v.capture = s.capture /\ v.focus = s.focus /\ v.hover = s.hover
          /\ v.told_focus = s.told_focus
          /\ v.told_hover \in {s.told_hover, s.told_hover \union {next.window}}
      BY <3>1, <3>3 DEF Entered, Heard, Base, Typed, Fields
    <3>5. v.told_hover \subseteq {next.window} /\ v.hover = next
      BY <2>2, <3>3, <3>4 DEF Heard
    <3>6. Base(v) /\ Follows(s, v)
      BY <3>2, <3>3, <3>4, <3>5, StillKeeps DEF Heard, Base, Typed
    <3>7. Pointed(s, v)
      BY <2>6, <3>3, <3>4, <3>5, <3>6 DEF Pointed, Heard, FocusHeard, HoverHeard
    <3>8. Pointed(y, s)
      BY <2>3, <3>3, HeardPoints
    <3>9. Pointed(u, s)
      BY <2>4, <3>8, PointedOnward
    <3>. QED BY <2>6, <3>7, <3>9, PointedOnward DEF v
  <2>. QED BY <2>5, <2>6 DEF v
<1>. QED BY <1>1, <1>3

(***************************************************************************)
(* close, which removes the windows of a family from the foremost down.    *)
(***************************************************************************)
\* remove_one of a window that no other has for its parent.
LEMMA RemoveOneKeeps ==
  ASSUME NEW u, Base(u), FocusHeard(u), HoverHeard(u), NEW id \in Ids,
         \A x \in DOMAIN u.windows : u.windows[x].parent # id
  PROVE  LET v == RemoveOne(u, id) IN
         /\ Base(v) /\ FocusHeard(v) /\ HoverHeard(v)
         /\ FollowsBut(u, v, {id}) /\ id \notin DOMAIN v.windows
         /\ CaptureSeen(u) => CaptureSeen(v)
<1>. DEFINE a == CancelCapture(u, id)
            b == Unhover(a, id)
            c == Unfocus(b, id)
            d == Emit(c, id, "Notice")
            v == RemoveOne(u, id)
            left == Ids \ {id}
<1>1. v = [d EXCEPT !.windows = Minus(d.windows, {id}), !.stack = Only(d.stack, left),
                    !.history = Only(d.history, left), !.told_focus = d.told_focus \ {id},
                    !.told_hover = d.told_hover \ {id}]
  BY DEF RemoveOne
<1>. HIDE DEF v, d
<1>2. Pointed(u, a) /\ (a.capture # None => a.capture.window # id)
  BY CancelCaptureKeeps, HeardPoints
<1>. HIDE DEF a
<1>3. Pointed(a, b)
  <2>1. Pointed(a, a)
    BY <1>2, FollowsSelf DEF Pointed, Base, Follows
  <2>2. Pointed(a, SetHover(a, None))
    BY <1>2, SetHoverKeeps DEF Pointed
  <2>. QED BY <2>1, <2>2 DEF Unhover
<1>. HIDE DEF b
<1>4. Pointed(b, c)
  <2>1. Pointed(b, b)
    BY <1>3, FollowsSelf DEF Pointed, Base, Follows
  <2>2. Heard(b, ChangeFocus(b, None))
    BY <1>3, ChangeFocusKeeps DEF Pointed
  <2>3. Pointed(b, ChangeFocus(b, None))
    BY <1>3, <2>2, HeardPoints DEF Pointed
  <2>. QED BY <2>1, <2>3 DEF Unfocus
<1>. HIDE DEF c
<1>5. Pointed(c, d)
  <2>1. Heard(c, d)
    BY <1>4, EmitKeeps DEF Pointed, Quiet, d
  <2>. QED BY <1>4, <2>1, HeardPoints DEF Pointed
<1>6. Pointed(u, d)
  BY <1>2, <1>3, <1>4, <1>5, PointedOnward DEF Pointed
<1>7. d.capture # None => d.capture.window # id
  BY <1>2, <1>3, <1>4, <1>5 DEF Pointed, Follows, FollowsBut, CaptureFollows
<1>8. /\ DOMAIN v = Fields /\ v.windows = Minus(d.windows, {id}) /\ v.stack = Only(d.stack, left)
      /\ v.history = Only(d.history, left) /\ v.told_focus = d.told_focus \ {id}
      /\ v.told_hover = d.told_hover \ {id} /\ v.events = d.events
      /\ v.overflowed = d.overflowed /\ v.capture = d.capture /\ v.focus = d.focus
      /\ v.hover = d.hover
  BY <1>1, <1>6 DEF Pointed, Base, Typed, Fields
<1>9. /\ Base(d) /\ FocusHeard(d) /\ HoverHeard(d) /\ Follows(u, d)
      /\ DOMAIN d.windows \subseteq Ids /\ d.stack \in Seq(Ids) /\ d.history \in Seq(Ids)
  BY <1>6 DEF Pointed, Base, Typed, WindowsTyped
<1>10. /\ DOMAIN v.windows = DOMAIN d.windows \intersect left
       /\ \A x \in DOMAIN v.windows : v.windows[x] = d.windows[x]
  BY <1>8, <1>9 DEF Minus
<1>11. \A x \in DOMAIN d.windows : d.windows[x].parent # id
  BY <1>9 DEF Follows, FollowsBut, WindowsFollow
<1>12. Families(v.windows)
  BY <1>9, <1>10, <1>11 DEF Families, Base
<1>13. Stacked(v.windows, v.stack)
  <2>1. left \in SUBSET Ids
    OBVIOUS
  <2>2. \A x \in DOMAIN v.windows : v.windows[x].parent # None => v.windows[x].parent \in left
    BY <1>10, <1>12 DEF Families
  <2>3. \A x \in DOMAIN v.windows : v.windows[x].parent = d.windows[x].parent
    BY <1>10
  <2>4. Families(d.windows) /\ Stacked(d.windows, d.stack)
    BY <1>9 DEF Base
  <2>. HIDE DEF left
  <2>5. Stacked(v.windows, Only(d.stack, left))
    BY <1>9, <1>10, <2>1, <2>2, <2>3, <2>4, StackedOnly
  <2>. QED BY <1>8, <2>5
<1>14. Typed(v)
  <2>1. v.stack \in Seq(Ids) /\ v.history \in Seq(Ids)
    BY <1>8, <1>9, OnlyProperties
  <2>2. WindowsTyped(v.windows)
    BY <1>9, <1>10 DEF Base, Typed, WindowsTyped
  <2>. QED BY <1>8, <1>9, <2>1, <2>2 DEF Base, Typed
<1>15. FocusHeard(v) /\ HoverHeard(v) /\ id \notin DOMAIN v.windows
  BY <1>8, <1>9, <1>10 DEF FocusHeard, HoverHeard
<1>16. FollowsBut(u, v, {id})
  <2>1. FollowsBut(d, v, {id})
    <3>1. FollowsBut(d, d, {})
      BY <1>9, FollowsSelf DEF Base
    <3>2. WindowsFollow(d, v, {id})
      BY <1>9, <1>10 DEF WindowsFollow
    <3>3. CaptureFollows(d, v)
      BY <1>7, <1>8, <1>9, <1>10 DEF CaptureFollows
    <3>. QED BY <1>8, <3>1, <3>2, <3>3 DEF FollowsBut, QueuesFollow
  <2>2. FollowsBut(u, v, {} \union {id})
    BY <1>9, <1>14, <2>1, FollowsOn DEF Base, Follows
  <2>3. {} \union {id} = {id}
    OBVIOUS
  <2>. QED BY <2>2, <2>3
<1>17. ASSUME CaptureSeen(u) PROVE CaptureSeen(v)
  <2>1. CaptureSeen(d)
    BY <1>9, <1>17, CaptureStays
  <2>. SUFFICES ASSUME v.capture # None PROVE EffectivelyVisible(v, v.capture.window)
    BY DEF CaptureSeen
  <2>2. v.capture.window # id /\ EffectivelyVisible(d, v.capture.window)
    BY <1>7, <1>8, <2>1 DEF CaptureSeen
  <2>3. PICK line \in SUBSET {x \in DOMAIN d.windows : d.windows[x].visible} :
          v.capture.window \in line /\ Closed(d, line)
    BY <2>2 DEF EffectivelyVisible
  <2>. DEFINE kept == line \ {id}
  <2>4. kept \in SUBSET {x \in DOMAIN v.windows : v.windows[x].visible} /\ v.capture.window \in kept
    BY <1>9, <1>10, <2>2, <2>3
  <2>5. Closed(v, kept)
    BY <1>10, <1>11, <2>3 DEF Closed, Exists
  <2>. QED BY <2>4, <2>5 DEF EffectivelyVisible
<1>. QED BY <1>12, <1>13, <1>14, <1>15, <1>16, <1>17 DEF Base, v

LEMMA ChildrenBelow ==
  ASSUME NEW u, Base(u), NEW id \in Ids
  PROVE  LET children == Only(u.stack, Group(u, id) \ {id}) IN
         /\ Len(children) \in Nat
         /\ \A i \in 1..Len(children) :
              /\ children[i] \in Ids /\ Owner[children[i]] = Owner[id]
              /\ \A x \in DOMAIN u.windows : u.windows[x].parent = children[i] =>
                   \E j \in 1..Len(children) : i < j /\ children[j] = x
         /\ \A x \in DOMAIN u.windows : u.windows[x].parent = id => On(children, x)
<1>. DEFINE wanted == Group(u, id) \ {id}
            children == Only(u.stack, wanted)
<1>1. /\ u.stack \in Seq(Ids) /\ Once(u.stack) /\ DOMAIN u.windows \subseteq Ids
      /\ \A x : On(u.stack, x) <=> x \in DOMAIN u.windows
      /\ \A x \in DOMAIN u.windows : u.windows[x].parent # None =>
           Before(u.stack, u.windows[x].parent, x)
  BY DEF Base, Typed, WindowsTyped, Stacked
<1>2. /\ children \in Seq(Ids) /\ Once(children)
      /\ \A x : On(children, x) <=> On(u.stack, x) /\ x \in wanted
      /\ \A a, b \in wanted : Before(u.stack, a, b) => Before(children, a, b)
  BY <1>1, OnlyProperties
<1>3. \A x \in wanted : x \in Ids /\ Descends(u, x, id) /\ x # id
  BY DEF Group
<1>4. \A x \in Ids : Descends(u, x, id) /\ x # id => x \in wanted
  BY DEF Group
<1>. HIDE DEF wanted, children
<1>5. \A x \in DOMAIN u.windows, a \in Ids : u.windows[x].parent = a =>
        a # x /\ Before(u.stack, a, x)
  BY <1>1, BeforeOrder, NoneApart
<1>6. ASSUME NEW x \in DOMAIN u.windows, u.windows[x].parent = id
      PROVE  On(children, x)
  BY <1>1, <1>2, <1>4, <1>5, <1>6, Lines, NoneApart DEF Base
<1>7. ASSUME NEW i \in 1..Len(children)
      PROVE  children[i] \in Ids /\ Owner[children[i]] = Owner[id]
  <2>1. On(children, children[i])
    BY DEF On
  <2>. QED BY <1>1, <1>2, <1>3, <2>1, FamilyOwner DEF Base
<1>8. ASSUME NEW i \in 1..Len(children), NEW x \in DOMAIN u.windows,
             u.windows[x].parent = children[i]
      PROVE  \E j \in 1..Len(children) : i < j /\ children[j] = x
  <2>. DEFINE c == children[i]
  <2>1. c \in wanted /\ c \in DOMAIN u.windows /\ c \in Ids
    <3>1. On(children, children[i])
      BY DEF On
    <3>. QED BY <1>1, <1>2, <1>7, <3>1
  <2>. HIDE DEF c
  <2>2. u.windows[x].parent = c
    BY <1>8 DEF c
  <2>3. Descends(u, x, id)
    BY <1>1, <1>3, <2>1, <2>2, Lines, NoneApart DEF Base
  <2>4. x # id
    <3>1. ASSUME x = id PROVE FALSE
      <4>1. Before(u.stack, c, id) /\ Before(u.stack, id, c)
        BY <1>3, <1>5, <2>1, <2>2, <3>1, AncestorBefore
      <4>. QED BY <1>1, <4>1, BeforeOrder
    <3>. QED BY <3>1
  <2>5. Before(children, c, x)
    BY <1>1, <1>2, <1>4, <1>5, <2>1, <2>2, <2>3, <2>4
  <2>6. PICK k \in 1..Len(children), j \in 1..Len(children) :
          k < j /\ children[k] = c /\ children[j] = x
    BY <2>5 DEF Before
  <2>7. k = i
    BY <1>2, <2>6 DEF Once, c
  <2>. QED BY <2>6, <2>7
<1>9. Len(children) \in Nat
  BY <1>2
<1>. QED BY <1>6, <1>7, <1>8, <1>9 DEF children, wanted

LEMMA CloseTurns ==
  ASSUME NEW u, NEW id
  PROVE  LET children == Only(u.stack, Group(u, id) \ {id})
             N == Len(children) IN
         N \in Nat =>
           \E left :
             /\ left = [n \in 0..N |-> IF n = 0 THEN u
                                       ELSE RemoveOne(left[n - 1], children[N + 1 - n])]
             /\ CloseWindow(u, id) = RestoreFocus(RemoveOne(left[N], id))
<1>. DEFINE children == Only(u.stack, Group(u, id) \ {id})
            N == Len(children)
            Goes(h, m) == h = [n \in 0..m |-> IF n = 0 THEN u
                                              ELSE RemoveOne(h[n - 1], children[N + 1 - n])]
            S == {m \in 0..N : \E h : Goes(h, m)}
<1>. SUFFICES ASSUME N \in Nat
              PROVE  \E left : Goes(left, N)
                                 /\ CloseWindow(u, id) = RestoreFocus(RemoveOne(left[N], id))
  OBVIOUS
<1>1. 0 \in S
  <2>. DEFINE h == [n \in 0..0 |-> u]
  <2>1. Goes(h, 0)
    BY Z3
  <2>2. 0 \in 0..N
    OBVIOUS
  <2>. HIDE DEF h, Goes, N
  <2>. QED BY <2>1, <2>2
<1>2. ASSUME NEW m \in 1..N, m - 1 \in S PROVE m \in S
  <2>1. PICK h : Goes(h, m - 1)
    BY <1>2
  <2>. DEFINE g == [n \in 0..m |-> IF n = m THEN RemoveOne(h[m - 1], children[N + 1 - m])
                                            ELSE h[n]]
  <2>2. ASSUME NEW n \in 0..m
        PROVE  g[n] = IF n = 0 THEN u ELSE RemoveOne(g[n - 1], children[N + 1 - n])
    <3>. HIDE DEF children
    <3>1. CASE n = m
      BY <3>1
    <3>2. CASE n # m
      <4>1. n \in 0..(m - 1) /\ (n # 0 => n - 1 \in 0..m /\ n - 1 # m)
        BY <3>2
      <4>2. h[n] = IF n = 0 THEN u ELSE RemoveOne(h[n - 1], children[N + 1 - n])
        BY <2>1, <4>1
      <4>. QED BY <3>2, <4>1, <4>2
    <3>. QED BY <3>1, <3>2
  <2>3. Goes(g, m)
    BY <2>2
  <2>4. m \in 0..N
    OBVIOUS
  <2>. HIDE DEF g, Goes, N
  <2>. QED BY <2>3, <2>4
<1>3. N \in S
  <2>. HIDE DEF S, N
  <2>1. \A n \in 0..N : n \in S
    BY <1>1, <1>2, Turns
  <2>. QED BY <2>1
<1>4. \E h : Goes(h, N)
  BY <1>3
<1>. DEFINE left == CHOOSE h : Goes(h, N)
<1>5. Goes(left, N)
  BY <1>4
<1>6. CloseWindow(u, id) = RestoreFocus(RemoveOne(left[N], id))
  BY DEF CloseWindow
<1>. QED BY <1>5, <1>6

\* What a call that may close windows keeps.
Kept(u, v, closed) ==
  /\ Base(v) /\ FocusHeard(v) /\ HoverHeard(v)
  /\ FollowsBut(u, v, closed)
  /\ CaptureSeen(u) => CaptureSeen(v)

LEMMA KeptOnward ==
  ASSUME NEW u, Base(u), NEW v, NEW w, NEW closed, NEW more, more \subseteq closed,
         Kept(u, v, closed), Kept(v, w, more)
  PROVE  Kept(u, w, closed)
<1>1. FollowsBut(u, w, closed \union more)
  BY FollowsOn DEF Kept, Base
<1>2. closed \union more = closed
  OBVIOUS
<1>. QED BY <1>1, <1>2 DEF Kept

LEMMA PointedKept ==
  ASSUME NEW u, Base(u), NEW v, Pointed(u, v)
  PROVE  Kept(u, v, {})
  BY CaptureStays DEF Pointed, Kept, Follows

LEMMA CloseKeeps ==
  ASSUME NEW u, Base(u), FocusHeard(u), HoverHeard(u), NEW id \in Ids
  PROVE  Kept(u, CloseWindow(u, id), WindowsOf(Owner[id]))
<1>. DEFINE children == Only(u.stack, Group(u, id) \ {id})
            N == Len(children)
            closed == WindowsOf(Owner[id])
<1>1. /\ N \in Nat
      /\ \A i \in 1..N :
           /\ children[i] \in Ids /\ Owner[children[i]] = Owner[id]
           /\ \A x \in DOMAIN u.windows : u.windows[x].parent = children[i] =>
                \E j \in 1..N : i < j /\ children[j] = x
      /\ \A x \in DOMAIN u.windows : u.windows[x].parent = id => On(children, x)
  BY ChildrenBelow
<1>2. PICK left :
        /\ left = [n \in 0..N |-> IF n = 0 THEN u
                                  ELSE RemoveOne(left[n - 1], children[N + 1 - n])]
        /\ CloseWindow(u, id) = RestoreFocus(RemoveOne(left[N], id))
  BY <1>1, CloseTurns
<1>. DEFINE S == {n \in 0..N : /\ Kept(u, left[n], closed)
                               /\ \A k \in (N + 1 - n)..N : children[k] \notin DOMAIN left[n].windows}
<1>3. \A i \in 1..N : children[i] \in closed
  BY <1>1 DEF WindowsOf
<1>4. \A x \in DOMAIN u.windows : u.windows[x].parent = id => \E k \in 1..N : children[k] = x
  BY <1>1 DEF On
<1>. HIDE DEF N, children, closed
<1>5. 0 \in S
  <2>1. left[0] = u
    BY <1>1, <1>2
  <2>2. Kept(u, u, closed)
    BY FollowsSelf DEF Kept, Base
  <2>3. \A k \in (N + 1 - 0)..N : FALSE
    BY <1>1
  <2>. QED BY <1>1, <2>1, <2>2, <2>3
<1>6. ASSUME NEW n \in 1..N, n - 1 \in S PROVE n \in S
  <2>. DEFINE m == N + 1 - n
              c == children[m]
              t == left[n - 1]
              w == RemoveOne(t, c)
  <2>1. left[n] = w
    <3>1. n \in 0..N /\ n # 0
      BY <1>1
    <3>2. left[n] = IF n = 0 THEN u ELSE RemoveOne(left[n - 1], children[N + 1 - n])
      BY <1>2, <3>1
    <3>. QED BY <3>1, <3>2
  <2>2. m \in 1..N /\ n \in 0..N /\ n - 1 \in 0..N /\ N + 1 - (n - 1) = m + 1
        /\ \A k \in (N + 1 - n)..N : k = m \/ k \in (m + 1)..N
    BY <1>1
  <2>3. Kept(u, t, closed) /\ \A k \in (m + 1)..N : children[k] \notin DOMAIN t.windows
    BY <1>6, <2>2
  <2>4. c \in Ids /\ c \in closed
    BY <1>1, <1>3, <2>2
  <2>5. \A x \in DOMAIN t.windows : t.windows[x].parent # c
    <3>. SUFFICES ASSUME NEW x \in DOMAIN t.windows, t.windows[x].parent = c PROVE FALSE
      OBVIOUS
    <3>1. x \in DOMAIN u.windows /\ u.windows[x].parent = c
      BY <2>3 DEF Kept, FollowsBut, WindowsFollow
    <3>2. PICK j \in 1..N : m < j /\ children[j] = x
      BY <1>1, <2>2, <3>1
    <3>3. j \in (m + 1)..N
      BY <1>1, <2>2, <3>2
    <3>. QED BY <2>3, <3>2, <3>3
  <2>. HIDE DEF m, c, t, w
  <2>6. Kept(t, w, {c}) /\ c \notin DOMAIN w.windows
    BY <2>3, <2>4, <2>5, RemoveOneKeeps DEF Kept, w
  <2>7. Kept(u, w, closed)
    BY <2>3, <2>4, <2>6, KeptOnward
  <2>8. DOMAIN w.windows \subseteq DOMAIN t.windows
    BY <2>6 DEF Kept, FollowsBut, WindowsFollow
  <2>9. \A k \in (N + 1 - n)..N : children[k] \notin DOMAIN w.windows
    BY <2>2, <2>3, <2>6, <2>8 DEF c
  <2>. QED BY <2>1, <2>2, <2>7, <2>9
<1>7. N \in S
  <2>. HIDE DEF S
  <2>1. \A n \in 0..N : n \in S
    BY <1>1, <1>5, <1>6, Turns
  <2>. QED BY <1>1, <2>1
<1>. DEFINE t == left[N]
            r == RemoveOne(t, id)
<1>8. Kept(u, t, closed) /\ \A k \in 1..N : children[k] \notin DOMAIN t.windows
  <2>1. N + 1 - N = 1
    BY <1>1
  <2>. QED BY <1>7, <2>1
<1>9. \A x \in DOMAIN t.windows : t.windows[x].parent # id
  BY <1>4, <1>8 DEF Kept, FollowsBut, WindowsFollow
<1>10. CloseWindow(u, id) = RestoreFocus(r)
  BY <1>2
<1>. HIDE DEF t, r
<1>11. Kept(t, r, {id})
  BY <1>8, <1>9, RemoveOneKeeps DEF Kept, r
<1>12. id \in closed
  BY DEF closed, WindowsOf
<1>13. Kept(u, r, closed)
  BY <1>8, <1>11, <1>12, KeptOnward
<1>14. Kept(r, RestoreFocus(r), {})
  BY <1>13, RestoreFocusKeeps, HeardPoints, PointedKept DEF Kept
<1>15. Kept(u, RestoreFocus(r), closed)
  BY <1>13, <1>14, KeptOnward
<1>. QED BY <1>10, <1>15 DEF closed

(***************************************************************************)
(* A window that is hidden, with its descendants.                          *)
(***************************************************************************)
LEMMA HideTurns ==
  ASSUME NEW u, NEW id
  PROVE  LET group == Only(u.stack, Group(u, id))
             N == Len(group) IN
         N \in Nat =>
           \E freed :
             /\ freed = [n \in 0..N |-> IF n = 0 THEN u ELSE CancelCapture(freed[n - 1], group[n])]
             /\ Hide(u, id) = BlurGroup(freed[N], id)
<1>. DEFINE group == Only(u.stack, Group(u, id))
            N == Len(group)
            Goes(h, m) == h = [n \in 0..m |-> IF n = 0 THEN u
                                              ELSE CancelCapture(h[n - 1], group[n])]
            S == {m \in 0..N : \E h : Goes(h, m)}
<1>. SUFFICES ASSUME N \in Nat
              PROVE  \E freed : Goes(freed, N) /\ Hide(u, id) = BlurGroup(freed[N], id)
  OBVIOUS
<1>1. 0 \in S
  <2>. DEFINE h == [n \in 0..0 |-> u]
  <2>1. Goes(h, 0)
    BY Z3
  <2>2. 0 \in 0..N
    OBVIOUS
  <2>. HIDE DEF h, Goes, N
  <2>. QED BY <2>1, <2>2
<1>2. ASSUME NEW m \in 1..N, m - 1 \in S PROVE m \in S
  <2>1. PICK h : Goes(h, m - 1)
    BY <1>2
  <2>. DEFINE g == [n \in 0..m |-> IF n = m THEN CancelCapture(h[m - 1], group[m]) ELSE h[n]]
  <2>2. ASSUME NEW n \in 0..m
        PROVE  g[n] = IF n = 0 THEN u ELSE CancelCapture(g[n - 1], group[n])
    <3>. HIDE DEF group
    <3>1. CASE n = m
      BY <3>1
    <3>2. CASE n # m
      <4>1. n \in 0..(m - 1) /\ (n # 0 => n - 1 \in 0..m /\ n - 1 # m)
        BY <3>2
      <4>2. h[n] = IF n = 0 THEN u ELSE CancelCapture(h[n - 1], group[n])
        BY <2>1, <4>1
      <4>. QED BY <3>2, <4>1, <4>2
    <3>. QED BY <3>1, <3>2
  <2>3. Goes(g, m)
    BY <2>2
  <2>4. m \in 0..N
    OBVIOUS
  <2>. HIDE DEF g, Goes, N
  <2>. QED BY <2>3, <2>4
<1>3. N \in S
  <2>. HIDE DEF S, N
  <2>1. \A n \in 0..N : n \in S
    BY <1>1, <1>2, Turns
  <2>. QED BY <2>1
<1>4. \E h : Goes(h, N)
  BY <1>3
<1>. DEFINE freed == CHOOSE h : Goes(h, N)
<1>5. Goes(freed, N)
  BY <1>4
<1>6. Hide(u, id) = BlurGroup(freed[N], id)
  BY DEF Hide
<1>. QED BY <1>5, <1>6

LEMMA BlurKeeps ==
  ASSUME NEW u, Base(u), FocusHeard(u), NEW id \in Ids
  PROVE  Heard(u, BlurGroup(u, id))
<1>. DEFINE blurred == ChangeFocus(u, None)
<1>1. Heard(u, blurred)
  BY ChangeFocusKeeps
<1>. HIDE DEF blurred
<1>2. Heard(blurred, RestoreFocus(blurred))
  BY <1>1, RestoreFocusKeeps DEF Heard
<1>3. Heard(u, RestoreFocus(blurred))
  BY <1>1, <1>2, HeardOnward
<1>4. Heard(u, u)
  BY FollowsSelf DEF Heard, Base, Follows
<1>. QED BY <1>3, <1>4 DEF BlurGroup, blurred

\* When the hidden family gave up its capture, whoever has it is visible.
LEMMA HideKeeps ==
  ASSUME NEW u, Base(u), FocusHeard(u), NEW id \in Ids,
         u.capture # None =>
           \/ EffectivelyVisible(u, u.capture.window)
           \/ u.capture.window \in DOMAIN u.windows /\ Descends(u, u.capture.window, id)
  PROVE  LET v == Hide(u, id) IN Heard(u, v) /\ CaptureSeen(v)
<1>. DEFINE group == Only(u.stack, Group(u, id))
            N == Len(group)
<1>1. /\ group \in Seq(Ids)
      /\ \A x : On(group, x) <=> On(u.stack, x) /\ x \in Group(u, id)
  BY OnlyProperties DEF Base, Typed
<1>2. \A x \in DOMAIN u.windows : x \in Ids /\ On(u.stack, x)
  BY DEF Base, Typed, WindowsTyped, Stacked
<1>3. \A x \in DOMAIN u.windows : Descends(u, x, id) => \E k \in 1..N : group[k] = x
  BY <1>1, <1>2 DEF On, Group
<1>4. N \in Nat /\ \A k \in 1..N : group[k] \in Ids
  BY <1>1
<1>5. PICK freed :
        /\ freed = [n \in 0..N |-> IF n = 0 THEN u ELSE CancelCapture(freed[n - 1], group[n])]
        /\ Hide(u, id) = BlurGroup(freed[N], id)
  BY <1>4, HideTurns
<1>. DEFINE S == {n \in 0..N : /\ Heard(u, freed[n])
                               /\ \A k \in 1..n : freed[n].capture # None =>
                                                    freed[n].capture.window # group[k]}
<1>. HIDE DEF N, group
<1>6. 0 \in S
  <2>1. freed[0] = u
    BY <1>4, <1>5
  <2>2. Heard(u, u)
    BY FollowsSelf DEF Heard, Base, Follows
  <2>. QED BY <1>4, <2>1, <2>2
<1>7. ASSUME NEW n \in 1..N, n - 1 \in S PROVE n \in S
  <2>. DEFINE t == freed[n - 1]
              w == CancelCapture(t, group[n])
  <2>1. freed[n] = w
    <3>1. n \in 0..N /\ n # 0
      BY <1>4
    <3>2. freed[n] = IF n = 0 THEN u ELSE CancelCapture(freed[n - 1], group[n])
      BY <1>5, <3>1
    <3>. QED BY <3>1, <3>2
  <2>2. /\ Heard(u, t)
        /\ \A k \in 1..(n - 1) : t.capture # None => t.capture.window # group[k]
    BY <1>7
  <2>. HIDE DEF t, w
  <2>3. Heard(t, w) /\ (w.capture # None => w.capture.window # group[n])
    BY <1>4, <2>2, CancelCaptureKeeps DEF Heard, w
  <2>4. Heard(u, w)
    BY <2>2, <2>3, HeardOnward
  <2>5. w.capture # None => w.capture = t.capture
    BY <2>3 DEF Heard, Follows, FollowsBut, CaptureFollows
  <2>6. n \in 0..N /\ \A k \in 1..n : k = n \/ k \in 1..(n - 1)
    BY <1>4
  <2>7. \A k \in 1..n : w.capture # None => w.capture.window # group[k]
    BY <2>2, <2>3, <2>5, <2>6
  <2>. QED BY <2>1, <2>4, <2>6, <2>7
<1>8. N \in S
  <2>. HIDE DEF S
  <2>1. \A n \in 0..N : n \in S
    BY <1>4, <1>6, <1>7, Turns
  <2>. QED BY <1>4, <2>1
<1>. DEFINE t == freed[N]
<1>9. Heard(u, t) /\ \A k \in 1..N : t.capture # None => t.capture.window # group[k]
  BY <1>8
<1>10. Hide(u, id) = BlurGroup(t, id)
  BY <1>5
<1>. HIDE DEF t
<1>11. CaptureSeen(t)
  <2>. SUFFICES ASSUME t.capture # None PROVE EffectivelyVisible(t, t.capture.window)
    BY DEF CaptureSeen
  <2>1. /\ t.capture = u.capture /\ u.capture # None
        /\ u.capture.window \in DOMAIN u.windows => u.capture.window \in DOMAIN t.windows
    BY <1>9 DEF Heard, Follows, FollowsBut, CaptureFollows
  <2>2. EffectivelyVisible(u, u.capture.window)
    BY <1>3, <1>9, <2>1
  <2>3. u.capture.window \in DOMAIN u.windows
    BY <2>2 DEF EffectivelyVisible
  <2>. QED BY <1>9, <2>1, <2>2, <2>3, VisibleStays DEF Heard
<1>12. Heard(t, BlurGroup(t, id))
  BY <1>9, BlurKeeps DEF Heard
<1>13. CaptureSeen(BlurGroup(t, id))
  BY <1>9, <1>11, <1>12, CaptureStays DEF Heard
<1>. QED BY <1>9, <1>10, <1>12, <1>13, HeardOnward

(***************************************************************************)
(* Whole calls.  A sound state is one that a call finds and leaves; what a *)
(* call serves another with: every queue is continued or its owner is      *)
(* reported, and no window but those of owner o is changed or lost while   *)
(* its owner is not reported.                                              *)
(***************************************************************************)
Coherent(u) == Base(u) /\ FocusHeard(u) /\ HoverHeard(u) /\ CaptureSeen(u)

Continued(u, v, heard) ==
  /\ u.overflowed \subseteq v.overflowed
  /\ \A o \in DOMAIN u.events :
       IF o \in DOMAIN v.events THEN Extends(u.events[o], v.events[o], heard)
                                ELSE o \in v.overflowed
  /\ \A o \in DOMAIN v.events \ DOMAIN u.events : Extends(<<>>, v.events[o], heard)

Spared(u, v, o) ==
  \A id \in DOMAIN u.windows : Owner[id] # o =>
    (Exists(v, id) /\ v.windows[id] = u.windows[id]) \/ Owner[id] \in v.overflowed

Served(u, v, o) == Coherent(v) /\ Continued(u, v, {}) /\ Spared(u, v, o)

LEMMA ContinuedOnward ==
  ASSUME NEW u, Base(u), NEW v, Base(v), NEW w, Base(w), NEW heard,
         Continued(u, v, heard), Continued(v, w, heard)
  PROVE  Continued(u, w, heard)
<1>1. /\ \A x \in DOMAIN u.events : Len(u.events[x]) \in Nat
      /\ \A x \in DOMAIN v.events : Len(v.events[x]) \in Nat
      /\ \A x \in DOMAIN w.events : Len(w.events[x]) \in Nat
      /\ DOMAIN w.events \intersect w.overflowed = {}
      /\ Len(<<>>) \in Nat
  BY DEF Base, Typed, EventsTyped
<1>2. \A s, t, r : Len(s) \in Nat /\ Len(t) \in Nat /\ Len(r) \in Nat
                    /\ Extends(s, t, heard) /\ Extends(t, r, heard) => Extends(s, r, heard)
  BY DEF Extends
<1>3. /\ u.overflowed \subseteq v.overflowed /\ v.overflowed \subseteq w.overflowed
      /\ \A x \in DOMAIN u.events : IF x \in DOMAIN v.events
           THEN Extends(u.events[x], v.events[x], heard) ELSE x \in v.overflowed
      /\ \A x \in DOMAIN v.events : IF x \in DOMAIN w.events
           THEN Extends(v.events[x], w.events[x], heard) ELSE x \in w.overflowed
      /\ \A x \in DOMAIN v.events \ DOMAIN u.events : Extends(<<>>, v.events[x], heard)
      /\ \A x \in DOMAIN w.events \ DOMAIN v.events : Extends(<<>>, w.events[x], heard)
  BY DEF Continued
<1>4. \A x \in DOMAIN u.events : IF x \in DOMAIN w.events
           THEN Extends(u.events[x], w.events[x], heard) ELSE x \in w.overflowed
  BY <1>1, <1>2, <1>3
<1>5. \A x \in DOMAIN w.events \ DOMAIN u.events : Extends(<<>>, w.events[x], heard)
  BY <1>1, <1>2, <1>3
<1>. QED BY <1>3, <1>4, <1>5 DEF Continued

LEMMA ServedOnward ==
  ASSUME NEW u, Coherent(u), NEW o, NEW v, NEW w, Served(u, v, o), Served(v, w, o)
  PROVE  Served(u, w, o)
<1>1. Continued(u, w, {})
  BY ContinuedOnward DEF Served, Coherent
<1>2. Spared(u, w, o)
  BY DEF Served, Spared, Continued, Exists
<1>. QED BY <1>1, <1>2 DEF Served

LEMMA ServedSelf ==
  ASSUME NEW u, Coherent(u), NEW o
  PROVE  Served(u, u, o)
<1>1. \A x \in DOMAIN u.events : Len(u.events[x]) \in Nat
  BY DEF Coherent, Base, Typed, EventsTyped
<1>. QED BY <1>1 DEF Served, Continued, Extends, Spared, Exists

LEMMA KeptServes ==
  ASSUME NEW u, Coherent(u), NEW v, NEW o, NEW closed, closed \subseteq WindowsOf(o),
         Kept(u, v, closed)
  PROVE  Served(u, v, o)
<1>1. \A id \in closed : Owner[id] = o
  BY DEF WindowsOf
<1>. QED BY <1>1 DEF Served, Coherent, Kept, FollowsBut, WindowsFollow, QueuesFollow, Continued,
                     Spared, Exists

LEMMA PointedServes ==
  ASSUME NEW u, Coherent(u), NEW v, Pointed(u, v), NEW o
  PROVE  Served(u, v, o)
BY PointedKept, KeptServes DEF Coherent

LEMMA HeardServes ==
  ASSUME NEW u, Coherent(u), NEW v, Heard(u, v), NEW o
  PROVE  Served(u, v, o)
BY HeardPoints, PointedServes DEF Coherent

LEMMA CloseServes ==
  ASSUME NEW u, Coherent(u), NEW id \in Ids
  PROVE  Served(u, CloseWindow(u, id), Owner[id])
<1>1. Kept(u, CloseWindow(u, id), WindowsOf(Owner[id]))
  BY CloseKeeps DEF Coherent
<1>. QED BY <1>1, KeptServes

LEMMA EmitServes ==
  ASSUME NEW u, Coherent(u), NEW id \in Ids, NEW class \in Quiet \union {"Invalid"}, NEW o
  PROVE  Served(u, Emit(u, id, class), o)
BY EmitKeeps, HeardServes DEF Coherent

LEMMA HoverServes ==
  ASSUME NEW u, Coherent(u), NEW next \in Hover \union {None}, NEW o
  PROVE  Served(u, SetHover(u, next), o)
BY SetHoverKeeps, PointedServes DEF Coherent

\* The fields that no invariant is about, the history, and a capture given up.
LEMMA StillServes ==
  ASSUME NEW u, Coherent(u), NEW v, DOMAIN v = Fields,
         v.windows = u.windows, v.stack = u.stack, v.events = u.events,
         v.overflowed = u.overflowed, v.history \in Seq(Ids),
         v.capture = u.capture \/ v.capture = None,
         v.focus = u.focus, v.hover = u.hover,
         v.told_focus = u.told_focus, v.told_hover = u.told_hover, NEW o
  PROVE  Served(u, v, o)
<1>1. Base(v) /\ Follows(u, v)
  BY StillKeeps DEF Coherent, Base, Typed
<1>2. Pointed(u, v)
  BY <1>1 DEF Pointed, Coherent, FocusHeard, HoverHeard
<1>. QED BY <1>2, PointedServes

\* Revisions, scenes and visibility of the windows of one owner.
LEMMA AmendedKeeps ==
  ASSUME NEW u, Coherent(u), NEW v, NEW windows, NEW o, v = [u EXCEPT !.windows = windows],
         WindowsTyped(windows), DOMAIN windows = DOMAIN u.windows,
         \A x \in DOMAIN windows : /\ windows[x].parent = u.windows[x].parent
                                   /\ Owner[x] # o => windows[x] = u.windows[x]
  PROVE  /\ Base(v) /\ FocusHeard(v) /\ HoverHeard(v) /\ Continued(u, v, {}) /\ Spared(u, v, o)
         /\ v.windows = windows /\ v.capture = u.capture
         /\ (\A x \in DOMAIN windows : u.windows[x].visible => windows[x].visible) =>
              Served(u, v, o)
<1>1. /\ DOMAIN v = Fields /\ v.windows = windows /\ v.stack = u.stack /\ v.events = u.events
      /\ v.overflowed = u.overflowed /\ v.history = u.history /\ v.capture = u.capture
      /\ v.focus = u.focus /\ v.hover = u.hover /\ v.told_focus = u.told_focus
      /\ v.told_hover = u.told_hover
  BY DEF Coherent, Base, Typed, Fields
<1>2. Typed(v)
  BY <1>1 DEF Coherent, Base, Typed
<1>3. Families(v.windows) /\ Stacked(v.windows, v.stack)
  BY <1>1 DEF Coherent, Base, Families, Stacked
<1>4. FocusHeard(v) /\ HoverHeard(v)
  BY <1>1 DEF Coherent, FocusHeard, HoverHeard
<1>5. ASSUME \A x \in DOMAIN windows : u.windows[x].visible => windows[x].visible,
             NEW c, EffectivelyVisible(u, c)
      PROVE  EffectivelyVisible(v, c)
  BY <1>1, <1>5 DEF EffectivelyVisible, Closed, Exists
<1>6. (\A x \in DOMAIN windows : u.windows[x].visible => windows[x].visible) => CaptureSeen(v)
  BY <1>1, <1>5 DEF Coherent, CaptureSeen
<1>7. Continued(u, v, {})
  BY <1>1, ServedSelf DEF Served, Continued
<1>8. Spared(u, v, o)
  BY <1>1 DEF Spared, Exists
<1>. QED BY <1>1, <1>2, <1>3, <1>4, <1>6, <1>7, <1>8 DEF Served, Coherent, Base

LEMMA RestackedKeeps ==
  ASSUME NEW u, Base(u), FocusHeard(u), NEW stack \in Seq(Ids), Stacked(u.windows, stack),
         NEW v, v = [u EXCEPT !.stack = stack]
  PROVE  Heard(u, v) /\ v.windows = u.windows
<1>1. /\ DOMAIN v = Fields /\ v.windows = u.windows /\ v.stack = stack /\ v.events = u.events
      /\ v.overflowed = u.overflowed /\ v.history = u.history /\ v.capture = u.capture
      /\ v.focus = u.focus /\ v.hover = u.hover /\ v.told_focus = u.told_focus
      /\ v.told_hover = u.told_hover
  BY DEF Base, Typed, Fields
<1>2. Base(v)
  BY <1>1 DEF Base, Typed
<1>3. FollowsBut(u, u, {})
  BY FollowsSelf DEF Base
<1>4. Follows(u, v)
  BY <1>1, <1>3 DEF Follows, FollowsBut, WindowsFollow, QueuesFollow, CaptureFollows
<1>. QED BY <1>1, <1>2, <1>4 DEF Heard, FocusHeard

LEMMA RaiseKeeps ==
  ASSUME NEW u, Base(u), FocusHeard(u), NEW id \in DOMAIN u.windows
  PROVE  Heard(u, RaiseGroup(u, id))
<1>. DEFINE raised == Only(u.stack, Ids \ Group(u, id)) \o Only(u.stack, Group(u, id))
<1>1. raised \in Seq(Ids) /\ Stacked(u.windows, raised)
  BY StackedRaised
<1>2. RaiseGroup(u, id) = [u EXCEPT !.stack = raised]
  BY DEF RaiseGroup
<1>. HIDE DEF raised
<1>. QED BY <1>1, <1>2, RestackedKeeps

LEMMA LowerKeeps ==
  ASSUME NEW u, Base(u), FocusHeard(u), NEW id \in DOMAIN u.windows
  PROVE  Heard(u, LowerGroup(u, id))
<1>. DEFINE v == LowerGroup(u, id)
<1>1. v.stack \in Seq(Ids) /\ Stacked(u.windows, v.stack)
  BY StackedLowered
<1>2. \E stack : v = [u EXCEPT !.stack = stack]
  BY DEF LowerGroup
<1>. HIDE DEF v
<1>3. PICK stack : v = [u EXCEPT !.stack = stack]
  BY <1>2
<1>4. v.stack = stack
  BY <1>3 DEF Base, Typed, Fields
<1>5. Heard(u, v)
  BY <1>1, <1>3, <1>4, RestackedKeeps
<1>. QED BY <1>5 DEF v

LEMMA RequestFocusKeeps ==
  ASSUME NEW u, Base(u), FocusHeard(u), NEW id \in DOMAIN u.windows
  PROVE  Heard(u, RequestFocus(u, id))
<1>. DEFINE r == RaiseGroup(u, id)
            listed == Append(Only(r.history, Ids \ {id}), id)
            w == [r EXCEPT !.history = listed]
<1>1. Heard(u, r)
  BY RaiseKeeps
<1>2. RequestFocus(u, id) = ChangeFocus(w, id)
  BY DEF RequestFocus
<1>3. id \in Ids
  BY DEF Base, Typed, WindowsTyped
<1>. HIDE DEF r
<1>4. listed \in Seq(Ids)
  <2>1. Only(r.history, Ids \ {id}) \in Seq(Ids)
    BY <1>1, OnlyProperties DEF Heard, Base, Typed
  <2>. QED BY <1>3, <2>1, AppendProperties
<1>. HIDE DEF listed
<1>5. /\ DOMAIN w = Fields /\ w.windows = r.windows /\ w.stack = r.stack /\ w.events = r.events
      /\ w.overflowed = r.overflowed /\ w.history = listed /\ w.capture = r.capture
      /\ w.focus = r.focus /\ w.hover = r.hover /\ w.told_focus = r.told_focus
      /\ w.told_hover = r.told_hover
  BY <1>1 DEF Heard, Base, Typed, Fields
<1>. HIDE DEF w
<1>6. Base(w) /\ Follows(r, w)
  BY <1>1, <1>4, <1>5, StillKeeps DEF Heard, Base, Typed
<1>7. Heard(r, w)
  BY <1>1, <1>5, <1>6 DEF Heard, FocusHeard
<1>8. Heard(w, ChangeFocus(w, id))
  BY <1>3, <1>7, ChangeFocusKeeps DEF Heard
<1>9. Heard(u, w)
  BY <1>1, <1>7, HeardOnward
<1>. QED BY <1>2, <1>8, <1>9, HeardOnward

LEMMA RequestFocusServes ==
  ASSUME NEW u, Coherent(u), NEW id, Eligible(u, id), NEW o
  PROVE  Served(u, RequestFocus(u, id), o)
<1>1. id \in DOMAIN u.windows
  BY DEF Eligible, EffectivelyVisible
<1>. QED BY <1>1, RequestFocusKeeps, HeardServes DEF Coherent

\* A window whose revision is counted.
LEMMA CountedServes ==
  ASSUME NEW u, Coherent(u), NEW id \in DOMAIN u.windows, NEW next \in 1..MaxRevision
  PROVE  Served(u, [u EXCEPT !.windows[id].revision = next], Owner[id])
<1>. DEFINE windows == [u.windows EXCEPT ![id].revision = next]
            v == [u EXCEPT !.windows[id].revision = next]
<1>1. v = [u EXCEPT !.windows = windows]
  OBVIOUS
<1>2. WindowsTyped(u.windows)
  BY DEF Coherent, Base, Typed
<1>3. /\ DOMAIN windows = DOMAIN u.windows
      /\ \A x \in DOMAIN u.windows : x # id => windows[x] = u.windows[x]
      /\ windows[id].parent = u.windows[id].parent
      /\ windows[id].visible = u.windows[id].visible
      /\ windows[id].mode = u.windows[id].mode
      /\ windows[id] \in Window
  BY <1>2 DEF WindowsTyped, Window
<1>. HIDE DEF windows, v
<1>4. WindowsTyped(windows)
  BY <1>2, <1>3 DEF WindowsTyped
<1>5. \A x \in DOMAIN windows : /\ windows[x].parent = u.windows[x].parent
                                /\ u.windows[x].visible => windows[x].visible
                                /\ Owner[x] # Owner[id] => windows[x] = u.windows[x]
  BY <1>3
<1>. QED BY <1>1, <1>3, <1>4, <1>5, AmendedKeeps DEF v

LEMMA GestureServes ==
  ASSUME NEW u, Coherent(u), NEW id \in DOMAIN u.windows, NEW settled
  PROVE  Served(u, Gesture(u, id, settled), Owner[id])
<1>1. id \in Ids /\ u.windows[id].revision \in 1..MaxRevision
  BY DEF Coherent, Base, Typed, WindowsTyped, Window
<1>2. CASE u.windows[id].revision = MaxRevision
  BY <1>1, <1>2, CloseServes DEF Gesture
<1>3. CASE u.windows[id].revision # MaxRevision
  <2>. DEFINE next == u.windows[id].revision + 1
              w == [u EXCEPT !.windows[id].revision = next]
              class == IF settled THEN "Notice" ELSE "Unsettled"
  <2>1. next \in 1..MaxRevision
    BY <1>1, <1>3, OverlayAssumption
  <2>2. Gesture(u, id, settled) = Emit(w, id, class)
    BY <1>3 DEF Gesture
  <2>3. class \in Quiet \union {"Invalid"}
    BY DEF Quiet
  <2>. HIDE DEF next, class
  <2>4. Served(u, w, Owner[id])
    BY <2>1, CountedServes
  <2>. HIDE DEF w
  <2>5. Served(w, Emit(w, id, class), Owner[id])
    BY <1>1, <2>3, <2>4, EmitServes DEF Served
  <2>. QED BY <2>2, <2>4, <2>5, ServedOnward
<1>. QED BY <1>2, <1>3

(***************************************************************************)
(* The steps of the calls.                                                 *)
(***************************************************************************)
LEMMA MadeServes ==
  ASSUME NEW u, Coherent(u), NEW id \in Ids, NEW shape \in Shapes[id], NEW visible \in BOOLEAN,
         Creatable(u, id, shape, visible), NEW v,
         v = [u EXCEPT
                !.windows = With(u.windows, id, [mode |-> shape.mode, parent |-> shape.parent,
                                       visible |-> visible, revision |-> 1, scene |-> 0]),
                !.events = IF Owner[id] \in DOMAIN u.events THEN u.events
                                                       ELSE With(u.events, Owner[id], <<>>),
                !.stack = Append(u.stack, id)]
  PROVE  Served(u, v, Owner[id])
<1>. DEFINE o == Owner[id]
            window == [mode |-> shape.mode, parent |-> shape.parent,
                       visible |-> visible, revision |-> 1, scene |-> 0]
<1>1. /\ o \in Owners /\ shape \in WindowShape
      /\ MaxRevision \in Nat \ {0} /\ MaxScene \in Nat /\ MaxPending \in Nat
  BY OverlayAssumption
<1>2. /\ window \in Window /\ window.parent = shape.parent
      /\ [mode |-> window.mode, parent |-> window.parent] = shape
  BY <1>1 DEF Window, WindowShape
<1>3. /\ id \notin DOMAIN u.windows /\ o \notin u.overflowed
      /\ shape.parent # None =>
           shape.parent \in DOMAIN u.windows /\ Owner[shape.parent] = o
  BY DEF Creatable, HasRoom, Exists
<1>. HIDE DEF window, o
<1>4. /\ DOMAIN v = Fields /\ v.windows = With(u.windows, id, window)
      /\ v.events = IF o \in DOMAIN u.events THEN u.events ELSE With(u.events, o, <<>>)
      /\ v.stack = Append(u.stack, id)
      /\ v.overflowed = u.overflowed /\ v.history = u.history /\ v.capture = u.capture
      /\ v.focus = u.focus /\ v.hover = u.hover /\ v.told_focus = u.told_focus
      /\ v.told_hover = u.told_hover
  BY DEF Coherent, Base, Typed, Fields, window, o
<1>5. /\ DOMAIN v.windows = DOMAIN u.windows \union {id} /\ v.windows[id] = window
      /\ \A x \in DOMAIN u.windows : v.windows[x] = u.windows[x]
  BY <1>3, <1>4 DEF With
<1>6. /\ DOMAIN v.events = DOMAIN u.events \union {o}
      /\ \A x \in DOMAIN u.events : v.events[x] = u.events[x]
      /\ o \notin DOMAIN u.events => v.events[o] = <<>>
  BY <1>4 DEF With
<1>7. WindowsTyped(v.windows)
  BY <1>2, <1>5 DEF WindowsTyped, Coherent, Base, Typed
<1>8. EventsTyped(v.events)
  <2>1. <<>> \in Seq(Event) /\ Len(<<>>) = 0 /\ 0 <= MaxPending
    BY <1>1
  <2>2. EventsTyped(u.events)
    BY DEF Coherent, Base, Typed
  <2>3. ASSUME NEW x \in DOMAIN v.events
        PROVE  v.events[x] \in Seq(Event) /\ Len(v.events[x]) <= MaxPending
    <3>1. CASE x \in DOMAIN u.events
      BY <1>6, <2>2, <3>1 DEF EventsTyped
    <3>2. CASE x \notin DOMAIN u.events
      <4>1. v.events[x] = <<>>
        BY <1>6, <2>3, <3>2
      <4>. QED BY <2>1, <4>1
    <3>. QED BY <3>1, <3>2
  <2>. QED BY <1>1, <1>6, <2>2, <2>3 DEF EventsTyped
<1>9. v.stack \in Seq(Ids)
  BY <1>4, AppendProperties DEF Coherent, Base, Typed
<1>10. Typed(v)
  BY <1>3, <1>4, <1>6, <1>7, <1>8, <1>9 DEF Typed, Coherent, Base
<1>11. Families(v.windows)
  BY <1>2, <1>3, <1>5 DEF Families, Coherent, Base, o
<1>12. Stacked(v.windows, v.stack)
  <2>1. Stacked(u.windows, u.stack) /\ u.stack \in Seq(Ids)
    BY DEF Coherent, Base, Typed
  <2>2. v.windows[id].parent # None => v.windows[id].parent \in DOMAIN u.windows
    BY <1>2, <1>3, <1>5
  <2>3. \A x \in DOMAIN u.windows : v.windows[x].parent = u.windows[x].parent
    BY <1>5
  <2>4. Stacked(v.windows, Append(u.stack, id))
    BY <1>3, <1>5, <2>1, <2>2, <2>3, StackedAppend
  <2>. QED BY <1>4, <2>4
<1>13. FocusHeard(v) /\ HoverHeard(v)
  BY <1>4 DEF Coherent, FocusHeard, HoverHeard
<1>14. ASSUME NEW c, EffectivelyVisible(u, c) PROVE EffectivelyVisible(v, c)
  BY <1>5, <1>14 DEF EffectivelyVisible, Closed, Exists
<1>15. CaptureSeen(v)
  BY <1>4, <1>14 DEF Coherent, CaptureSeen
<1>16. Continued(u, v, {})
  <2>1. \A x \in DOMAIN u.events : Extends(u.events[x], u.events[x], {})
    BY ServedSelf DEF Served, Continued
  <2>2. Extends(<<>>, <<>>, {})
    BY DEF Extends
  <2>. QED BY <1>4, <1>6, <2>1, <2>2 DEF Continued
<1>17. Spared(u, v, Owner[id])
  BY <1>5 DEF Spared, Exists
<1>. QED BY <1>10, <1>11, <1>12, <1>13, <1>15, <1>16, <1>17 DEF Served, Coherent, Base

\* A window that is shown stays so for whoever captured the pointer; one that
\* is hidden takes its family's capture with it.
LEMMA UpdatedServes ==
  ASSUME NEW u, Coherent(u), NEW id \in DOMAIN u.windows, NEW visible \in BOOLEAN,
         NEW next \in 1..MaxRevision, NEW v,
         v = [u EXCEPT !.windows[id].visible = visible, !.windows[id].revision = next]
  PROVE  /\ (u.windows[id].visible => visible) => Served(u, v, Owner[id])
         /\ ~visible => Served(u, Hide(v, id), Owner[id])
<1>. DEFINE windows == [u.windows EXCEPT ![id] = [@ EXCEPT !.visible = visible,
                                                          !.revision = next]]
<1>1. WindowsTyped(u.windows) /\ id \in Ids
  BY DEF Coherent, Base, Typed, WindowsTyped
<1>2. v = [u EXCEPT !.windows = windows]
  BY <1>1 DEF WindowsTyped, Window, Coherent, Base, Typed, Fields
<1>3. /\ DOMAIN windows = DOMAIN u.windows
      /\ \A x \in DOMAIN u.windows : x # id => windows[x] = u.windows[x]
      /\ windows[id].parent = u.windows[id].parent
      /\ windows[id].visible = visible
      /\ windows[id].mode = u.windows[id].mode
      /\ windows[id] \in Window
  BY <1>1 DEF WindowsTyped, Window
<1>. HIDE DEF windows
<1>4. WindowsTyped(windows)
  BY <1>1, <1>3 DEF WindowsTyped
<1>5. \A x \in DOMAIN windows : /\ windows[x].parent = u.windows[x].parent
                                /\ Owner[x] # Owner[id] => windows[x] = u.windows[x]
  BY <1>3
<1>6. /\ Base(v) /\ FocusHeard(v) /\ HoverHeard(v)
      /\ Continued(u, v, {}) /\ Spared(u, v, Owner[id])
      /\ v.windows = windows /\ v.capture = u.capture
      /\ (\A x \in DOMAIN windows : u.windows[x].visible => windows[x].visible) =>
           Served(u, v, Owner[id])
  <2>1. DOMAIN windows = DOMAIN u.windows
    BY <1>3
  <2>2. PICK o : o = Owner[id]
    OBVIOUS
  <2>3. \A x \in DOMAIN windows : /\ windows[x].parent = u.windows[x].parent
                                  /\ Owner[x] # o => windows[x] = u.windows[x]
    BY <1>5, <2>2
  <2>4. /\ Base(v) /\ FocusHeard(v) /\ HoverHeard(v) /\ Continued(u, v, {}) /\ Spared(u, v, o)
        /\ v.windows = windows /\ v.capture = u.capture
        /\ (\A x \in DOMAIN windows : u.windows[x].visible => windows[x].visible) =>
             Served(u, v, o)
    BY <1>2, <1>4, <2>1, <2>3, AmendedKeeps
  <2>. QED BY <2>2, <2>4
<1>7. (u.windows[id].visible => visible) => Served(u, v, Owner[id])
  BY <1>3, <1>6
<1>8. ASSUME u.capture # None
      PROVE  \/ EffectivelyVisible(v, u.capture.window)
             \/ u.capture.window \in DOMAIN v.windows /\ Descends(v, u.capture.window, id)
  <2>. DEFINE c == u.capture.window
  <2>1. PICK line \in SUBSET {x \in DOMAIN u.windows : u.windows[x].visible} :
          c \in line /\ Closed(u, line)
    BY <1>8 DEF Coherent, CaptureSeen, EffectivelyVisible
  <2>2. CASE Descends(v, c, id)
    BY <1>3, <1>6, <2>1, <2>2
  <2>3. CASE ~Descends(v, c, id)
    <3>1. PICK apart \in SUBSET Ids : c \in apart /\ Closed(v, apart) /\ id \notin apart
      BY <2>3 DEF Descends
    <3>. DEFINE both == line \intersect apart
    <3>2. both \in SUBSET {x \in DOMAIN v.windows : v.windows[x].visible} /\ c \in both
      BY <1>3, <1>6, <2>1, <3>1
    <3>3. Closed(v, both)
      BY <1>3, <1>6, <2>1, <3>1 DEF Closed, Exists
    <3>. QED BY <3>2, <3>3 DEF EffectivelyVisible
  <2>. QED BY <2>2, <2>3
<1>9. Heard(v, Hide(v, id)) /\ CaptureSeen(Hide(v, id))
  BY <1>1, <1>6, <1>8, HideKeeps
<1>10. Served(u, Hide(v, id), Owner[id])
  <2>1. Kept(v, Hide(v, id), {})
    BY <1>6, <1>9, HeardPoints DEF Pointed, Kept, Follows
  <2>2. Continued(v, Hide(v, id), {}) /\ Spared(v, Hide(v, id), Owner[id])
    BY <2>1 DEF Kept, FollowsBut, WindowsFollow, QueuesFollow, Continued, Spared, Exists
  <2>3. Base(u) /\ Base(Hide(v, id))
    BY <2>1 DEF Kept, Coherent
  <2>4. Continued(u, Hide(v, id), {}) /\ Spared(u, Hide(v, id), Owner[id])
    <3>1. Continued(u, Hide(v, id), {})
      BY <1>6, <2>2, <2>3, ContinuedOnward
    <3>2. Spared(u, Hide(v, id), Owner[id])
      BY <1>6, <2>2 DEF Spared, Continued, Exists
    <3>. QED BY <3>1, <3>2
  <2>. QED BY <1>9, <2>1, <2>4 DEF Served, Coherent, Kept
<1>. QED BY <1>7, <1>10

LEMMA CreateServes ==
  ASSUME Coherent(ui), NEW id \in Ids, NEW shape \in Shapes[id], NEW visible \in BOOLEAN,
         Create(id, shape, visible)
  PROVE  Served(ui, ui', Owner[id])
<1>1. CASE ~Creatable(ui, id, shape, visible)
  <2>1. ui' = ui
    BY <1>1 DEF Create, Refuses
  <2>. QED BY <2>1, ServedSelf
<1>2. CASE Creatable(ui, id, shape, visible)
  <2>1. PICK made : made = [ui EXCEPT
                !.windows = With(ui.windows, id, [mode |-> shape.mode, parent |-> shape.parent,
                                       visible |-> visible, revision |-> 1, scene |-> 0]),
                !.events = IF Owner[id] \in DOMAIN ui.events THEN ui.events
                                                       ELSE With(ui.events, Owner[id], <<>>),
                !.stack = Append(ui.stack, id)]
    OBVIOUS
  <2>2. ui' = made \/ (Eligible(made, id) /\ ui' = RequestFocus(made, id))
    BY <1>2, <2>1 DEF Create, WithFocus, Returns
  <2>3. Served(ui, made, Owner[id])
    BY <1>2, <2>1, MadeServes
  <2>4. Eligible(made, id) => Served(made, RequestFocus(made, id), Owner[id])
    BY <2>3, RequestFocusServes DEF Served
  <2>. QED BY <2>2, <2>3, <2>4, ServedOnward
<1>. QED BY <1>1, <1>2

LEMMA UpdateServes ==
  ASSUME Coherent(ui), NEW id \in Ids, NEW expected \in 1..MaxRevision, NEW visible \in BOOLEAN,
         Update(id, expected, visible)
  PROVE  Served(ui, ui', Owner[id])
<1>1. CASE ~Updatable(ui, id, expected, visible)
  <2>1. ui' = ui
    BY <1>1 DEF Update, Refuses
  <2>. QED BY <2>1, ServedSelf
<1>2. CASE Updatable(ui, id, expected, visible)
  <2>1. PICK changed : changed = [ui EXCEPT !.windows[id].visible = visible,
                                            !.windows[id].revision = expected + 1]
    OBVIOUS
  <2>2. \/ ui' = changed /\ (ui.windows[id].visible => visible)
        \/ ui' = RequestFocus(changed, id) /\ Eligible(changed, id) /\ visible
        \/ ui' = Hide(changed, id) /\ ~visible
    BY <1>2, <2>1 DEF Update, WithFocus, Returns
  <2>3. id \in DOMAIN ui.windows /\ expected + 1 \in 1..MaxRevision
    BY <1>2, OverlayAssumption DEF Updatable, Current, Exists
  <2>4. /\ (ui.windows[id].visible => visible) => Served(ui, changed, Owner[id])
        /\ ~visible => Served(ui, Hide(changed, id), Owner[id])
    BY <2>1, <2>3, UpdatedServes
  <2>5. visible /\ Eligible(changed, id) =>
          Served(changed, RequestFocus(changed, id), Owner[id])
    BY <2>4, RequestFocusServes DEF Served
  <2>6. visible /\ Eligible(changed, id) => Served(ui, RequestFocus(changed, id), Owner[id])
    BY <2>4, <2>5, ServedOnward
  <2>. QED BY <2>2, <2>4, <2>6
<1>. QED BY <1>1, <1>2

LEMMA ActedServes ==
  ASSUME NEW u, Coherent(u), NEW id \in DOMAIN u.windows, NEW action, Permitted(u, id, action),
         action \in {"Focus", "Raise", "Lower", "Center"}
  PROVE  Served(u, Acted(u, id, action), Owner[id])
<1>1. CASE action = "Focus"
  BY <1>1, RequestFocusServes DEF Permitted, Acted
<1>2. CASE action = "Raise"
  BY <1>2, RaiseKeeps, HeardServes DEF Coherent, Acted
<1>3. CASE action = "Lower"
  BY <1>3, LowerKeeps, HeardServes DEF Coherent, Acted
<1>4. CASE action = "Center"
  BY <1>4, ServedSelf DEF Acted
<1>. QED BY <1>1, <1>2, <1>3, <1>4

LEMMA ApplyActionServes ==
  ASSUME Coherent(ui), NEW id \in Ids, NEW expected \in 1..MaxRevision,
         NEW action \in {"Close", "Focus", "Raise", "Lower", "Center"},
         ApplyAction(id, expected, action)
  PROVE  Served(ui, ui', Owner[id])
<1>1. CASE ui' = ui
  BY <1>1, ServedSelf
<1>2. CASE ui' = CloseWindow(ui, id)
  BY <1>2, CloseServes
<1>3. CASE /\ Current(ui, id, expected) /\ action # "Close"
           /\ expected < MaxRevision /\ Permitted(ui, id, action)
           /\ Completes(Acted(ui, id, action), id, expected + 1, action)
  <2>1. PICK acted : acted = Acted(ui, id, action)
    OBVIOUS
  <2>2. Served(ui, acted, Owner[id])
    BY <1>3, <2>1, ActedServes DEF Current, Exists
  <2>3. expected + 1 \in 1..MaxRevision
    BY <1>3, OverlayAssumption
  <2>4. PICK counted : counted = [acted EXCEPT !.windows[id].revision = expected + 1]
    OBVIOUS
  <2>5. \/ ui' = acted
        \/ Exists(acted, id) /\ ui' \in {counted, Emit(counted, id, "Notice")}
    BY <1>3, <2>1, <2>4 DEF Completes, Returns
  <2>6. Exists(acted, id) => Served(acted, counted, Owner[id])
    BY <2>2, <2>3, <2>4, CountedServes DEF Served, Exists
  <2>7. Exists(acted, id) => Served(ui, counted, Owner[id])
    BY <2>2, <2>6, ServedOnward
  <2>8. Exists(acted, id) => Served(counted, Emit(counted, id, "Notice"), Owner[id])
    BY <2>6, EmitServes DEF Served, Quiet
  <2>9. Exists(acted, id) => Served(ui, Emit(counted, id, "Notice"), Owner[id])
    BY <2>7, <2>8, ServedOnward
  <2>. QED BY <2>2, <2>5, <2>7, <2>9
<1>. QED BY <1>1, <1>2, <1>3 DEF ApplyAction, Returns, Refuses

LEMMA CapturedServes ==
  ASSUME NEW u, Coherent(u), NEW id, EffectivelyVisible(u, id), NEW gesture \in BOOLEAN,
         NEW region \in Regions \union {0}, NEW o, NEW v,
         v = [u EXCEPT !.capture = [window |-> id, gesture |-> gesture, region |-> region]]
  PROVE  Served(u, v, o)
<1>. DEFINE c == [window |-> id, gesture |-> gesture, region |-> region]
<1>1. id \in Ids
  BY DEF EffectivelyVisible, Coherent, Base, Typed, WindowsTyped
<1>2. c \in Capture /\ c.window = id
  BY <1>1 DEF Capture
<1>. HIDE DEF c
<1>3. /\ DOMAIN v = Fields /\ v.windows = u.windows /\ v.stack = u.stack /\ v.events = u.events
      /\ v.overflowed = u.overflowed /\ v.history = u.history /\ v.capture = c
      /\ v.focus = u.focus /\ v.hover = u.hover /\ v.told_focus = u.told_focus
      /\ v.told_hover = u.told_hover
  BY DEF Coherent, Base, Typed, Fields, c
<1>4. Base(v) /\ FocusHeard(v) /\ HoverHeard(v)
  BY <1>2, <1>3 DEF Coherent, Base, Typed, FocusHeard, HoverHeard
<1>5. EffectivelyVisible(v, id)
  BY <1>3 DEF EffectivelyVisible, Closed, Exists
<1>6. Continued(u, v, {}) /\ Spared(u, v, o)
  BY <1>3, ServedSelf DEF Served, Continued, Spared, Exists
<1>. QED BY <1>2, <1>3, <1>4, <1>5, <1>6 DEF Served, Coherent, CaptureSeen

\* The capture stays or is given up, without a word to its window.
LEMMA FreedServes ==
  ASSUME NEW u, Coherent(u), NEW o, NEW v, NEW c \in {None, u.capture},
         v = [u EXCEPT !.capture = c]
  PROVE  Served(u, v, o)
<1>1. /\ DOMAIN v = Fields /\ v.windows = u.windows /\ v.stack = u.stack /\ v.events = u.events
      /\ v.overflowed = u.overflowed /\ v.history = u.history /\ v.capture = c
      /\ v.focus = u.focus /\ v.hover = u.hover /\ v.told_focus = u.told_focus
      /\ v.told_hover = u.told_hover
  BY DEF Coherent, Base, Typed, Fields
<1>. QED BY <1>1, StillServes DEF Coherent, Base, Typed

LEMMA CapturePointerServes ==
  ASSUME Coherent(ui), NEW id \in Ids, CapturePointer(id) \/ ReleasePointer(id)
  PROVE  Served(ui, ui', Owner[id])
<1>1. CASE CapturePointer(id)
  <2>1. \/ ui' = ui
        \/ /\ EffectivelyVisible(ui, id)
           /\ ui' = [ui EXCEPT !.capture = [window |-> id, gesture |-> FALSE, region |-> 0]]
    BY <1>1 DEF CapturePointer, Returns, Refuses, Eligible
  <2>. QED BY <2>1, ServedSelf, CapturedServes
<1>2. CASE ReleasePointer(id)
  <2>1. ui' = [ui EXCEPT !.capture = None] \/ ui' = [ui EXCEPT !.capture = ui.capture]
    BY <1>2 DEF ReleasePointer, Returns
  <2>. QED BY <2>1, FreedServes
<1>. QED BY <1>1, <1>2

\* What a session asks serves every other.
LEMMA SessionServes ==
  ASSUME Coherent(ui), NEW id \in Ids, SessionCall(id)
  PROVE  Served(ui, ui', Owner[id])
BY CreateServes, UpdateServes, ApplyActionServes, CapturePointerServes DEF SessionCall

LEMMA PublishSceneServes ==
  ASSUME Coherent(ui), NEW id \in Ids, SceneCall(id)
  PROVE  Served(ui, ui', Owner[id])
<1>1. PICK scene \in 1..MaxScene : PublishScene(id, scene)
  BY DEF SceneCall
<1>2. CASE ui' = ui
  BY <1>2, ServedSelf
<1>3. CASE id \in DOMAIN ui.windows /\ ui' = [ui EXCEPT !.windows[id].scene = scene]
  <2>1. PICK windows : windows = [ui.windows EXCEPT ![id].scene = scene]
    OBVIOUS
  <2>2. ui' = [ui EXCEPT !.windows = windows]
    BY <1>3, <2>1
  <2>3. WindowsTyped(ui.windows)
    BY DEF Coherent, Base, Typed
  <2>4. /\ DOMAIN windows = DOMAIN ui.windows
        /\ \A x \in DOMAIN ui.windows : x # id => windows[x] = ui.windows[x]
        /\ windows[id].parent = ui.windows[id].parent
        /\ windows[id].visible = ui.windows[id].visible
        /\ windows[id].mode = ui.windows[id].mode
        /\ windows[id] \in Window
    <3>1. ui.windows[id] \in Window /\ scene \in 0..MaxScene
      <4>1. MaxScene \in Nat
        BY OverlayAssumption
      <4>2. scene \in 0..MaxScene
        BY <4>1
      <4>. QED BY <1>3, <2>3, <4>2 DEF WindowsTyped
    <3>2. windows[id] = [ui.windows[id] EXCEPT !.scene = scene]
      BY <1>3, <2>1
    <3>. QED BY <1>3, <2>1, <3>1, <3>2 DEF Window
  <2>5. WindowsTyped(windows)
    BY <2>3, <2>4 DEF WindowsTyped
  <2>6. PICK o : o = Owner[id]
    OBVIOUS
  <2>7. \A x \in DOMAIN windows : /\ windows[x].parent = ui.windows[x].parent
                                  /\ ui.windows[x].visible => windows[x].visible
                                  /\ Owner[x] # o => windows[x] = ui.windows[x]
    BY <2>4, <2>6
  <2>. QED BY <2>2, <2>4, <2>5, <2>6, <2>7, AmendedKeeps
<1>. QED BY <1>1, <1>2, <1>3 DEF PublishScene, Returns, Refuses, Exists

\* What a call of the host leaves.
Passed(u, v, heard) == Coherent(v) /\ Continued(u, v, heard)

LEMMA ServedPassed ==
  ASSUME NEW u, NEW v, NEW o, Served(u, v, o), NEW heard
  PROVE  Passed(u, v, heard)
  BY DEF Served, Passed, Continued, Extends

\* A key, a button, the wheel or motion is sent.
LEMMA EmitPasses ==
  ASSUME NEW u, Coherent(u), NEW id \in Ids, NEW class \in Quiet \union Loud \union {"Invalid"},
         NEW heard, id \in heard
  PROVE  Passed(u, Emit(u, id, class), heard)
<1>. DEFINE s == Send(u, id, class)
<1>1. CASE class \in Quiet \union {"Invalid"}
  BY <1>1, EmitServes, ServedPassed
<1>2. CASE class \in Loud /\ Receives(u, id) /\ Full(Queue(u, id, class))
  <2>1. s = Send(u, id, "Invalid")
    BY <1>2 DEF Send
  <2>. HIDE DEF s
  <2>2. Emit(u, id, class) = Emit(u, id, "Invalid")
    BY <2>1 DEF Emit, s
  <2>. QED BY <2>2, EmitServes, ServedPassed
<1>3. CASE class \in Loud /\ ~Receives(u, id)
  <2>1. s = u
    BY <1>3 DEF Send, Loud
  <2>. HIDE DEF s
  <2>2. Emit(u, id, class) = u
    BY <2>1 DEF Emit, Refocus, s
  <2>. QED BY <2>2, ServedSelf, ServedPassed
<1>4. CASE class \in Loud /\ Receives(u, id) /\ ~Full(Queue(u, id, class))
  <2>1. Enqueued(u, s, id, heard)
    BY <1>4, QueuedKeeps DEF Coherent
  <2>. HIDE DEF s
  <2>2. Emit(u, id, class) = s
    BY <2>1 DEF Emit, Refocus, Enqueued, s
  <2>3. Coherent(s)
    BY <2>1 DEF Enqueued, Coherent, FocusHeard, HoverHeard, CaptureSeen, EffectivelyVisible,
                Closed, Exists
  <2>4. Continued(u, s, heard)
    BY <2>1 DEF Enqueued, Continued
  <2>. QED BY <2>2, <2>3, <2>4 DEF Passed
<1>. QED BY <1>1, <1>2, <1>3, <1>4

LEMMA PassedOnward ==
  ASSUME NEW u, Coherent(u), NEW v, NEW w, NEW heard,
         Passed(u, v, heard), Passed(v, w, heard)
  PROVE  Passed(u, w, heard)
  BY ContinuedOnward DEF Passed, Coherent

\* The windows that a modal lets hear the user.
Able(u) == {id \in Ids : Eligible(u, id)}

LEMMA TargetIn ==
  ASSUME NEW u, Coherent(u), NEW hits
  PROVE  TargetAt(u, hits) = None \/
           /\ TargetAt(u, hits) \in Ids /\ Eligible(u, TargetAt(u, hits))
           /\ EffectivelyVisible(u, TargetAt(u, hits))
<1>1. TargetAt(u, hits) = None \/ TargetAt(u, hits) \in {id \in hits : Eligible(u, id)}
  BY ForemostIn DEF TargetAt, Coherent
<1>2. \A id : Eligible(u, id) => EffectivelyVisible(u, id) /\ id \in Ids
  BY DEF Eligible, EffectivelyVisible, Coherent, Base, Typed, WindowsTyped
<1>. QED BY <1>1, <1>2

LEMMA PopupIn ==
  ASSUME NEW u, Coherent(u)
  PROVE  ForemostPopup(u) = None \/ ForemostPopup(u) \in Ids
BY ForemostIn DEF ForemostPopup, Coherent

LEMMA HoverAtServes ==
  ASSUME NEW u, Coherent(u), NEW hits, NEW region \in Regions, NEW o
  PROVE  Served(u, HoverAt(u, hits, region), o)
<1>. DEFINE id == TargetAt(u, hits)
            next == IF id = None THEN None ELSE [window |-> id, region |-> region]
<1>1. id = None \/ id \in Ids
  BY TargetIn
<1>. HIDE DEF id
<1>2. next \in Hover \union {None}
  BY <1>1 DEF Hover
<1>3. HoverAt(u, hits, region) = SetHover(u, next)
  BY DEF HoverAt, id
<1>. HIDE DEF next
<1>. QED BY <1>2, <1>3, HoverServes

\* What the host remembers of swallowed buttons and keys matters to no one.
LEMMA SwallowedServes ==
  ASSUME NEW u, Coherent(u), NEW buttons, NEW escape, NEW v,
         \/ v = [u EXCEPT !.swallowed = buttons, !.swallowed_escape = escape]
         \/ v = [u EXCEPT !.swallowed = buttons]
         \/ v = [u EXCEPT !.swallowed_escape = escape],
         NEW o
  PROVE  Served(u, v, o)
<1>1. /\ DOMAIN v = Fields /\ v.windows = u.windows /\ v.stack = u.stack /\ v.events = u.events
      /\ v.overflowed = u.overflowed /\ v.history = u.history /\ v.capture = u.capture
      /\ v.focus = u.focus /\ v.hover = u.hover /\ v.told_focus = u.told_focus
      /\ v.told_hover = u.told_hover
  BY DEF Coherent, Base, Typed, Fields
<1>. QED BY <1>1, StillServes DEF Coherent, Base, Typed



LEMMA FocusWindowPasses ==
  ASSUME Coherent(ui), NEW heard, NEW id \in Ids, FocusWindow(id) \/ Close(id)
  PROVE  Passed(ui, ui', heard)
<1>1. \/ ui' = ui
      \/ Eligible(ui, id) /\ ui' = RequestFocus(ui, id)
      \/ ui' = CloseWindow(ui, id)
  BY DEF FocusWindow, Close, Returns, Refuses
<1>. QED BY <1>1, ServedSelf, RequestFocusServes, CloseServes, ServedPassed

LEMMA PaneFocusedPasses ==
  ASSUME Coherent(ui), NEW heard, PaneFocused
  PROVE  Passed(ui, ui', heard)
<1>1. Heard(ui, ui')
  BY RestoreFocusKeeps DEF PaneFocused, Returns, Coherent
<1>. QED BY <1>1, HeardServes, ServedPassed

LEMMA PaneBlurredPasses ==
  ASSUME Coherent(ui), NEW heard, PaneBlurred
  PROVE  Passed(ui, ui', heard)
<1>1. PICK free : free = IF ui.capture = None THEN ui ELSE CancelCapture(ui, ui.capture.window)
  OBVIOUS
<1>2. PICK blurred : blurred = ChangeFocus(free, None)
  OBVIOUS
<1>3. ui' = [blurred EXCEPT !.swallowed = {}, !.swallowed_escape = FALSE]
  BY <1>1, <1>2 DEF PaneBlurred, Returns
<1>4. Passed(ui, free, heard)
  <2>1. ui.capture # None => ui.capture.window \in Ids
    BY NoneApart DEF Coherent, Base, Typed
  <2>. QED BY <1>1, <2>1, CancelCaptureKeeps, HeardServes, ServedSelf, ServedPassed DEF Coherent
<1>5. Passed(free, blurred, heard)
  BY <1>2, <1>4, ChangeFocusKeeps, HeardServes, ServedPassed DEF Passed, Coherent
<1>6. Passed(blurred, ui', heard)
  BY <1>3, <1>5, SwallowedServes, ServedPassed DEF Passed
<1>. QED BY <1>4, <1>5, <1>6, PassedOnward DEF Passed

LEMMA KeyboardPasses ==
  ASSUME Coherent(ui), NEW heard, Able(ui) \subseteq heard, NEW key \in {"Press", "Repeat", "Release", "Other", "Invalid"},
         Keyboard(key)
  PROVE  Passed(ui, ui', heard)
<1>1. PICK id : id = ui.focus
  OBVIOUS
<1>2. PICK class : class = IF key = "Invalid" THEN "Invalid" ELSE "Input"
  OBVIOUS
<1>3. PICK w : w = [ui EXCEPT !.swallowed_escape = TRUE]
  OBVIOUS
<1>4. \/ ui' = ui
      \/ ui' = [ui EXCEPT !.swallowed_escape = key # "Release"]
      \/ id # None /\ ui' = CloseWindow(w, id)
      \/ id # None /\ Eligible(ui, id) /\ ui' = Emit(ui, id, class)
  BY <1>1, <1>2, <1>3 DEF Keyboard, Returns
<1>5. id \in Ids \union {None} /\ class \in Quiet \union Loud \union {"Invalid"}
  BY <1>1, <1>2 DEF Coherent, Base, Typed, Loud
<1>6. Passed(ui, w, heard)
  BY <1>3, SwallowedServes, ServedPassed
<1>7. ASSUME id # None PROVE Passed(w, CloseWindow(w, id), heard)
  BY <1>5, <1>6, <1>7, CloseServes, ServedPassed DEF Passed
<1>8. CASE ui' = ui
  BY <1>8, ServedSelf, ServedPassed
<1>9. CASE ui' = [ui EXCEPT !.swallowed_escape = key # "Release"]
  <2>1. PICK escape : escape = (key # "Release")
    OBVIOUS
  <2>2. PICK w1 : w1 = [ui EXCEPT !.swallowed_escape = escape]
    OBVIOUS
  <2>3. Passed(ui, w1, heard)
    BY <2>2, SwallowedServes, ServedPassed
  <2>. QED BY <1>9, <2>1, <2>2, <2>3
<1>10. CASE id # None /\ ui' = CloseWindow(w, id)
  BY <1>6, <1>7, <1>10, PassedOnward
<1>11. CASE id # None /\ Eligible(ui, id) /\ ui' = Emit(ui, id, class)
  <2>1. id \in heard /\ id \in Ids
    BY <1>5, <1>11 DEF Able
  <2>. QED BY <1>5, <1>11, <2>1, EmitPasses
<1>. QED BY <1>4, <1>8, <1>9, <1>10, <1>11

LEMMA WheelPasses ==
  ASSUME Coherent(ui), NEW heard, Able(ui) \subseteq heard, NEW hits, Wheel(hits)
  PROVE  Passed(ui, ui', heard)
<1>1. PICK id : id = TargetAt(ui, hits)
  OBVIOUS
<1>2. ui' = ui \/ (id # None /\ ui' = Emit(ui, id, "Input"))
  BY <1>1 DEF Wheel, Returns
<1>3. id = None \/ (id \in Ids /\ id \in heard)
  BY <1>1, TargetIn DEF Able
<1>4. "Input" \in Quiet \union Loud \union {"Invalid"}
  BY DEF Loud
<1>. QED BY <1>2, <1>3, <1>4, ServedSelf, ServedPassed, EmitPasses

LEMMA RefreshHoverPasses ==
  ASSUME Coherent(ui), NEW heard, NEW hits, NEW region \in Regions, RefreshHover(hits, region)
  PROVE  Passed(ui, ui', heard)
BY HoverAtServes, ServedPassed DEF RefreshHover, Returns

LEMMA ConcludesPasses ==
  ASSUME NEW u, Coherent(u), NEW heard, NEW report \in Reports
  PROVE  Passed(u, Concludes(u, report), heard)
<1>. DEFINE w == [u EXCEPT !.capture = None]
<1>1. report.region \in Regions
  BY DEF Reports
<1>2. Passed(u, w, heard)
  BY FreedServes, ServedPassed
<1>3. Concludes(u, report) = IF Released(report) THEN HoverAt(w, report.hits, report.region) ELSE u
  BY DEF Concludes
<1>. HIDE DEF w
<1>4. Passed(w, HoverAt(w, report.hits, report.region), heard)
  BY <1>1, <1>2, HoverAtServes, ServedPassed DEF Passed
<1>5. Passed(u, HoverAt(w, report.hits, report.region), heard)
  BY <1>2, <1>4, PassedOnward
<1>6. Passed(u, u, heard)
  BY ServedSelf, ServedPassed
<1>. QED BY <1>3, <1>5, <1>6

LEMMA PointerCapturedPasses ==
  ASSUME Coherent(ui), NEW heard, Able(ui) \subseteq heard, NEW report \in Reports, ui.capture # None, PointerCaptured(report)
  PROVE  Passed(ui, ui', heard)
<1>1. PICK id : id = ui.capture.window
  OBVIOUS
<1>2. id \in Ids /\ id \in DOMAIN ui.windows
  BY <1>1, NoneApart DEF Coherent, Base, Typed, CaptureSeen, EffectivelyVisible
<1>3. PICK class : class = PointerClass(report)
  OBVIOUS
<1>4. class \in Quiet \union Loud \union {"Invalid"}
  BY <1>3 DEF PointerClass, Loud
<1>5. PICK moved : moved = IF ui.capture.gesture THEN Gesture(ui, id, Released(report))
                                                 ELSE Emit(ui, id, class)
  OBVIOUS
<1>6. ui' = CancelCapture(ui, id) \/ (Eligible(ui, id) /\ ui' = Concludes(moved, report))
  BY <1>1, <1>3, <1>5 DEF PointerCaptured, Returns
<1>7. Passed(ui, CancelCapture(ui, id), heard)
  BY <1>2, CancelCaptureKeeps, HeardServes, ServedPassed DEF Coherent
<1>8. ASSUME Eligible(ui, id) PROVE Passed(ui, moved, heard)
  <2>1. id \in heard
    BY <1>2, <1>8 DEF Able
  <2>2. Passed(ui, Gesture(ui, id, Released(report)), heard)
    BY <1>2, GestureServes, ServedPassed
  <2>3. Passed(ui, Emit(ui, id, class), heard)
    BY <1>2, <1>4, <2>1, EmitPasses
  <2>. QED BY <1>5, <2>2, <2>3
<1>9. Eligible(ui, id) => Passed(moved, Concludes(moved, report), heard)
  BY <1>8, ConcludesPasses DEF Passed
<1>10. Eligible(ui, id) => Passed(ui, Concludes(moved, report), heard)
  BY <1>8, <1>9, PassedOnward
<1>. QED BY <1>6, <1>7, <1>10

LEMMA PointerDismissesPasses ==
  ASSUME Coherent(ui), NEW heard, NEW report \in Reports, ForemostPopup(ui) # None, PointerDismisses(report)
  PROVE  Passed(ui, ui', heard)
<1>1. PICK id : id = ForemostPopup(ui)
  OBVIOUS
<1>2. id \in Ids
  BY <1>1, PopupIn
<1>7. PICK buttons : buttons = ui.swallowed \union {report.button}
  OBVIOUS
<1>3. PICK w : w = [ui EXCEPT !.swallowed = buttons]
  OBVIOUS
<1>4. ui' = CloseWindow(w, id)
  BY <1>1, <1>3, <1>7 DEF PointerDismisses, Returns
<1>5. Passed(ui, w, heard)
  BY <1>3, SwallowedServes, ServedPassed
<1>6. Passed(w, CloseWindow(w, id), heard)
  BY <1>2, <1>5, CloseServes, ServedPassed DEF Passed
<1>. QED BY <1>4, <1>5, <1>6, PassedOnward

LEMMA PointerMissesPasses ==
  ASSUME Coherent(ui), NEW heard, NEW report \in Reports, PointerMisses(report)
  PROVE  Passed(ui, ui', heard)
<1>1. PICK left : left = SetHover(ui, None)
  OBVIOUS
<1>2. PICK blurred : blurred = ChangeFocus(left, None)
  OBVIOUS
<1>3. ui' = left \/ ui' = [blurred EXCEPT !.history = <<>>]
  BY <1>1, <1>2 DEF PointerMisses
<1>4. Passed(ui, left, heard)
  BY <1>1, HoverServes, ServedPassed
<1>5. Passed(left, blurred, heard)
  BY <1>2, <1>4, ChangeFocusKeeps, HeardServes, ServedPassed DEF Passed, Coherent
<1>6. Passed(ui, blurred, heard)
  BY <1>4, <1>5, PassedOnward
<1>7. ASSUME NEW v, v = [blurred EXCEPT !.history = <<>>]
      PROVE  Passed(blurred, v, heard)
  <2>1. /\ DOMAIN v = Fields /\ v.windows = blurred.windows /\ v.stack = blurred.stack
        /\ v.events = blurred.events /\ v.overflowed = blurred.overflowed
        /\ v.history = <<>> /\ v.capture = blurred.capture
        /\ v.focus = blurred.focus /\ v.hover = blurred.hover
        /\ v.told_focus = blurred.told_focus /\ v.told_hover = blurred.told_hover
    BY <1>6, <1>7 DEF Passed, Coherent, Base, Typed, Fields
  <2>2. <<>> \in Seq(Ids)
    OBVIOUS
  <2>3. Served(blurred, v, 0)
    BY <1>6, <2>1, <2>2, StillServes DEF Passed
  <2>. QED BY <2>3, ServedPassed
<1>8. ui' = [blurred EXCEPT !.history = <<>>] => Passed(ui, ui', heard)
  BY <1>6, <1>7, PassedOnward
<1>. QED BY <1>3, <1>4, <1>8

LEMMA PointerHitsPasses ==
  ASSUME Coherent(ui), NEW heard, Able(ui) \subseteq heard, NEW report \in Reports, NEW id, Eligible(ui, id), PointerHits(report, id)
  PROVE  Passed(ui, ui', heard)
<1>1. PICK focused : focused = RequestFocus(ui, id)
  OBVIOUS
<1>2. PICK grabbed : grabbed = [focused EXCEPT !.capture =
                                  [window |-> id, gesture |-> TRUE, region |-> report.region]]
  OBVIOUS
<1>3. PICK pressed : pressed = IF Pressed(report) THEN Grab(focused, report, id) ELSE ui
  OBVIOUS
<1>4. PICK hover : hover = [window |-> id, region |-> report.region]
  OBVIOUS
<1>5. PICK class : class = PointerClass(report)
  OBVIOUS
<1>6. ui' = Emit(SetHover(pressed, hover), id, class)
  BY <1>1, <1>3, <1>4, <1>5 DEF PointerHits, Returns
<1>7. id \in Ids /\ EffectivelyVisible(ui, id) /\ id \in DOMAIN ui.windows
  BY DEF Eligible, EffectivelyVisible, Coherent, Base, Typed, WindowsTyped
<1>8. Heard(ui, focused)
  BY <1>1, <1>7, RequestFocusKeeps DEF Coherent
<1>9. Passed(ui, focused, heard)
  BY <1>8, HeardServes, ServedPassed
<1>10. Exists(focused, id) => EffectivelyVisible(focused, id)
  BY <1>7, <1>8, VisibleStays DEF Heard, Exists, Coherent
<1>11. report.region \in Regions /\ TRUE \in BOOLEAN
  BY DEF Reports
<1>12. Exists(focused, id) => Passed(focused, grabbed, heard)
  BY <1>2, <1>9, <1>10, <1>11, CapturedServes, ServedPassed DEF Passed
<1>13. Exists(focused, id) => Passed(ui, grabbed, heard)
  BY <1>9, <1>12, PassedOnward
<1>14. pressed = ui \/ pressed = focused \/ (Exists(focused, id) /\ pressed = grabbed)
  BY <1>2, <1>3 DEF Grab
<1>15. Passed(ui, pressed, heard)
  BY <1>9, <1>13, <1>14, ServedSelf, ServedPassed
<1>16. /\ hover \in Hover \union {None} /\ class \in Quiet \union Loud \union {"Invalid"}
       /\ id \in heard
  BY <1>4, <1>5, <1>7, <1>11 DEF Hover, PointerClass, Loud, Able
<1>17. Passed(pressed, SetHover(pressed, hover), heard)
  BY <1>15, <1>16, HoverServes, ServedPassed DEF Passed
<1>18. Passed(ui, SetHover(pressed, hover), heard)
  BY <1>15, <1>17, PassedOnward
<1>19. Passed(SetHover(pressed, hover), Emit(SetHover(pressed, hover), id, class), heard)
  BY <1>7, <1>16, <1>18, EmitPasses DEF Passed
<1>. QED BY <1>6, <1>18, <1>19, PassedOnward

LEMMA PointerPasses ==
  ASSUME Coherent(ui), NEW heard, Able(ui) \subseteq heard, NEW report \in Reports, Pointer(report)
  PROVE  Passed(ui, ui', heard)
<1>1. PICK id : id = TargetAt(ui, report.hits)
  OBVIOUS
<1>2. \/ PointerSwallowed(report)
      \/ ui.capture # None /\ PointerCaptured(report)
      \/ ForemostPopup(ui) # None /\ PointerDismisses(report)
      \/ PointerMisses(report)
      \/ id # None /\ PointerHits(report, id)
  BY <1>1 DEF Pointer
<1>3. CASE PointerSwallowed(report)
  <2>1. PICK buttons : buttons = IF report.down THEN ui.swallowed ELSE ui.swallowed \ {report.button}
    OBVIOUS
  <2>2. PICK w : w = [ui EXCEPT !.swallowed = buttons]
    OBVIOUS
  <2>3. ui' = w
    BY <1>3, <2>1, <2>2 DEF PointerSwallowed, Returns
  <2>. QED BY <2>2, <2>3, SwallowedServes, ServedPassed
<1>4. id # None => Eligible(ui, id)
  BY <1>1, TargetIn
<1>. QED BY <1>2, <1>3, <1>4, PointerCapturedPasses, PointerDismissesPasses, PointerMissesPasses,
            PointerHitsPasses

\* Every call but those that end or read a queue.
LEMMA OthersPass ==
  ASSUME Coherent(ui), OverlayNext,
         \A o \in Owners : ~TakeEvent(o) /\ ~TakeOverflow(o) /\ ~Revoke(o)
  PROVE  Passed(ui, ui', Able(ui))
<1>1. CASE \E id \in Ids : SessionCall(id) \/ SceneCall(id)
  BY <1>1, SessionServes, PublishSceneServes, ServedPassed
<1>2. CASE HostCall
  BY <1>2, FocusWindowPasses, PaneFocusedPasses, PaneBlurredPasses, KeyboardPasses, WheelPasses
     DEF HostCall
<1>3. CASE PointerCall
  BY <1>3, RefreshHoverPasses, PointerPasses DEF PointerCall
<1>. QED BY <1>1, <1>2, <1>3 DEF OverlayNext

QueueKept(u, v, o) ==
  IF o \in DOMAIN v.events THEN Extends(u.events[o], v.events[o], Able(u))
                           ELSE o \in v.overflowed

\* Of keys, buttons, wheel and motion, a call adds only those for such windows.
AbleHear(u, v) ==
  \A o \in DOMAIN v.events : \A i \in 1..Len(v.events[o]) :
    /\ i > IF o \in DOMAIN u.events THEN Len(u.events[o]) ELSE 0
    /\ v.events[o][i].class \in Loud
    => v.events[o][i].window \in Able(u)

\* A queue that its owner reads, or that goes with its last event.
LEMMA ReadKeeps ==
  ASSUME NEW u, Coherent(u), NEW events, EventsTyped(events), DOMAIN events \subseteq DOMAIN u.events,
         NEW v, v = [u EXCEPT !.events = events]
  PROVE  Coherent(v) /\ v.events = events
<1>1. /\ DOMAIN v = Fields /\ v.windows = u.windows /\ v.stack = u.stack /\ v.events = events
      /\ v.overflowed = u.overflowed /\ v.history = u.history /\ v.capture = u.capture
      /\ v.focus = u.focus /\ v.hover = u.hover /\ v.told_focus = u.told_focus
      /\ v.told_hover = u.told_hover
  BY DEF Coherent, Base, Typed, Fields
<1>. QED BY <1>1 DEF Coherent, Base, Typed, FocusHeard, HoverHeard, CaptureSeen, EffectivelyVisible,
                     Closed, Exists

LEMMA TakeEventKeeps ==
  ASSUME Coherent(ui), NEW o, TakeEvent(o)
  PROVE  /\ Coherent(ui') /\ AbleHear(ui, ui')
         /\ \A x \in DOMAIN ui.events \ {o} : QueueKept(ui, ui', x)
<1>1. PICK rest : rest = IF ui.events[o] = <<>> THEN <<>> ELSE Tail(ui.events[o])
  OBVIOUS
<1>2. PICK gone : gone = Minus(ui.events, {o})
  OBVIOUS
<1>3. PICK read : read = [ui.events EXCEPT ![o] = rest]
  OBVIOUS
<1>4. PICK events \in {gone, read} : ui' = [ui EXCEPT !.events = events]
  BY <1>1, <1>2, <1>3 DEF TakeEvent, Returns
<1>5. o \in DOMAIN ui.events /\ EventsTyped(ui.events)
  BY DEF TakeEvent, Coherent, Base, Typed
<1>6. rest \in Seq(Event) /\ Len(rest) <= MaxPending /\ Len(rest) <= Len(ui.events[o])
  <2>1. ui.events[o] \in Seq(Event) /\ Len(ui.events[o]) <= MaxPending /\ MaxPending \in Nat
    BY <1>5, OverlayAssumption DEF EventsTyped
  <2>2. CASE ui.events[o] = <<>>
    BY <1>1, <2>1, <2>2
  <2>3. CASE ui.events[o] # <<>>
    BY <1>1, <2>1, <2>3
  <2>. QED BY <2>2, <2>3
<1>7. /\ DOMAIN events \subseteq DOMAIN ui.events
      /\ \A x \in DOMAIN ui.events : x # o => x \in DOMAIN events /\ events[x] = ui.events[x]
      /\ o \in DOMAIN events => events[o] = rest
  BY <1>2, <1>3, <1>4, <1>5 DEF Minus
<1>8. EventsTyped(events)
  BY <1>5, <1>6, <1>7 DEF EventsTyped
<1>9. Coherent(ui') /\ ui'.events = events
  BY <1>4, <1>7, <1>8, ReadKeeps
<1>10. \A x \in DOMAIN ui.events : Extends(ui.events[x], ui.events[x], Able(ui))
  BY ServedSelf, ServedPassed DEF Passed, Continued
<1>11. AbleHear(ui, ui')
  <2>. SUFFICES ASSUME NEW x \in DOMAIN events, NEW i \in 1..Len(events[x]),
                       i > IF x \in DOMAIN ui.events THEN Len(ui.events[x]) ELSE 0
                PROVE  FALSE
    BY <1>9 DEF AbleHear
  <2>1. Len(ui.events[x]) \in Nat /\ Len(events[x]) \in Nat
    BY <1>5, <1>7, <1>8 DEF EventsTyped
  <2>2. Len(events[x]) <= Len(ui.events[x])
    BY <1>6, <1>7, <2>1
  <2>. QED BY <1>7, <2>1, <2>2
<1>. QED BY <1>7, <1>9, <1>10, <1>11 DEF QueueKept

LEMMA TakeOverflowKeeps ==
  ASSUME Coherent(ui), NEW o, TakeOverflow(o)
  PROVE  /\ Coherent(ui') /\ AbleHear(ui, ui')
         /\ \A x \in DOMAIN ui.events : QueueKept(ui, ui', x)
<1>1. PICK v : v = ui'
  OBVIOUS
<1>2. v = [ui EXCEPT !.overflowed = ui.overflowed \ {o}]
  BY <1>1 DEF TakeOverflow, Returns
<1>3. /\ DOMAIN v = Fields /\ v.windows = ui.windows /\ v.stack = ui.stack /\ v.events = ui.events
      /\ v.overflowed = ui.overflowed \ {o} /\ v.history = ui.history
      /\ v.capture = ui.capture
      /\ v.focus = ui.focus /\ v.hover = ui.hover /\ v.told_focus = ui.told_focus
      /\ v.told_hover = ui.told_hover
  BY <1>2 DEF Coherent, Base, Typed, Fields
<1>4. Coherent(v)
  BY <1>3 DEF Coherent, Base, Typed, FocusHeard, HoverHeard, CaptureSeen, EffectivelyVisible,
              Closed, Exists
<1>5. \A x \in DOMAIN ui.events : Extends(ui.events[x], ui.events[x], Able(ui))
  BY ServedSelf, ServedPassed DEF Passed, Continued
<1>6. AbleHear(ui, ui')
  BY <1>1, <1>3 DEF AbleHear, Coherent, Base, Typed, EventsTyped
<1>. QED BY <1>1, <1>3, <1>4, <1>5, <1>6 DEF QueueKept

LEMMA RevokeKeeps ==
  ASSUME Coherent(ui), NEW o \in Owners, Revoke(o)
  PROVE  /\ Coherent(ui') /\ AbleHear(ui, ui')
         /\ \A x \in DOMAIN ui.events \ {o} : QueueKept(ui, ui', x)
<1>1. PICK v : v = ui'
  OBVIOUS
<1>2. v = RevokeOwner(ui, o)
  BY <1>1 DEF Revoke, Returns
<1>3. /\ Coherent(v) /\ DOMAIN v.events \subseteq DOMAIN ui.events \ {o}
      /\ \A x \in DOMAIN ui.events \ {o} :
           IF x \in DOMAIN v.events THEN Extends(ui.events[x], v.events[x], {})
                                    ELSE x \in v.overflowed
  BY <1>2, RevokeOwnerKeeps DEF Coherent
<1>4. AbleHear(ui, v)
  BY <1>3 DEF AbleHear, Extends
<1>5. \A x \in DOMAIN ui.events \ {o} : QueueKept(ui, v, x)
  BY <1>3 DEF QueueKept, Extends
<1>. QED BY <1>1, <1>3, <1>4, <1>5

LEMMA OverlayStep ==
  ASSUME Coherent(ui), OverlayNext
  PROVE  /\ Coherent(ui')
         /\ AbleHear(ui, ui')
         /\ \A o \in DOMAIN ui.events : QueueKept(ui, ui', o) \/ TakeEvent(o) \/ Revoke(o)
<1>1. CASE \E o \in Owners : TakeEvent(o) \/ TakeOverflow(o) \/ Revoke(o)
  BY <1>1, TakeEventKeeps, TakeOverflowKeeps, RevokeKeeps
<1>2. CASE \A o \in Owners : ~TakeEvent(o) /\ ~TakeOverflow(o) /\ ~Revoke(o)
  <2>1. Coherent(ui') /\ Continued(ui, ui', Able(ui))
    BY <1>2, OthersPass DEF Passed
  <2>2. AbleHear(ui, ui')
    BY <2>1 DEF AbleHear, Continued, Extends
  <2>. QED BY <2>1, <2>2 DEF Continued, QueueKept
<1>. QED BY <1>1, <1>2

LEMMA OverlayStart ==
  ASSUME OverlayInit
  PROVE  Coherent(ui)
<1>1. /\ DOMAIN ui = Fields
      /\ ui.windows = Empty /\ ui.stack = <<>> /\ ui.focus = None /\ ui.hover = None
      /\ ui.history = <<>> /\ ui.capture = None /\ ui.events = Empty /\ ui.overflowed = {}
      /\ ui.told_focus = {} /\ ui.told_hover = {}
  BY DEF OverlayInit, Fields
<1>2. DOMAIN Empty = {}
  BY DEF Empty
<1>3. <<>> \in Seq(Ids) /\ 1..Len(<<>>) = {}
  OBVIOUS
<1>4. Typed(ui)
  BY <1>1, <1>2, <1>3 DEF Typed, WindowsTyped, EventsTyped
<1>5. Families(ui.windows) /\ Stacked(ui.windows, ui.stack)
  BY <1>1, <1>2, <1>3 DEF Families, Stacked, Once, On
<1>6. FocusHeard(ui) /\ HoverHeard(ui) /\ CaptureSeen(ui)
  BY <1>1 DEF FocusHeard, HoverHeard, CaptureSeen
<1>. QED BY <1>4, <1>5, <1>6 DEF Coherent, Base

\* Every call answers.
LEMMA OverlayAnswers ==
  ASSUME OverlayNext
  PROVE  reply' \in BOOLEAN
<1>1. ASSUME NEW u, Returns(u) PROVE reply' \in BOOLEAN
  BY <1>1 DEF Returns
<1>2. ASSUME Refuses PROVE reply' \in BOOLEAN
  BY <1>2 DEF Refuses
<1>3. ASSUME NEW u, NEW id, WithFocus(u, id) PROVE reply' \in BOOLEAN
  BY <1>1, <1>3 DEF WithFocus
<1>4. ASSUME NEW id, NEW shape, NEW visible, Create(id, shape, visible) PROVE reply' \in BOOLEAN
  BY <1>1, <1>2, <1>3, <1>4 DEF Create
<1>5. ASSUME NEW id, NEW expected, NEW visible, Update(id, expected, visible)
      PROVE  reply' \in BOOLEAN
  BY <1>1, <1>2, <1>3, <1>5 DEF Update
<1>6. ASSUME NEW acted, NEW id, NEW next, NEW action, Completes(acted, id, next, action)
      PROVE  reply' \in BOOLEAN
  BY <1>1, <1>6 DEF Completes
<1>7. ASSUME NEW id, NEW expected, NEW action, ApplyAction(id, expected, action)
      PROVE  reply' \in BOOLEAN
  BY <1>1, <1>2, <1>6, <1>7 DEF ApplyAction
<1>8. ASSUME NEW id, SessionCall(id) PROVE reply' \in BOOLEAN
  BY <1>1, <1>2, <1>4, <1>5, <1>7, <1>8 DEF SessionCall, CapturePointer, ReleasePointer
<1>9. ASSUME NEW id, SceneCall(id) PROVE reply' \in BOOLEAN
  BY <1>1, <1>2, <1>9 DEF SceneCall, PublishScene
<1>10. ASSUME NEW key, Keyboard(key) PROVE reply' \in BOOLEAN
  BY <1>1, <1>10 DEF Keyboard
<1>11. ASSUME HostCall PROVE reply' \in BOOLEAN
  BY <1>1, <1>2, <1>10, <1>11 DEF HostCall, FocusWindow, Close, Revoke, TakeEvent, TakeOverflow,
     PaneFocused, PaneBlurred, Wheel
<1>12. ASSUME NEW report, Pointer(report) PROVE reply' \in BOOLEAN
  <2>1. ASSUME PointerCaptured(report) PROVE reply' \in BOOLEAN
    BY <1>1, <2>1 DEF PointerCaptured
  <2>2. ASSUME PointerMisses(report) PROVE reply' \in BOOLEAN
    BY <2>2 DEF PointerMisses
  <2>3. ASSUME NEW id, PointerHits(report, id) PROVE reply' \in BOOLEAN
    BY <1>1, <2>3 DEF PointerHits
  <2>4. ASSUME PointerSwallowed(report) \/ PointerDismisses(report) PROVE reply' \in BOOLEAN
    BY <1>1, <2>4 DEF PointerSwallowed, PointerDismisses
  <2>. QED BY <1>12, <2>1, <2>2, <2>3, <2>4 DEF Pointer
<1>13. ASSUME PointerCall PROVE reply' \in BOOLEAN
  BY <1>1, <1>12, <1>13 DEF PointerCall, RefreshHover
<1>. QED BY <1>8, <1>9, <1>11, <1>13 DEF OverlayNext

(***************************************************************************)
(* The theorems.                                                           *)
(***************************************************************************)
OverlayInv == Coherent(ui) /\ reply \in BOOLEAN

\* Between two calls of the window manager its state is sound: typed, in
\* families of one owner that are stacked above their parents, with a capture
\* that is visible and with owners that heard what is true.
THEOREM OverlayInvariant == OverlaySpec => []OverlayInv
<1>1. OverlayInit => OverlayInv
  BY OverlayStart DEF OverlayInv, OverlayInit
<1>2. OverlayInv /\ [OverlayNext]_overlayVars => OverlayInv'
  <2>1. CASE OverlayNext
    BY <2>1, OverlayStep, OverlayAnswers DEF OverlayInv
  <2>2. CASE UNCHANGED overlayVars
    BY <2>2 DEF OverlayInv, overlayVars
  <2>. QED BY <2>1, <2>2
<1>. QED BY <1>1, <1>2, PTL DEF OverlaySpec

\* The state has its types, and no owner's queue is longer than
\* MAX_PENDING_EVENTS: emit makes room by coalescing or revokes the owner.
THEOREM WindowsTypeOK == OverlaySpec => []OverlayTypeOK
<1>1. OverlayInv => OverlayTypeOK
  <2>. SUFFICES ASSUME OverlayInv PROVE OverlayTypeOK
    OBVIOUS
  <2>1. WindowsTyped(ui.windows) /\ EventsTyped(ui.events)
    BY DEF OverlayInv, Coherent, Base, Typed
  <2>2. \A id \in DOMAIN ui.windows :
          /\ [mode |-> ui.windows[id].mode, parent |-> ui.windows[id].parent] \in Shapes[id]
          /\ ui.windows[id].visible \in BOOLEAN
          /\ ui.windows[id].revision \in 1..MaxRevision
          /\ ui.windows[id].scene \in 0..MaxScene
    BY <2>1 DEF WindowsTyped, Window
  <2>. QED BY <2>1, <2>2 DEF OverlayTypeOK, OverlayInv, Coherent, Base, Typed, WindowsTyped, EventsTyped
<1>. QED BY <1>1, OverlayInvariant, PTL

\* The stack holds every window once, and none is painted under a window that
\* it descends from: raise_group, Lower, close and revoke_owner rebuild it so.
THEOREM StackAboveParents == OverlaySpec => []StackedAboveParents
<1>1. OverlayInv => StackedAboveParents
  <2>. SUFFICES ASSUME OverlayInv PROVE StackedAboveParents
    OBVIOUS
  <2>1. PICK u : u = ui
    OBVIOUS
  <2>2. Base(u) /\ u.stack \in Seq(Ids) /\ Once(u.stack) /\ Len(u.stack) \in Nat
        /\ \A id : On(u.stack, id) <=> id \in DOMAIN u.windows
    BY <2>1 DEF OverlayInv, Coherent, Base, Typed, Stacked
  <2>3. ToSet(u.stack) = DOMAIN u.windows
    <3>1. DOMAIN u.stack = 1..Len(u.stack)
      BY <2>2
    <3>2. \A x : x \in ToSet(u.stack) <=> On(u.stack, x)
      BY <3>1 DEF ToSet, On
    <3>. QED BY <2>2, <3>2
  <2>4. Len(u.stack) = Cardinality(DOMAIN u.windows)
    <3>. DEFINE n == Len(u.stack)
                at == [i \in 1..n |-> u.stack[i]]
    <3>1. IsFiniteSet(1..n) /\ Cardinality(1..n) = n
      <4>1. n \in Int /\ 1 \in Int /\ n \in Nat
        BY <2>2
      <4>. HIDE DEF n
      <4>2. /\ IsFiniteSet(1..n)
            /\ Cardinality(1..n) = IF 1 > n THEN 0 ELSE n - 1 + 1
        BY <4>1, FS_Interval
      <4>. QED BY <4>1, <4>2
    <3>2. at \in Bijection(1..n, DOMAIN u.windows)
      <4>1. \A i \in 1..n : at[i] \in DOMAIN u.windows
        BY <2>2 DEF On
      <4>2. \A i, j \in 1..n : at[i] = at[j] => i = j
        BY <2>2 DEF Once
      <4>3. \A id \in DOMAIN u.windows : \E i \in 1..n : at[i] = id
        BY <2>2 DEF On
      <4>. QED BY <4>1, <4>2, <4>3 DEF Bijection, Injection, Surjection, IsInjective
    <3>3. ExistsBijection(1..n, DOMAIN u.windows)
      <4>. HIDE DEF n, at
      <4>. QED BY <3>2 DEF ExistsBijection
    <3>. HIDE DEF n
    <3>4. Cardinality(DOMAIN u.windows) = n
      BY <3>1, <3>3, FS_Bijection
    <3>. QED BY <3>4 DEF n
  <2>5. ASSUME NEW above \in 1..Len(u.stack), NEW below \in 1..Len(u.stack),
               Descends(u, u.stack[below], u.stack[above])
        PROVE  above <= below
    <3>1. u.stack[above] \in Ids /\ u.stack[below] \in DOMAIN u.windows
      BY <2>2 DEF On
    <3>2. CASE u.stack[above] = u.stack[below]
      BY <2>2, <3>2 DEF Once
    <3>3. CASE u.stack[above] # u.stack[below]
      <4>1. Before(u.stack, u.stack[above], u.stack[below])
        BY <2>2, <2>5, <3>1, <3>3, AncestorBefore
      <4>2. PICK i \in 1..Len(u.stack), j \in 1..Len(u.stack) :
              i < j /\ u.stack[i] = u.stack[above] /\ u.stack[j] = u.stack[below]
        BY <4>1 DEF Before
      <4>3. i = above /\ j = below
        BY <2>2, <4>2 DEF Once
      <4>. QED BY <4>2, <4>3
    <3>. QED BY <3>2, <3>3
  <2>. QED BY <2>1, <2>3, <2>4, <2>5 DEF StackedAboveParents
<1>. QED BY <1>1, OverlayInvariant, PTL

\* The pointer is never captured by a window that is gone or hidden, through
\* its own visibility or its ancestors', whoever was revoked in between.
THEOREM CaptureStaysVisible == OverlaySpec => []CaptureVisible
<1>1. OverlayInv => CaptureVisible
  BY DEF OverlayInv, Coherent, CaptureSeen, CaptureVisible
<1>. QED BY <1>1, OverlayInvariant, PTL

\* A window believes that it has the focus only while it does.
THEOREM FocusIsTold == OverlaySpec => []FocusTold
<1>1. OverlayInv => FocusTold
  BY DEF OverlayInv, Coherent, FocusHeard, FocusTold
<1>. QED BY <1>1, OverlayInvariant, PTL

\* A window believes that the pointer is over it only while it is.
THEOREM HoverIsTold == OverlaySpec => []HoverTold
<1>1. OverlayInv => HoverTold
  BY DEF OverlayInv, Coherent, HoverHeard, HoverTold
<1>. QED BY <1>1, OverlayInvariant, PTL

\* What a session asks never changes or removes another session's window: an
\* owner loses its windows that way only when it stopped reading.
THEOREM OwnersIsolated == OverlaySpec => OwnerIsolation
<1>. DEFINE Isolated ==
       \A id \in DOMAIN ui.windows :
         \/ Exists(ui', id) /\ ui'.windows[id] = ui.windows[id]
         \/ Owner[id] \in ui'.overflowed
         \/ ~AnotherSession(Owner[id])
<1>1. OverlayInv /\ [OverlayNext]_overlayVars => [Isolated]_overlayVars
  <2>. SUFFICES ASSUME OverlayInv, NEW id \in DOMAIN ui.windows, AnotherSession(Owner[id])
                PROVE  \/ Exists(ui', id) /\ ui'.windows[id] = ui.windows[id]
                       \/ Owner[id] \in ui'.overflowed
    OBVIOUS
  <2>1. PICK caller \in Ids : Owner[caller] # Owner[id] /\ SessionCall(caller)
    BY DEF AnotherSession
  <2>2. Spared(ui, ui', Owner[caller])
    BY <2>1, SessionServes DEF OverlayInv, Served
  <2>. QED BY <2>1, <2>2 DEF Spared
<1>. QED BY <1>1, OverlayInvariant, PTL DEF OverlaySpec, OwnerIsolation

LEMMA ExtendsPrefix ==
  ASSUME NEW S, NEW s \in Seq(S), NEW t \in Seq(S), NEW heard, Extends(s, t, heard)
  PROVE  IsPrefix(s, t)
<1>. DEFINE n == Len(s)
<1>1. n \in Nat /\ n <= Len(t) /\ Len(t) \in Nat /\ \A i \in 1..n : t[i] = s[i] /\ s[i] \in S
  BY DEF Extends
<1>2. SubSeq(s, 1, n) \in Seq(S) /\ SubSeq(t, 1, n) \in Seq(S)
      /\ Len(SubSeq(s, 1, n)) = n /\ Len(SubSeq(t, 1, n)) = n
      /\ \A i \in 1..n : SubSeq(s, 1, n)[i] = s[i] /\ SubSeq(t, 1, n)[i] = t[i]
  BY <1>1
<1>. HIDE DEF n
<1>3. SubSeq(s, 1, n) = SubSeq(t, 1, n)
  BY <1>1, <1>2, SeqEqual
<1>. QED BY <1>1, <1>3 DEF IsPrefix, n

\* No queued event is lost: a queue only grows at its end until its owner
\* reads it, and it goes only with the owner or once it is empty.
THEOREM NoEventDropped == OverlaySpec => NoTransitionDropped
<1>. DEFINE Undropped ==
       \A o \in DOMAIN ui.events :
         \/ o \in DOMAIN ui'.events /\ IsPrefix(ui.events[o], ui'.events[o])
         \/ o \notin DOMAIN ui'.events /\ o \in ui'.overflowed
         \/ TakeEvent(o)
         \/ Revoke(o)
<1>1. OverlayInv /\ OverlayInv' /\ [OverlayNext]_overlayVars => [Undropped]_overlayVars
  <2>. SUFFICES ASSUME OverlayInv, OverlayInv', OverlayNext,
                       NEW o \in DOMAIN ui.events, ~TakeEvent(o), ~Revoke(o)
                PROVE  \/ o \in DOMAIN ui'.events /\ IsPrefix(ui.events[o], ui'.events[o])
                       \/ o \notin DOMAIN ui'.events /\ o \in ui'.overflowed
    OBVIOUS
  <2>1. QueueKept(ui, ui', o)
    BY OverlayStep DEF OverlayInv
  <2>2. /\ ui.events[o] \in Seq(Event)
        /\ o \in DOMAIN ui'.events => ui'.events[o] \in Seq(Event)
    BY DEF OverlayInv, Coherent, Base, Typed, EventsTyped
  <2>. QED BY <2>1, <2>2, ExtendsPrefix DEF QueueKept
<1>. QED BY <1>1, OverlayInvariant, PTL DEF OverlaySpec, NoTransitionDropped

\* Keys, buttons, wheel and motion reach only the top modal and its
\* descendants, by the route of keyboard, wheel, hit test or capture.
THEOREM ModalHears == OverlaySpec => OnlyModalHears
<1>. DEFINE Reserved ==
       \A o \in Owners : \A event \in ToSet(Added(o)) :
         event.class \in {"Input", "Motion"} /\ TopModal(ui) # None =>
           Descends(ui, event.window, TopModal(ui))
<1>1. OverlayInv /\ OverlayInv' /\ [OverlayNext]_overlayVars => [Reserved]_overlayVars
  <2>. SUFFICES ASSUME OverlayInv, OverlayInv', OverlayNext,
                       NEW o \in Owners, NEW event \in ToSet(Added(o)),
                       event.class \in {"Input", "Motion"}, TopModal(ui) # None
                PROVE  Descends(ui, event.window, TopModal(ui))
    OBVIOUS
  <2>1. AbleHear(ui, ui')
    BY OverlayStep DEF OverlayInv
  <2>2. PICK queue : queue = ui'.events[o]
    OBVIOUS
  <2>3. PICK n : n = IF o \in DOMAIN ui.events THEN Len(ui.events[o]) ELSE 0
    OBVIOUS
  <2>4. n \in Nat
    BY <2>3 DEF OverlayInv, Coherent, Base, Typed, EventsTyped
  <2>5. o \in DOMAIN ui'.events
    <3>1. Added(o) # <<>>
      BY DEF ToSet
    <3>. QED BY <3>1 DEF Added
  <2>6. queue \in Seq(Event)
    BY <2>2, <2>5 DEF OverlayInv, Coherent, Base, Typed, EventsTyped
  <2>7. Added(o) = SubSeq(queue, 1 + n, Len(queue))
    BY <2>2, <2>3, <2>5 DEF Added
  <2>8. \E i \in 1..Len(queue) : i > n /\ queue[i] = event
    <3>1. event \in ToSet(SubSeq(queue, 1 + n, Len(queue)))
      BY <2>7
    <3>2. PICK k \in DOMAIN SubSeq(queue, 1 + n, Len(queue)) :
            SubSeq(queue, 1 + n, Len(queue))[k] = event
      BY <3>1 DEF ToSet
    <3>3. k \in 1..(Len(queue) - n) /\ n + k \in 1..Len(queue) /\ n + k > n
          /\ SubSeq(queue, 1 + n, Len(queue))[k] = queue[n + k]
      BY <2>4, <2>6, <3>2
    <3>. QED BY <3>2, <3>3
  <2>9. event.window \in Able(ui)
    BY <2>1, <2>2, <2>3, <2>5, <2>8 DEF AbleHear, Loud
  <2>. QED BY <2>9 DEF Able, Eligible
<1>. QED BY <1>1, OverlayInvariant, PTL DEF OverlaySpec, OnlyModalHears

==============================================================================
