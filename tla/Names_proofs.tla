---------------------------- MODULE Names_proofs ----------------------------
(***************************************************************************)
(* Proofs about the names of stats: the merge in place of two tag sets      *)
(* (TagMerge) and the tags of scopes (Scopes), for any finite set of keys   *)
(* and any values.                                                          *)
(***************************************************************************)
EXTENDS TagNames, FiniteLemmas

LEMMA FunctionIsSeq ==
  ASSUME NEW R, NEW n \in Nat, NEW f \in [1 .. n -> R]
  PROVE  f \in Seq(R) /\ Len(f) = n /\ DOMAIN f = 1 .. n
<1>1. f \in Seq(R)
  OBVIOUS
<1>2. DOMAIN f = 1 .. n
  OBVIOUS
<1>3. Len(f) \in Nat /\ DOMAIN f = 1 .. Len(f)
  BY <1>1
<1> QED
  BY <1>1, <1>2, <1>3

-----------------------------------------------------------------------------
(* The merge in place.                                                      *)

(* An instance has a copy of the operators of FiniteSets.                   *)
LEMMA SameCardinality == ASSUME NEW S PROVE Merge!Cardinality(S) = Cardinality(S)
BY DEF Merge!Cardinality, Cardinality, Merge!IsFiniteSet, IsFiniteSet

(* The n-th smallest of a set of numbers is its n-th element in order.      *)
Identity(S) == [x \in S |-> x]

LEMMA NthOrdered ==
  ASSUME NEW S, S \subseteq Int, NEW n \in 1 .. Cardinality(S)
  PROVE  Merge!Nth(S, n) = Ordered(Identity(S), S)[n]
<1>1. \A x \in S : {y \in S : y < x} = Below(Identity(S), S, x)
  BY DEF Below, Identity
<1>2. Ordered(Identity(S), S)[n] = CHOOSE x \in S : Cardinality(Below(Identity(S), S, x)) = n - 1
  BY DEF Ordered
<1> DEFINE P(x) == Cardinality({y \in S : y < x}) = n - 1
           Q(x) == Cardinality(Below(Identity(S), S, x)) = n - 1
<1>3. \A x \in S : P(x) <=> Q(x)
  BY <1>1
<1>4. Merge!Nth(S, n) = CHOOSE x \in S : P(x)
  <2>1. \A x \in S : Merge!Cardinality({y \in S : y < x}) = n - 1 <=> P(x)
    BY SameCardinality
  <2> QED
    BY <2>1 DEF Merge!Nth
<1>5. Ordered(Identity(S), S)[n] = CHOOSE x \in S : Q(x)
  BY <1>2
<1> HIDE DEF P, Q
<1>6. (CHOOSE x \in S : P(x)) = CHOOSE x \in S : Q(x)
  BY <1>3
<1> QED
  BY <1>4, <1>5, <1>6

LEMMA IdentityKeyed == ASSUME NEW S, S \subseteq Int PROVE Keyed(Identity(S), S)
BY DEF Keyed, Identity

LEMMA NthElements ==
  ASSUME NEW S, S \subseteq Int, IsFiniteSet(S)
  PROVE  /\ Cardinality(S) \in Nat
         /\ \A n \in 1 .. Cardinality(S) : Merge!Nth(S, n) \in S
         /\ \A m, n \in 1 .. Cardinality(S) : m < n => Merge!Nth(S, m) < Merge!Nth(S, n)
         /\ \A x \in S : \E n \in 1 .. Cardinality(S) : Merge!Nth(S, n) = x
<1> DEFINE f == Identity(S)
           s == Ordered(f, S)
<1>1. /\ Cardinality(S) \in Nat
      /\ \A n \in 1 .. Cardinality(S) : s[n] \in S
      /\ \A m, n \in 1 .. Cardinality(S) : m < n => f[s[m]] < f[s[n]]
      /\ \A x \in S : \E n \in 1 .. Cardinality(S) : s[n] = x
  BY IdentityKeyed, OrderedElements
<1>2. \A n \in 1 .. Cardinality(S) : Merge!Nth(S, n) = s[n]
  BY NthOrdered
<1>3. \A x \in S : f[x] = x
  BY DEF Identity
<1> HIDE DEF f, s
<1>4. \A n \in 1 .. Cardinality(S) : Merge!Nth(S, n) \in S
  BY <1>1, <1>2
<1>5. ASSUME NEW m \in 1 .. Cardinality(S), NEW n \in 1 .. Cardinality(S), m < n
      PROVE  Merge!Nth(S, m) < Merge!Nth(S, n)
  <2>1. f[s[m]] < f[s[n]] /\ s[m] \in S /\ s[n] \in S
    BY <1>1, <1>5
  <2> QED
    BY <1>2, <1>3, <2>1
<1>6. \A x \in S : \E n \in 1 .. Cardinality(S) : Merge!Nth(S, n) = x
  BY <1>1, <1>2
<1> QED
  BY <1>1, <1>4, <1>5, <1>6

LEMMA NthUnique ==
  ASSUME NEW S, S \subseteq Int, NEW n \in Nat, NEW t, \A m \in 1 .. n : t[m] \in S,
         \A l, m \in 1 .. n : l < m => t[l] < t[m], \A x \in S : \E m \in 1 .. n : t[m] = x
  PROVE  Cardinality(S) = n /\ \A m \in 1 .. n : t[m] = Merge!Nth(S, m)
<1> DEFINE f == Identity(S)
<1>1. \A x \in S : f[x] = x
  BY DEF Identity
<1> HIDE DEF f
<1>2. Keyed(f, S)
  BY IdentityKeyed DEF f
<1>3. \A l, m \in 1 .. n : l < m => f[t[l]] < f[t[m]]
  BY <1>1
<1>4. IsFiniteSet(S) /\ Cardinality(S) = n /\ \A m \in 1 .. n : t[m] = Ordered(f, S)[m]
  <2>1. \A m \in 1 .. n : t[m] \in S
    OBVIOUS
  <2>2. \A x \in S : \E m \in 1 .. n : t[m] = x
    OBVIOUS
  <2> QED
    BY ONLY <1>2, <1>3, <2>1, <2>2, n \in Nat, OrderedUnique
<1>5. \A m \in 1 .. n : Merge!Nth(S, m) = Ordered(f, S)[m]
  BY <1>4, NthOrdered DEF f
<1> QED
  BY <1>4, <1>5

Winner(K2, x) == Merge!Tag(x, IF x \in K2 THEN 2 ELSE 1)

(* The first n tags of a are the beginning of the union of K1 and K2: what  *)
(* it takes from K1 is its first f1 keys, and from K2 its first f2.         *)
Written(K1, K2, f1, f2, a, n) ==
  /\ \A m \in 1 .. n : a[m] = Winner(K2, a[m].key) /\ a[m].key \in K1 \cup K2
  /\ \A l, m \in 1 .. n : l < m => a[l].key < a[m].key
  /\ \A l \in 1 .. f1 : \E m \in 1 .. n : a[m].key = Merge!Nth(K1, l)
  /\ \A l \in 1 .. f2 : \E m \in 1 .. n : a[m].key = Merge!Nth(K2, l)
  /\ \A m \in 1 .. n, l \in f1 + 1 .. Cardinality(K1) : a[m].key < Merge!Nth(K1, l)
  /\ \A m \in 1 .. n, l \in f2 + 1 .. Cardinality(K2) : a[m].key < Merge!Nth(K2, l)

(* The keys of K2 after the first f2 are where they were before the merge.  *)
Intact(K1, K2, f2, a) ==
  \A l \in f2 + 1 .. Cardinality(K2) : a[Cardinality(K1) + l] = Merge!Tag(Merge!Nth(K2, l), 2)

(* How much of each set has been written: all of it once it is copied.      *)
Keys1  == {s1[n].key : n \in DOMAIN s1}
Front1 == IF pc = "loop" THEN i ELSE Cardinality(Keys1)
Front2 == IF pc = "done" THEN Cardinality(keys2) ELSE j

MergeTypes ==
  /\ Keys1 \subseteq MergeKeys /\ keys2 \subseteq MergeKeys
  /\ s1 = Merge!Sorted(Keys1, 1)
  /\ scratch \in Seq([key : Int, from : 0 .. 2])
  /\ Len(scratch) >= Cardinality(Keys1) + Cardinality(keys2)
  /\ pc \in {"loop", "second", "done"}
  /\ i \in Nat /\ j \in 0 .. Cardinality(keys2)
  /\ Front1 \in 0 .. Cardinality(Keys1) /\ Front2 \in 0 .. Cardinality(keys2)
  /\ k \in 0 .. Front1 + Front2

MergeInv ==
  /\ MergeTypes
  /\ Written(Keys1, keys2, Front1, Front2, scratch, k)
  /\ Intact(Keys1, keys2, Front2, scratch)

(* After its first n tags b holds, up to p, the keys of K1 after the first  *)
(* f1 up to g1 and those of K2 after the first f2 up to g2, in order.       *)
Adds(K1, K2, f1, f2, g1, g2, b, n, p) ==
  /\ \A m \in n + 1 .. p : b[m] = Winner(K2, b[m].key)
  /\ \A l, m \in n + 1 .. p : l < m => b[l].key < b[m].key
  /\ \A m \in n + 1 .. p : \/ \E l \in f1 + 1 .. g1 : b[m].key = Merge!Nth(K1, l)
                           \/ \E l \in f2 + 1 .. g2 : b[m].key = Merge!Nth(K2, l)
  /\ \A l \in f1 + 1 .. g1 : \E m \in n + 1 .. p : b[m].key = Merge!Nth(K1, l)
  /\ \A l \in f2 + 1 .. g2 : \E m \in n + 1 .. p : b[m].key = Merge!Nth(K2, l)
  /\ \A m \in n + 1 .. p, l \in g1 + 1 .. Cardinality(K1) : b[m].key < Merge!Nth(K1, l)
  /\ \A m \in n + 1 .. p, l \in g2 + 1 .. Cardinality(K2) : b[m].key < Merge!Nth(K2, l)

(* What they make is again the beginning of the union.                      *)
LEMMA WrittenMore ==
  ASSUME NEW K1, K1 \subseteq Int, IsFiniteSet(K1), NEW K2, K2 \subseteq Int, IsFiniteSet(K2),
         NEW f1 \in 0 .. Cardinality(K1), NEW f2 \in 0 .. Cardinality(K2), NEW a, NEW n \in Nat,
         Written(K1, K2, f1, f2, a, n),
         NEW g1 \in f1 .. Cardinality(K1), NEW g2 \in f2 .. Cardinality(K2), NEW b, NEW p \in Nat,
         n <= p, \A m \in 1 .. n : b[m] = a[m], Adds(K1, K2, f1, f2, g1, g2, b, n, p)
  PROVE  Written(K1, K2, g1, g2, b, p)
<1>1. Cardinality(K1) \in Nat /\ Cardinality(K2) \in Nat
  BY FS_CardinalityType
<1>2. \A m \in 1 .. p : m \in 1 .. n \/ m \in n + 1 .. p
  OBVIOUS
<1>3. ASSUME NEW m \in 1 .. p
      PROVE  b[m] = Winner(K2, b[m].key) /\ b[m].key \in K1 \cup K2
  <2>1. CASE m \in 1 .. n
    BY <2>1 DEF Written
  <2>2. CASE m \in n + 1 .. p
    <3>1. /\ \A l \in f1 + 1 .. g1 : Merge!Nth(K1, l) \in K1
          /\ \A l \in f2 + 1 .. g2 : Merge!Nth(K2, l) \in K2
      <4>1. f1 + 1 .. g1 \subseteq 1 .. Cardinality(K1) /\ f2 + 1 .. g2 \subseteq 1 .. Cardinality(K2)
        BY <1>1
      <4> QED
        BY <4>1, NthElements
    <3> QED
      BY <2>2, <3>1 DEF Adds
  <2> QED
    BY <1>2, <2>1, <2>2
<1>4. ASSUME NEW l \in 1 .. p, NEW m \in 1 .. p, l < m
      PROVE  b[l].key < b[m].key
  <2>1. CASE m \in 1 .. n
    BY <1>4, <2>1 DEF Written
  <2>2. CASE l \in n + 1 .. p
    <3>1. m \in n + 1 .. p
      BY <1>4, <2>2
    <3> QED
      BY <1>4, <2>2, <3>1 DEF Adds
  <2>3. CASE l \in 1 .. n /\ m \in n + 1 .. p
    <3>1. CASE \E q \in f1 + 1 .. g1 : b[m].key = Merge!Nth(K1, q)
      <4>1. PICK q \in f1 + 1 .. Cardinality(K1) : b[m].key = Merge!Nth(K1, q)
        BY <1>1, <3>1
      <4> QED
        BY <2>3, <4>1 DEF Written
    <3>2. CASE \E q \in f2 + 1 .. g2 : b[m].key = Merge!Nth(K2, q)
      <4>1. PICK q \in f2 + 1 .. Cardinality(K2) : b[m].key = Merge!Nth(K2, q)
        BY <1>1, <3>2
      <4> QED
        BY <2>3, <4>1 DEF Written
    <3> QED
      BY <2>3, <3>1, <3>2 DEF Adds
  <2> QED
    BY <1>2, <2>1, <2>2, <2>3
<1>5. ASSUME NEW l \in 1 .. g1
      PROVE  \E m \in 1 .. p : b[m].key = Merge!Nth(K1, l)
  <2>1. CASE l \in 1 .. f1
    <3>1. PICK m \in 1 .. n : a[m].key = Merge!Nth(K1, l)
      BY <2>1 DEF Written
    <3>2. m \in 1 .. p /\ b[m] = a[m]
      OBVIOUS
    <3> QED
      BY <3>1, <3>2
  <2>2. CASE l \in f1 + 1 .. g1
    <3>1. PICK m \in n + 1 .. p : b[m].key = Merge!Nth(K1, l)
      BY <2>2 DEF Adds
    <3> QED
      BY <3>1
  <2> QED
    BY <2>1, <2>2
<1>6. ASSUME NEW l \in 1 .. g2
      PROVE  \E m \in 1 .. p : b[m].key = Merge!Nth(K2, l)
  <2>1. CASE l \in 1 .. f2
    <3>1. PICK m \in 1 .. n : a[m].key = Merge!Nth(K2, l)
      BY <2>1 DEF Written
    <3>2. m \in 1 .. p /\ b[m] = a[m]
      OBVIOUS
    <3> QED
      BY <3>1, <3>2
  <2>2. CASE l \in f2 + 1 .. g2
    <3>1. PICK m \in n + 1 .. p : b[m].key = Merge!Nth(K2, l)
      BY <2>2 DEF Adds
    <3> QED
      BY <3>1
  <2> QED
    BY <2>1, <2>2
<1>7. ASSUME NEW m \in 1 .. p, NEW l \in g1 + 1 .. Cardinality(K1)
      PROVE  b[m].key < Merge!Nth(K1, l)
  <2>1. l \in f1 + 1 .. Cardinality(K1)
    BY <1>1
  <2> QED
    BY <1>2, <2>1 DEF Written, Adds
<1>8. ASSUME NEW m \in 1 .. p, NEW l \in g2 + 1 .. Cardinality(K2)
      PROVE  b[m].key < Merge!Nth(K2, l)
  <2>1. l \in f2 + 1 .. Cardinality(K2)
    BY <1>1
  <2> QED
    BY <1>2, <2>1 DEF Written, Adds
<1> QED
  BY <1>3, <1>4, <1>5, <1>6, <1>7, <1>8 DEF Written

(* One key more: the next of K1, of K2, or of both.                         *)
LEMMA WrittenNext ==
  ASSUME NEW K1, K1 \subseteq Int, IsFiniteSet(K1), NEW K2, K2 \subseteq Int, IsFiniteSet(K2),
         NEW f1 \in 0 .. Cardinality(K1), NEW f2 \in 0 .. Cardinality(K2), NEW a, NEW n \in Nat,
         Written(K1, K2, f1, f2, a, n),
         NEW g1 \in f1 .. f1 + 1, NEW g2 \in f2 .. f2 + 1, g1 # f1 \/ g2 # f2,
         g1 <= Cardinality(K1), g2 <= Cardinality(K2),
         NEW x \in Int, NEW b, \A m \in 1 .. n : b[m] = a[m], b[n + 1] = Winner(K2, x),
         g1 # f1 => x = Merge!Nth(K1, f1 + 1), g2 # f2 => x = Merge!Nth(K2, f2 + 1),
         \A l \in g1 + 1 .. Cardinality(K1) : x < Merge!Nth(K1, l),
         \A l \in g2 + 1 .. Cardinality(K2) : x < Merge!Nth(K2, l)
  PROVE  Written(K1, K2, g1, g2, b, n + 1)
<1>1. b[n + 1].key = x
  BY DEF Winner, Merge!Tag
<1>2. Cardinality(K1) \in Nat /\ Cardinality(K2) \in Nat
  BY FS_CardinalityType
<1>3. g1 \in f1 .. Cardinality(K1) /\ g2 \in f2 .. Cardinality(K2) /\ n + 1 \in Nat /\ n <= n + 1
  BY <1>2
<1>4. (n + 1) .. (n + 1) = {n + 1}
  OBVIOUS
<1>5. \A m \in n + 1 .. n + 1 : b[m] = Winner(K2, b[m].key)
  BY <1>1, <1>4
<1>6. \A l, m \in n + 1 .. n + 1 : l < m => b[l].key < b[m].key
  OBVIOUS
<1>7. \A m \in n + 1 .. n + 1 : \/ \E l \in f1 + 1 .. g1 : b[m].key = Merge!Nth(K1, l)
                                \/ \E l \in f2 + 1 .. g2 : b[m].key = Merge!Nth(K2, l)
  <2>1. CASE g1 # f1
    <3>1. f1 + 1 \in f1 + 1 .. g1
      BY <2>1
    <3> QED
      BY <1>1, <1>4, <2>1, <3>1
  <2>2. CASE g2 # f2
    <3>1. f2 + 1 \in f2 + 1 .. g2
      BY <2>2
    <3> QED
      BY <1>1, <1>4, <2>2, <3>1
  <2> QED
    BY <2>1, <2>2
<1>8. /\ \A l \in f1 + 1 .. g1 : \E m \in n + 1 .. n + 1 : b[m].key = Merge!Nth(K1, l)
      /\ \A l \in f2 + 1 .. g2 : \E m \in n + 1 .. n + 1 : b[m].key = Merge!Nth(K2, l)
  <2>1. ASSUME NEW l \in f1 + 1 .. g1
        PROVE  b[n + 1].key = Merge!Nth(K1, l)
    <3>1. l = f1 + 1 /\ g1 # f1
      OBVIOUS
    <3> QED
      BY <1>1, <3>1
  <2>2. ASSUME NEW l \in f2 + 1 .. g2
        PROVE  b[n + 1].key = Merge!Nth(K2, l)
    <3>1. l = f2 + 1 /\ g2 # f2
      OBVIOUS
    <3> QED
      BY <1>1, <3>1
  <2> QED
    BY <1>4, <2>1, <2>2
<1>9. /\ \A m \in n + 1 .. n + 1, l \in g1 + 1 .. Cardinality(K1) : b[m].key < Merge!Nth(K1, l)
      /\ \A m \in n + 1 .. n + 1, l \in g2 + 1 .. Cardinality(K2) : b[m].key < Merge!Nth(K2, l)
  BY <1>1, <1>4
<1>10. Adds(K1, K2, f1, f2, g1, g2, b, n, n + 1)
  BY <1>5, <1>6, <1>7, <1>8, <1>9 DEF Adds
<1> QED
  BY <1>3, <1>10, WrittenMore

(* A key of K1 before what is left of K2 is not in K2.                      *)
LEMMA OnlyFirst ==
  ASSUME NEW K1, K1 \subseteq Int, IsFiniteSet(K1), NEW K2, K2 \subseteq Int, IsFiniteSet(K2),
         NEW f1 \in Nat, NEW f2 \in 0 .. Cardinality(K2), NEW a, NEW n \in Nat,
         Written(K1, K2, f1, f2, a, n), NEW l \in f1 + 1 .. Cardinality(K1),
         \A q \in f2 + 1 .. Cardinality(K2) : Merge!Nth(K1, l) < Merge!Nth(K2, q)
  PROVE  Merge!Nth(K1, l) \notin K2
<1>1. Cardinality(K1) \in Nat /\ Cardinality(K2) \in Nat /\ l \in 1 .. Cardinality(K1)
  BY FS_CardinalityType
<1>2. Merge!Nth(K1, l) \in Int
  BY <1>1, NthElements
<1>3. ASSUME Merge!Nth(K1, l) \in K2
      PROVE  FALSE
  <2>1. PICK q \in 1 .. Cardinality(K2) : Merge!Nth(K2, q) = Merge!Nth(K1, l)
    BY <1>3, NthElements
  <2>2. q \in 1 .. f2
    <3>1. q \notin f2 + 1 .. Cardinality(K2)
      BY <1>2, <2>1
    <3> QED
      BY <1>1, <3>1
  <2>3. PICK m \in 1 .. n : a[m].key = Merge!Nth(K2, q)
    BY <2>2 DEF Written
  <2>4. a[m].key < Merge!Nth(K1, l)
    BY DEF Written
  <2> QED
    BY <1>2, <2>1, <2>3, <2>4
<1> QED
  BY <1>3

(* The two sets, and the first of them as a sequence.                       *)
LEMMA TwoSets ==
  ASSUME IsFiniteSet(MergeKeys), MergeTypes
  PROVE  /\ Keys1 \subseteq Int /\ keys2 \subseteq Int
         /\ IsFiniteSet(Keys1) /\ IsFiniteSet(keys2)
         /\ Cardinality(Keys1) \in Nat /\ Cardinality(keys2) \in Nat
         /\ \A n \in 1 .. Cardinality(Keys1) : Merge!Nth(Keys1, n) \in Keys1
         /\ \A n \in 1 .. Cardinality(keys2) : Merge!Nth(keys2, n) \in keys2
         /\ \A m, n \in 1 .. Cardinality(Keys1) : m < n => Merge!Nth(Keys1, m) < Merge!Nth(Keys1, n)
         /\ \A m, n \in 1 .. Cardinality(keys2) : m < n => Merge!Nth(keys2, m) < Merge!Nth(keys2, n)
         /\ \A x \in Keys1 : \E n \in 1 .. Cardinality(Keys1) : Merge!Nth(Keys1, n) = x
         /\ \A x \in keys2 : \E n \in 1 .. Cardinality(keys2) : Merge!Nth(keys2, n) = x
         /\ Len(s1) = Cardinality(Keys1) /\ Merge!Len2 = Cardinality(keys2)
         /\ \A n \in 1 .. Cardinality(Keys1) : s1[n] = Merge!Tag(Merge!Nth(Keys1, n), 1)
<1>1. Keys1 \subseteq Int /\ keys2 \subseteq Int
  BY TagNamesAssumption DEF MergeTypes
<1>2. IsFiniteSet(Keys1) /\ IsFiniteSet(keys2)
  BY FS_Subset DEF MergeTypes
<1>3. /\ Cardinality(Keys1) \in Nat
      /\ \A n \in 1 .. Cardinality(Keys1) : Merge!Nth(Keys1, n) \in Keys1
      /\ \A m, n \in 1 .. Cardinality(Keys1) : m < n => Merge!Nth(Keys1, m) < Merge!Nth(Keys1, n)
      /\ \A x \in Keys1 : \E n \in 1 .. Cardinality(Keys1) : Merge!Nth(Keys1, n) = x
  BY <1>1, <1>2, NthElements
<1>4. /\ Cardinality(keys2) \in Nat
      /\ \A n \in 1 .. Cardinality(keys2) : Merge!Nth(keys2, n) \in keys2
      /\ \A m, n \in 1 .. Cardinality(keys2) : m < n => Merge!Nth(keys2, m) < Merge!Nth(keys2, n)
      /\ \A x \in keys2 : \E n \in 1 .. Cardinality(keys2) : Merge!Nth(keys2, n) = x
  BY <1>1, <1>2, NthElements
<1>5. s1 = [n \in 1 .. Cardinality(Keys1) |-> Merge!Tag(Merge!Nth(Keys1, n), 1)]
  BY SameCardinality DEF MergeTypes, Merge!Sorted
<1>6. Len(s1) = Cardinality(Keys1)
  <2> HIDE DEF Keys1
  <2> QED
    BY <1>3, <1>5
<1>7. \A n \in 1 .. Cardinality(Keys1) : s1[n] = Merge!Tag(Merge!Nth(Keys1, n), 1)
  <2> HIDE DEF Keys1
  <2> QED
    BY <1>5
<1> QED
  BY <1>1, <1>2, <1>3, <1>4, <1>6, <1>7, SameCardinality DEF Merge!Len2

(* A step of the loop: i or j or both advance, past the key it writes.      *)
LEMMA LoopStep ==
  ASSUME IsFiniteSet(MergeKeys), MergeInv, pc = "loop", UNCHANGED <<s1, keys2, pc>>,
         NEW x \in Int, Merge!Put(Winner(keys2, x)),
         i' \in i .. i + 1, j' \in j .. j + 1, i' # i \/ j' # j,
         i < Cardinality(Keys1), j < Cardinality(keys2),
         i' # i => x = Merge!Nth(Keys1, i + 1), j' # j => x = Merge!Nth(keys2, j + 1),
         i' = i => x < Merge!Nth(Keys1, i + 1), j' = j => x < Merge!Nth(keys2, j + 1)
  PROVE  MergeInv'
<1>1. /\ Keys1 \subseteq Int /\ keys2 \subseteq Int /\ IsFiniteSet(Keys1) /\ IsFiniteSet(keys2)
      /\ Cardinality(Keys1) \in Nat /\ Cardinality(keys2) \in Nat
  BY TwoSets DEF MergeInv
<1>2. /\ i \in 0 .. Cardinality(Keys1) /\ j \in 0 .. Cardinality(keys2) /\ k \in 0 .. i + j
      /\ Len(scratch) \in Nat /\ DOMAIN scratch = 1 .. Len(scratch)
      /\ Len(scratch) >= Cardinality(Keys1) + Cardinality(keys2)
      /\ Written(Keys1, keys2, i, j, scratch, k) /\ Intact(Keys1, keys2, j, scratch)
      /\ scratch \in Seq([key : Int, from : 0 .. 2])
  BY DEF MergeInv, MergeTypes, Front1, Front2
<1>3. PICK c : c = Keys1
  OBVIOUS
<1>4. PICK n1 \in Nat : n1 = Cardinality(c)
  BY <1>1, <1>3
<1>5. PICK n2 \in Nat : n2 = Cardinality(keys2)
  BY <1>1
<1>6. PICK g1 \in Nat : g1 = i'
  BY <1>2
<1>7. PICK g2 \in Nat : g2 = j'
  BY SMTT(30), <1>2
<1>8. PICK size \in Nat : size = Len(scratch)
  BY <1>2
<1>9. /\ i \in 0 .. n1 /\ j \in 0 .. n2 /\ k \in 0 .. i + j /\ i < n1 /\ j < n2 /\ size >= n1 + n2
       /\ i \in Nat /\ j \in Nat /\ k \in Nat /\ n1 \in Nat /\ n2 \in Nat /\ g1 \in Nat /\ g2 \in Nat /\ size \in Nat
       /\ g1 \in i .. i + 1 /\ g2 \in j .. j + 1 /\ (g1 # i \/ g2 # j)
       /\ DOMAIN scratch = 1 .. size
  BY <1>2, <1>3, <1>4, <1>5, <1>6, <1>7, <1>8
<1>10. Keys1' = c
  BY <1>3 DEF Keys1
<1>11. scratch' = [scratch EXCEPT ![k + 1] = Winner(keys2, x)] /\ k' = k + 1
  BY DEF Merge!Put
<1>12. k + 1 \in DOMAIN scratch /\ k \in Nat
  BY <1>1, <1>2
<1>13. Winner(keys2, x) \in [key : Int, from : 0 .. 2]
  BY DEF Winner, Merge!Tag
<1>14. /\ scratch' \in Seq([key : Int, from : 0 .. 2])
      /\ Len(scratch') = Len(scratch)
      /\ scratch'[k + 1] = Winner(keys2, x)
      /\ \A m \in DOMAIN scratch \ {k + 1} : scratch'[m] = scratch[m]
  <2> HIDE DEF Winner
  <2> QED
    BY <1>2, <1>11, <1>12, <1>13
<1>15. Written(c, keys2, i', j', scratch', k + 1)
  <2>1. /\ c \subseteq Int /\ IsFiniteSet(c)
        /\ i \in 0 .. Cardinality(c) /\ Written(c, keys2, i, j, scratch, k)
        /\ i' <= Cardinality(c) /\ j' <= Cardinality(keys2)
    <3>1. i \in 0 .. n1 /\ g1 <= n1 /\ g2 <= n2
      BY ONLY <1>9
    <3> QED
      BY <1>1, <1>2, <1>3, <1>4, <1>5, <1>6, <1>7, <3>1
  <2>2. \A m \in 1 .. k : scratch'[m] = scratch[m]
    <3>1. \A m \in 1 .. k : m \in DOMAIN scratch \ {k + 1}
      BY <1>1, <1>2
    <3> QED
      BY <1>14, <3>1
  <2>3. /\ i' # i => x = Merge!Nth(c, i + 1)
        /\ i' = i => x < Merge!Nth(c, i + 1)
    BY <1>3
  <2>4. ASSUME NEW l \in i' + 1 .. Cardinality(c)
        PROVE  x < Merge!Nth(c, l)
    <3>0. l \in g1 + 1 .. n1
      BY <1>4, <1>6
    <3>1. /\ i + 1 \in 1 .. n1 /\ l \in 1 .. n1
          /\ l = i + 1 \/ i + 1 < l
          /\ l = i + 1 => g1 = i
      BY ONLY <1>9, <3>0
    <3>2. /\ Merge!Nth(c, i + 1) \in Int /\ Merge!Nth(c, l) \in Int
          /\ i + 1 < l => Merge!Nth(c, i + 1) < Merge!Nth(c, l)
      BY <2>1, <3>1, <1>4, NthElements
    <3> QED
      BY <2>3, <3>1, <3>2, <1>6
  <2>5. ASSUME NEW l \in j' + 1 .. Cardinality(keys2)
        PROVE  x < Merge!Nth(keys2, l)
    <3>0. l \in g2 + 1 .. n2
      BY <1>5, <1>7
    <3>1. /\ j + 1 \in 1 .. n2 /\ l \in 1 .. n2
          /\ l = j + 1 \/ j + 1 < l
          /\ l = j + 1 => g2 = j
      BY ONLY <1>9, <3>0
    <3>2. /\ Merge!Nth(keys2, j + 1) \in Int /\ Merge!Nth(keys2, l) \in Int
          /\ j + 1 < l => Merge!Nth(keys2, j + 1) < Merge!Nth(keys2, l)
      BY <1>1, <3>1, <1>5, NthElements
    <3> QED
      BY <3>1, <3>2, <1>7
  <2> HIDE DEF Winner
  <2> QED
    BY <1>1, <1>2, <1>12, <1>14, <2>1, <2>2, <2>3, <2>4, <2>5, WrittenNext
<1>16. Intact(c, keys2, j', scratch')
  <2>1. ASSUME NEW l \in j' + 1 .. Cardinality(keys2)
        PROVE  /\ scratch'[Cardinality(c) + l] = scratch[Cardinality(c) + l]
               /\ l \in j + 1 .. Cardinality(keys2)
    <3>1. l \in g2 + 1 .. n2
      BY <1>5, <1>7
    <3>2. n1 + l \in 1 .. size /\ n1 + l # k + 1 /\ l \in j + 1 .. n2
      BY ONLY <1>9, <3>1
    <3> QED
      BY <1>14, <1>4, <1>5, <1>9, <3>2
  <2> QED
    BY <1>2, <1>3, <2>1 DEF Intact
<1>17. MergeTypes'
  <2>1. /\ Front1' = i' /\ Front2' = j'
    BY DEF Front1, Front2
  <2>2. /\ i' \in 0 .. Cardinality(c) /\ j' \in 0 .. Cardinality(keys2) /\ k + 1 \in 0 .. i' + j'
        /\ Len(scratch) >= Cardinality(c) + Cardinality(keys2)
    <3>1. g1 \in 0 .. n1 /\ g2 \in 0 .. n2 /\ k + 1 \in 0 .. g1 + g2
      BY ONLY <1>9
    <3> QED
      BY <1>4, <1>5, <1>6, <1>7, <1>8, <1>9, <3>1
  <2>3. c \subseteq MergeKeys /\ keys2 \subseteq MergeKeys /\ s1 = Merge!Sorted(c, 1)
    BY <1>3 DEF MergeInv, MergeTypes
  <2> QED
    BY <1>10, <1>11, <1>14, <2>1, <2>2, <2>3 DEF MergeTypes, Merge!Sorted
<1> QED
  BY <1>10, <1>11, <1>15, <1>16, <1>17 DEF MergeInv, Front1, Front2

(* What the loop reads: the next tag of each set, the second where it was.  *)
LEMMA NextTags ==
  ASSUME IsFiniteSet(MergeKeys), MergeInv
  PROVE  /\ i < Len(s1) => s1[i + 1] = Merge!Tag(Merge!Nth(Keys1, i + 1), 1)
         /\ pc # "done" => \A l \in j .. Merge!Len2 - 1 : Merge!S2(l) = Merge!Tag(Merge!Nth(keys2, l + 1), 2)
         /\ i \in Nat /\ j \in Nat /\ k \in Nat
<1>1. /\ Len(s1) = Cardinality(Keys1) /\ Merge!Len2 = Cardinality(keys2)
      /\ \A n \in 1 .. Cardinality(Keys1) : s1[n] = Merge!Tag(Merge!Nth(Keys1, n), 1)
      /\ Cardinality(Keys1) \in Nat /\ Cardinality(keys2) \in Nat
  BY TwoSets DEF MergeInv
<1>2. i \in Nat /\ j \in Nat /\ k \in Nat
  BY DEF MergeInv, MergeTypes
<1>3. i < Len(s1) => s1[i + 1] = Merge!Tag(Merge!Nth(Keys1, i + 1), 1)
  BY <1>1, <1>2
<1>4. ASSUME pc # "done", NEW l \in j .. Merge!Len2 - 1
      PROVE  Merge!S2(l) = Merge!Tag(Merge!Nth(keys2, l + 1), 2)
  <2>1. l + 1 \in j + 1 .. Cardinality(keys2) /\ Front2 = j
    BY <1>1, <1>2, <1>4 DEF Front2
  <2>2. scratch[Cardinality(Keys1) + (l + 1)] = Merge!Tag(Merge!Nth(keys2, l + 1), 2)
    BY <2>1 DEF MergeInv, Intact
  <2>3. Cardinality(Keys1) + (l + 1) = Len(s1) + l + 1
    BY <1>1, <1>2
  <2> QED
    BY <2>2, <2>3 DEF Merge!S2, Merge!TailStart
<1> QED
  BY <1>2, <1>3, <1>4

(* The three steps of the loop.                                             *)
LEMMA LoopKeepsInv ==
  ASSUME IsFiniteSet(MergeKeys), MergeInv, Merge!Equal \/ Merge!TakeFirst \/ Merge!TakeSecond
  PROVE  MergeInv'
<1> DEFINE x1 == Merge!Nth(Keys1, i + 1)
           x2 == Merge!Nth(keys2, j + 1)
<1>1. /\ Keys1 \subseteq Int /\ keys2 \subseteq Int /\ IsFiniteSet(Keys1) /\ IsFiniteSet(keys2)
      /\ Cardinality(Keys1) \in Nat /\ Cardinality(keys2) \in Nat
      /\ Len(s1) = Cardinality(Keys1) /\ Merge!Len2 = Cardinality(keys2)
  BY TwoSets DEF MergeInv
<1>2. pc = "loop" /\ Merge!InLoop /\ UNCHANGED <<s1, keys2, pc>>
  BY DEF Merge!Equal, Merge!TakeFirst, Merge!TakeSecond
<1>3. /\ i \in Nat /\ j \in Nat /\ i < Cardinality(Keys1) /\ j < Cardinality(keys2)
      /\ s1[i + 1] = Merge!Tag(x1, 1) /\ Merge!S2(j) = Merge!Tag(x2, 2)
  <2>1. i \in Nat /\ j \in Nat /\ i < Cardinality(Keys1) /\ j < Cardinality(keys2)
    BY <1>1, <1>2, NextTags DEF Merge!InLoop
  <2>2. j \in j .. Merge!Len2 - 1
    BY <1>1, <2>1
  <2> QED
    BY <1>1, <1>2, <2>1, <2>2, NextTags
<1>4. s1[i + 1].key = x1 /\ Merge!S2(j).key = x2
  BY <1>3 DEF Merge!Tag
<1>5. x1 \in Int /\ x2 \in keys2 /\ x2 \in Int
  <2>1. i + 1 \in 1 .. Cardinality(Keys1) /\ j + 1 \in 1 .. Cardinality(keys2)
    BY <1>1, <1>3
  <2> QED
    BY <1>1, <2>1, NthElements
<1>6. Merge!S2(j) = Winner(keys2, x2)
  BY <1>3, <1>5 DEF Winner
<1> HIDE DEF x1, x2
<1>7. CASE Merge!Equal
  <2>1. Merge!Put(Winner(keys2, x2)) /\ x1 = x2 /\ i' = i + 1 /\ j' = j + 1
    BY <1>4, <1>6, <1>7 DEF Merge!Equal, Merge!PutEqual
  <2> QED
    BY <1>2, <1>3, <1>5, <2>1, LoopStep DEF x1, x2
<1>8. CASE Merge!TakeFirst
  <2>1. Merge!Put(s1[i + 1]) /\ x1 < x2 /\ i' = i + 1 /\ j' = j
    BY <1>4, <1>8 DEF Merge!TakeFirst
  <2>2. x1 \notin keys2
    <3>1. /\ i + 1 \in i + 1 .. Cardinality(Keys1) /\ j \in 0 .. Cardinality(keys2) /\ k \in Nat
          /\ Written(Keys1, keys2, i, j, scratch, k)
      BY <1>1, <1>2, <1>3, NextTags DEF MergeInv, Front1, Front2
    <3>2. ASSUME NEW q \in j + 1 .. Cardinality(keys2)
          PROVE  x1 < Merge!Nth(keys2, q)
      <4>1. /\ q \in 1 .. Cardinality(keys2) /\ j + 1 \in 1 .. Cardinality(keys2)
            /\ q = j + 1 \/ j + 1 < q
        BY <1>1, <1>3
      <4>2. /\ Merge!Nth(keys2, q) \in Int
            /\ j + 1 < q => x2 < Merge!Nth(keys2, q)
        BY <1>1, <4>1, NthElements DEF x2
      <4>3. q = j + 1 => x2 = Merge!Nth(keys2, q)
        BY DEF x2
      <4> QED
        BY <1>5, <2>1, <4>1, <4>2, <4>3
    <3> QED
      BY <1>1, <1>3, <3>1, <3>2, OnlyFirst DEF x1
  <2>3. Merge!Put(Winner(keys2, x1))
    BY <1>3, <2>1, <2>2 DEF Winner
  <2> QED
    BY <1>2, <1>3, <1>5, <2>1, <2>3, LoopStep DEF x1, x2
<1>9. CASE Merge!TakeSecond
  <2>1. Merge!Put(Winner(keys2, x2)) /\ x1 > x2 /\ i' = i /\ j' = j + 1
    BY <1>4, <1>6, <1>9 DEF Merge!TakeSecond
  <2> QED
    BY <1>2, <1>3, <1>5, <2>1, LoopStep DEF x1, x2
<1> QED
  BY <1>7, <1>8, <1>9

(* copy, when what it copies fits.                                          *)
LEMMA CopyWrites ==
  ASSUME NEW Slots, scratch \in Seq(Slots), k \in Nat, NEW src, NEW n \in Nat,
         Len(src) = n, k + n <= Len(scratch), \A l \in 1 .. n : src[l] \in Slots, Merge!Copy(src)
  PROVE  /\ k' = k + n
         /\ scratch' \in Seq(Slots) /\ Len(scratch') = Len(scratch)
         /\ \A m \in DOMAIN scratch : m - k \notin 1 .. n => scratch'[m] = scratch[m]
         /\ \A l \in 1 .. n : scratch'[k + l] = src[l]
<1>1. PICK size \in Nat : size = Len(scratch) /\ DOMAIN scratch = 1 .. size
  OBVIOUS
<1>2. ~(size - k < n) /\ (n < size - k \/ n = size - k)
  BY <1>1
<1>3. /\ scratch' = [m \in 1 .. size |-> IF m - k \in 1 .. n THEN src[m - k] ELSE scratch[m]]
      /\ k' = k + n
  BY <1>1, <1>2 DEF Merge!Copy, Merge!Size
<1>4. \A m \in 1 .. size : scratch'[m] \in Slots
  BY <1>1, <1>3
<1>5. scratch' \in Seq(Slots) /\ Len(scratch') = size
  BY <1>1, <1>3, <1>4
<1>6. \A l \in 1 .. n : k + l \in 1 .. size /\ (k + l) - k = l
  BY <1>1
<1>7. \A l \in 1 .. n : scratch'[k + l] = src[l]
  BY <1>3, <1>6
<1> QED
  BY <1>1, <1>3, <1>5, <1>7

LEMMA CopyFirstKeepsInv ==
  ASSUME IsFiniteSet(MergeKeys), MergeInv, Merge!CopyFirst
  PROVE  MergeInv'
<1> DEFINE Slots == [key : Int, from : 0 .. 2]
<1>1. PICK c : c = Keys1
  OBVIOUS
<1>2. /\ c \subseteq Int /\ keys2 \subseteq Int /\ IsFiniteSet(c) /\ IsFiniteSet(keys2)
      /\ Len(s1) = Cardinality(c) /\ Merge!Len2 = Cardinality(keys2)
      /\ \A n \in 1 .. Cardinality(c) : s1[n] = Merge!Tag(Merge!Nth(c, n), 1)
      /\ \A n \in 1 .. Cardinality(c) : Merge!Nth(c, n) \in c
  BY <1>1, TwoSets DEF MergeInv
<1>3. PICK n1 \in Nat, n2 \in Nat : n1 = Cardinality(c) /\ n2 = Cardinality(keys2)
  BY <1>1, TwoSets DEF MergeInv
<1>4. PICK size \in Nat : size = Len(scratch) /\ DOMAIN scratch = 1 .. size
  BY DEF MergeInv, MergeTypes
<1>5. pc = "loop" /\ pc' = "second" /\ UNCHANGED <<s1, keys2, i, j>>
  BY DEF Merge!CopyFirst
<1>6. /\ i \in 0 .. n1 /\ j \in 0 .. n2 /\ k \in 0 .. i + j /\ size >= n1 + n2 /\ i \in Nat /\ k \in Nat
      /\ n1 \in Nat /\ n2 \in Nat /\ size \in Nat
  BY <1>1, <1>3, <1>4, <1>5 DEF MergeInv, MergeTypes, Front1, Front2
<1>7. i = n1 \/ j = n2
  BY <1>2, <1>3, <1>4, <1>6 DEF Merge!CopyFirst, Merge!InLoop, Merge!Size
<1>8. Written(c, keys2, i, j, scratch, k) /\ Intact(c, keys2, j, scratch) /\ scratch \in Seq(Slots)
  BY <1>1, <1>5 DEF MergeInv, MergeTypes, Front1, Front2
<1>9. PICK r \in Nat : r = n1 - i /\ k + r <= size /\ k + r \in 0 .. n1 + j /\ k + r <= n1 + j
  <2>1. n1 - i \in Nat /\ k + (n1 - i) <= size /\ k + (n1 - i) \in 0 .. n1 + j
    BY ONLY <1>6
  <2> QED
    BY <2>1
<1>10. PICK src : src = SubSeq(s1, i + 1, Len(s1))
  OBVIOUS
<1>11. Len(src) = r /\ \A l \in 1 .. r : src[l] = Merge!Tag(Merge!Nth(c, i + l), 1)
  <2>1. s1 \in Seq([key : c, from : {1}])
    <3>1. s1 = [n \in 1 .. n1 |-> Merge!Tag(Merge!Nth(c, n), 1)]
      BY <1>1, <1>3, SameCardinality DEF MergeInv, MergeTypes, Merge!Sorted
    <3>2. \A n \in 1 .. n1 : Merge!Tag(Merge!Nth(c, n), 1) \in [key : c, from : {1}]
      BY <1>2, <1>3 DEF Merge!Tag
    <3> QED
      BY <3>1, <3>2
  <2>2. Len(s1) = n1
    BY <1>2, <1>3
  <2>3. Len(src) = r /\ \A l \in 1 .. r : src[l] = s1[i + l]
    BY <1>6, <1>9, <1>10, <2>1, <2>2
  <2>4. \A l \in 1 .. r : i + l \in 1 .. n1
    BY <1>6, <1>9
  <2> QED
    BY <1>2, <1>3, <2>3, <2>4
<1>12. \A l \in 1 .. r : i + l \in 1 .. n1 /\ i + l \in i + 1 .. n1
  BY <1>6, <1>9
<1>13. \A l \in 1 .. r : src[l] \in Slots /\ src[l].key = Merge!Nth(c, i + l)
  <2> SUFFICES ASSUME NEW l \in 1 .. r
               PROVE  src[l] \in Slots /\ src[l].key = Merge!Nth(c, i + l)
    OBVIOUS
  <2>1. Merge!Nth(c, i + l) \in Int /\ src[l] = Merge!Tag(Merge!Nth(c, i + l), 1)
    BY <1>2, <1>3, <1>11, <1>12
  <2> QED
    BY <2>1 DEF Merge!Tag
<1> HIDE DEF Slots
<1>14. /\ k' = k + r /\ scratch' \in Seq(Slots) /\ Len(scratch') = size
       /\ \A m \in DOMAIN scratch : m - k \notin 1 .. r => scratch'[m] = scratch[m]
       /\ \A l \in 1 .. r : scratch'[k + l] = src[l]
  <2>1. Merge!Copy(src)
    BY <1>10 DEF Merge!CopyFirst
  <2>2. k \in Nat /\ k + r <= Len(scratch) /\ Len(src) = r /\ \A l \in 1 .. r : src[l] \in Slots
    BY <1>4, <1>6, <1>9, <1>11, <1>13
  <2> QED
    BY <1>4, <1>8, <2>1, <2>2, CopyWrites
<1>15. PICK b : b = scratch'
  OBVIOUS
<1>16. PICK p \in Nat : p = k + r
  BY <1>6
<1>17. \A m \in k + 1 .. p : /\ m - k \in 1 .. r /\ k + (m - k) = m
                             /\ b[m] = Merge!Tag(Merge!Nth(c, i + (m - k)), 1)
                             /\ b[m].key = Merge!Nth(c, i + (m - k))
                             /\ i + (m - k) \in i + 1 .. n1 /\ i + (m - k) \in 1 .. n1
  <2> SUFFICES ASSUME NEW m \in k + 1 .. p
               PROVE  /\ m - k \in 1 .. r /\ k + (m - k) = m
                      /\ b[m] = Merge!Tag(Merge!Nth(c, i + (m - k)), 1)
                      /\ b[m].key = Merge!Nth(c, i + (m - k))
                      /\ i + (m - k) \in i + 1 .. n1 /\ i + (m - k) \in 1 .. n1
    OBVIOUS
  <2>1. PICK l \in 1 .. r : l = m - k /\ k + l = m
    <3>1. m - k \in 1 .. r /\ k + (m - k) = m
      BY <1>6, <1>9, <1>16
    <3> QED
      BY <3>1
  <2> QED
    BY <1>11, <1>12, <1>13, <1>14, <1>15, <2>1
<1>18. Adds(c, keys2, i, j, n1, j, b, k, p)
  <2>1. ASSUME NEW m \in k + 1 .. p
        PROVE  b[m] = Winner(keys2, b[m].key)
    <3>1. PICK l \in i + 1 .. n1 : b[m] = Merge!Tag(Merge!Nth(c, l), 1) /\ b[m].key = Merge!Nth(c, l)
      BY <1>17
    <3>2. j = n2
      BY <1>6, <1>7, <3>1
    <3>3. \A q \in j + 1 .. n2 : Merge!Nth(c, l) < Merge!Nth(keys2, q)
      BY <1>6, <3>2
    <3>4. Merge!Nth(c, l) \notin keys2
      BY <1>2, <1>3, <1>6, <1>8, <3>3, OnlyFirst
    <3> QED
      BY <3>1, <3>4 DEF Winner
  <2>2. ASSUME NEW l \in k + 1 .. p, NEW m \in k + 1 .. p, l < m
        PROVE  b[l].key < b[m].key
    <3>1. i + (l - k) < i + (m - k)
      BY <1>6, <2>2
    <3>2. Merge!Nth(c, i + (l - k)) < Merge!Nth(c, i + (m - k))
      BY <1>2, <1>3, <1>17, <3>1, NthElements
    <3> QED
      BY <1>17, <3>2
  <2>3. ASSUME NEW m \in k + 1 .. p
        PROVE  \E l \in i + 1 .. n1 : b[m].key = Merge!Nth(c, l)
    BY <1>17
  <2>4. ASSUME NEW l \in i + 1 .. n1
        PROVE  \E m \in k + 1 .. p : b[m].key = Merge!Nth(c, l)
    <3>1. PICK q \in 1 .. r : q = l - i /\ i + q = l
      <4>1. l - i \in 1 .. r /\ i + (l - i) = l
        BY <1>6, <1>9
      <4> QED
        BY <4>1
    <3>2. k + q \in k + 1 .. p
      BY <1>6, <1>9, <1>16
    <3>3. b[k + q].key = Merge!Nth(c, l)
      BY <1>13, <1>14, <1>15, <3>1
    <3> QED
      BY <3>2, <3>3
  <2>5. ASSUME NEW m \in k + 1 .. p, NEW l \in j + 1 .. n2
        PROVE  b[m].key < Merge!Nth(keys2, l)
    <3>1. r # 0 /\ j # n2
      BY <1>6, <1>9, <1>16
    <3> QED
      BY <1>7, <1>9, <3>1
  <2>6. n1 + 1 .. n1 = {} /\ j + 1 .. j = {}
    BY <1>6
  <2> QED
    BY <1>3, <2>1, <2>2, <2>3, <2>4, <2>5, <2>6 DEF Adds
<1>19. Written(c, keys2, n1, j, b, p)
  <2>1. i \in 0 .. n1 /\ j \in 0 .. n2 /\ n1 \in i .. n1 /\ j \in j .. n2 /\ k <= p
    BY <1>6, <1>9, <1>16
  <2>2. ASSUME NEW m \in 1 .. k
        PROVE  b[m] = scratch[m]
    <3>1. m \in DOMAIN scratch /\ m - k \notin 1 .. r
      BY <1>4, <1>6
    <3> QED
      BY <1>14, <1>15, <3>1
  <2> QED
    BY <1>2, <1>3, <1>6, <1>8, <1>18, <2>1, <2>2, WrittenMore
<1>20. Intact(c, keys2, j, b)
  <2>1. ASSUME NEW l \in j + 1 .. n2
        PROVE  b[n1 + l] = scratch[n1 + l]
    <3>1. n1 + l \in 1 .. size /\ (n1 + l) - k \notin 1 .. r
      BY ONLY <1>6, <1>9, <2>1, l \in j + 1 .. n2, r \in Nat
    <3> QED
      BY <1>4, <1>14, <1>15, <3>1
  <2> QED
    BY <1>3, <1>8, <2>1 DEF Intact
<1>21. Keys1' = c
  BY <1>1, <1>5 DEF Keys1
<1>22. Front1' = n1 /\ Front2' = j
  BY <1>3, <1>5, <1>21 DEF Front1, Front2
<1>23. MergeTypes'
  <2>1. c \subseteq MergeKeys /\ keys2 \subseteq MergeKeys /\ s1 = Merge!Sorted(c, 1)
    BY <1>1 DEF MergeInv, MergeTypes
  <2>2. n1 \in 0 .. n1 /\ j \in 0 .. n2 /\ p \in 0 .. n1 + j
    BY <1>6, <1>9, <1>16
  <2> QED
    BY <1>3, <1>5, <1>6, <1>14, <1>16, <1>21, <1>22, <2>1, <2>2 DEF MergeTypes, Merge!Sorted, Slots
<1> QED
  BY <1>5, <1>14, <1>15, <1>16, <1>19, <1>20, <1>21, <1>22, <1>23 DEF MergeInv

LEMMA CopySecondKeepsInv ==
  ASSUME IsFiniteSet(MergeKeys), MergeInv, Merge!CopySecond
  PROVE  MergeInv'
<1> DEFINE Slots == [key : Int, from : 0 .. 2]
<1>1. PICK c : c = Keys1
  OBVIOUS
<1>2. /\ c \subseteq Int /\ keys2 \subseteq Int /\ IsFiniteSet(c) /\ IsFiniteSet(keys2)
      /\ Merge!Len2 = Cardinality(keys2)
      /\ \A n \in 1 .. Cardinality(keys2) : Merge!Nth(keys2, n) \in keys2
  BY <1>1, TwoSets DEF MergeInv
<1>3. PICK n1 \in Nat, n2 \in Nat : n1 = Cardinality(c) /\ n2 = Cardinality(keys2)
  BY <1>1, TwoSets DEF MergeInv
<1>4. PICK size \in Nat : size = Len(scratch) /\ DOMAIN scratch = 1 .. size
  BY DEF MergeInv, MergeTypes
<1>5. pc = "second" /\ pc' = "done" /\ UNCHANGED <<s1, keys2, i, j>>
  BY DEF Merge!CopySecond
<1>6. /\ j \in 0 .. n2 /\ k \in 0 .. n1 + j /\ size >= n1 + n2 /\ i \in Nat /\ k \in Nat
      /\ n1 \in Nat /\ n2 \in Nat /\ size \in Nat
  BY <1>1, <1>3, <1>4, <1>5 DEF MergeInv, MergeTypes, Front1, Front2
<1>7. Written(c, keys2, n1, j, scratch, k) /\ scratch \in Seq(Slots)
  BY <1>1, <1>3, <1>5 DEF MergeInv, MergeTypes, Front1, Front2
<1>8. PICK r \in Nat : r = n2 - j /\ k + r <= size /\ k + r \in 0 .. n1 + n2
  <2>1. n2 - j \in Nat /\ k + (n2 - j) <= size /\ k + (n2 - j) \in 0 .. n1 + n2
    BY ONLY <1>6
  <2> QED
    BY <2>1
<1>9. PICK src : src = [n \in 1 .. r |-> Merge!S2(j + n - 1)]
  OBVIOUS
<1>10. Len(src) = r /\ \A l \in 1 .. r : src[l] = Merge!Tag(Merge!Nth(keys2, j + l), 2)
  <2>1. Len(src) = r /\ \A l \in 1 .. r : src[l] = Merge!S2(j + l - 1)
    BY <1>9
  <2>2. \A l \in 1 .. r : j + l - 1 \in j .. n2 - 1 /\ (j + l - 1) + 1 = j + l
    BY <1>6, <1>8
  <2>3. \A l \in j .. n2 - 1 : Merge!S2(l) = Merge!Tag(Merge!Nth(keys2, l + 1), 2)
    BY <1>2, <1>3, <1>5, NextTags
  <2> QED
    BY <2>1, <2>2, <2>3
<1>11. \A l \in 1 .. r : j + l \in 1 .. n2 /\ j + l \in j + 1 .. n2
  BY <1>6, <1>8
<1>12. \A l \in 1 .. r : src[l] \in Slots /\ src[l].key = Merge!Nth(keys2, j + l)
  <2> SUFFICES ASSUME NEW l \in 1 .. r
               PROVE  src[l] \in Slots /\ src[l].key = Merge!Nth(keys2, j + l)
    OBVIOUS
  <2>1. Merge!Nth(keys2, j + l) \in Int /\ src[l] = Merge!Tag(Merge!Nth(keys2, j + l), 2)
    BY <1>2, <1>3, <1>10, <1>11
  <2> QED
    BY <2>1 DEF Merge!Tag
<1> HIDE DEF Slots
<1>13. /\ k' = k + r /\ scratch' \in Seq(Slots) /\ Len(scratch') = size
       /\ \A m \in DOMAIN scratch : m - k \notin 1 .. r => scratch'[m] = scratch[m]
       /\ \A l \in 1 .. r : scratch'[k + l] = src[l]
  <2>1. Merge!Copy(src)
    BY <1>2, <1>3, <1>8, <1>9 DEF Merge!CopySecond
  <2>2. k \in Nat /\ k + r <= Len(scratch) /\ Len(src) = r /\ \A l \in 1 .. r : src[l] \in Slots
    BY <1>4, <1>6, <1>8, <1>10, <1>12
  <2> QED
    BY <1>4, <1>7, <2>1, <2>2, CopyWrites
<1>14. PICK b : b = scratch'
  OBVIOUS
<1>15. PICK p \in Nat : p = k + r
  BY <1>6
<1>16. \A m \in k + 1 .. p : /\ b[m] = Merge!Tag(Merge!Nth(keys2, j + (m - k)), 2)
                             /\ b[m].key = Merge!Nth(keys2, j + (m - k))
                             /\ j + (m - k) \in j + 1 .. n2 /\ j + (m - k) \in 1 .. n2
  <2> SUFFICES ASSUME NEW m \in k + 1 .. p
               PROVE  /\ b[m] = Merge!Tag(Merge!Nth(keys2, j + (m - k)), 2)
                      /\ b[m].key = Merge!Nth(keys2, j + (m - k))
                      /\ j + (m - k) \in j + 1 .. n2 /\ j + (m - k) \in 1 .. n2
    OBVIOUS
  <2>1. PICK l \in 1 .. r : l = m - k /\ k + l = m
    <3>1. m - k \in 1 .. r /\ k + (m - k) = m
      BY <1>6, <1>8, <1>15
    <3> QED
      BY <3>1
  <2> QED
    BY <1>10, <1>11, <1>12, <1>13, <1>14, <2>1
<1>17. Adds(c, keys2, n1, j, n1, n2, b, k, p)
  <2>1. ASSUME NEW m \in k + 1 .. p
        PROVE  b[m] = Winner(keys2, b[m].key)
    <3>1. PICK l \in 1 .. n2 : b[m] = Merge!Tag(Merge!Nth(keys2, l), 2) /\ b[m].key = Merge!Nth(keys2, l)
      BY <1>16
    <3>2. Merge!Nth(keys2, l) \in keys2
      BY <1>2, <1>3
    <3> QED
      BY <3>1, <3>2 DEF Winner
  <2>2. ASSUME NEW l \in k + 1 .. p, NEW m \in k + 1 .. p, l < m
        PROVE  b[l].key < b[m].key
    <3>1. j + (l - k) < j + (m - k)
      BY <1>6, <2>2
    <3>2. Merge!Nth(keys2, j + (l - k)) < Merge!Nth(keys2, j + (m - k))
      BY <1>2, <1>3, <1>16, <3>1, NthElements
    <3> QED
      BY <1>16, <3>2
  <2>3. ASSUME NEW m \in k + 1 .. p
        PROVE  \E l \in j + 1 .. n2 : b[m].key = Merge!Nth(keys2, l)
    BY <1>16
  <2>4. ASSUME NEW l \in j + 1 .. n2
        PROVE  \E m \in k + 1 .. p : b[m].key = Merge!Nth(keys2, l)
    <3>1. PICK q \in 1 .. r : q = l - j /\ j + q = l
      <4>1. l - j \in 1 .. r /\ j + (l - j) = l
        BY <1>6, <1>8
      <4> QED
        BY <4>1
    <3>2. k + q \in k + 1 .. p
      BY <1>6, <1>8, <1>15
    <3>3. b[k + q].key = Merge!Nth(keys2, l)
      BY <1>12, <1>13, <1>14, <3>1
    <3> QED
      BY <3>2, <3>3
  <2>5. n1 + 1 .. n1 = {} /\ n2 + 1 .. n2 = {}
    BY <1>6
  <2> QED
    BY <1>3, <2>1, <2>2, <2>3, <2>4, <2>5 DEF Adds
<1>18. Written(c, keys2, n1, n2, b, p)
  <2>1. n1 \in 0 .. n1 /\ j \in 0 .. n2 /\ n1 \in n1 .. n1 /\ n2 \in j .. n2 /\ k <= p
    BY <1>6, <1>8, <1>15
  <2>2. ASSUME NEW m \in 1 .. k
        PROVE  b[m] = scratch[m]
    <3>1. m \in DOMAIN scratch /\ m - k \notin 1 .. r
      BY <1>4, <1>6
    <3> QED
      BY <1>13, <1>14, <3>1
  <2> QED
    BY <1>2, <1>3, <1>6, <1>7, <1>17, <2>1, <2>2, WrittenMore
<1>19. Intact(c, keys2, n2, b)
  <2>1. n2 + 1 .. n2 = {}
    OBVIOUS
  <2> QED
    BY <1>3, <2>1 DEF Intact
<1>20. Keys1' = c
  BY <1>1, <1>5 DEF Keys1
<1>21. Front1' = n1 /\ Front2' = n2
  BY <1>3, <1>5, <1>20 DEF Front1, Front2
<1>22. MergeTypes'
  <2>1. c \subseteq MergeKeys /\ keys2 \subseteq MergeKeys /\ s1 = Merge!Sorted(c, 1)
    BY <1>1 DEF MergeInv, MergeTypes
  <2>2. n1 \in 0 .. n1 /\ n2 \in 0 .. n2 /\ p \in 0 .. n1 + n2
    BY <1>6, <1>8, <1>15
  <2> QED
    BY <1>3, <1>5, <1>6, <1>13, <1>15, <1>20, <1>21, <2>1, <2>2 DEF MergeTypes, Merge!Sorted, Slots
<1> QED
  BY <1>5, <1>13, <1>14, <1>15, <1>18, <1>19, <1>20, <1>21, <1>22 DEF MergeInv

LEMMA InitMerge ==
  ASSUME IsFiniteSet(MergeKeys), Merge!Init
  PROVE  MergeInv
<1>1. PICK c \in SUBSET MergeKeys : s1 = Merge!Sorted(c, 1)
  BY DEF Merge!Init
<1>2. /\ c \subseteq Int /\ keys2 \subseteq Int /\ IsFiniteSet(c) /\ IsFiniteSet(keys2)
      /\ keys2 \subseteq MergeKeys /\ pc = "loop" /\ i = 0 /\ j = 0 /\ k = 0
  BY <1>1, TagNamesAssumption, FS_Subset DEF Merge!Init
<1>3. PICK n1 \in Nat, n2 \in Nat : n1 = Cardinality(c) /\ n2 = Cardinality(keys2)
  BY <1>2, FS_CardinalityType
<1>4. s1 = [n \in 1 .. n1 |-> Merge!Tag(Merge!Nth(c, n), 1)]
  BY <1>1, <1>3, SameCardinality DEF Merge!Sorted
<1>5. Len(s1) = n1
  BY <1>4
<1>6. Keys1 = c
  <2>1. \A n \in 1 .. n1 : s1[n].key = Merge!Nth(c, n) /\ Merge!Nth(c, n) \in c
    BY <1>2, <1>3, <1>4, NthElements DEF Merge!Tag
  <2>2. \A x \in c : \E n \in 1 .. n1 : Merge!Nth(c, n) = x
    BY <1>2, <1>3, NthElements
  <2>3. DOMAIN s1 = 1 .. n1
    BY <1>4
  <2> QED
    BY <2>1, <2>2, <2>3 DEF Keys1
<1>7. PICK gap \in 0 .. MaxGap :
        scratch = [n \in 1 .. n1 + n2 + gap |-> IF n - n1 \in 1 .. n2
                                                  THEN Merge!Sorted(keys2, 2)[n - n1] ELSE Merge!Blank]
  <2>1. Merge!TailStart(Len(s1)) = n1 /\ Merge!Cardinality(keys2) = n2
    BY <1>3, <1>5, SameCardinality DEF Merge!TailStart
  <2>2. PICK gap \in 0 .. MaxGap :
          scratch = [n \in 1 .. Len(s1) + Merge!Cardinality(keys2) + gap |->
                       IF n - Merge!TailStart(Len(s1)) \in 1 .. Merge!Cardinality(keys2)
                         THEN Merge!Sorted(keys2, 2)[n - Merge!TailStart(Len(s1))] ELSE Merge!Blank]
    BY DEF Merge!Init
  <2> QED
    BY <1>5, <2>1, <2>2
<1>8. PICK size \in Nat : size = n1 + n2 + gap
  OBVIOUS
<1>9. \A l \in 1 .. n2 : Merge!Sorted(keys2, 2)[l] = Merge!Tag(Merge!Nth(keys2, l), 2)
  BY <1>3, SameCardinality DEF Merge!Sorted
<1>10. scratch \in Seq([key : Int, from : 0 .. 2]) /\ Len(scratch) = size
  <2>1. ASSUME NEW l \in 1 .. n2
        PROVE  Merge!Sorted(keys2, 2)[l] \in [key : Int, from : 0 .. 2]
    <3>1. Merge!Nth(keys2, l) \in Int
      BY <1>2, <1>3, NthElements
    <3>2. Merge!Sorted(keys2, 2)[l] = Merge!Tag(Merge!Nth(keys2, l), 2)
      BY <1>9
    <3>3. Merge!Tag(Merge!Nth(keys2, l), 2) \in [key : Int, from : 0 .. 2]
      BY <3>1 DEF Merge!Tag
    <3> QED
      BY <3>2, <3>3
  <2>2. Merge!Blank \in [key : Int, from : 0 .. 2]
    BY DEF Merge!Blank, Merge!Tag
  <2>3. scratch \in [1 .. size -> [key : Int, from : 0 .. 2]]
    BY <1>7, <1>8, <2>1, <2>2
  <2> QED
    BY <2>3, FunctionIsSeq
<1>11. Intact(c, keys2, 0, scratch)
  <2>1. ASSUME NEW l \in 1 .. n2
        PROVE  scratch[n1 + l] = Merge!Tag(Merge!Nth(keys2, l), 2)
    <3>1. n1 + l \in 1 .. n1 + n2 + gap /\ (n1 + l) - n1 = l
      OBVIOUS
    <3> QED
      BY <1>7, <1>9, <3>1
  <2> QED
    BY <1>3, <2>1 DEF Intact
<1>12. Written(c, keys2, 0, 0, scratch, 0)
  <2>1. 1 .. 0 = {}
    OBVIOUS
  <2> QED
    BY <2>1 DEF Written
<1>13. MergeTypes
  BY <1>1, <1>2, <1>3, <1>6, <1>8, <1>10 DEF MergeTypes, Front1, Front2
<1> QED
  BY <1>2, <1>6, <1>11, <1>12, <1>13 DEF MergeInv, Front1, Front2

LEMMA MergeInvariance ==
  ASSUME IsFiniteSet(MergeKeys)
  PROVE  Merge!Spec => []MergeInv
<1>1. Merge!Init => MergeInv
  BY InitMerge
<1>2. MergeInv /\ [Merge!Next]_Merge!vars => MergeInv'
  <2>1. ASSUME MergeInv, UNCHANGED Merge!vars
        PROVE  MergeInv'
    BY <2>1 DEF Merge!vars, MergeInv, MergeTypes, Keys1, Front1, Front2, Merge!Sorted
  <2> QED
    BY <2>1, LoopKeepsInv, CopyFirstKeepsInv, CopySecondKeepsInv DEF Merge!Next
<1> QED
  BY <1>1, <1>2, PTL DEF Merge!Spec

(* What has not been read of the second set has not been overwritten, for   *)
(* any sets: "s2 can be a sub-slice of scratch if it is located at the      *)
(* tail" (mergeTagSets).                                                    *)
THEOREM UnreadStaysIntact ==
  ASSUME IsFiniteSet(MergeKeys)
  PROVE  Merge!Spec => []Merge!UnreadIntact
<1>1. MergeInv => Merge!UnreadIntact
  <2> SUFFICES ASSUME MergeInv, pc # "done", NEW l \in j .. Merge!Len2 - 1
               PROVE  Merge!S2(l) = Merge!Sorted(keys2, 2)[l + 1]
    BY DEF Merge!UnreadIntact
  <2>1. Merge!S2(l) = Merge!Tag(Merge!Nth(keys2, l + 1), 2)
    BY NextTags
  <2>2. l + 1 \in 1 .. Cardinality(keys2)
    BY NextTags, TwoSets DEF MergeInv
  <2>3. Merge!Sorted(keys2, 2)[l + 1] = Merge!Tag(Merge!Nth(keys2, l + 1), 2)
    BY <2>2, SameCardinality DEF Merge!Sorted
  <2> QED
    BY <2>1, <2>3
<1> QED
  BY <1>1, MergeInvariance, PTL

(* Whatever the two sets, the result is their union in order, the second    *)
(* set overriding the first, although the loop overwrites the second while  *)
(* it reads it (MergeTags: "If any keys overlap the values from the         *)
(* provided map").                                                          *)
THEOREM MergeComputesUnion ==
  ASSUME IsFiniteSet(MergeKeys)
  PROVE  Merge!Spec => []Merged
<1>1. MergeInv => Merged
  <2> SUFFICES ASSUME MergeInv, pc = "done"
               PROVE  SubSeq(scratch, 1, k) = Merge!Union
    BY DEF Merged, Merge!Merged
  <2> DEFINE both == Keys1 \cup keys2
             t == [m \in 1 .. k |-> scratch[m].key]
  <2>1. /\ Keys1 \subseteq Int /\ keys2 \subseteq Int /\ both \subseteq Int
        /\ \A x \in Keys1 : \E n \in 1 .. Cardinality(Keys1) : Merge!Nth(Keys1, n) = x
        /\ \A x \in keys2 : \E n \in 1 .. Cardinality(keys2) : Merge!Nth(keys2, n) = x
    BY TwoSets DEF MergeInv
  <2>2. Written(Keys1, keys2, Cardinality(Keys1), Cardinality(keys2), scratch, k) /\ k \in Nat
    BY NextTags DEF MergeInv, Front1, Front2
  <2>3. \A m \in 1 .. k : t[m] \in both
    BY <2>2 DEF Written
  <2>4. \A l, m \in 1 .. k : l < m => t[l] < t[m]
    BY <2>2 DEF Written
  <2>5. ASSUME NEW x \in both
        PROVE  \E m \in 1 .. k : t[m] = x
    <3>1. CASE x \in Keys1
      <4>1. PICK n \in 1 .. Cardinality(Keys1) : Merge!Nth(Keys1, n) = x
        BY <2>1, <3>1
      <4>2. PICK m \in 1 .. k : scratch[m].key = x
        BY <2>2, <4>1 DEF Written
      <4> QED
        BY <4>2
    <3>2. CASE x \in keys2
      <4>1. PICK n \in 1 .. Cardinality(keys2) : Merge!Nth(keys2, n) = x
        BY <2>1, <3>2
      <4>2. PICK m \in 1 .. k : scratch[m].key = x
        BY <2>2, <4>1 DEF Written
      <4> QED
        BY <4>2
    <3> QED
      BY <3>1, <3>2
  <2>6. Cardinality(both) = k /\ \A m \in 1 .. k : t[m] = Merge!Nth(both, m)
    <3> HIDE DEF t, both
    <3>1. PICK n \in Nat : n = k
      BY <2>2
    <3>2. /\ \A m \in 1 .. n : t[m] \in both
          /\ \A l, m \in 1 .. n : l < m => t[l] < t[m]
          /\ \A x \in both : \E m \in 1 .. n : t[m] = x
      BY <2>3, <2>4, <2>5, <3>1
    <3>3. Cardinality(both) = n /\ \A m \in 1 .. n : t[m] = Merge!Nth(both, m)
      <4>1. both \subseteq Int
        BY <2>1
      <4> QED
        BY ONLY <3>2, <4>1, n \in Nat, NthUnique, ZenonT(60)
    <3> QED
      BY <3>1, <3>3
  <2>7. ASSUME NEW m \in 1 .. k
        PROVE  scratch[m] = Merge!Tag(Merge!Nth(both, m), IF Merge!Nth(both, m) \in keys2 THEN 2 ELSE 1)
    <3>1. scratch[m].key = Merge!Nth(both, m)
      BY <2>6
    <3>2. scratch[m] = Winner(keys2, scratch[m].key)
      BY <2>2 DEF Written
    <3> QED
      BY <3>1, <3>2 DEF Winner
  <2>8. SubSeq(scratch, 1, k) = [m \in 1 .. k |-> scratch[m]]
    <3>1. scratch \in Seq([key : Int, from : 0 .. 2]) /\ k <= Len(scratch)
      BY TwoSets DEF MergeInv, MergeTypes, Front1, Front2
    <3> QED
      BY <2>2, <3>1
  <2>9. Merge!Union = [m \in 1 .. k |->
                         Merge!Tag(Merge!Nth(both, m), IF Merge!Nth(both, m) \in keys2 THEN 2 ELSE 1)]
    <3>1. {s1[n].key : n \in DOMAIN s1} = Keys1
      BY DEF Keys1
    <3> QED
      BY <2>6, <3>1, SameCardinality DEF Merge!Union
  <2> HIDE DEF both
  <2> QED
    BY <2>7, <2>8, <2>9
<1> QED
  BY <1>1, MergeInvariance, PTL

-----------------------------------------------------------------------------
(* The tags of scopes.                                                      *)

(* Sets of tags that can be those of a scope or of a name, as lists.        *)
CleanValues == ({Cleaned[v] : v \in Values} \cup {DefaultValue}) \ {EmptyValue}

Distinct(S) == /\ S \subseteq [key : Keys, value : CleanValues]
               /\ IsFiniteSet(S)
               /\ \A p, q \in S : p.key = q.key => p = q

Lists(t, n, S) == /\ n \in Nat /\ t \in [1 .. n -> S]
                  /\ \A l, m \in 1 .. n : l < m => t[l].key < t[m].key
                  /\ \A p \in S : \E m \in 1 .. n : t[m] = p

KeyOf(S) == [p \in S |-> p.key]

LEMMA SortIsOrdered == ASSUME NEW S PROVE Sort(S) = Ordered(KeyOf(S), S)
<1>1. ASSUME NEW n \in 1 .. Cardinality(S)
      PROVE  Sort(S)[n] = Ordered(KeyOf(S), S)[n]
  <2> DEFINE P(p) == Cardinality({q \in S : q.key < p.key}) = n - 1
             Q(p) == Cardinality(Below(KeyOf(S), S, p)) = n - 1
  <2>1. \A p \in S : {q \in S : q.key < p.key} = Below(KeyOf(S), S, p)
    BY DEF Below, KeyOf
  <2>2. \A p \in S : P(p) <=> Q(p)
    BY <2>1
  <2>3. Sort(S)[n] = CHOOSE p \in S : P(p)
    BY DEF Sort
  <2>4. Ordered(KeyOf(S), S)[n] = CHOOSE p \in S : Q(p)
    BY DEF Ordered
  <2> HIDE DEF P, Q
  <2>5. (CHOOSE p \in S : P(p)) = CHOOSE p \in S : Q(p)
    BY <2>2
  <2> QED
    BY <2>3, <2>4, <2>5
<1>2. Sort(S) = [n \in 1 .. Cardinality(S) |-> Sort(S)[n]]
  <2> DEFINE E(n) == CHOOSE p \in S : Cardinality({q \in S : q.key < p.key}) = n - 1
  <2>1. Sort(S) = [n \in 1 .. Cardinality(S) |-> E(n)]
    BY DEF Sort
  <2> HIDE DEF E
  <2> QED
    BY <2>1
<1>3. Ordered(KeyOf(S), S) = [n \in 1 .. Cardinality(S) |-> Ordered(KeyOf(S), S)[n]]
  BY DEF Ordered
<1> QED
  BY <1>1, <1>2, <1>3

LEMMA KeysDiffer ==
  ASSUME NEW S, Distinct(S)
  PROVE  Keyed(KeyOf(S), S) /\ \A p \in S : KeyOf(S)[p] = p.key /\ p.key \in Int
<1>1. \A p \in S : KeyOf(S)[p] = p.key /\ p.key \in Int
  BY ScopesAssumption DEF Distinct, KeyOf
<1> QED
  BY <1>1 DEF Keyed, Distinct

(* Sort lists its set, and is the only list of it.                          *)
LEMMA SortLists ==
  ASSUME NEW S, Distinct(S)
  PROVE  Lists(Sort(S), Cardinality(S), S) /\ Len(Sort(S)) = Cardinality(S)
<1> DEFINE f == KeyOf(S)
           s == Ordered(f, S)
           n == Cardinality(S)
<1>1. IsFiniteSet(S) /\ Keyed(f, S) /\ \A p \in S : f[p] = p.key
  BY KeysDiffer DEF Distinct
<1>2. Sort(S) = s
  BY SortIsOrdered
<1>3. /\ n \in Nat /\ \A m \in 1 .. n : s[m] \in S
      /\ \A l, m \in 1 .. n : l < m => f[s[l]] < f[s[m]]
      /\ \A p \in S : \E m \in 1 .. n : s[m] = p
  BY <1>1, OrderedElements
<1>4. s = [m \in 1 .. n |-> s[m]]
  BY DEF Ordered
<1> HIDE DEF f, s, n
<1>5. \A l, m \in 1 .. n : l < m => s[l].key < s[m].key
  BY <1>1, <1>3
<1>6. s \in [1 .. n -> S]
  BY <1>3, <1>4
<1>7. Len(s) = n
  BY <1>3, <1>6, FunctionIsSeq
<1>8. Lists(s, n, S)
  BY <1>3, <1>5, <1>6 DEF Lists
<1> QED
  BY <1>2, <1>7, <1>8 DEF n

LEMMA SortUnique ==
  ASSUME NEW S, Distinct(S), NEW t, NEW n, Lists(t, n, S)
  PROVE  t = Sort(S)
<1> DEFINE f == KeyOf(S)
<1>1. Keyed(f, S) /\ \A p \in S : f[p] = p.key
  BY KeysDiffer
<1>2. PICK c \in Nat : c = n
  BY DEF Lists
<1>3. t \in [1 .. c -> S]
  BY <1>2 DEF Lists
<1>4. /\ \A m \in 1 .. c : t[m] \in S
      /\ \A p \in S : \E m \in 1 .. c : t[m] = p
  BY <1>2, <1>3 DEF Lists
<1> HIDE DEF f
<1>5. \A l, m \in 1 .. c : l < m => f[t[l]] < f[t[m]]
  BY <1>1, <1>2, <1>4 DEF Lists
<1>6. Cardinality(S) = c /\ \A m \in 1 .. c : t[m] = Ordered(f, S)[m]
  BY ONLY <1>1, <1>4, <1>5, c \in Nat, OrderedUnique
<1>7. Ordered(f, S) = [m \in 1 .. c |-> Ordered(f, S)[m]]
  BY <1>6 DEF Ordered
<1>8. t = [m \in 1 .. c |-> t[m]]
  BY <1>3
<1>9. t = Ordered(f, S)
  BY <1>6, <1>7, <1>8
<1> QED
  BY <1>9, SortIsOrdered DEF f

(* The recursion of Search, over the intervals of Dom.                      *)
Halved(t, key, g, Dom) ==
  [r \in Dom |->
     IF r[1] >= r[2] THEN r[1]
     ELSE IF t[(r[1] + r[2]) \div 2 + 1].key < key THEN g[<<(r[1] + r[2]) \div 2 + 1, r[2]>>]
                                                    ELSE g[<<r[1], (r[1] + r[2]) \div 2>>]]

Intervals(n) == (0 .. n) \X (0 .. n)

Halving(t, key) == CHOOSE g : g = Halved(t, key, g, Intervals(Len(t)))

LEMMA SearchIsHalving ==
  ASSUME NEW t, NEW key
  PROVE  Search(t, key) = Halving(t, key)[<<0, Len(t)>>]
BY DEF Search, Halving, Halved, Intervals

LEMMA HalvingExists ==
  ASSUME NEW t, NEW key, NEW n \in Nat
  PROVE  \E g : g = Halved(t, key, g, Intervals(n))
<1> DEFINE Short(d) == {r \in Intervals(n) : r[2] - r[1] <= d}
           N == {d \in Nat : \E g : g = Halved(t, key, g, Short(d))}
<1>1. 0 \in N
  <2>1. \A r \in Short(0) : r[1] >= r[2]
    BY DEF Intervals
  <2>2. [r \in Short(0) |-> r[1]] = Halved(t, key, [r \in Short(0) |-> r[1]], Short(0))
    BY <2>1 DEF Halved
  <2> QED
    BY <2>2
<1>2. ASSUME NEW d \in Nat, d \in N
      PROVE  d + 1 \in N
  <2>1. PICK g : g = Halved(t, key, g, Short(d))
    BY <1>2
  <2> DEFINE h == Halved(t, key, g, Short(d + 1))
             Left(r) == <<(r[1] + r[2]) \div 2 + 1, r[2]>>
             Right(r) == <<r[1], (r[1] + r[2]) \div 2>>
             Turn(r) == t[(r[1] + r[2]) \div 2 + 1].key < key
  <2>2. ASSUME NEW r \in Short(d)
        PROVE  h[r] = g[r]
    <3>1. r \in Short(d + 1)
      BY DEF Intervals
    <3>2. g[r] = IF r[1] >= r[2] THEN r[1] ELSE IF Turn(r) THEN g[Left(r)] ELSE g[Right(r)]
      BY <2>1 DEF Halved
    <3>3. h[r] = IF r[1] >= r[2] THEN r[1] ELSE IF Turn(r) THEN g[Left(r)] ELSE g[Right(r)]
      BY <3>1 DEF Halved
    <3> QED
      BY <3>2, <3>3
  <2>3. ASSUME NEW r \in Short(d + 1), ~(r[1] >= r[2])
        PROVE  Left(r) \in Short(d) /\ Right(r) \in Short(d)
    <3>1. PICK lo \in 0 .. n, hi \in 0 .. n : r = <<lo, hi>> /\ lo = r[1] /\ hi = r[2]
      BY DEF Intervals
    <3>2. lo < hi /\ hi - lo <= d + 1
      BY <2>3, <3>1
    <3>3. PICK mid \in Nat : mid = (lo + hi) \div 2 /\ lo <= mid /\ mid < hi
      BY <3>2
    <3>4. /\ mid + 1 \in 0 .. n /\ mid \in 0 .. n
          /\ hi - (mid + 1) <= d /\ mid - lo <= d
      BY <3>2, <3>3
    <3> QED
      BY <3>1, <3>3, <3>4 DEF Intervals
  <2>4. h = Halved(t, key, h, Short(d + 1))
    <3>1. ASSUME NEW r \in Short(d + 1)
          PROVE  h[r] = IF r[1] >= r[2] THEN r[1] ELSE IF Turn(r) THEN h[Left(r)] ELSE h[Right(r)]
      <4>1. h[r] = IF r[1] >= r[2] THEN r[1] ELSE IF Turn(r) THEN g[Left(r)] ELSE g[Right(r)]
        BY DEF Halved
      <4> HIDE DEF h, Turn, Left, Right, Short
      <4>2. ~(r[1] >= r[2]) => h[Left(r)] = g[Left(r)] /\ h[Right(r)] = g[Right(r)]
        BY <2>2, <2>3
      <4> QED
        BY <4>1, <4>2
    <3>2. h = [r \in Short(d + 1) |-> h[r]]
      BY DEF Halved
    <3> HIDE DEF h, Short
    <3> QED
      BY <3>1, <3>2 DEF Halved
  <2> QED
    BY <2>4
<1>3. Nat \subseteq N
  <2> HIDE DEF N
  <2> QED
    BY <1>1, <1>2, Induction
<1>4. n \in N
  BY <1>3
<1>5. Short(n) = Intervals(n)
  BY DEF Intervals
<1> QED
  BY <1>4, <1>5

(* Search finds where a key is, or would be, in a list.                     *)
Splits(t, key, lo, hi, at) ==
  /\ at \in lo .. hi
  /\ \A l \in lo + 1 .. at : t[l].key < key
  /\ \A l \in at + 1 .. hi : ~(t[l].key < key)

LEMMA SearchSplits ==
  ASSUME NEW t, NEW n \in Nat, Len(t) = n, NEW key \in Int, \A l \in 1 .. n : t[l].key \in Int,
         \A l, m \in 1 .. n : l < m => t[l].key < t[m].key
  PROVE  Splits(t, key, 0, n, Search(t, key))
<1> DEFINE g == Halving(t, key)
           N == {d \in Nat : \A lo, hi \in 0 .. n : lo <= hi /\ hi - lo <= d =>
                                Splits(t, key, lo, hi, g[<<lo, hi>>])}
<1>1. g = Halved(t, key, g, Intervals(n))
  <2>1. \E f : f = Halved(t, key, f, Intervals(n))
    BY HalvingExists
  <2> QED
    BY <2>1 DEF Halving
<1> HIDE DEF g
<1>2. ASSUME NEW lo \in 0 .. n, NEW hi \in 0 .. n
      PROVE  /\ lo >= hi => g[<<lo, hi>>] = lo
             /\ \A mid \in Nat : ~(lo >= hi) /\ mid = (lo + hi) \div 2 =>
                  g[<<lo, hi>>] = IF t[mid + 1].key < key THEN g[<<mid + 1, hi>>] ELSE g[<<lo, mid>>]
  <2>1. <<lo, hi>> \in Intervals(n)
    BY DEF Intervals
  <2>2. g[<<lo, hi>>] = Halved(t, key, g, Intervals(n))[<<lo, hi>>]
    BY <1>1
  <2> QED
    BY <2>1, <2>2 DEF Halved
<1>3. 0 \in N
  <2> SUFFICES ASSUME NEW lo \in 0 .. n, NEW hi \in 0 .. n, lo <= hi, hi - lo <= 0
               PROVE  Splits(t, key, lo, hi, g[<<lo, hi>>])
    OBVIOUS
  <2>1. hi = lo
    OBVIOUS
  <2>2. g[<<lo, hi>>] = lo
    BY <1>2, <2>1
  <2> QED
    BY <2>1, <2>2 DEF Splits
<1>4. ASSUME NEW d \in Nat, d \in N
      PROVE  d + 1 \in N
  <2> SUFFICES ASSUME NEW lo \in 0 .. n, NEW hi \in 0 .. n, lo <= hi, hi - lo <= d + 1
               PROVE  Splits(t, key, lo, hi, g[<<lo, hi>>])
    OBVIOUS
  <2>1. CASE lo = hi
    <3>1. g[<<lo, hi>>] = lo
      BY <1>2, <2>1
    <3> QED
      BY <2>1, <3>1 DEF Splits
  <2>2. CASE lo < hi
    <3>1. PICK mid \in Nat : mid = (lo + hi) \div 2 /\ lo <= mid /\ mid < hi
      BY <2>2
    <3>2. g[<<lo, hi>>] = IF t[mid + 1].key < key THEN g[<<mid + 1, hi>>] ELSE g[<<lo, mid>>]
      BY <1>2, <2>2, <3>1
    <3>3. CASE t[mid + 1].key < key
      <4>1. PICK at : at = g[<<mid + 1, hi>>]
        OBVIOUS
      <4>2. Splits(t, key, mid + 1, hi, at)
        <5>1. mid + 1 \in 0 .. n /\ mid + 1 <= hi /\ hi - (mid + 1) <= d
          BY <3>1
        <5> QED
          BY <1>4, <4>1, <5>1
      <4>3. at \in lo .. hi /\ \A l \in at + 1 .. hi : ~(t[l].key < key)
        BY <3>1, <4>2 DEF Splits
      <4>4. ASSUME NEW l \in lo + 1 .. at
            PROVE  t[l].key < key
        <5>1. CASE l \in mid + 2 .. at
          BY <4>2, <5>1 DEF Splits
        <5>2. CASE l \in lo + 1 .. mid + 1
          <6>1. l \in 1 .. n /\ mid + 1 \in 1 .. n
            BY <3>1, <5>2
          <6>2. l = mid + 1 \/ l < mid + 1
            BY <5>2
          <6>3. l < mid + 1 => t[l].key < t[mid + 1].key
            BY <6>1
          <6>4. t[l].key \in Int /\ t[mid + 1].key \in Int
            BY <6>1
          <6> QED
            BY <3>3, <6>2, <6>3, <6>4
        <5>3. at \in Int
          BY <4>3
        <5> QED
          BY <3>1, <5>1, <5>2, <5>3
      <4> QED
        BY <3>2, <3>3, <4>1, <4>3, <4>4 DEF Splits
    <3>4. CASE ~(t[mid + 1].key < key)
      <4>1. PICK at : at = g[<<lo, mid>>]
        OBVIOUS
      <4>2. Splits(t, key, lo, mid, at)
        <5>1. mid \in 0 .. n /\ lo <= mid /\ mid - lo <= d
          BY <3>1
        <5> QED
          BY <1>4, <4>1, <5>1
      <4>3. at \in lo .. hi /\ \A l \in lo + 1 .. at : t[l].key < key
        BY <3>1, <4>2 DEF Splits
      <4>4. ASSUME NEW l \in at + 1 .. hi
            PROVE  ~(t[l].key < key)
        <5>1. CASE l \in at + 1 .. mid
          BY <4>2, <5>1 DEF Splits
        <5>2. CASE l \in mid + 1 .. hi
          <6>1. l \in 1 .. n /\ mid + 1 \in 1 .. n
            BY <3>1, <5>2
          <6>2. l = mid + 1 \/ mid + 1 < l
            BY <5>2
          <6>3. mid + 1 < l => t[mid + 1].key < t[l].key
            BY <6>1
          <6>4. t[l].key \in Int /\ t[mid + 1].key \in Int
            BY <6>1
          <6> QED
            BY <3>4, <6>2, <6>3, <6>4
        <5>3. at \in Int
          BY <4>3
        <5> QED
          BY <3>1, <5>1, <5>2, <5>3
      <4> QED
        BY <3>2, <3>4, <4>1, <4>3, <4>4 DEF Splits
    <3> QED
      BY <3>3, <3>4
  <2> QED
    BY <2>1, <2>2
<1>5. Nat \subseteq N
  <2> HIDE DEF N
  <2> QED
    BY <1>3, <1>4, Induction
<1>6. n \in N /\ 0 \in 0 .. n /\ n \in 0 .. n
  BY <1>5
<1>7. Splits(t, key, 0, n, g[<<0, n>>])
  BY <1>6
<1> QED
  BY <1>7, SearchIsHalving DEF g

LEMMA SearchSorted ==
  ASSUME NEW S, Distinct(S), NEW key \in Keys
  PROVE  /\ Splits(Sort(S), key, 0, Cardinality(S), Search(Sort(S), key))
         /\ HasKey(Sort(S), key) <=> \E p \in S : p.key = key
<1> DEFINE t == Sort(S)
<1>1. PICK n \in Nat : n = Cardinality(S) /\ Len(t) = n /\ Lists(t, n, S)
  BY SortLists DEF Lists
<1>2. /\ \A l \in 1 .. n : t[l] \in S
      /\ \A l, m \in 1 .. n : l < m => t[l].key < t[m].key
      /\ \A p \in S : \E m \in 1 .. n : t[m] = p
  BY <1>1 DEF Lists
<1>3. key \in Int /\ \A l \in 1 .. n : t[l].key \in Int
  BY <1>2, KeysDiffer, ScopesAssumption
<1> HIDE DEF t
<1>4. PICK at : at = Search(t, key)
  OBVIOUS
<1>5. Splits(t, key, 0, n, at)
  BY <1>1, <1>2, <1>3, <1>4, SearchSplits
<1>6. at \in 0 .. n
  BY <1>5 DEF Splits
<1>7. ASSUME HasKey(t, key)
      PROVE  \E p \in S : p.key = key
  <2>1. at + 1 \in 1 .. n /\ t[at + 1].key = key
    BY <1>1, <1>4, <1>6, <1>7 DEF HasKey
  <2> QED
    BY <1>2, <2>1
<1>8. ASSUME NEW p \in S, p.key = key
      PROVE  HasKey(t, key)
  <2>1. PICK m \in 1 .. n : t[m] = p
    BY <1>2
  <2>2. m \notin 1 .. at
    <3>1. m \in 1 .. at => t[m].key < key
      BY <1>5 DEF Splits
    <3> QED
      BY <1>3, <1>8, <2>1, <3>1
  <2>3. at + 1 \in 1 .. n /\ (m = at + 1 \/ at + 1 < m)
    BY <1>6, <2>2
  <2>4. ~(t[at + 1].key < key)
    <3>1. at + 1 \in at + 1 .. n
      BY <1>6, <2>3
    <3> QED
      BY <1>5, <3>1 DEF Splits
  <2>5. ~(at + 1 < m)
    <3>1. at + 1 < m => t[at + 1].key < t[m].key
      BY <1>2, <2>3
    <3> QED
      BY <1>8, <2>1, <2>4, <3>1
  <2> QED
    BY <1>1, <1>4, <1>6, <1>8, <2>1, <2>3, <2>5 DEF HasKey
<1>9. HasKey(t, key) <=> \E p \in S : p.key = key
  BY <1>7, <1>8
<1> QED
  BY <1>1, <1>4, <1>5, <1>9 DEF t

-----------------------------------------------------------------------------
(* What a call gives overrides what there was.                              *)
Over(V, S) == V \cup {p \in S : \A q \in V : p.key # q.key}

LEMMA OverDistinct ==
  ASSUME NEW V, Distinct(V), NEW S, Distinct(S)
  PROVE  Distinct(Over(V, S))
<1>1. IsFiniteSet({p \in S : \A q \in V : p.key # q.key})
  BY FS_Subset DEF Distinct
<1>2. IsFiniteSet(Over(V, S))
  BY <1>1, FS_Union DEF Distinct, Over
<1> QED
  BY <1>2 DEF Distinct, Over

LEMMA ToSetOfSort ==
  ASSUME NEW S, Distinct(S)
  PROVE  ToSet(Sort(S)) = S
<1> DEFINE t == Sort(S)
<1>1. PICK n \in Nat : n = Cardinality(S) /\ Len(t) = n /\ Lists(t, n, S)
  BY SortLists DEF Lists
<1> HIDE DEF t
<1>2. t \in [1 .. n -> S] /\ \A p \in S : \E m \in 1 .. n : t[m] = p
  BY <1>1 DEF Lists
<1>3. ToSet(t) = S
  BY <1>1, <1>2 DEF ToSet
<1> QED
  BY <1>3 DEF t

LEMMA MergeTagSetsSorts ==
  ASSUME NEW V, Distinct(V), NEW S, Distinct(S)
  PROVE  MergeTagSets(Sort(S), Sort(V)) = Sort(Over(V, S))
BY ToSetOfSort DEF MergeTagSets, Over

(* Insert puts a tag where it belongs, in place of one with its key.        *)
LEMMA InsertSorts ==
  ASSUME NEW S, Distinct(S), NEW p, p \in [key : Keys, value : CleanValues]
  PROVE  Insert(Sort(S), p) = Sort(Over({p}, S))
<1> DEFINE t == Sort(S)
           U == Over({p}, S)
<1>1. PICK n \in Nat : n = Cardinality(S) /\ Len(t) = n /\ Lists(t, n, S)
  BY SortLists DEF Lists
<1>2. Distinct({p}) /\ Distinct(U)
  <2>1. Distinct({p})
    BY FS_Singleton DEF Distinct
  <2> QED
    BY <2>1, OverDistinct
<1>3. /\ Splits(t, p.key, 0, n, Search(t, p.key))
      /\ HasKey(t, p.key) <=> \E q \in S : q.key = p.key
  BY <1>1, SearchSorted
<1>4. S \subseteq [key : Keys, value : CleanValues] /\ \A q, r \in S : q.key = r.key => q = r
  BY DEF Distinct
<1>5. \A q : q \in U <=> q = p \/ (q \in S /\ q.key # p.key)
  BY DEF Over
<1> HIDE DEF t, U
<1>6. /\ t \in [1 .. n -> S] /\ \A m \in 1 .. n : t[m] \in S
      /\ \A l, m \in 1 .. n : l < m => t[l].key < t[m].key
      /\ \A q \in S : \E m \in 1 .. n : t[m] = q
  BY <1>1 DEF Lists
<1>7. p.key \in Int /\ \A m \in 1 .. n : t[m].key \in Int
  BY <1>4, <1>6, ScopesAssumption
<1>8. PICK at \in 0 .. n : /\ at = Search(t, p.key)
                           /\ \A l \in 1 .. at : t[l].key < p.key
                           /\ \A l \in at + 1 .. n : ~(t[l].key < p.key)
  BY <1>3 DEF Splits
<1>9. CASE HasKey(t, p.key)
  <2>1. at + 1 \in 1 .. n /\ t[at + 1].key = p.key
    BY <1>1, <1>8, <1>9 DEF HasKey
  <2>2. PICK u : u = [t EXCEPT ![at + 1].value = p.value]
    OBVIOUS
  <2>3. Insert(t, p) = u
    BY <1>8, <1>9, <2>2 DEF Insert
  <2>4. u[at + 1] = p
    BY <1>4, <1>6, <2>1, <2>2
  <2>5. DOMAIN u = 1 .. n /\ \A m \in 1 .. n : m # at + 1 => u[m] = t[m]
    BY <1>6, <2>2
  <2>6. \A m \in 1 .. n : m # at + 1 => t[m].key # p.key
    <3>1. \A m \in 1 .. n : m < at + 1 \/ m = at + 1 \/ at + 1 < m
      OBVIOUS
    <3> QED
      BY <1>6, <1>7, <2>1, <3>1
  <2>7. \A m \in 1 .. n : u[m] \in U /\ u[m].key = t[m].key
    <3> SUFFICES ASSUME NEW m \in 1 .. n
                 PROVE  u[m] \in U /\ u[m].key = t[m].key
      OBVIOUS
    <3>1. CASE m = at + 1
      BY <1>5, <2>1, <2>4, <3>1
    <3>2. CASE m # at + 1
      BY <1>5, <1>6, <2>5, <2>6, <3>2
    <3> QED
      BY <3>1, <3>2
  <2>8. \A q \in U : \E m \in 1 .. n : u[m] = q
    <3>1. ASSUME NEW q \in S, q.key # p.key
          PROVE  \E m \in 1 .. n : u[m] = q
      <4>1. PICK m \in 1 .. n : t[m] = q
        BY <1>6
      <4> QED
        BY <2>1, <2>5, <3>1, <4>1
    <3> QED
      BY <1>5, <2>1, <2>4, <3>1
  <2>9. u \in [1 .. n -> U]
    <3>1. u = [m \in 1 .. n |-> u[m]]
      BY <2>2, <2>5
    <3> QED
      BY <2>7, <3>1
  <2>10. Lists(u, n, U)
    BY <1>6, <2>7, <2>8, <2>9 DEF Lists
  <2> QED
    BY <1>2, <2>3, <2>10, SortUnique DEF t, U
<1>10. CASE ~HasKey(t, p.key)
  <2>1. \A q \in S : q.key # p.key
    BY <1>3, <1>10
  <2>2. PICK u : u = SubSeq(t, 1, at) \o <<p>> \o SubSeq(t, at + 1, n)
    OBVIOUS
  <2>3. Insert(t, p) = u
    BY <1>1, <1>8, <1>10, <2>2 DEF Insert
  <2>4. /\ u \in Seq(U) /\ Len(u) = n + 1
        /\ \A m \in 1 .. at : u[m] = t[m]
        /\ u[at + 1] = p
        /\ \A m \in at + 1 .. n : u[m + 1] = t[m]
    <3>1. t \in Seq(U)
      BY <1>5, <1>6, <2>1
    <3>2. p \in U
      BY <1>5
    <3>3. PICK a : a = SubSeq(t, 1, at)
      OBVIOUS
    <3>4. a \in Seq(U) /\ Len(a) = at /\ \A m \in 1 .. at : a[m] = t[m]
      BY <1>1, <3>1, <3>3
    <3>5. PICK b : b = SubSeq(t, at + 1, n)
      OBVIOUS
    <3>6. b \in Seq(U) /\ Len(b) = n - at /\ \A m \in 1 .. n - at : b[m] = t[at + m]
      BY <1>1, <3>1, <3>5
    <3>7. PICK c : c = a \o <<p>>
      OBVIOUS
    <3>8. c \in Seq(U) /\ Len(c) = at + 1 /\ c[at + 1] = p /\ \A m \in 1 .. at : c[m] = a[m]
      BY <3>2, <3>4, <3>7
    <3>9. u = c \o b
      BY <2>2, <3>3, <3>5, <3>7
    <3>10. /\ u \in Seq(U) /\ Len(u) = n + 1
           /\ \A m \in 1 .. at + 1 : u[m] = c[m]
           /\ \A m \in 1 .. n - at : u[at + 1 + m] = b[m]
      <4>1. PICK w \in Nat, d \in Nat : w = at + 1 /\ d = n - at /\ w + d = n + 1
        <5>1. at + 1 \in Nat /\ n - at \in Nat /\ (at + 1) + (n - at) = n + 1
          OBVIOUS
        <5> QED
          BY <5>1
      <4>2. c \in Seq(U) /\ b \in Seq(U) /\ Len(c) = w /\ Len(b) = d
        BY <3>6, <3>8, <4>1
      <4>3. u \in Seq(U) /\ Len(u) = w + d
        <5>1. c \o b \in Seq(U) /\ Len(c \o b) = Len(c) + Len(b)
          BY ONLY <4>2
        <5> QED
          BY <3>9, <4>2, <5>1
      <4>4. \A m \in 1 .. w : u[m] = c[m]
        BY ONLY <3>9, <4>2, w \in Nat, d \in Nat
      <4>5. \A m \in 1 .. d : u[w + m] = b[m]
        BY ONLY <3>9, <4>2, w \in Nat, d \in Nat
      <4> QED
        BY <4>1, <4>3, <4>4, <4>5
    <3>11. ASSUME NEW m \in at + 1 .. n
           PROVE  u[m + 1] = t[m]
      <4>1. PICK l \in 1 .. n - at : l = m - at /\ at + 1 + l = m + 1 /\ at + l = m
        <5>1. m - at \in 1 .. n - at /\ at + 1 + (m - at) = m + 1 /\ at + (m - at) = m
          OBVIOUS
        <5> QED
          BY <5>1
      <4>2. u[at + 1 + l] = b[l]
        BY ONLY <3>10, l \in 1 .. n - at
      <4>3. b[l] = t[at + l]
        BY ONLY <3>6, l \in 1 .. n - at
      <4> QED
        BY ONLY <4>1, <4>2, <4>3
    <3> QED
      BY <3>4, <3>8, <3>10, <3>11
  <2>5. \A m \in 1 .. n + 1 : m \in 1 .. at \/ m = at + 1 \/ m \in at + 2 .. n + 1
    OBVIOUS
  <2>6. \A m \in at + 2 .. n + 1 : m - 1 \in at + 1 .. n /\ m - 1 \in 1 .. n /\ u[m] = t[m - 1]
    <3> SUFFICES ASSUME NEW m \in at + 2 .. n + 1
                 PROVE  m - 1 \in at + 1 .. n /\ m - 1 \in 1 .. n /\ u[m] = t[m - 1]
      OBVIOUS
    <3>1. PICK l \in at + 1 .. n : l = m - 1 /\ l + 1 = m /\ l \in 1 .. n
      <4>1. m - 1 \in at + 1 .. n /\ (m - 1) + 1 = m /\ m - 1 \in 1 .. n
        OBVIOUS
      <4> QED
        BY <4>1
    <3> QED
      BY <2>4, <3>1
  <2>7. \A l \in at + 1 .. n : p.key < t[l].key
    BY <1>6, <1>7, <1>8, <2>1
  <2>8. ASSUME NEW l \in 1 .. n + 1, NEW m \in 1 .. n + 1, l < m
        PROVE  u[l].key < u[m].key
    <3>1. CASE l \in 1 .. at /\ m \in 1 .. at
      BY <1>6, <2>4, <2>8, <3>1
    <3>2. CASE l \in 1 .. at /\ m = at + 1
      BY <1>8, <2>4, <3>2
    <3>3. CASE l \in 1 .. at /\ m \in at + 2 .. n + 1
      <4>1. l < m - 1 /\ l \in 1 .. n
        BY <3>3
      <4> QED
        BY <1>6, <2>4, <2>6, <3>3, <4>1
    <3>4. CASE l = at + 1 /\ m \in at + 2 .. n + 1
      BY <2>4, <2>6, <2>7, <3>4
    <3>5. CASE l \in at + 2 .. n + 1 /\ m \in at + 2 .. n + 1
      <4>1. l - 1 < m - 1
        BY <2>8
      <4> QED
        BY <1>6, <2>6, <3>5, <4>1
    <3> QED
      BY <2>5, <2>8, <3>1, <3>2, <3>3, <3>4, <3>5
  <2>9. ASSUME NEW q \in U
        PROVE  \E m \in 1 .. n + 1 : u[m] = q
    <3>1. CASE q = p
      BY <2>4, <3>1
    <3>2. CASE q \in S
      <4>1. PICK m \in 1 .. n : t[m] = q
        BY <1>6, <3>2
      <4>2. CASE m \in 1 .. at
        BY <2>4, <4>1, <4>2
      <4>3. CASE m \in at + 1 .. n
        BY <2>4, <4>1, <4>3
      <4> QED
        BY <4>2, <4>3
    <3> QED
      BY <1>5, <3>1, <3>2
  <2>10. n + 1 \in Nat /\ u \in [1 .. n + 1 -> U]
    BY <2>4
  <2>11. Lists(u, n + 1, U)
    BY <2>8, <2>9, <2>10 DEF Lists
  <2> QED
    BY <1>2, <2>3, <2>11, SortUnique DEF t, U
<1> QED
  BY <1>9, <1>10

-----------------------------------------------------------------------------
(* The operations of a scope on its tags.                                   *)

Kept(m) == {x \in DOMAIN m \ {EmptyKey} : m[x] # EmptyValue}

LEMMA ValidDistinct ==
  ASSUME IsFiniteSet(Keys), NEW m \in Maps
  PROVE  /\ Distinct(Valid(m))
         /\ DOMAIN m = {} => Valid(m) = {}
         /\ Cardinality(DOMAIN m) = 1 => \A p, q \in Valid(m) : p = q
         /\ (\E p \in Valid(m) : p.key = InstanceKey)
              <=> InstanceKey \in DOMAIN m /\ m[InstanceKey] # EmptyValue
         /\ ReservedIn(m) \in Nat
<1>1. DOMAIN m \subseteq Keys \cup {EmptyKey} /\ \A x \in DOMAIN m : m[x] \in Values
  BY DEF Maps
<1>2. IsFiniteSet(DOMAIN m)
  <2>1. IsFiniteSet(Keys \cup {EmptyKey})
    BY FS_AddElement
  <2> QED
    BY <1>1, <2>1, FS_Subset
<1>3. Valid(m) = {NewTag(x, m[x]) : x \in Kept(m)}
  BY DEF Valid, Kept
<1>4. IsFiniteSet(Valid(m))
  <2>1. IsFiniteSet(Kept(m))
    BY <1>2, FS_Subset DEF Kept
  <2> DEFINE f == [x \in Kept(m) |-> NewTag(x, m[x])]
  <2>2. f \in Surjection(Kept(m), Valid(m))
    BY <1>3 DEF Surjection
  <2> QED
    BY <2>1, <2>2, FS_Surjection
<1>5. ASSUME NEW x \in Kept(m)
      PROVE  NewTag(x, m[x]) \in [key : Keys, value : CleanValues] /\ NewTag(x, m[x]).key = x
  <2>1. x \in Keys /\ m[x] \in Values \ {EmptyValue}
    BY <1>1 DEF Kept
  <2>2. Cleaned[m[x]] \in CleanValues
    BY <2>1, ScopesAssumption DEF CleanValues
  <2> QED
    BY <2>1, <2>2 DEF NewTag, ReplaceChars
<1>6. Distinct(Valid(m))
  <2>1. Valid(m) \subseteq [key : Keys, value : CleanValues]
    BY <1>3, <1>5
  <2>2. ASSUME NEW p \in Valid(m), NEW q \in Valid(m), p.key = q.key
        PROVE  p = q
    <3>1. PICK x \in Kept(m) : p = NewTag(x, m[x])
      BY <1>3
    <3>2. PICK y \in Kept(m) : q = NewTag(y, m[y])
      BY <1>3
    <3> QED
      BY <1>5, <2>2, <3>1, <3>2
  <2> QED
    BY <1>4, <2>1, <2>2 DEF Distinct
<1>7. DOMAIN m = {} => Valid(m) = {}
  BY <1>3 DEF Kept
<1>8. ASSUME Cardinality(DOMAIN m) = 1, NEW p \in Valid(m), NEW q \in Valid(m)
      PROVE  p = q
  <2>1. PICK x \in Kept(m) : p = NewTag(x, m[x])
    BY <1>3
  <2>2. PICK y \in Kept(m) : q = NewTag(y, m[y])
    BY <1>3
  <2>3. x \in DOMAIN m /\ y \in DOMAIN m
    BY DEF Kept
  <2>4. PICK z : DOMAIN m = {z}
    BY <1>2, <1>8, FS_Singleton
  <2> QED
    BY <2>1, <2>2, <2>3, <2>4
<1>9. (\E p \in Valid(m) : p.key = InstanceKey)
        <=> InstanceKey \in DOMAIN m /\ m[InstanceKey] # EmptyValue
  <2>1. ASSUME NEW p \in Valid(m), p.key = InstanceKey
        PROVE  InstanceKey \in Kept(m)
    <3>1. PICK x \in Kept(m) : p = NewTag(x, m[x])
      BY <1>3
    <3> QED
      BY <1>5, <2>1, <3>1
  <2>2. ASSUME InstanceKey \in Kept(m)
        PROVE  \E p \in Valid(m) : p.key = InstanceKey
    BY <1>3, <1>5, <2>2
  <2>3. InstanceKey # EmptyKey
    BY ScopesAssumption
  <2> QED
    BY <2>1, <2>2, <2>3 DEF Kept
<1>10. ReservedIn(m) \in Nat
  <2>1. IsFiniteSet(DOMAIN m \cap Reserved)
    BY <1>2, FS_Subset
  <2> QED
    BY <2>1, FS_CardinalityType DEF ReservedIn
<1> QED
  BY <1>6, <1>7, <1>8, <1>9, <1>10

LEMMA MergeTagsSorts ==
  ASSUME IsFiniteSet(Keys), NEW m \in Maps, NEW S, Distinct(S)
  PROVE  MergeTags(Sort(S), m) = Sort(Over(Valid(m), S))
<1>1. ASSUME Valid(m) = {}
      PROVE  Over(Valid(m), S) = S
  BY <1>1 DEF Over
<1>2. CASE DOMAIN m = {}
  <2>1. Cardinality({}) = 0
    BY FS_EmptySet
  <2>2. MergeTags(Sort(S), m) = Sort(S)
    BY <1>2, <2>1 DEF MergeTags
  <2> QED
    BY <1>1, <1>2, <2>2, ValidDistinct
<1>3. CASE DOMAIN m # {} /\ Cardinality(DOMAIN m) = 1
  <2>1. MergeTags(Sort(S), m) = MergeOneTag(Sort(S), m)
    BY <1>3 DEF MergeTags
  <2>2. CASE Valid(m) = {}
    BY <1>1, <2>1, <2>2 DEF MergeOneTag
  <2>3. CASE Valid(m) # {}
    <3>1. PICK p : p = CHOOSE q \in Valid(m) : TRUE
      OBVIOUS
    <3>2. p \in Valid(m)
      BY <2>3, <3>1
    <3>3. Valid(m) = {p}
      BY <1>3, <3>2, ValidDistinct
    <3>4. p \in [key : Keys, value : CleanValues]
      BY <3>2, ValidDistinct DEF Distinct
    <3>5. MergeOneTag(Sort(S), m) = Insert(Sort(S), p)
      BY <2>3, <3>1 DEF MergeOneTag
    <3> QED
      BY <2>1, <3>3, <3>4, <3>5, InsertSorts
  <2> QED
    BY <2>2, <2>3
<1>4. CASE DOMAIN m # {} /\ Cardinality(DOMAIN m) # 1
  <2>1. MergeTags(Sort(S), m) = MergeTagSets(Sort(S), Sort(Valid(m)))
    BY <1>4 DEF MergeTags, NewTagSet
  <2> QED
    BY <2>1, ValidDistinct, MergeTagSetsSorts
<1> QED
  BY <1>2, <1>3, <1>4

HasInstance(S)  == \E p \in S : p.key = InstanceKey
WithInstance(S) == IF HasInstance(S) THEN S ELSE S \cup {InstanceTag}

LEMMA WithInstanceDistinct ==
  ASSUME NEW S, Distinct(S)
  PROVE  /\ InstanceTag \in [key : Keys, value : CleanValues] /\ InstanceTag.key = InstanceKey
         /\ Distinct({InstanceTag}) /\ Distinct(WithInstance(S))
         /\ Besides(WithInstance(S)) = Besides(S)
<1>1. InstanceTag \in [key : Keys, value : CleanValues] /\ InstanceTag.key = InstanceKey
  BY ScopesAssumption DEF InstanceTag, CleanValues
<1>2. Distinct({InstanceTag})
  BY <1>1, FS_Singleton DEF Distinct
<1>3. Distinct(WithInstance(S)) /\ Besides(WithInstance(S)) = Besides(S)
  <2>1. CASE HasInstance(S)
    BY <2>1 DEF WithInstance
  <2>2. CASE ~HasInstance(S)
    <3>1. WithInstance(S) = S \cup {InstanceTag} /\ IsFiniteSet(S \cup {InstanceTag})
      BY <2>2, FS_AddElement DEF WithInstance, Distinct
    <3>2. \A p, q \in S \cup {InstanceTag} : p.key = q.key => p = q
      BY <1>1, <2>2 DEF HasInstance, Distinct
    <3>3. Besides(S \cup {InstanceTag}) = Besides(S)
      BY <1>1 DEF Besides
    <3> QED
      BY <1>1, <3>1, <3>2, <3>3 DEF Distinct
  <2> QED
    BY <2>1, <2>2
<1> QED
  BY <1>1, <1>2, <1>3

LEMMA MergePerInstanceTagsSorts ==
  ASSUME IsFiniteSet(Keys), NEW m \in Maps, NEW S, Distinct(S)
  PROVE  MergePerInstanceTags(Sort(S), m) = Sort(WithInstance(Over(Valid(m), S)))
<1> DEFINE V == Valid(m)
           W == Over(V, S)
<1>1. /\ Distinct(V) /\ Distinct(W)
      /\ HasInstance(V) <=> InstanceKey \in DOMAIN m /\ m[InstanceKey] # EmptyValue
      /\ DOMAIN m = {} => V = {}
  BY ValidDistinct, OverDistinct DEF HasInstance
<1>2. HasKey(Sort(S), InstanceKey) <=> HasInstance(S)
  BY SearchSorted, ScopesAssumption DEF HasInstance
<1>3. HasInstance(W) <=> HasInstance(V) \/ HasInstance(S)
  BY DEF HasInstance, Over
<1>4. /\ InstanceTag \in [key : Keys, value : CleanValues] /\ InstanceTag.key = InstanceKey
      /\ Distinct({InstanceTag})
  BY WithInstanceDistinct
<1>5. V = {} => W = S
  BY DEF Over
<1> HIDE DEF V
<1>6. CASE DOMAIN m = {} /\ HasKey(Sort(S), InstanceKey)
  <2>1. MergePerInstanceTags(Sort(S), m) = Sort(S)
    BY <1>6 DEF MergePerInstanceTags
  <2> QED
    BY <1>1, <1>2, <1>5, <1>6, <2>1 DEF WithInstance, V
<1>7. CASE DOMAIN m = {} /\ ~HasKey(Sort(S), InstanceKey)
  <2>1. MergePerInstanceTags(Sort(S), m) = Insert(Sort(S), InstanceTag)
    BY <1>7 DEF MergePerInstanceTags
  <2>2. Insert(Sort(S), InstanceTag) = Sort(Over({InstanceTag}, S))
    BY <1>4, InsertSorts
  <2>3. Over({InstanceTag}, S) = S \cup {InstanceTag}
    BY <1>2, <1>4, <1>7 DEF Over, HasInstance
  <2>4. W = S /\ WithInstance(S) = S \cup {InstanceTag}
    BY <1>1, <1>2, <1>5, <1>7 DEF WithInstance
  <2> QED
    BY <2>1, <2>2, <2>3, <2>4 DEF V
<1>8. CASE DOMAIN m # {}
  <2>1. MergePerInstanceTags(Sort(S), m) =
          MergeTagSets(Sort(S), Sort(V \cup (IF NeedsDefault(Sort(S), m) THEN {InstanceTag} ELSE {})))
    BY <1>8 DEF MergePerInstanceTags, V
  <2>2. NeedsDefault(Sort(S), m) <=> ~HasInstance(W)
    BY <1>1, <1>2, <1>3 DEF NeedsDefault
  <2>3. CASE HasInstance(W)
    <3>1. MergePerInstanceTags(Sort(S), m) = MergeTagSets(Sort(S), Sort(V))
      BY <2>1, <2>2, <2>3
    <3> QED
      BY <1>1, <2>3, <3>1, MergeTagSetsSorts DEF WithInstance, V
  <2>4. CASE ~HasInstance(W)
    <3>1. ~HasInstance(V) /\ ~HasInstance(S)
      BY <1>3, <2>4
    <3>2. Distinct(V \cup {InstanceTag})
      <4>1. WithInstance(V) = V \cup {InstanceTag}
        BY <3>1 DEF WithInstance
      <4> QED
        BY <1>1, <4>1, WithInstanceDistinct
    <3>3. MergePerInstanceTags(Sort(S), m) = Sort(Over(V \cup {InstanceTag}, S))
      BY <2>1, <2>2, <2>4, <3>2, MergeTagSetsSorts
    <3>4. Over(V \cup {InstanceTag}, S) = W \cup {InstanceTag}
      BY <1>4, <3>1 DEF Over, HasInstance
    <3>5. WithInstance(W) = W \cup {InstanceTag}
      BY <2>4 DEF WithInstance
    <3> QED
      BY <3>3, <3>4, <3>5 DEF V
  <2> QED
    BY <2>3, <2>4
<1> QED
  BY <1>6, <1>7, <1>8

-----------------------------------------------------------------------------
(* The scopes: what a scope has is what its chain was given, in order, and  *)
(* a name is what the scope and the caller gave, with the instance.         *)

MadeOf(S) ==
  /\ Distinct(S) /\ stat.name = Sort(S)
  /\ Besides(S) = Besides(stat.wanted)
  /\ ~stat.perInstance => S = stat.wanted
  /\ stat.perInstance /\ ~stat.root => S = WithInstance(stat.wanted)

ScopeInv ==
  /\ root \in BOOLEAN /\ reserved \in Nat /\ used \in Nat /\ calls \in 0 .. MaxCalls
  /\ Distinct(given) /\ tags = Sort(given)
  /\ root => given = {}
  /\ \E S : MadeOf(S)

LEMMA EmptyList == Distinct({}) /\ Sort({}) = <<>>
<1>1. Distinct({}) /\ Cardinality({}) = 0
  BY FS_EmptySet DEF Distinct
<1>2. Lists(Sort({}), 0, {}) /\ Len(Sort({})) = 0
  BY <1>1, SortLists
<1> QED
  BY <1>1, <1>2 DEF Lists

LEMMA CleanSort ==
  ASSUME NEW S, Distinct(S)
  PROVE  Clean(Sort(S)) /\ ToSet(Sort(S)) = S
<1> DEFINE t == Sort(S)
<1>1. PICK n \in Nat : n = Cardinality(S) /\ Lists(t, n, S)
  BY SortLists DEF Lists
<1>2. ToSet(t) = S
  BY ToSetOfSort
<1> HIDE DEF t
<1>3. Strict(t)
  BY <1>1 DEF Lists, Strict
<1>4. \A p \in S : /\ p.key \in Keys /\ p.value # EmptyValue
                   /\ p.value \in {Cleaned[v] : v \in Values} \cup {DefaultValue}
  BY DEF Distinct, CleanValues
<1> QED
  BY <1>2, <1>3, <1>4 DEF Clean, t

LEMMA InitScopes == Init => ScopeInv
<1> SUFFICES ASSUME Init PROVE ScopeInv
  OBVIOUS
<1>1. MadeOf({})
  BY EmptyList DEF Init, MadeOf, Besides
<1> QED
  BY <1>1, EmptyList, ScopesAssumption DEF Init, ScopeInv

(* What every call does to the counts, and what its tags are.               *)
LEMMA CallCounts ==
  ASSUME IsFiniteSet(Keys), ScopeInv, NEW m \in Maps, Called(m), ValidateTags(m) \/ UNCHANGED reserved
  PROVE  /\ reserved' \in Nat /\ used' \in Nat /\ calls' \in 0 .. MaxCalls
         /\ Distinct(Overlay(m)) /\ Overlay(m) = Over(Valid(m), given)
<1>1. ReservedIn(m) \in Nat
  BY ValidDistinct
<1>2. reserved' \in Nat /\ used' \in Nat
  BY <1>1 DEF ScopeInv, Called, ValidateTags
<1>3. calls' \in 0 .. MaxCalls
  BY ScopesAssumption DEF ScopeInv, Called
<1>4. Overlay(m) = Over(Valid(m), given)
  BY DEF Overlay, Over
<1>5. Distinct(Overlay(m))
  BY <1>4, ValidDistinct, OverDistinct DEF ScopeInv
<1> QED
  BY <1>2, <1>3, <1>4, <1>5

LEMMA ScopeWithTagsKeepsInv ==
  ASSUME IsFiniteSet(Keys), ScopeInv, NEW m \in Maps, ScopeWithTags(m)
  PROVE  ScopeInv'
<1>1. PICK S : MadeOf(S)
  BY DEF ScopeInv
<1>2. MadeOf(S)'
  BY <1>1 DEF MadeOf, ScopeWithTags
<1>3. /\ reserved' \in Nat /\ used' \in Nat /\ calls' \in 0 .. MaxCalls
      /\ Distinct(Overlay(m)) /\ Overlay(m) = Over(Valid(m), given)
  BY CallCounts DEF ScopeWithTags
<1>4. tags' = Sort(Overlay(m))
  <2>1. CASE root
    <3>1. Over(Valid(m), given) = Valid(m)
      BY <2>1 DEF ScopeInv, Over
    <3> QED
      BY <1>3, <2>1, <3>1 DEF ScopeWithTags, ScopeOfStore, ScopeOfScope, NewTagSet
  <2>2. CASE ~root
    BY <1>3, <2>2, MergeTagsSorts DEF ScopeWithTags, ScopeOfStore, ScopeOfScope, ScopeInv
  <2> QED
    BY <2>1, <2>2
<1>5. root' = FALSE /\ given' = Overlay(m)
  BY DEF ScopeWithTags
<1> QED
  BY <1>2, <1>3, <1>4, <1>5 DEF ScopeInv

(* A stat whose name is the list of a set that is what it should be.        *)
LEMMA CreatedKeepsInv ==
  ASSUME IsFiniteSet(Keys), ScopeInv, NEW m \in Maps, Called(m), ValidateTags(m) \/ UNCHANGED reserved,
         NEW perInstance, NEW S, Distinct(S), Created(Sort(S), perInstance, m),
         Besides(S) = Besides(Overlay(m)), ~perInstance => S = Overlay(m),
         perInstance /\ ~root => S = WithInstance(Overlay(m))
  PROVE  ScopeInv'
<1>1. /\ reserved' \in Nat /\ used' \in Nat /\ calls' \in 0 .. MaxCalls
  BY CallCounts
<1>2. /\ stat' = [name |-> Sort(S), perInstance |-> perInstance, root |-> root, wanted |-> Overlay(m)]
      /\ root' = root /\ tags' = tags /\ given' = given
  BY DEF Created
<1>3. MadeOf(S)'
  BY <1>2 DEF MadeOf
<1> QED
  BY <1>1, <1>2, <1>3 DEF ScopeInv

LEMMA NewWithTagsKeepsInv ==
  ASSUME IsFiniteSet(Keys), ScopeInv, NEW m \in Maps, NewWithTags(m)
  PROVE  ScopeInv'
<1>1. Called(m) /\ (ValidateTags(m) \/ UNCHANGED reserved)
  BY DEF NewWithTags
<1>2. Distinct(Overlay(m)) /\ Overlay(m) = Over(Valid(m), given)
  BY <1>1, CallCounts
<1>3. Created(Sort(Overlay(m)), FALSE, m)
  <2>1. CASE root
    <3>1. Over(Valid(m), given) = Valid(m)
      BY <2>1 DEF ScopeInv, Over
    <3> QED
      BY <1>2, <2>1, <3>1 DEF NewWithTags, SerializeTags, NewTagSet
  <2>2. CASE ~root
    <3>1. MergeTags(tags, m) = Sort(Overlay(m))
      BY <1>2, MergeTagsSorts DEF ScopeInv
    <3> QED
      BY <2>2, <3>1 DEF NewWithTags, Serialize
  <2> QED
    BY <2>1, <2>2
<1> QED
  BY <1>1, <1>2, <1>3, CreatedKeepsInv

LEMMA NewPerInstanceKeepsInv ==
  ASSUME IsFiniteSet(Keys), ScopeInv, NEW m \in Maps, NEW milliTimer \in BOOLEAN,
         NewPerInstance(m, milliTimer)
  PROVE  ScopeInv'
<1>1. Called(m) /\ (ValidateTags(m) \/ UNCHANGED reserved) /\ Created(PerInstanceName(m), TRUE, m)
  BY DEF NewPerInstance
<1>2. Distinct(Overlay(m)) /\ Overlay(m) = Over(Valid(m), given)
  BY <1>1, CallCounts
<1>3. MergePerInstanceTags(tags, m) = Sort(WithInstance(Overlay(m)))
  BY <1>2, MergePerInstanceTagsSorts DEF ScopeInv
<1>4. /\ Distinct(WithInstance(Overlay(m)))
      /\ Besides(WithInstance(Overlay(m))) = Besides(Overlay(m))
  BY <1>2, WithInstanceDistinct
<1>5. CASE ~root
  <2>1. PerInstanceName(m) = Sort(WithInstance(Overlay(m)))
    BY <1>3, <1>5 DEF PerInstanceName, Serialize
  <2> QED
    BY <1>1, <1>4, <2>1, CreatedKeepsInv
<1>6. CASE root
  <2>1. Overlay(m) = Valid(m) /\ tags = <<>> /\ Distinct(Valid(m))
    <3>1. Over(Valid(m), {}) = Valid(m)
      BY DEF Over
    <3> QED
      BY <1>2, <1>6, <3>1, EmptyList, ValidDistinct DEF ScopeInv
  <2>2. CASE DOMAIN m = {}
    <3>1. PerInstanceName(m) = Sort({InstanceTag})
      <4>1. PICK d : d = [x \in {InstanceKey} |-> DefaultValue]
        OBVIOUS
      <4>2. {x \in DOMAIN d \ {EmptyKey} : d[x] # EmptyValue} = {InstanceKey}
        BY <4>1, ScopesAssumption
      <4>3. Valid(d) = {InstanceTag}
        BY <4>1, <4>2, ScopesAssumption DEF Valid, NewTag, ReplaceChars, InstanceTag
      <4> QED
        BY <1>6, <2>2, <4>1, <4>3 DEF PerInstanceName, SerializeTags, NewTagSet
    <3>2. Besides({InstanceTag}) = Besides(Overlay(m)) /\ Distinct({InstanceTag})
      <4>1. Overlay(m) = {}
        BY <2>1, <2>2, ValidDistinct
      <4>2. InstanceTag.key = InstanceKey /\ Distinct({InstanceTag})
        BY <1>2, WithInstanceDistinct
      <4> QED
        BY <4>1, <4>2 DEF Besides
    <3> QED
      BY <1>1, <1>6, <3>1, <3>2, CreatedKeepsInv
  <2>3. CASE DOMAIN m # {} /\ InstanceKey \in DOMAIN m
    <3>1. PerInstanceName(m) = Sort(Overlay(m))
      BY <1>6, <2>1, <2>3 DEF PerInstanceName, SerializeTags, NewTagSet
    <3> QED
      BY <1>1, <1>2, <1>6, <3>1, CreatedKeepsInv
  <2>4. CASE DOMAIN m # {} /\ InstanceKey \notin DOMAIN m
    <3>1. PerInstanceName(m) = Sort(WithInstance(Overlay(m)))
      BY <1>3, <1>6, <2>1, <2>4 DEF PerInstanceName, Serialize
    <3> QED
      BY <1>1, <1>4, <1>6, <3>1, CreatedKeepsInv
  <2> QED
    BY <2>2, <2>3, <2>4
<1> QED
  BY <1>5, <1>6 DEF ScopeInv

LEMMA ScopeInvariance ==
  ASSUME IsFiniteSet(Keys)
  PROVE  Spec => []ScopeInv
<1>1. ScopeInv /\ [Next]_vars => ScopeInv'
  <2>1. ASSUME ScopeInv, UNCHANGED vars
        PROVE  ScopeInv'
    BY <2>1 DEF vars, ScopeInv, MadeOf
  <2> QED
    BY <2>1, ScopeWithTagsKeepsInv, NewWithTagsKeepsInv, NewPerInstanceKeepsInv DEF Next
<1> QED
  BY <1>1, InitScopes, PTL DEF Spec

(* The tags of every scope and name are sorted, with distinct keys that are *)
(* not empty and clean values.                                              *)
THEOREM ScopesTyped ==
  ASSUME IsFiniteSet(Keys)
  PROVE  Spec => []TypeOK
<1>1. ScopeInv => TypeOK
  BY CleanSort DEF ScopeInv, MadeOf, TypeOK
<1> QED
  BY <1>1, ScopeInvariance, PTL

(* Whatever chain of scopes it is made in, a stat carries exactly the tags  *)
(* its chain and its caller gave it, the last given of each key.            *)
THEOREM NamesCarryTheirTags ==
  ASSUME IsFiniteSet(Keys)
  PROVE  Spec => []NamedAfterItsTags
<1>1. ScopeInv => NamedAfterItsTags
  <2> SUFFICES ASSUME ScopeInv PROVE NamedAfterItsTags
    OBVIOUS
  <2>1. PICK S : MadeOf(S)
    BY DEF ScopeInv
  <2>2. Clean(Sort(S)) /\ ToSet(Sort(S)) = S
    BY <2>1, CleanSort DEF MadeOf
  <2> QED
    BY <2>1, <2>2 DEF MadeOf, NamedAfterItsTags
<1> QED
  BY <1>1, ScopeInvariance, PTL

(* A per-instance stat of a scope has the instance its caller gives, or the *)
(* scope's, or "i".                                                         *)
THEOREM InstanceFromScope ==
  ASSUME IsFiniteSet(Keys)
  PROVE  Spec => []InstanceOfScope
<1>1. ScopeInv => InstanceOfScope
  <2> SUFFICES ASSUME ScopeInv, stat.perInstance, ~stat.root
               PROVE  Instance(ToSet(stat.name)) =
                        IF Instance(stat.wanted) # {} THEN Instance(stat.wanted) ELSE {InstanceTag}
    BY DEF InstanceOfScope
  <2>1. PICK S : MadeOf(S)
    BY DEF ScopeInv
  <2>2. ToSet(stat.name) = S /\ S = WithInstance(stat.wanted)
    BY <2>1, CleanSort DEF MadeOf
  <2>3. InstanceTag.key = InstanceKey
    BY DEF InstanceTag
  <2>4. HasInstance(stat.wanted) <=> Instance(stat.wanted) # {}
    BY DEF HasInstance, Instance
  <2>5. CASE HasInstance(stat.wanted)
    BY <2>2, <2>4, <2>5 DEF WithInstance
  <2>6. CASE ~HasInstance(stat.wanted)
    <3>1. S = stat.wanted \cup {InstanceTag} /\ Instance(stat.wanted) = {}
      BY <2>2, <2>4, <2>6 DEF WithInstance
    <3>2. Instance(S) = Instance(stat.wanted) \cup {InstanceTag}
      BY <2>3, <3>1 DEF Instance
    <3> QED
      BY <2>2, <3>1, <3>2
  <2> QED
    BY <2>5, <2>6
<1> QED
  BY <1>1, ScopeInvariance, PTL

=============================================================================
