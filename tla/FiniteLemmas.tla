---------------------------- MODULE FiniteLemmas ----------------------------
(***************************************************************************)
(* Facts the other proofs share: induction over the naturals and over       *)
(* finite sets, stated for a set rather than for a predicate; the sum of a  *)
(* function over a finite set; and the order of a finite set of numbers.    *)
(***************************************************************************)
EXTENDS FiniteSetsExt, FiniteSetTheorems, TLAPS

-----------------------------------------------------------------------------
(* Induction.                                                               *)

LessThan == {p \in Nat \X Nat : p[1] < p[2]}

LEMMA LessThanWellFounded == IsWellFoundedOn(LessThan, Nat)
<1>1. OpToRel(<, Nat) = LessThan
  BY DEF OpToRel, LessThan
<1> QED
  BY <1>1, NatLessThanWellFounded, Zenon

(* A set of naturals that is not empty has a least element.                 *)
LEMMA Least ==
  ASSUME NEW T, T \subseteq Nat, T # {}
  PROVE  \E x \in T : \A y \in T : x <= y
<1>1. \E x \in T : \A y \in T : ~ (<<y, x>> \in LessThan)
  BY LessThanWellFounded, WFMin
<1>2. PICK x \in T : \A y \in T : ~ (<<y, x>> \in LessThan)
  BY <1>1
<1>3. ASSUME NEW y \in T
      PROVE  x <= y
  <2>1. <<y, x>> \in Nat \X Nat /\ ~(<<y, x>> \in LessThan)
    BY <1>2
  <2>2. ~(y < x)
    BY <2>1 DEF LessThan
  <2> QED
    BY <2>2
<1> QED
  BY <1>3

(* Induction, for the set of the numbers that have the property.            *)
LEMMA Induction ==
  ASSUME NEW T, 0 \in T, \A n \in Nat : n \in T => n + 1 \in T
  PROVE  Nat \subseteq T
<1> SUFFICES ASSUME Nat \ T # {}
             PROVE  FALSE
  OBVIOUS
<1>1. PICK x \in Nat \ T : \A y \in Nat \ T : x <= y
  <2>1. Nat \ T \subseteq Nat
    OBVIOUS
  <2> QED
    BY <2>1, Least
<1>2. x # 0 /\ x - 1 \in Nat /\ x - 1 \in T /\ x - 1 + 1 = x
  BY <1>1
<1> QED
  BY <1>2

(* A set of one element more, and one of one element less.                  *)
LEMMA OneLess ==
  ASSUME NEW T, IsFiniteSet(T), NEW x \in T, NEW n \in Nat, Cardinality(T) = n + 1
  PROVE  IsFiniteSet(T \ {x}) /\ Cardinality(T \ {x}) = n
<1>1. IsFiniteSet(T \ {x}) /\ Cardinality(T \ {x}) = Cardinality(T) - 1
  BY FS_RemoveElement
<1> QED
  BY <1>1

(* Induction over the subsets of a finite set.                              *)
LEMMA FiniteInduction ==
  ASSUME NEW S, IsFiniteSet(S), NEW F, {} \in F,
         \A T \in SUBSET S : \A x \in S \ T : T \in F => T \cup {x} \in F
  PROVE  S \in F
<1> DEFINE N == {n \in Nat : \A T \in SUBSET S : Cardinality(T) = n => T \in F}
<1>1. 0 \in N
  <2>1. \A T \in SUBSET S : Cardinality(T) = 0 => T = {}
    BY FS_EmptySet, FS_Subset
  <2> QED
    BY <2>1
<1>2. ASSUME NEW n \in Nat, n \in N
      PROVE  n + 1 \in N
  <2> SUFFICES ASSUME NEW T \in SUBSET S, Cardinality(T) = n + 1
               PROVE  T \in F
    BY <1>2
  <2>1. IsFiniteSet(T) /\ T # {}
    BY FS_EmptySet, FS_Subset
  <2>2. PICK x \in T : TRUE
    BY <2>1
  <2>3. Cardinality(T \ {x}) = n
    BY <2>1, OneLess
  <2>4. T \ {x} \in F /\ T = (T \ {x}) \cup {x} /\ x \in S \ (T \ {x}) /\ T \ {x} \in SUBSET S
    BY <1>2, <2>3
  <2> QED
    BY <2>4
<1>3. Nat \subseteq N
  <2> HIDE DEF N
  <2> QED
    BY <1>1, <1>2, Induction
<1>4. Cardinality(S) \in N
  BY <1>3, FS_CardinalityType
<1> QED
  BY <1>4

-----------------------------------------------------------------------------
(* Sums.  The community modules sum by a function that recurs over the      *)
(* subsets of its argument, taking one chosen element at a time.            *)

First(s) == CHOOSE x \in s : TRUE

Unrolled(w, g, Dom) ==
  [s \in Dom |-> IF s = {} THEN 0 ELSE w[First(s)] + g[s \ {First(s)}]]

Recursion(w, S) == CHOOSE g : g = Unrolled(w, g, SUBSET S)

LEMMA SumIsRecursion ==
  ASSUME NEW w, NEW S
  PROVE  SumFunctionOnSet(w, S) = Recursion(w, S)[S]
BY DEF SumFunctionOnSet, FoldFunctionOnSet, MapThenFoldSet, Recursion, Unrolled, First

(* There is such a function: it is found for the small subsets first.       *)
LEMMA RecursionExists ==
  ASSUME NEW w, NEW S, IsFiniteSet(S)
  PROVE  \E g : g = Unrolled(w, g, SUBSET S)
<1> DEFINE Small(n) == {s \in SUBSET S : Cardinality(s) <= n}
           N == {n \in Nat : \E g : g = Unrolled(w, g, Small(n))}
<1>1. \A s \in SUBSET S : IsFiniteSet(s) /\ Cardinality(s) \in Nat /\ (Cardinality(s) = 0 <=> s = {})
  BY FS_Subset, FS_EmptySet, FS_CardinalityType
<1>2. 0 \in N
  <2>1. \A s \in Small(0) : s = {}
    BY <1>1
  <2>2. [s \in Small(0) |-> 0] = Unrolled(w, [s \in Small(0) |-> 0], Small(0))
    BY <2>1 DEF Unrolled
  <2> QED
    BY <2>2
<1>3. ASSUME NEW n \in Nat, n \in N
      PROVE  n + 1 \in N
  <2>1. PICK g : g = Unrolled(w, g, Small(n))
    BY <1>3
  <2> DEFINE h == Unrolled(w, g, Small(n + 1))
  <2>2. ASSUME NEW s \in Small(n)
        PROVE  s \in Small(n + 1) /\ h[s] = g[s]
    <3>1. s \in Small(n + 1)
      BY <1>1
    <3>2. g[s] = IF s = {} THEN 0 ELSE w[First(s)] + g[s \ {First(s)}]
      BY <2>1 DEF Unrolled
    <3>3. h[s] = IF s = {} THEN 0 ELSE w[First(s)] + g[s \ {First(s)}]
      BY <3>1 DEF Unrolled
    <3> QED
      BY <3>1, <3>2, <3>3
  <2>3. ASSUME NEW s \in Small(n + 1), s # {}
        PROVE  g[s \ {First(s)}] = h[s \ {First(s)}]
    <3>1. First(s) \in s
      BY <2>3 DEF First
    <3>2. Cardinality(s \ {First(s)}) = Cardinality(s) - 1
      BY <1>1, <3>1, FS_RemoveElement
    <3>3. s \ {First(s)} \in Small(n)
      BY <1>1, <3>2
    <3> QED
      BY <2>2, <3>3
  <2>4. h = Unrolled(w, h, Small(n + 1))
    BY <2>3 DEF Unrolled
  <2> QED
    BY <2>4
<1>4. Nat \subseteq N
  <2> HIDE DEF N
  <2> QED
    BY <1>2, <1>3, Induction
<1>5. Cardinality(S) \in N /\ Small(Cardinality(S)) = SUBSET S
  BY <1>4, FS_CardinalityType, FS_Subset
<1> QED
  BY <1>5

LEMMA RecursionUnrolls ==
  ASSUME NEW w, NEW S, IsFiniteSet(S)
  PROVE  \A s \in SUBSET S :
           Recursion(w, S)[s] = IF s = {} THEN 0
                                ELSE w[First(s)] + Recursion(w, S)[s \ {First(s)}]
<1>1. Recursion(w, S) = Unrolled(w, Recursion(w, S), SUBSET S)
  BY RecursionExists DEF Recursion
<1> HIDE DEF Recursion
<1> QED
  BY <1>1 DEF Unrolled

(* It does not depend on the set it recurs in.                              *)
LEMMA RecursionLocal ==
  ASSUME NEW w, NEW S, IsFiniteSet(S), NEW T \in SUBSET S
  PROVE  Recursion(w, S)[T] = Recursion(w, T)[T]
<1> DEFINE Same(s) == Recursion(w, S)[s] = Recursion(w, T)[s]
           N == {n \in Nat : \A s \in SUBSET T : Cardinality(s) = n => Same(s)}
<1>1. /\ IsFiniteSet(T)
      /\ \A s \in SUBSET T : /\ IsFiniteSet(s) /\ Cardinality(s) \in Nat
                             /\ Cardinality(s) = 0 <=> s = {}
  BY FS_Subset, FS_EmptySet, FS_CardinalityType
<1>2. 0 \in N
  <2>1. Same({})
    BY <1>1, RecursionUnrolls
  <2> QED
    BY <1>1, <2>1
<1>3. ASSUME NEW n \in Nat, n \in N
      PROVE  n + 1 \in N
  <2> SUFFICES ASSUME NEW s \in SUBSET T, Cardinality(s) = n + 1
               PROVE  Same(s)
    BY <1>3
  <2>1. s # {} /\ First(s) \in s
    BY <1>1 DEF First
  <2>2. s \ {First(s)} \in SUBSET T /\ Cardinality(s \ {First(s)}) = n
    BY <1>1, <2>1, OneLess
  <2>3. Same(s \ {First(s)})
    BY <1>3, <2>2
  <2>4. /\ Recursion(w, S)[s] = w[First(s)] + Recursion(w, S)[s \ {First(s)}]
        /\ Recursion(w, T)[s] = w[First(s)] + Recursion(w, T)[s \ {First(s)}]
    BY <1>1, <2>1, RecursionUnrolls
  <2> QED
    BY <2>3, <2>4
<1>4. Nat \subseteq N
  <2> HIDE DEF N
  <2> QED
    BY <1>2, <1>3, Induction
<1>5. Cardinality(T) \in N
  BY <1>1, <1>4
<1> QED
  BY <1>5

LEMMA SumEmpty == ASSUME NEW w PROVE SumFunctionOnSet(w, {}) = 0
BY SumIsRecursion, RecursionUnrolls, FS_EmptySet

LEMMA SumFirst ==
  ASSUME NEW w, NEW S, IsFiniteSet(S), S # {}
  PROVE  /\ First(S) \in S
         /\ SumFunctionOnSet(w, S) = w[First(S)] + SumFunctionOnSet(w, S \ {First(S)})
<1>1. Recursion(w, S)[S] = w[First(S)] + Recursion(w, S)[S \ {First(S)}]
  BY RecursionUnrolls
<1>2. Recursion(w, S)[S \ {First(S)}] = Recursion(w, S \ {First(S)})[S \ {First(S)}]
  BY RecursionLocal
<1>3. First(S) \in S
  BY DEF First
<1> QED
  BY <1>1, <1>2, <1>3, SumIsRecursion

(* A sum of integers is one, and any element can be taken out first.        *)
LEMMA SumElement ==
  ASSUME NEW w, NEW S, IsFiniteSet(S), \A y \in S : w[y] \in Int
  PROVE  /\ SumFunctionOnSet(w, S) \in Int
         /\ \A x \in S : SumFunctionOnSet(w, S) = w[x] + SumFunctionOnSet(w, S \ {x})
<1> DEFINE Good(s) == /\ SumFunctionOnSet(w, s) \in Int
                      /\ \A x \in s : SumFunctionOnSet(w, s) = w[x] + SumFunctionOnSet(w, s \ {x})
           N == {n \in Nat : \A s \in SUBSET S : Cardinality(s) <= n => Good(s)}
<1>1. \A s \in SUBSET S : /\ IsFiniteSet(s) /\ Cardinality(s) \in Nat
                          /\ Cardinality(s) = 0 <=> s = {}
  BY FS_Subset, FS_EmptySet, FS_CardinalityType
<1>2. 0 \in N
  <2>1. Good({})
    BY SumEmpty
  <2>2. \A s \in SUBSET S : Cardinality(s) <= 0 => s = {}
    BY <1>1
  <2> QED
    BY <2>1, <2>2
<1>3. ASSUME NEW n \in Nat, n \in N
      PROVE  n + 1 \in N
  <2> SUFFICES ASSUME NEW s \in SUBSET S, Cardinality(s) = n + 1
               PROVE  Good(s)
    <3>1. \A s \in SUBSET S : Cardinality(s) <= n + 1 => Cardinality(s) <= n \/ Cardinality(s) = n + 1
      BY <1>1
    <3> QED
      BY <1>3, <3>1
  <2> DEFINE c == First(s)
  <2>1. IsFiniteSet(s) /\ s # {}
    BY <1>1
  <2>2. c \in s /\ SumFunctionOnSet(w, s) = w[c] + SumFunctionOnSet(w, s \ {c})
    BY <2>1, SumFirst
  <2> HIDE DEF c
  <2>3. ASSUME NEW x \in s, NEW t \in SUBSET (s \ {x})
        PROVE  Good(t)
    <3>1. IsFiniteSet(s \ {x}) /\ Cardinality(s \ {x}) = n
      BY <2>1, OneLess
    <3>2. t \in SUBSET S /\ Cardinality(t) <= n
      BY <3>1, FS_Subset
    <3> QED
      BY <1>3, <3>2
  <2>4. w[c] \in Int /\ SumFunctionOnSet(w, s \ {c}) \in Int
    BY <2>2, <2>3
  <2>5. ASSUME NEW x \in s, x # c
        PROVE  SumFunctionOnSet(w, s) = w[x] + SumFunctionOnSet(w, s \ {x})
    <3>1. SumFunctionOnSet(w, s \ {c}) = w[x] + SumFunctionOnSet(w, (s \ {c}) \ {x})
      BY <2>2, <2>3, <2>5
    <3>2. SumFunctionOnSet(w, s \ {x}) = w[c] + SumFunctionOnSet(w, (s \ {x}) \ {c})
      BY <2>2, <2>3, <2>5
    <3>3. (s \ {c}) \ {x} = (s \ {x}) \ {c}
      OBVIOUS
    <3>4. SumFunctionOnSet(w, (s \ {x}) \ {c}) \in Int /\ w[x] \in Int
      BY <2>3
    <3> DEFINE rest == SumFunctionOnSet(w, (s \ {x}) \ {c})
    <3>5. /\ SumFunctionOnSet(w, s) = w[c] + (w[x] + rest)
          /\ SumFunctionOnSet(w, s \ {x}) = w[c] + rest
      BY <2>2, <3>1, <3>2, <3>3
    <3>6. rest \in Int
      BY <3>4
    <3> HIDE DEF rest
    <3> QED
      BY <2>4, <3>4, <3>5, <3>6
  <2>6. SumFunctionOnSet(w, s) \in Int
    BY <2>2, <2>4
  <2>7. \A x \in s : SumFunctionOnSet(w, s) = w[x] + SumFunctionOnSet(w, s \ {x})
    BY <2>2, <2>5
  <2> QED
    BY <2>6, <2>7
<1>4. Nat \subseteq N
  <2> HIDE DEF N
  <2> QED
    BY <1>2, <1>3, Induction
<1>5. Cardinality(S) \in N
  BY <1>1, <1>4
<1> QED
  BY <1>1, <1>5

LEMMA SumAdds ==
  ASSUME NEW w, NEW S, IsFiniteSet(S), NEW x, x \notin S, w[x] \in Int, \A y \in S : w[y] \in Int
  PROVE  /\ IsFiniteSet(S \cup {x})
         /\ SumFunctionOnSet(w, S \cup {x}) = w[x] + SumFunctionOnSet(w, S)
<1>1. IsFiniteSet(S \cup {x})
  BY FS_AddElement
<1>2. (S \cup {x}) \ {x} = S
  OBVIOUS
<1> QED
  BY <1>1, <1>2, SumElement

(* Sums compare as their terms do.                                          *)
LEMMA SumMonotone ==
  ASSUME NEW w, NEW v, NEW S, IsFiniteSet(S),
         \A y \in S : w[y] \in Int /\ v[y] \in Int /\ w[y] <= v[y]
  PROVE  SumFunctionOnSet(w, S) <= SumFunctionOnSet(v, S)
<1> DEFINE F == {T \in SUBSET S : SumFunctionOnSet(w, T) <= SumFunctionOnSet(v, T)}
<1>1. {} \in F
  BY SumEmpty
<1>2. ASSUME NEW T \in SUBSET S, NEW x \in S \ T, T \in F
      PROVE  T \cup {x} \in F
  <2>1. IsFiniteSet(T)
    BY FS_Subset
  <2>2. /\ SumFunctionOnSet(w, T \cup {x}) = w[x] + SumFunctionOnSet(w, T)
        /\ SumFunctionOnSet(v, T \cup {x}) = v[x] + SumFunctionOnSet(v, T)
    BY <2>1, SumAdds
  <2>3. SumFunctionOnSet(w, T) \in Int /\ SumFunctionOnSet(v, T) \in Int
    BY <2>1, SumElement
  <2> QED
    BY <1>2, <2>2, <2>3
<1>3. S \in F
  <2> HIDE DEF F
  <2> QED
    BY <1>1, <1>2, FiniteInduction
<1> QED
  BY <1>3

LEMMA SumCongruent ==
  ASSUME NEW w, NEW v, NEW S, IsFiniteSet(S),
         \A y \in S : w[y] \in Int /\ v[y] = w[y]
  PROVE  SumFunctionOnSet(w, S) = SumFunctionOnSet(v, S)
<1>1. /\ SumFunctionOnSet(w, S) <= SumFunctionOnSet(v, S)
      /\ SumFunctionOnSet(v, S) <= SumFunctionOnSet(w, S)
  BY SumMonotone
<1>2. SumFunctionOnSet(w, S) \in Int /\ SumFunctionOnSet(v, S) \in Int
  BY SumElement
<1> QED
  BY <1>1, <1>2

(* A change of one term is a change of the sum.                             *)
LEMMA SumUpdate ==
  ASSUME NEW w, NEW v, NEW S, IsFiniteSet(S), NEW x \in S, w[x] \in Int, v[x] \in Int,
         \A y \in S \ {x} : w[y] \in Int /\ v[y] = w[y]
  PROVE  SumFunctionOnSet(v, S) = SumFunctionOnSet(w, S) + (v[x] - w[x])
<1>1. IsFiniteSet(S \ {x})
  BY FS_RemoveElement
<1>2. SumFunctionOnSet(w, S \ {x}) = SumFunctionOnSet(v, S \ {x})
  BY <1>1, SumCongruent
<1>3. SumFunctionOnSet(w, S \ {x}) \in Int
  BY <1>1, SumElement
<1>4. /\ SumFunctionOnSet(w, S) = w[x] + SumFunctionOnSet(w, S \ {x})
      /\ SumFunctionOnSet(v, S) = v[x] + SumFunctionOnSet(v, S \ {x})
  BY SumElement
<1> QED
  BY <1>2, <1>3, <1>4

(* Terms that are zero can be left out.                                     *)
LEMMA SumPart ==
  ASSUME NEW w, NEW S, IsFiniteSet(S), NEW T \in SUBSET S, \A y \in S : w[y] \in Int,
         \A y \in S \ T : w[y] = 0
  PROVE  SumFunctionOnSet(w, S) = SumFunctionOnSet(w, T)
<1> DEFINE F == {U \in SUBSET (S \ T) : SumFunctionOnSet(w, T \cup U) = SumFunctionOnSet(w, T)}
<1>1. {} \in F
  <2>1. T \cup {} = T
    OBVIOUS
  <2> QED
    BY <2>1
<1>2. ASSUME NEW U \in SUBSET (S \ T), NEW x \in (S \ T) \ U, U \in F
      PROVE  U \cup {x} \in F
  <2>1. IsFiniteSet(T \cup U) /\ IsFiniteSet(T)
    BY FS_Subset
  <2>2. T \cup (U \cup {x}) = (T \cup U) \cup {x} /\ x \notin T \cup U /\ w[x] = 0
    OBVIOUS
  <2>3. SumFunctionOnSet(w, (T \cup U) \cup {x}) = w[x] + SumFunctionOnSet(w, T \cup U)
    BY <2>1, <2>2, SumAdds
  <2>4. SumFunctionOnSet(w, T \cup U) \in Int
    BY <2>1, SumElement
  <2>5. SumFunctionOnSet(w, T \cup (U \cup {x})) = SumFunctionOnSet(w, T \cup U)
    <3>1. SumFunctionOnSet(w, T \cup (U \cup {x})) = w[x] + SumFunctionOnSet(w, T \cup U)
      BY <2>2, <2>3
    <3> QED
      BY <2>2, <2>4, <3>1
  <2>6. U \cup {x} \in SUBSET (S \ T)
    OBVIOUS
  <2> QED
    BY <1>2, <2>5, <2>6
<1>3. S \ T \in F
  <2>1. IsFiniteSet(S \ T)
    BY FS_Difference
  <2> HIDE DEF F
  <2> QED
    BY <1>1, <1>2, <2>1, FiniteInduction
<1>4. T \cup (S \ T) = S
  OBVIOUS
<1> QED
  BY <1>3, <1>4

-----------------------------------------------------------------------------
(* Order.  The elements of a finite set, in the order of their keys: f is   *)
(* the key of each element, and no two have the same.                       *)

Keyed(f, S) == /\ \A x \in S : f[x] \in Int
               /\ \A x, y \in S : f[x] = f[y] => x = y

Below(f, S, x) == {y \in S : f[y] < f[x]}

Ordered(f, S) ==
  [n \in 1 .. Cardinality(S) |-> CHOOSE x \in S : Cardinality(Below(f, S, x)) = n - 1]

(* A finite set has a largest element.                                      *)
LEMMA Largest ==
  ASSUME NEW S, IsFiniteSet(S), S # {}, NEW f, \A x \in S : f[x] \in Int
  PROVE  \E z \in S : \A x \in S : f[x] <= f[z]
<1> DEFINE F == {T \in SUBSET S : T # {} => \E z \in T : \A x \in T : f[x] <= f[z]}
<1>1. {} \in F
  OBVIOUS
<1>2. ASSUME NEW T \in SUBSET S, NEW x \in S \ T, T \in F
      PROVE  T \cup {x} \in F
  <2>1. CASE T = {}
    <3>1. T \cup {x} = {x} /\ f[x] <= f[x]
      BY <2>1
    <3> QED
      BY <3>1
  <2>2. CASE T # {}
    <3>1. PICK z \in T : \A y \in T : f[y] <= f[z]
      BY <1>2, <2>2
    <3>2. CASE f[x] <= f[z]
      BY <3>1, <3>2
    <3>3. CASE ~(f[x] <= f[z])
      <4>1. \A y \in T \cup {x} : f[y] <= f[x]
        BY <3>1, <3>3
      <4> QED
        BY <4>1
    <3> QED
      BY <3>2, <3>3
  <2> QED
    BY <2>1, <2>2
<1>3. S \in F
  <2> HIDE DEF F
  <2> QED
    BY <1>1, <1>2, FiniteInduction
<1> QED
  BY <1>3

(* Every rank is taken.                                                     *)
LEMMA RankTaken ==
  ASSUME NEW S, IsFiniteSet(S), NEW f, Keyed(f, S)
  PROVE  \A n \in 1 .. Cardinality(S) : \E x \in S : Cardinality(Below(f, S, x)) = n - 1
<1> DEFINE Good(T) == \A n \in 1 .. Cardinality(T) : \E x \in T : Cardinality(Below(f, T, x)) = n - 1
           N == {m \in Nat : \A T \in SUBSET S : Cardinality(T) = m => Good(T)}
<1>1. 0 \in N
  OBVIOUS
<1>2. ASSUME NEW m \in Nat, m \in N
      PROVE  m + 1 \in N
  <2> SUFFICES ASSUME NEW T \in SUBSET S, Cardinality(T) = m + 1, NEW n \in 1 .. m + 1
               PROVE  \E x \in T : Cardinality(Below(f, T, x)) = n - 1
    BY <1>2
  <2>1. IsFiniteSet(T) /\ T # {}
    BY FS_Subset, FS_EmptySet
  <2>2. PICK z \in T : \A x \in T : f[x] <= f[z]
    BY <2>1, Largest DEF Keyed
  <2>3. IsFiniteSet(T \ {z}) /\ Cardinality(T \ {z}) = m
    BY <2>1, OneLess
  <2>4. CASE n = m + 1
    <3>1. Below(f, T, z) = T \ {z}
      <4>1. ASSUME NEW y \in T, y # z
            PROVE  f[y] < f[z]
        <5>1. f[y] \in Int /\ f[z] \in Int /\ f[y] <= f[z] /\ f[y] # f[z]
          BY <2>2, <4>1 DEF Keyed
        <5> QED
          BY <5>1
      <4>2. ~(f[z] < f[z])
        BY DEF Keyed
      <4> QED
        BY <4>1, <4>2 DEF Below
    <3> QED
      BY <2>3, <2>4, <3>1
  <2>5. CASE n # m + 1
    <3>1. n \in 1 .. m
      BY <2>5
    <3>2. PICK x \in T \ {z} : Cardinality(Below(f, T \ {z}, x)) = n - 1
      BY <1>2, <2>3, <3>1
    <3>3. Below(f, T \ {z}, x) = Below(f, T, x)
      <4>1. ~(f[z] < f[x])
        <5>1. f[x] \in Int /\ f[z] \in Int /\ f[x] <= f[z]
          BY <2>2 DEF Keyed
        <5> QED
          BY <5>1
      <4> QED
        BY <4>1 DEF Below
    <3> QED
      BY <3>2, <3>3
  <2> QED
    BY <2>4, <2>5
<1>3. Nat \subseteq N
  <2> HIDE DEF N
  <2> QED
    BY <1>1, <1>2, Induction
<1>4. Cardinality(S) \in N
  BY <1>3, FS_CardinalityType
<1> QED
  BY <1>4

(* A larger key has a larger rank, so two elements of one rank are one.     *)
LEMMA RankGrows ==
  ASSUME NEW S, IsFiniteSet(S), NEW f, Keyed(f, S), NEW x \in S
  PROVE  /\ Cardinality(Below(f, S, x)) \in 0 .. Cardinality(S) - 1
         /\ \A y \in S : f[x] < f[y] => Cardinality(Below(f, S, x)) < Cardinality(Below(f, S, y))
         /\ \A y \in S : Cardinality(Below(f, S, x)) = Cardinality(Below(f, S, y)) => x = y
<1> DEFINE R(y) == Cardinality(Below(f, S, y))
<1>1. \A y \in S : IsFiniteSet(Below(f, S, y)) /\ R(y) \in Nat
  BY FS_Subset, FS_CardinalityType DEF Below
<1>2. ASSUME NEW y \in S, NEW z \in S, f[y] < f[z]
      PROVE  R(y) < R(z)
  <2>1. y \notin Below(f, S, y)
    BY DEF Below, Keyed
  <2>2. Cardinality(Below(f, S, y) \cup {y}) = R(y) + 1
    BY <1>1, <2>1, FS_AddElement
  <2>3. Below(f, S, y) \cup {y} \subseteq Below(f, S, z)
    <3>1. ASSUME NEW v \in Below(f, S, y)
          PROVE  v \in Below(f, S, z)
      <4>1. v \in S /\ f[v] \in Int /\ f[y] \in Int /\ f[z] \in Int /\ f[v] < f[y]
        BY DEF Below, Keyed
      <4> QED
        BY <1>2, <4>1 DEF Below
    <3> QED
      BY <1>2, <3>1 DEF Below
  <2>4. Cardinality(Below(f, S, y) \cup {y}) <= R(z)
    BY <1>1, <2>3, FS_Subset
  <2> QED
    BY <1>1, <2>2, <2>4
<1>3. R(x) < Cardinality(S)
  <2>1. Below(f, S, x) \subseteq S \ {x}
    BY DEF Below, Keyed
  <2>2. IsFiniteSet(S \ {x}) /\ Cardinality(S \ {x}) = Cardinality(S) - 1
    BY FS_RemoveElement
  <2>3. R(x) <= Cardinality(S \ {x})
    BY <2>1, <2>2, FS_Subset
  <2> QED
    BY <1>1, <2>2, <2>3, FS_CardinalityType
<1>4. ASSUME NEW y \in S, R(x) = R(y)
      PROVE  x = y
  <2>1. f[x] \in Int /\ f[y] \in Int
    BY DEF Keyed
  <2>2. ~(f[x] < f[y]) /\ ~(f[y] < f[x])
    BY <1>1, <1>2, <1>4
  <2> QED
    BY <2>1, <2>2 DEF Keyed
<1> QED
  BY <1>1, <1>2, <1>3, <1>4, FS_CardinalityType

(* The order holds each element once, by its key.                           *)
LEMMA OrderedElements ==
  ASSUME NEW S, IsFiniteSet(S), NEW f, Keyed(f, S)
  PROVE  /\ Cardinality(S) \in Nat
         /\ \A n \in 1 .. Cardinality(S) :
              Ordered(f, S)[n] \in S /\ Cardinality(Below(f, S, Ordered(f, S)[n])) = n - 1
         /\ \A m, n \in 1 .. Cardinality(S) : m < n => f[Ordered(f, S)[m]] < f[Ordered(f, S)[n]]
         /\ \A x \in S : \E n \in 1 .. Cardinality(S) : Ordered(f, S)[n] = x
<1> DEFINE s == Ordered(f, S)
           R(y) == Cardinality(Below(f, S, y))
<1>1. Cardinality(S) \in Nat
  BY FS_CardinalityType
<1>2. ASSUME NEW n \in 1 .. Cardinality(S)
      PROVE  s[n] \in S /\ R(s[n]) = n - 1
  <2>1. s[n] = CHOOSE x \in S : R(x) = n - 1
    BY DEF Ordered
  <2>2. \E x \in S : R(x) = n - 1
    BY RankTaken
  <2> HIDE DEF R, s
  <2> QED
    BY <2>1, <2>2
<1>3. ASSUME NEW m \in 1 .. Cardinality(S), NEW n \in 1 .. Cardinality(S), m < n
      PROVE  f[s[m]] < f[s[n]]
  <2>1. /\ s[m] \in S /\ s[n] \in S /\ R(s[m]) = m - 1 /\ R(s[n]) = n - 1
        /\ f[s[m]] \in Int /\ f[s[n]] \in Int
    BY <1>2 DEF Keyed
  <2>2. ~(f[s[n]] < f[s[m]])
    <3>1. f[s[n]] < f[s[m]] => R(s[n]) < R(s[m])
      BY <2>1, RankGrows
    <3> QED
      BY <1>3, <2>1, <3>1
  <2>3. f[s[n]] # f[s[m]]
    <3>1. R(s[m]) # R(s[n])
      BY <1>3, <2>1
    <3>2. s[m] # s[n]
      BY <3>1
    <3> QED
      BY <2>1, <3>2 DEF Keyed
  <2> HIDE DEF s
  <2> QED
    BY <2>1, <2>2, <2>3
<1>4. ASSUME NEW x \in S
      PROVE  \E n \in 1 .. Cardinality(S) : s[n] = x
  <2>1. R(x) \in 0 .. Cardinality(S) - 1
    BY RankGrows
  <2>2. PICK n \in 1 .. Cardinality(S) : n - 1 = R(x)
    <3>1. PICK r \in Nat : r = R(x)
      BY <2>1
    <3>2. r + 1 \in 1 .. Cardinality(S) /\ (r + 1) - 1 = r
      BY <1>1, <2>1, <3>1
    <3> HIDE DEF R
    <3> QED
      BY <3>1, <3>2
  <2>3. s[n] \in S /\ R(s[n]) = R(x)
    BY <1>2, <2>2
  <2>4. s[n] = x
    BY <2>3, RankGrows
  <2> QED
    BY <2>4
<1> QED
  BY <1>1, <1>2, <1>3, <1>4

Listed(t, n) == {t[l] : l \in 1 .. n}

(* The first n elements of a list without repetitions are n.                *)
LEMMA ListCounts ==
  ASSUME NEW n \in Nat, NEW t, \A l, m \in 1 .. n : l < m => t[l] # t[m]
  PROVE  IsFiniteSet(Listed(t, n)) /\ Cardinality(Listed(t, n)) = n
<1> DEFINE Pre(m) == {t[l] : l \in 1 .. m}
           N == {m \in Nat : m <= n => IsFiniteSet(Pre(m)) /\ Cardinality(Pre(m)) = m}
<1>1. 0 \in N
  <2>1. Pre(0) = {}
    OBVIOUS
  <2> QED
    BY <2>1, FS_EmptySet
<1>2. ASSUME NEW m \in Nat, m \in N
      PROVE  m + 1 \in N
  <2> SUFFICES ASSUME m + 1 <= n
               PROVE  IsFiniteSet(Pre(m + 1)) /\ Cardinality(Pre(m + 1)) = m + 1
    OBVIOUS
  <2>1. 1 .. m + 1 = 1 .. m \cup {m + 1}
    OBVIOUS
  <2>2. Pre(m + 1) = Pre(m) \cup {t[m + 1]}
    BY <2>1
  <2>3. t[m + 1] \notin Pre(m)
    OBVIOUS
  <2>4. IsFiniteSet(Pre(m)) /\ Cardinality(Pre(m)) = m
    BY <1>2
  <2> HIDE DEF Pre
  <2> QED
    BY <2>2, <2>3, <2>4, FS_AddElement
<1>3. Nat \subseteq N
  <2> HIDE DEF N
  <2> QED
    BY <1>1, <1>2, Induction
<1>4. n \in N
  BY <1>3
<1> QED
  BY <1>4 DEF Listed

(* A list in order that holds the elements of S is Ordered(f, S).           *)
LEMMA OrderedUnique ==
  ASSUME NEW S, NEW f, Keyed(f, S), NEW n \in Nat, NEW t, \A m \in 1 .. n : t[m] \in S,
         \A l, m \in 1 .. n : l < m => f[t[l]] < f[t[m]], \A x \in S : \E m \in 1 .. n : t[m] = x
  PROVE  IsFiniteSet(S) /\ Cardinality(S) = n /\ \A m \in 1 .. n : t[m] = Ordered(f, S)[m]
<1>1. \A l, m \in 1 .. n : l < m => t[l] # t[m]
  <2>1. \A x \in S : ~(f[x] < f[x])
    BY DEF Keyed
  <2> QED
    BY <2>1
<1>2. S = Listed(t, n)
  BY DEF Listed
<1>3. IsFiniteSet(S) /\ Cardinality(S) = n
  BY <1>1, <1>2, ListCounts
<1>4. ASSUME NEW m \in 1 .. n
      PROVE  t[m] = Ordered(f, S)[m]
  <2>1. Below(f, S, t[m]) = Listed(t, m - 1)
    <3>1. ASSUME NEW l \in 1 .. n
          PROVE  f[t[l]] < f[t[m]] <=> l < m
      <4>1. f[t[l]] \in Int /\ f[t[m]] \in Int
        BY DEF Keyed
      <4>2. l < m \/ l = m \/ m < l
        OBVIOUS
      <4>3. m < l => f[t[m]] < f[t[l]]
        OBVIOUS
      <4> QED
        BY <4>1, <4>2, <4>3
    <3>2. 1 .. m - 1 = {l \in 1 .. n : l < m}
      OBVIOUS
    <3> QED
      BY <1>2, <3>1, <3>2 DEF Below, Listed
  <2>2. Cardinality(Below(f, S, t[m])) = m - 1
    <3>1. PICK r \in Nat : r = m - 1
      OBVIOUS
    <3>2. \A a, b \in 1 .. r : a < b => t[a] # t[b]
      BY <1>1, <3>1
    <3>3. Cardinality(Listed(t, r)) = r
      BY <3>2, ListCounts
    <3> QED
      BY <2>1, <3>1, <3>3
  <2>3. Ordered(f, S)[m] \in S /\ Cardinality(Below(f, S, Ordered(f, S)[m])) = m - 1
    BY <1>3, OrderedElements
  <2> QED
    BY <1>3, <2>2, <2>3, RankGrows
<1> QED
  BY <1>3, <1>4
=============================================================================
