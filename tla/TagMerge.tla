------------------------------ MODULE TagMerge ------------------------------
(***************************************************************************)
(* mergeTagSets of internal/tags/tags.go, as MergeTags calls it: the set s2 *)
(* to merge lies at the tail of the slice the result is written to, so that *)
(* the loop overwrites s2 while it reads it.                                *)
(*                                                                         *)
(* A tag is a key and the set it comes from; s2 wins where both have a key. *)
(***************************************************************************)
EXTENDS Integers, Sequences, FiniteSets

CONSTANTS
  Keys,    \* the keys of tags, ordered as numbers
  MaxGap   \* bound on the tags of the caller's map that were not valid

Tag(k, from) == [key |-> k, from |-> from]
Blank == Tag(0, 0)

(* The n-th smallest of a set, and the set in order.                        *)
Nth(S, n) == CHOOSE x \in S : Cardinality({y \in S : y < x}) = n - 1
Sorted(S, from) == [n \in 1 .. Cardinality(S) |-> Tag(Nth(S, n), from)]

VARIABLES
  s1, keys2,   \* the first set, and (a history) the keys of the second
  scratch,     \* the slice for the result
  i, j, k,     \* the indices of the loop, from 0 as in the code
  pc

vars == <<s1, keys2, scratch, i, j, k, pc>>

TailLate(n1) == IF n1 > 0 THEN n1 - 1 ELSE 0  \* mutated form of TailStart: off by one

(* scratch[len(t):]: where s2 starts.  An empty s1 never gets here.         *)
TailStart(n1) == n1

Len2   == Cardinality(keys2)
S2(n)  == scratch[TailStart(Len(s1)) + n + 1]
Size   == Len(scratch)

Init ==
  /\ \E K \in SUBSET Keys \ {{}} : s1 = Sorted(K, 1)
  /\ keys2 \in SUBSET Keys
  /\ \E gap \in 0 .. MaxGap :
       LET base == TailStart(Len(s1))
       IN /\ Cardinality(keys2) + gap >= 2  \* fewer do not get here
          /\ scratch = [n \in 1 .. Len(s1) + Cardinality(keys2) + gap |->
                          IF n - base \in 1 .. Cardinality(keys2)
                            THEN Sorted(keys2, 2)[n - base] ELSE Blank]
  /\ i = 0 /\ j = 0 /\ k = 0
  /\ pc = "loop"

InLoop == i < Len(s1) /\ j < Len2 /\ k < Size

Put(tag) == scratch' = [scratch EXCEPT ![k + 1] = tag] /\ k' = k + 1

PutEqual == Put(S2(j))

Equal ==
  /\ pc = "loop" /\ InLoop
  /\ s1[i + 1].key = S2(j).key
  /\ PutEqual
  /\ i' = i + 1 /\ j' = j + 1
  /\ UNCHANGED <<s1, keys2, pc>>

TakeFirst ==
  /\ pc = "loop" /\ InLoop
  /\ s1[i + 1].key < S2(j).key
  /\ Put(s1[i + 1])
  /\ i' = i + 1
  /\ UNCHANGED <<s1, keys2, j, pc>>

TakeSecond ==
  /\ pc = "loop" /\ InLoop
  /\ s1[i + 1].key > S2(j).key
  /\ Put(S2(j))
  /\ j' = j + 1
  /\ UNCHANGED <<s1, keys2, i, pc>>

(* copy(a[k:], src): as much as fits; source and target may overlap.        *)
Copy(src) ==
  LET n == IF Len(src) < Size - k THEN Len(src) ELSE Size - k
  IN /\ scratch' = [m \in DOMAIN scratch |->
                      IF m - k \in 1 .. n THEN src[m - k] ELSE scratch[m]]
     /\ k' = k + n

CopyFirst ==
  /\ pc = "loop" /\ ~InLoop
  /\ Copy(SubSeq(s1, i + 1, Len(s1)))
  /\ pc' = "second"
  /\ UNCHANGED <<s1, keys2, i, j>>

CopySecond ==
  /\ pc = "second"
  /\ Copy([n \in 1 .. Len2 - j |-> S2(j + n - 1)])
  /\ pc' = "done"
  /\ UNCHANGED <<s1, keys2, i, j>>

Next == Equal \/ TakeFirst \/ TakeSecond \/ CopyFirst \/ CopySecond

Spec == Init /\ [][Next]_vars

-----------------------------------------------------------------------------
(* Properties.                                                              *)

(* What has not been read of s2 has not been overwritten (mergeTagSets: "s2 *)
(* can be a sub-slice of scratch if it is located at the tail").            *)
UnreadIntact == pc # "done" => \A n \in j .. Len2 - 1 : S2(n) = Sorted(keys2, 2)[n + 1]

(* The result is the union of the two sets, sorted, s2 overriding s1        *)
(* (MergeTags: "If any keys overlap the values from the provided map").     *)
Union == LET keys1 == {s1[n].key : n \in DOMAIN s1}
         IN [n \in 1 .. Cardinality(keys1 \cup keys2) |->
               LET key == Nth(keys1 \cup keys2, n)
               IN Tag(key, IF key \in keys2 THEN 2 ELSE 1)]

Merged == pc = "done" => SubSeq(scratch, 1, k) = Union

=============================================================================
