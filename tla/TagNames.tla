------------------------------ MODULE TagNames ------------------------------
(***************************************************************************)
(* The tags a stat is named after: the chains of scopes that collect them   *)
(* (Scopes) and the merge in place that puts two sets of them together      *)
(* (TagMerge).  The two share no state: what the second computes is the     *)
(* MergeTagSets of the first.                                               *)
(***************************************************************************)
EXTENDS Scopes

CONSTANTS
  MergeKeys,   \* the keys of the sets to merge
  MaxGap       \* bound on the tags of the caller's map that were not valid

ASSUME TagNamesAssumption == MergeKeys \subseteq Int /\ MaxGap \in Nat

VARIABLES s1, keys2, scratch, i, j, k, pc

Merge == INSTANCE TagMerge WITH Keys <- MergeKeys

(* The merge computes the union of its sets, the second overriding the      *)
(* first (MergeTags).                                                       *)
Merged == Merge!Merged

=============================================================================
