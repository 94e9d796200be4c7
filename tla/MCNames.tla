------------------------------ MODULE MCNames ------------------------------
(* What makes the name of a stat: chains of scopes (Scopes), the sorting     *)
(* networks (TagSort), the merge in place (TagMerge) and the text (TagText). *)
(* The four share no state: each behaviour is one of one of them, while the  *)
(* variables of the others keep a value without a next step.                 *)
EXTENDS TagNames

VARIABLES turn, keys, rest, given_, stat_, map, set

sortVars  == <<keys, rest>>
mergeVars == <<s1, keys2, scratch, i, j, k, pc>>
textVars  == <<given_, stat_, map, set>>

(* Three keys, of which the second is "_f" and the third reserved, and two   *)
(* values, of which one has to be cleaned.                                   *)
CleanedValues == [v \in Values |-> IF v = "a.b" THEN "a_b" ELSE v]

(* Texts that hold the bytes of the format, and parts of its separator.      *)
CONSTANT None

a == 97
b == 98
TextNames  == {<<>>, <<a>>, <<a, 46>>, <<46, 95>>, <<a, 58, b>>, <<61>>, <<46, 95, 95>>}
TextKeys   == {<<>>, <<b>>, <<a, 46>>, <<95>>, <<46, 95>>, <<a, 58>>}
TextValues == {<<>>, <<b>>, <<61, 95>>, <<46, 95, 95>>, <<a, 58, 124>>}
TextEnds   == {<<>>, <<58, 49, 124, 99>>}
TextPieces == {<<a>>, <<b>>, <<58>>, <<61>>, <<46, 95, 95>>}

Network == INSTANCE TagSort
Text    == INSTANCE TagText WITH given <- given_, stat <- stat_, Names <- TextNames,
             Keys <- TextKeys, Values <- TextValues, MaxTags <- 2, Ends <- TextEnds,
             Pieces <- TextPieces, MaxPieces <- 5

SortIdle  == keys = <<>> /\ rest = <<>>
MergeIdle == /\ s1 = <<>> /\ keys2 = {} /\ scratch = <<>>
             /\ i = 0 /\ j = 0 /\ k = 0 /\ pc = "done"
TextIdle  == given_ = None /\ stat_ = <<>> /\ map = None /\ set = None

MCInit ==
  /\ Init
  /\ \/ turn = "scopes" /\ SortIdle /\ MergeIdle /\ TextIdle
     \/ turn = "sort" /\ Network!Init /\ MergeIdle /\ TextIdle
     \/ turn = "merge" /\ SortIdle /\ Merge!Init /\ TextIdle
     \/ turn = "text" /\ SortIdle /\ MergeIdle /\ Text!Init

Scoping == turn = "scopes" /\ Next /\ UNCHANGED <<turn, sortVars, mergeVars, textVars>>
Sorting == turn = "sort" /\ Network!Next /\ UNCHANGED <<turn, vars, mergeVars, textVars>>
Merging == turn = "merge" /\ Merge!Next /\ UNCHANGED <<turn, vars, sortVars, textVars>>
Parsing == turn = "text" /\ Text!Next /\ UNCHANGED <<turn, vars, sortVars, mergeVars>>

MCNext == Scoping \/ Sorting \/ Merging \/ Parsing

MCSpec == MCInit /\ [][MCNext]_<<turn, vars, sortVars, mergeVars, textVars>>

(* The invariants of the other modules, stated there.                        *)

(* Every network sorts (TagSet.Sort and SerializeTags).                      *)
SortedAtTheEnd == Network!SortedAtTheEnd

(* A stat parses back to what it was written from (ParseTags).               *)
RoundTrip == Text!RoundTrip

(* The two parsers agree on any text (ParseTags, ParseTagSet).               *)
ParsersAgree == Text!ParsersAgree
=============================================================================
