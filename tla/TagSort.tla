------------------------------ MODULE TagSort ------------------------------
(***************************************************************************)
(* The sorting networks of internal/tags/tags.go: TagSet.Sort for up to     *)
(* eight tags, and SerializeTags for two to four.  Longer sets go to the    *)
(* standard library's sort.                                                 *)
(*                                                                         *)
(* Only the order of the keys matters.  Each step is one compare and swap.  *)
(***************************************************************************)
EXTENDS Integers, Sequences

(* Two keys are enough: a network that sorts every sequence of zeroes and   *)
(* ones sorts every sequence.                                               *)
SortKeys == {0, 1}

(* The positions compared, from 0 as in the code.                           *)
SortNetwork == <<
  <<>>,
  << <<0,1>> >>,
  << <<1,2>>, <<0,2>>, <<0,1>> >>,
  << <<0,1>>, <<2,3>>, <<0,2>>, <<1,3>>, <<1,2>> >>,
  << <<0,1>>, <<3,4>>, <<2,4>>, <<2,3>>, <<0,3>>, <<0,2>>, <<1,4>>, <<1,3>>, <<1,2>> >>,
  << <<1,2>>, <<0,2>>, <<0,1>>, <<4,5>>, <<3,5>>, <<3,4>>, <<0,3>>, <<1,4>>,
     <<2,5>>, <<2,4>>, <<1,3>>, <<2,3>> >>,
  << <<1,2>>, <<0,2>>, <<0,1>>, <<3,4>>, <<5,6>>, <<3,5>>, <<4,6>>, <<4,5>>,
     <<0,4>>, <<0,3>>, <<1,5>>, <<2,6>>, <<2,5>>, <<1,3>>, <<2,4>>, <<2,3>> >>,
  << <<0,1>>, <<2,3>>, <<0,2>>, <<1,3>>, <<1,2>>, <<4,5>>, <<6,7>>, <<4,6>>,
     <<5,7>>, <<5,6>>, <<0,4>>, <<1,5>>, <<1,4>>, <<2,6>>, <<3,7>>, <<3,6>>,
     <<2,4>>, <<3,5>>, <<3,4>> >> >>

(* In SerializeTags the tags are the variables t0, t1, t2 and t3.           *)
SerializeNetwork == <<
  <<>>,
  << <<0,1>> >>,
  << <<1,2>>, <<0,2>>, <<0,1>> >>,
  << <<0,1>>, <<2,3>>, <<0,2>>, <<1,3>>, <<1,2>> >> >>

(* Mutated form of Networks: the network for four loses its last comparison. *)
ShortNetworks == [sort |-> [SortNetwork EXCEPT ![4] = SubSeq(@, 1, 4)],
                  serialize |-> SerializeNetwork]

Networks == [sort |-> SortNetwork, serialize |-> SerializeNetwork]

VARIABLES keys, rest  \* the keys, and the comparisons still to make

vars == <<keys, rest>>

Init ==
  \E network \in {"sort", "serialize"} :
    \E n \in DOMAIN Networks[network] :
      /\ keys \in [1 .. n -> SortKeys]
      /\ rest = Networks[network][n]

(* cas(i, j).                                                               *)
Swapped(i, j) == [keys EXCEPT ![i] = keys[j], ![j] = keys[i]]

Cas ==
  LET i == Head(rest)[1] + 1
      j == Head(rest)[2] + 1
  IN /\ rest # <<>>
     /\ rest' = Tail(rest)
     /\ keys' = IF keys[i] > keys[j] THEN Swapped(i, j) ELSE keys

Next == Cas

Spec == Init /\ [][Next]_vars

-----------------------------------------------------------------------------
(* Properties.                                                              *)

(* Every network sorts (Sort, "network sort generated with ... best").      *)
SortedAtTheEnd == rest = <<>> => \A i, j \in DOMAIN keys : i < j => keys[i] <= keys[j]

=============================================================================
