------------------------------ MODULE TagText ------------------------------
(***************************************************************************)
(* The text of a stat, and what the parsers of internal/tags/tags.go make   *)
(* of it: ParseTags, which mock.ParseTags offers to tests, and ParseTagSet. *)
(*                                                                         *)
(* A text is the sequence of its bytes.  Names and keys are not cleaned by  *)
(* the library, so that the caller's may hold the bytes the format uses.    *)
(***************************************************************************)
EXTENDS Integers, SequencesExt, FiniteSets

CONSTANTS
  Names, Keys, Values,  \* texts a caller gives
  MaxTags,              \* bound on the tags of a stat
  Ends,                 \* what follows a stat on the wire, and nothing
  Pieces, MaxPieces,    \* any other text is made of up to MaxPieces of these
  None

Dot        == 46
Colon      == 58
Equals     == 61
Underscore == 95
Pipe       == 124
Sep        == <<Dot, Underscore, Underscore>>

(* Strings are compared byte by byte.                                       *)
Less(s, t) ==
  LET same == CHOOSE n \in 0 .. Len(s) :
                /\ n <= Len(t) /\ SubSeq(s, 1, n) = SubSeq(t, 1, n)
                /\ n = Len(s) \/ n = Len(t) \/ s[n + 1] # t[n + 1]
  IN same < Len(t) /\ (same = Len(s) \/ s[same + 1] < t[same + 1])

-----------------------------------------------------------------------------
(* Writing a stat.                                                          *)

ReplaceChars(s) ==
  [n \in DOMAIN s |-> IF s[n] \in {Dot, Colon, Pipe} THEN Underscore ELSE s[n]]

Valid(m) == {key \in DOMAIN m \ {<<>>} : m[key] # <<>>}

SerializeTags(name, m) ==
  LET keys == SetToSortSeq(Valid(m), Less)
  IN name \o FlattenSeq([n \in DOMAIN keys |->
               Sep \o keys[n] \o <<Equals>> \o ReplaceChars(m[keys[n]])])

-----------------------------------------------------------------------------
(* Reading one.                                                             *)

FirstColon(stat) == SelectInSeq(stat, LAMBDA c : c = Colon)  \* mutated form of ValueAt

(* The value follows the last colon.                                        *)
ValueAt(stat) == SelectLastInSeq(stat, LAMBDA c : c = Colon)

removeStatValue(stat) ==
  IF ValueAt(stat) = 0 THEN stat ELSE SubSeq(stat, 1, ValueAt(stat) - 1)

(* The pieces of a text between its separators.                             *)
Split(s) ==
  LET at == SetToSortSeq({n \in 1 .. Len(s) - 2 : SubSeq(s, n, n + 2) = Sep}, <)
  IN [n \in 1 .. Len(at) + 1 |->
        SubSeq(s, IF n = 1 THEN 1 ELSE at[n - 1] + Len(Sep),
                  IF n > Len(at) THEN Len(s) ELSE at[n] - 1)]

(* The pieces after the name that have an equals sign, each cut at the      *)
(* first; the others are passed over.                                       *)
Pairs(stat) ==
  LET EqualsAt(s) == SelectInSeq(s, LAMBDA c : c = Equals)
      good == SelectSeq(Tail(Split(stat)), LAMBDA s : EqualsAt(s) > 0)
  IN [n \in DOMAIN good |->
        [key   |-> SubSeq(good[n], 1, EqualsAt(good[n]) - 1),
         value |-> SubSeq(good[n], EqualsAt(good[n]) + 1, Len(good[n]))]]

NameOf(stat) == Head(Split(stat))

(* The map holds the last value of each key.                                *)
ParseTags(stat) ==
  LET pairs == Pairs(removeStatValue(stat))
  IN [name |-> NameOf(removeStatValue(stat)),
      tags |-> [key \in {pairs[n].key : n \in DOMAIN pairs} |->
                  pairs[SelectLastInSeq(pairs, LAMBDA p : p.key = key)].value]]

Unsorted(pairs) == {pairs}  \* mutated form of Sorted

(* Sort; in which order it leaves tags of one key is not said.              *)
Sorted(pairs) ==
  {t \in {[n \in DOMAIN pairs |-> pairs[p[n]]] :
            p \in {f \in [DOMAIN pairs -> DOMAIN pairs] : IsInjective(f)}} :
     \A i, j \in DOMAIN t : i < j => ~Less(t[j].key, t[i].key)}

(* The tag set keeps every pair.                                            *)
ParseTagSet(stat) ==
  {[name |-> NameOf(removeStatValue(stat)), tags |-> t] :
     t \in Sorted(Pairs(removeStatValue(stat)))}

-----------------------------------------------------------------------------
VARIABLES
  given,       \* the name, tags and end a stat was written from, or None
  stat,        \* the text
  map, set     \* what ParseTags and ParseTagSet returned, or None

vars == <<given, stat, map, set>>

(* A stat of the library, or any text.                                      *)
Init ==
  /\ map = None /\ set = None
  /\ \/ \E name \in Names, K \in SUBSET Keys, end \in Ends :
          /\ Cardinality(K) <= MaxTags
          /\ \E m \in [K -> Values] :
               /\ given = <<name, m, end>>
               /\ stat = SerializeTags(name, m) \o end
     \/ \E n \in 0 .. MaxPieces : \E s \in [1 .. n -> Pieces] :
          given = None /\ stat = FlattenSeq(s)

Parse ==
  /\ map = None
  /\ map' = ParseTags(stat)
  /\ set' \in ParseTagSet(stat)
  /\ UNCHANGED <<given, stat>>

Next == Parse

-----------------------------------------------------------------------------
(* Properties.                                                              *)

HasText(s, sub) == \E n \in 1 .. Len(s) - Len(sub) + 1 : SubSeq(s, n, n + Len(sub) - 1) = sub

(* The bytes in names and keys no reader could tell from the format's.      *)
Readable(name, m, end) ==
  LET Bare(s) == ~HasText(s, Sep) /\ (end = <<>> => ~HasText(s, <<Colon>>))
  IN Bare(name) /\ \A key \in DOMAIN m : Bare(key) /\ ~HasText(key, <<Equals>>)

(* A stat parses back to the name and the tags it was written from, with    *)
(* their values cleaned, even when names, keys and values hold parts of the *)
(* format (ParseTags: "This allows passing full stat lines in wire form as  *)
(* they would be emitted by the sink").                                     *)
RoundTrip ==
  given # None /\ map # None =>
    LET name == given[1]
        m    == given[2]
    IN Readable(name, m, given[3]) =>
         map = [name |-> name, tags |-> [key \in Valid(m) |-> ReplaceChars(m[key])]]

(* The parsers agree on any text, well formed or not: the same name, the    *)
(* same keys, and the value in the map is one of those in the set, which is *)
(* sorted as its methods require (ParseTagSet: "like ParseTags, but returns *)
(* a TagSet instead of a map").                                             *)
ParsersAgree ==
  map # None =>
    /\ map.name = set.name
    /\ DOMAIN map.tags = {set.tags[n].key : n \in DOMAIN set.tags}
    /\ \A key \in DOMAIN map.tags :
         \E n \in DOMAIN set.tags : set.tags[n] = [key |-> key, value |-> map.tags[key]]
    /\ \A i, j \in DOMAIN set.tags : i < j => ~Less(set.tags[j].key, set.tags[i].key)

=============================================================================
