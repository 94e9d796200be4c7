------------------------------- MODULE Scopes -------------------------------
(***************************************************************************)
(* Scopes and the names of stats: statStore and subScope of stats.go over   *)
(* the tag sets of internal/tags/tags.go.  A program goes down a chain of   *)
(* scopes, each adding tags, and creates stats in them; two stats are one   *)
(* when their serialized names are equal, so what counts is which tags end  *)
(* up in a name, with which values, and that they always come in one order. *)
(*                                                                         *)
(* A serialized name is the sequence of the tags in it.  The stat's own     *)
(* name and the names of the scopes are left out.                           *)
(***************************************************************************)
EXTENDS Integers, SequencesExt

CONSTANTS
  Keys,         \* the keys of tags, ordered as numbers
  EmptyKey,     \* ""
  InstanceKey,  \* "_f"
  Reserved,     \* ReservedTagWords
  Values,       \* the values a caller may give
  EmptyValue,   \* ""
  DefaultValue, \* "i"
  Cleaned,      \* what ReplaceChars makes of each value
  MaxCalls      \* bound on the number of calls

ASSUME ScopesAssumption ==
  /\ Keys \subseteq Int /\ EmptyKey \notin Keys
  /\ InstanceKey \in Keys /\ Reserved \subseteq Keys
  /\ EmptyValue \in Values
  /\ \A v \in Values \ {EmptyValue} : Cleaned[v] # EmptyValue
  /\ DefaultValue # EmptyValue /\ Cleaned[DefaultValue] = DefaultValue
  /\ MaxCalls \in Nat

(* The argument tags: any Go map from keys to values.                       *)
Maps == UNION {[K -> Values] : K \in SUBSET (Keys \cup {EmptyKey})}

-----------------------------------------------------------------------------
(* internal/tags.                                                           *)

ReplaceChars(v) == Cleaned[v]

NewTag(k, v) == [key |-> k, value |-> ReplaceChars(v)]

(* The tags of a map that have a key and a value.                           *)
Valid(m) == {NewTag(k, m[k]) : k \in {x \in DOMAIN m \ {EmptyKey} : m[x] # EmptyValue}}

(* Sort: TagSort checks that the code's networks compute it.                *)
Sort(S) ==
  [n \in 1 .. Cardinality(S) |->
     CHOOSE p \in S : Cardinality({q \in S : q.key < p.key}) = n - 1]

NewTagSet(m) == Sort(Valid(m))

(* Mutated form of Search: it may stop one too early.                       *)
SearchShort(t, key) ==
  LET search[r \in (0 .. Len(t)) \X (0 .. Len(t))] ==
        LET i == r[1]
            j == r[2]
            h == (i + j) \div 2
        IN IF i + 1 >= j THEN i
           ELSE IF t[h + 1].key < key THEN search[<<h + 1, j>>] ELSE search[<<i, h>>]
  IN search[<<0, Len(t)>>]

(* The index, from 0, of the first tag whose key is not less.               *)
Search(t, key) ==
  LET search[r \in (0 .. Len(t)) \X (0 .. Len(t))] ==
        LET i == r[1]
            j == r[2]
            h == (i + j) \div 2
        IN IF i >= j THEN i
           ELSE IF t[h + 1].key < key THEN search[<<h + 1, j>>] ELSE search[<<i, h>>]
  IN search[<<0, Len(t)>>]

HasKey(t, key) ==
  LET i == Search(t, key)
  IN i < Len(t) /\ t[i + 1].key = key

Insert(t, p) ==
  LET i == Search(t, p.key)
  IN IF HasKey(t, p.key)
       THEN [t EXCEPT ![i + 1].value = p.value]
       ELSE SubSeq(t, 1, i) \o <<p>> \o SubSeq(t, i + 1, Len(t))

(* mergeTagSets: TagMerge checks that the code's loop computes it.          *)
MergeTagSets(s1, s2) ==
  Sort(ToSet(s2) \cup {p \in ToSet(s1) : \A q \in ToSet(s2) : p.key # q.key})

MergeOneTag(t, m) ==
  IF Valid(m) = {} THEN t ELSE Insert(t, CHOOSE p \in Valid(m) : TRUE)

MergeTags(t, m) ==
  CASE DOMAIN m = {} -> t
    [] Cardinality(DOMAIN m) = 1 -> MergeOneTag(t, m)
    [] OTHER -> MergeTagSets(t, NewTagSet(m))

InstanceTag == [key |-> InstanceKey, value |-> DefaultValue]

(* Mutated form of NeedsDefault: it forgets what the scope has.             *)
ForgetsScope(t, m) == InstanceKey \notin DOMAIN m \/ m[InstanceKey] = EmptyValue

(* Neither the map nor the scope says which instance.                       *)
NeedsDefault(t, m) ==
  /\ InstanceKey \notin DOMAIN m \/ m[InstanceKey] = EmptyValue
  /\ ~HasKey(t, InstanceKey)

MergePerInstanceTags(t, m) ==
  CASE DOMAIN m = {} /\ HasKey(t, InstanceKey) -> t
    [] DOMAIN m = {} /\ ~HasKey(t, InstanceKey) -> Insert(t, InstanceTag)
    [] OTHER -> MergeTagSets(t, Sort(Valid(m) \cup (IF NeedsDefault(t, m)
                                                      THEN {InstanceTag} ELSE {})))

(* TagSet.Serialize, and SerializeTags, which takes a map.                  *)
Serialize(t) == t
SerializeTags(m) == NewTagSet(m)

-----------------------------------------------------------------------------
VARIABLES
  root,      \* whether the scope is the store itself
  tags,      \* subScope.tags
  reserved,  \* the counter reserved_tag
  stat,      \* the last stat created
  calls,     \* number of calls so far
  given,     \* history: what the chain of scopes was given
  used       \* history: the reserved tags in the arguments of all calls

vars == <<root, tags, reserved, stat, calls, given, used>>

Init ==
  /\ root = TRUE /\ tags = <<>>
  /\ reserved = 0 /\ calls = 0 /\ used = 0
  /\ stat = [name |-> <<>>, perInstance |-> FALSE, root |-> TRUE, wanted |-> {}]
  /\ given = {}

ReservedIn(m) == Cardinality(DOMAIN m \cap Reserved)

ValidateTags(m) == reserved' = reserved + ReservedIn(m)

Called(m) ==
  /\ calls < MaxCalls
  /\ calls' = calls + 1
  /\ used' = used + ReservedIn(m)

(* What a caller gives overrides what the scope was given.                  *)
Overlay(m) == Valid(m) \cup {p \in given : \A q \in Valid(m) : p.key # q.key}

(* The scope made by the store has the tags given alone; that made by a     *)
(* scope has its own as well.  Scope is ScopeWithTags without tags.         *)
ScopeOfStore(m) == root /\ tags' = NewTagSet(m)
ScopeOfScope(m) == ~root /\ tags' = MergeTags(tags, m)

ScopeWithTags(m) ==
  /\ Called(m)
  /\ ValidateTags(m)
  /\ root' = FALSE
  /\ ScopeOfStore(m) \/ ScopeOfScope(m)
  /\ given' = Overlay(m)
  /\ UNCHANGED stat

Created(name, perInstance, m) ==
  /\ stat' = [name |-> name, perInstance |-> perInstance, root |-> root,
              wanted |-> Overlay(m)]
  /\ UNCHANGED <<root, tags, given>>

(* NewCounterWithTags, NewGaugeWithTags and the two New...TimerWithTags,    *)
(* and their forms that take no tags.                                       *)
NewWithTags(m) ==
  /\ Called(m)
  /\ IF root
       THEN ValidateTags(m) /\ Created(SerializeTags(m), FALSE, m)
       ELSE UNCHANGED reserved /\ Created(Serialize(MergeTags(tags, m)), FALSE, m)

(* NewPerInstanceCounter, Gauge and Timer; in a scope, the MilliTimer alone *)
(* counts the reserved tags.                                                *)
PerInstanceName(m) ==
  CASE ~root -> Serialize(MergePerInstanceTags(tags, m))
    [] root /\ DOMAIN m = {} -> SerializeTags([k \in {InstanceKey} |-> DefaultValue])
    [] root /\ InstanceKey \in DOMAIN m -> SerializeTags(m)
    [] OTHER -> Serialize(MergePerInstanceTags(<<>>, m))

NewPerInstance(m, milliTimer) ==
  /\ Called(m)
  /\ IF root \/ milliTimer THEN ValidateTags(m) ELSE UNCHANGED reserved
  /\ Created(PerInstanceName(m), TRUE, m)

Next ==
  \E m \in Maps : \/ ScopeWithTags(m) \/ NewWithTags(m)
                  \/ \E milliTimer \in BOOLEAN : NewPerInstance(m, milliTimer)

Spec == Init /\ [][Next]_vars

-----------------------------------------------------------------------------
(* Properties.                                                              *)

Strict(t) == \A i, j \in DOMAIN t : i < j => t[i].key < t[j].key

(* Tags that are sorted, with distinct keys that are not empty and clean    *)
(* values ("Tags with empty keys or values should never be inserted").      *)
Clean(t) ==
  /\ Strict(t)
  /\ \A p \in ToSet(t) :
       /\ p.key \in Keys
       /\ p.value \in {Cleaned[v] : v \in Values} \cup {DefaultValue}
       /\ p.value # EmptyValue

(* The type of every variable; the tags of scopes and names are clean.      *)
TypeOK ==
  /\ root \in BOOLEAN
  /\ Clean(tags) /\ Clean(stat.name)
  /\ reserved \in Nat /\ used \in Nat /\ calls \in 0 .. MaxCalls

(* A name is clean, and carries exactly the tags its chain of scopes and    *)
(* its caller gave it, the last given of each key, but for the tag of the   *)
(* instance: by whatever route, the same tags make the same stat.           *)
Besides(S) == {p \in S : p.key # InstanceKey}

NamedAfterItsTags ==
  /\ Clean(stat.name)
  /\ Besides(ToSet(stat.name)) = Besides(stat.wanted)
  /\ ~stat.perInstance => stat.name = Sort(stat.wanted)

(* A per-instance stat of a scope has the instance its caller gives, or the *)
(* scope's, or "i" (MergePerInstanceTags: "if neither the subScope or tags  *)
(* have this key it's value will be the default").                          *)
Instance(S) == {p \in S : p.key = InstanceKey}

InstanceOfScope ==
  stat.perInstance /\ ~stat.root =>
    Instance(ToSet(stat.name)) =
      IF Instance(stat.wanted) # {} THEN Instance(stat.wanted) ELSE {InstanceTag}

(* A per-instance stat has an instance, in the store as in a scope (Scope:  *)
(* "NewPerInstanceCounter adds a Per instance Counter with optional Tags to *)
(* a store, or a scope").                                                   *)
AlwaysInstance == stat.perInstance => Instance(ToSet(stat.name)) # {}

(* reserved_tag counts every use of a reserved tag (validateTags: "Keep     *)
(* track of how many times a reserved tag is used").                        *)
CountsReserved == reserved = used

=============================================================================
