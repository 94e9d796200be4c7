\* Chains of up to three calls with any tags; every sequence of up to eight zeroes
\* and ones to sort; all pairs of sets of up to five keys to merge, with up to two
\* tags that were not valid; texts with the bytes of the format in names, keys and
\* values.
CONSTANTS
  Keys = {1, 2, 3}
  EmptyKey = 0
  InstanceKey = 2
  Reserved = {3}
  Values = {"", "i", "a.b"}
  EmptyValue = ""
  DefaultValue = "i"
  Cleaned <- CleanedValues
  MaxCalls = 3
  MergeKeys = {1, 2, 3, 4, 5}
  MaxGap = 2
  None = None
SPECIFICATION MCSpec
INVARIANTS
  NamedAfterItsTags
  InstanceOfScope
  SortedAtTheEnd
  Merged
  RoundTrip
  ParsersAgree
CHECK_DEADLOCK FALSE
