--------------------------- MODULE MCPruneTiming ---------------------------
(* Instances of PruneTiming.  Settings that can be multiplied out, and, for *)
(* integers of 8 bits, settings near the largest.                           *)
EXTENDS PruneTiming

Seconds   == {Malformed, Unset} \cup -1 .. 12
Intervals == {Malformed, Unset, 12} \cup -1 .. 4
Large     == {Unset, 126, 127}
=============================================================================
