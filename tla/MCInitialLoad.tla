--------------------------- MODULE MCInitialLoad ---------------------------
(* Constants for model-checking InitialLoad. *)
EXTENDS InitialLoad, TLC

CONSTANTS field, boundary, c1, c2, s1, s2

\* A boundary must reference its field.
BoundaryOfField ==
  [t \in EntityType |-> IF t = boundary THEN {field} ELSE {}]

RaceSymmetry == Permutations({c1, c2}) \cup Permutations({s1, s2})
=============================================================================
