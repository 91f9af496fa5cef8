--------------------------- MODULE MCLiveStream ----------------------------
(* Constants for model-checking LiveStream. *)
EXTENDS LiveStream, TLC

CONSTANTS o1, o2, m1, m2

\* Two objects that reference nothing of each other's type.
SameTier == [o \in Object |-> 0]

\* o2 is of a type that references o1's.
TwoTiers == [o \in Object |-> IF o = o2 THEN 1 ELSE 0]

ObjectSymmetry == Permutations({o1, o2})
=============================================================================
