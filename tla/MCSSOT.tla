------------------------------- MODULE MCSSOT -------------------------------
(* Constants for model-checking SSOT: which patches writes carry. *)
EXTENDS SSOT, TLC

CONSTANTS e1, e2, e3, t1, t2, o1, o2, o3, l1, l2, a, b, v, w

\* Endpoints that play the same part, and values no rule tells apart.
MergeSymmetry == Permutations({e1, e2}) \cup Permutations({v, w})

\* Identifiers are only ever compared.
NameSymmetry == Permutations({l1, l2}) \cup Permutations({o1, o2})

ObjectSymmetry == Permutations({o1, o2})

OneTenant == [e \in Endpoint |-> t1]

\* e3 belongs to another tenant than the rest.
TwoTenants == [e \in Endpoint |-> IF e = e3 THEN t2 ELSE t1]

\* Two attributes: one that two values compete for, one that can be removed.
MergePatches ==
  UNION {[S -> {v, w}] : S \in SUBSET {a, b}} \cup [{a} -> {Null}] \cup [{b} -> {Null}]

NoContent == {<<>>}

\* Details only: either party type, a parent for persons alone.
DetailsPatch ==
  {Null}
  \cup [partyTypeCode : {"ORGANIZATION"}, parent : {Keep, Null}]
  \cup [partyTypeCode : {"PERSON"}, parent : Object \cup {Keep, Null}]

PartyPatches == {<<>>} \cup [{Details} -> DetailsPatch]
=============================================================================
