--------------------------- MODULE Correspondence ---------------------------
(***************************************************************************)
(* What the identifier mapping promises: per endpoint and entity type a    *)
(* one-to-one correspondence between local ids and objects, which only the *)
(* endpoint itself edits, which is re-pointed one entity type at a time,   *)
(* and which is otherwise only ever cleared, for a whole endpoint or for   *)
(* whole objects, a cleared object never being named again.                *)
(***************************************************************************)
EXTENDS Naturals

CONSTANTS Endpoint, EntityType, LocalId, Object

VARIABLES
  pairs,      \* <<endpoint, type, local id, object>>
  forgotten   \* objects cleared for good

vars == <<pairs, forgotten>>

OneToOne(P) ==
  \A p, q \in P :
    /\ (p[1] = q[1] /\ p[2] = q[2] /\ p[3] = q[3]) => p = q
    /\ (p[1] = q[1] /\ p[4] = q[4]) => p = q

Init == pairs = {} /\ forgotten = {}

\* An endpoint names objects it had no local id for.
Learn(e) ==
  /\ pairs \subseteq pairs'
  /\ \A p \in pairs' \ pairs : p[1] = e /\ p[4] \notin forgotten
  /\ OneToOne(pairs')
  /\ UNCHANGED forgotten

\* An endpoint re-points its local ids of one entity type.
Repoint(e, t) ==
  /\ \A p \in pairs \ pairs' : p[1] = e /\ p[2] = t
  /\ \A p \in pairs' \ pairs : p[1] = e /\ p[2] = t /\ p[4] \notin forgotten
  /\ OneToOne(pairs')
  /\ UNCHANGED forgotten

\* An endpoint's pairs go with it.
Drop(e) ==
  /\ pairs' = {p \in pairs : p[1] # e}
  /\ UNCHANGED forgotten

\* Objects are cleared, for every endpoint at once and for good.
Clear ==
  /\ forgotten \subseteq forgotten'
  /\ pairs' = {p \in pairs : p[4] \notin forgotten'}

Next ==
  \/ \E e \in Endpoint : Learn(e) \/ Drop(e)
  \/ \E e \in Endpoint, t \in EntityType : Repoint(e, t)
  \/ Clear

Spec == Init /\ [][Next]_vars
=============================================================================
