--------------------------- MODULE SSOT_refinement ---------------------------
(***************************************************************************)
(* The store implements Correspondence, the promise of the identifier      *)
(* mapping: its pairs are `local` read as a set, and what it forgot are    *)
(* the handed-out ids that name nothing any more. Creates, binds and bulk  *)
(* confirmations learn, corrections re-point one type, an endpoint's       *)
(* removal drops its pairs, a reset clears; every other operation leaves   *)
(* the mapping alone.                                                      *)
(***************************************************************************)
EXTENDS SSOT_proofs

\* A pair is a local id the store resolves, to a live object.
LEMMA PairHolds ==
  ASSUME TypeOK, MappingInverse, NEW p \in Pairs
  PROVE  /\ <<p[1], p[2], p[3]>> \in LocalKey
         /\ p \in Endpoint \X EntityType \X LocalId \X Object
         /\ local[<<p[1], p[2], p[3]>>] = p[4]
         /\ Live(p[4]) /\ p[4] \in minted /\ p[4] \notin Gone
         /\ objects[p[4]].typ = p[2]
         /\ canonical[<<p[1], p[4]>>] = p[3]
<1>1. p \in Endpoint \X EntityType \X LocalId \X Object
      /\ local[<<p[1], p[2], p[3]>>] = p[4]
  BY DEF Pairs
<1>2. <<p[1], p[2], p[3]>> \in LocalKey /\ p[4] # None
  BY <1>1, SSOTAssumption DEF LocalKey
<1>3. Live(p[4]) /\ objects[p[4]].typ = p[2] /\ canonical[<<p[1], p[4]>>] = p[3]
  BY <1>1, <1>2 DEF MappingInverse, LocalResolves
<1> QED
  BY <1>1, <1>2, <1>3 DEF TypeOK, Gone

\* One mapping read both ways is a one-to-one set of pairs.
LEMMA PairsOneToOne == TypeOK /\ MappingInverse => Promise!OneToOne(Pairs)
<1> SUFFICES ASSUME TypeOK, MappingInverse, NEW p \in Pairs, NEW q \in Pairs
             PROVE  /\ (p[1] = q[1] /\ p[2] = q[2] /\ p[3] = q[3]) => p = q
                    /\ (p[1] = q[1] /\ p[4] = q[4]) => p = q
  BY DEF Promise!OneToOne
<1>1. /\ p \in Endpoint \X EntityType \X LocalId \X Object
      /\ local[<<p[1], p[2], p[3]>>] = p[4]
      /\ objects[p[4]].typ = p[2] /\ canonical[<<p[1], p[4]>>] = p[3]
  BY PairHolds
<1>2. /\ q \in Endpoint \X EntityType \X LocalId \X Object
      /\ local[<<q[1], q[2], q[3]>>] = q[4]
      /\ objects[q[4]].typ = q[2] /\ canonical[<<q[1], q[4]>>] = q[3]
  BY PairHolds
<1> QED
  BY <1>1, <1>2

LEMMA PairsOneToOneNext ==
  ASSUME TypeOK', MappingInverse'
  PROVE  Promise!OneToOne(Pairs')
<1>1. (TypeOK /\ MappingInverse => Promise!OneToOne(Pairs))'
  BY PairsOneToOne, PTL
<1> QED
  BY <1>1 DEF Promise!OneToOne

LEMMA PairHoldsNext ==
  ASSUME TypeOK', MappingInverse', NEW p \in Pairs'
  PROVE  /\ <<p[1], p[2], p[3]>> \in LocalKey
         /\ p \in Endpoint \X EntityType \X LocalId \X Object
         /\ local'[<<p[1], p[2], p[3]>>] = p[4]
         /\ p[4] \notin Gone'
<1>1. p \in Endpoint \X EntityType \X LocalId \X Object
      /\ local'[<<p[1], p[2], p[3]>>] = p[4]
  BY DEF Pairs
<1>2. <<p[1], p[2], p[3]>> \in LocalKey /\ p[4] # None
  BY <1>1, SSOTAssumption DEF LocalKey
<1>3. LocalResolves'
  BY DEF MappingInverse
<1>4. Live(local[<<p[1], p[2], p[3]>>])'
  BY <1>1, <1>2, <1>3 DEF LocalResolves
<1>5. Live(p[4])'
  BY <1>1, <1>4 DEF Live
<1> QED
  BY <1>1, <1>2, <1>5 DEF Gone, Live

\* The objects forgotten are those forgotten before when no id is handed out
\* and nothing live is taken.
LEMMA GoneStands ==
  ASSUME minted' = minted, \A o \in Object : Live(o)' <=> Live(o), TypeOK
  PROVE  Gone' = Gone
BY DEF Gone, TypeOK

\* A step that touches no pair and forgets nothing is a stutter.
LEMMA PromiseStands ==
  ASSUME local' = local, Gone' = Gone
  PROVE  UNCHANGED Promise!vars
BY DEF Promise!vars, Pairs

\* A step that names objects under unused local ids of one endpoint.
LEMMA LearnStep ==
  ASSUME TypeOK, MappingInverse, TypeOK', MappingInverse', NEW e \in Endpoint,
         Gone' = Gone,
         \A k \in LocalKey : local[k] # None => local'[k] = local[k],
         \A k \in LocalKey : local'[k] # local[k] => k[1] = e
  PROVE  Promise!Learn(e)
<1>1. ASSUME NEW p \in Pairs
      PROVE  p \in Pairs'
  <2>1. /\ <<p[1], p[2], p[3]>> \in LocalKey
        /\ p \in Endpoint \X EntityType \X LocalId \X Object
        /\ local[<<p[1], p[2], p[3]>>] = p[4]
        /\ Live(p[4])
    BY PairHolds
  <2>2. local'[<<p[1], p[2], p[3]>>] = p[4]
    BY <2>1, SSOTAssumption
  <2> QED
    BY <2>1, <2>2 DEF Pairs
<1>2. ASSUME NEW p \in Pairs' \ Pairs
      PROVE  p[1] = e /\ p[4] \notin Gone
  <2>1. /\ <<p[1], p[2], p[3]>> \in LocalKey
        /\ p \in Endpoint \X EntityType \X LocalId \X Object
        /\ local'[<<p[1], p[2], p[3]>>] = p[4]
        /\ p[4] \notin Gone'
    BY PairHoldsNext
  <2>2. local[<<p[1], p[2], p[3]>>] # p[4]
    BY <2>1 DEF Pairs
  <2>3. <<p[1], p[2], p[3]>>[1] = e
    BY <2>1, <2>2
  <2> QED
    BY <2>1, <2>3
<1>3. Promise!OneToOne(Pairs')
  BY PairsOneToOneNext
<1> QED
  BY <1>1, <1>2, <1>3 DEF Promise!Learn

\* A step that edits the local ids of one endpoint and entity type.
LEMMA RepointStep ==
  ASSUME TypeOK, MappingInverse, TypeOK', MappingInverse',
         NEW e \in Endpoint, NEW t \in EntityType,
         Gone' = Gone,
         \A k \in LocalKey : local'[k] # local[k] => k[1] = e /\ k[2] = t
  PROVE  Promise!Repoint(e, t)
<1>1. ASSUME NEW p \in Pairs \ Pairs'
      PROVE  p[1] = e /\ p[2] = t
  <2>1. /\ <<p[1], p[2], p[3]>> \in LocalKey
        /\ p \in Endpoint \X EntityType \X LocalId \X Object
        /\ local[<<p[1], p[2], p[3]>>] = p[4]
    BY PairHolds
  <2>2. local'[<<p[1], p[2], p[3]>>] # p[4]
    BY <2>1 DEF Pairs
  <2>3. <<p[1], p[2], p[3]>>[1] = e /\ <<p[1], p[2], p[3]>>[2] = t
    BY <2>1, <2>2
  <2> QED
    BY <2>3
<1>2. ASSUME NEW p \in Pairs' \ Pairs
      PROVE  p[1] = e /\ p[2] = t /\ p[4] \notin Gone
  <2>1. /\ <<p[1], p[2], p[3]>> \in LocalKey
        /\ p \in Endpoint \X EntityType \X LocalId \X Object
        /\ local'[<<p[1], p[2], p[3]>>] = p[4]
        /\ p[4] \notin Gone'
    BY PairHoldsNext
  <2>2. local[<<p[1], p[2], p[3]>>] # p[4]
    BY <2>1 DEF Pairs
  <2>3. <<p[1], p[2], p[3]>>[1] = e /\ <<p[1], p[2], p[3]>>[2] = t
    BY <2>1, <2>2
  <2> QED
    BY <2>1, <2>3
<1>3. Promise!OneToOne(Pairs')
  BY PairsOneToOneNext
<1> QED
  BY <1>1, <1>2, <1>3 DEF Promise!Repoint

\* Removing an endpoint drops its pairs and no others.
LEMMA DropStep ==
  ASSUME TypeOK, MappingInverse, NEW e \in Endpoint, RemoveEndpoint(e)
  PROVE  Promise!Drop(e)
<1>1. /\ local' = [k \in LocalKey |-> IF k[1] = e THEN None ELSE local[k]]
      /\ UNCHANGED <<objects, minted>>
  BY DEF RemoveEndpoint
<1>2. Gone' = Gone
  BY <1>1 DEF Gone, Live
<1>3. ASSUME NEW p \in Endpoint \X EntityType \X LocalId \X Object
      PROVE  p \in Pairs' <=> p \in Pairs /\ p[1] # e
  <2>1. <<p[1], p[2], p[3]>> \in LocalKey /\ p[4] # None
    BY SSOTAssumption DEF LocalKey
  <2>2. local'[<<p[1], p[2], p[3]>>]
          = IF p[1] = e THEN None ELSE local[<<p[1], p[2], p[3]>>]
    BY <1>1, <2>1
  <2> QED
    BY <2>1, <2>2 DEF Pairs
<1>4. Pairs' = {p \in Pairs : p[1] # e}
  BY <1>3 DEF Pairs
<1> QED
  BY <1>2, <1>4 DEF Promise!Drop

\* A reset forgets the tenant's objects and clears exactly their pairs.
LEMMA ClearStep ==
  ASSUME TypeOK, MappingInverse, TypeOK', MappingInverse', NEW tenant, ResetTenant(tenant)
  PROVE  Promise!Clear
<1> DEFINE wiped == {o \in Object : Live(o) /\ objects[o].tenantID = tenant}
<1>1. /\ objects' = [o \in Object |-> IF o \in wiped THEN None ELSE objects[o]]
      /\ local' = [k \in LocalKey |-> IF local[k] \in wiped THEN None ELSE local[k]]
      /\ minted' = minted
  BY DEF ResetTenant
<1>2. wiped \subseteq Object /\ \A o \in wiped : Live(o)
  OBVIOUS
<1> HIDE DEF wiped
<1>3. \A o \in Object : Live(o)' <=> Live(o) /\ o \notin wiped
  BY <1>1 DEF Live
<1>4. Gone \subseteq Gone'
  BY <1>1, <1>3 DEF Gone, TypeOK
<1>5. ASSUME NEW p \in Pairs'
      PROVE  p \in Pairs /\ p[4] \notin Gone'
  <2>1. /\ <<p[1], p[2], p[3]>> \in LocalKey
        /\ p \in Endpoint \X EntityType \X LocalId \X Object
        /\ local'[<<p[1], p[2], p[3]>>] = p[4]
        /\ p[4] \notin Gone'
    BY PairHoldsNext
  <2>2. p[4] # None
    BY <2>1, SSOTAssumption
  <2>3. local[<<p[1], p[2], p[3]>>] = p[4]
    BY <1>1, <2>1, <2>2
  <2> QED
    BY <2>1, <2>3 DEF Pairs
<1>6. ASSUME NEW p \in Pairs, p[4] \notin Gone'
      PROVE  p \in Pairs'
  <2>1. /\ <<p[1], p[2], p[3]>> \in LocalKey
        /\ p \in Endpoint \X EntityType \X LocalId \X Object
        /\ local[<<p[1], p[2], p[3]>>] = p[4]
        /\ Live(p[4]) /\ p[4] \in minted
    BY PairHolds
  <2>2. Live(p[4])'
    BY <1>1, <1>6, <2>1 DEF Gone, Live
  <2>3. p[4] \notin wiped
    BY <1>3, <2>1, <2>2
  <2>4. local'[<<p[1], p[2], p[3]>>] = p[4]
    BY <1>1, <2>1, <2>3
  <2> QED
    BY <2>1, <2>4 DEF Pairs
<1>7. Pairs' = {p \in Pairs : p[4] \notin Gone'}
  BY <1>5, <1>6
<1> QED
  BY <1>4, <1>7 DEF Promise!Clear

\* An operation that leaves the objects and the mapping alone.
LEMMA QuietStep ==
  ASSUME TypeOK, UNCHANGED <<objects, minted, local>>
  PROVE  UNCHANGED Promise!vars
<1>1. Gone' = Gone
  BY GoneStands DEF Live
<1> QED
  BY <1>1, PromiseStands

\* Creating an object teaches its writer one pair under an unused local id.
LEMMA CreateLearns ==
  ASSUME IInv, IInv', NEW e \in Endpoint, NEW t \in EntityType, NEW l \in LocalId,
         NEW patch, NEW base, NEW active, NEW entry,
         PutCreate(e, t, l, patch, base, active, entry)
  PROVE  Promise!Learn(e)
<1> USE DEF IInv
<1>1. PICK o \in Object \ minted :
        /\ objects' = [objects EXCEPT ![o] =
                         NewObject(e, t, CreateContent(patch), active # FALSE)]
        /\ minted' = minted \cup {o}
        /\ local' = [local EXCEPT ![<<e, t, l>>] = o]
        /\ canonical' = [canonical EXCEPT ![<<e, o>>] = l]
  BY DEF PutCreate
<1>2. local[<<e, t, l>>] = None /\ <<e, t, l>> \in LocalKey
  BY DEF PutCreate, LocalKey
<1>3. /\ \A k \in LocalKey : local[k] # None => local'[k] = local[k]
      /\ \A k \in LocalKey : local'[k] # local[k] => k[1] = e
  <2>1. \A k \in LocalKey : k # <<e, t, l>> => local'[k] = local[k]
    BY <1>1 DEF TypeOK
  <2>2. <<e, t, l>>[1] = e
    OBVIOUS
  <2> QED
    BY <1>2, <2>1, <2>2
<1>4. local'[<<e, t, l>>] = o /\ o # None
  BY <1>1, <1>2, SSOTAssumption DEF TypeOK
<1>5. LocalResolves'
  BY DEF MappingInverse
<1>6. objects'[o] # None
  BY <1>4, <1>5 DEF LocalResolves, Live
<1>7. \A q \in Object \ {o} : objects'[q] = objects[q]
  BY <1>1 DEF TypeOK
<1>8. Gone' = Gone
  <2>1. minted' = minted \cup {o} /\ o \notin minted /\ minted \subseteq Object
    BY <1>1 DEF TypeOK
  <2>2. Gone' = {q \in minted' : objects'[q] = None} /\ Gone = {q \in minted : objects[q] = None}
    BY DEF Gone, Live
  <2>3. \A q \in minted : objects'[q] = objects[q]
    BY <1>7, <2>1
  <2> QED
    BY <1>6, <2>1, <2>2, <2>3
<1> QED
  BY <1>3, <1>8, LearnStep

\* Recording bindable pairs teaches the endpoint those pairs.
LEMMA RecordLearns ==
  ASSUME IInv, IInv', NEW e \in Endpoint, NEW recorded \in SUBSET (LocalId \X Object),
         RecordPairs(e, recorded), \A p \in recorded : Bindable(e, p[1], p[2])
  PROVE  Promise!Learn(e)
<1> USE DEF IInv
<1> DEFINE named == {p[2] : p \in recorded}
           Hit(k) == k[1] = e /\ \E o \in named : /\ <<k[3], o>> \in recorded
                                                  /\ objects[o].typ = k[2]
<1>1. local' = [k \in LocalKey |->
        IF Hit(k)
        THEN CHOOSE o \in named : <<k[3], o>> \in recorded /\ objects[o].typ = k[2]
        ELSE local[k]]
  BY DEF RecordPairs
<1>2. ASSUME NEW k \in LocalKey, Hit(k)
      PROVE  local[k] = None
  <2>1. k[1] = e
    BY <1>2
  <2>2. PICK o \in named : <<k[3], o>> \in recorded /\ objects[o].typ = k[2]
    BY <1>2
  <2>3. Bindable(e, <<k[3], o>>[1], <<k[3], o>>[2])
    BY <2>2
  <2>4. Bindable(e, k[3], o)
    BY <2>3
  <2>5. local[<<e, objects[o].typ, k[3]>>] = None
    BY <2>4 DEF Bindable
  <2>6. <<k[1], k[2], k[3]>> = k
    BY DEF LocalKey
  <2> QED
    BY <2>1, <2>2, <2>5, <2>6
<1>3. \A k \in LocalKey : Hit(k) => k[1] = e
  OBVIOUS
<1> HIDE DEF Hit, named
<1>4. /\ \A k \in LocalKey : local[k] # None => local'[k] = local[k]
      /\ \A k \in LocalKey : local'[k] # local[k] => k[1] = e
  BY <1>1, <1>2, <1>3
<1>5. Gone' = Gone
  BY GoneStands DEF RecordPairs, Live
<1> QED
  BY <1>4, <1>5, LearnStep

\* A correction re-points local ids of its own endpoint and entity type.
LEMMA CorrectRepoints ==
  ASSUME IInv, IInv', NEW e \in Endpoint, NEW t \in EntityType, NEW entries,
         Correct(e, t, entries)
  PROVE  Promise!Repoint(e, t)
<1>1. /\ local' = [k \in LocalKey |->
                     IF k[1] = e /\ k[2] = t /\ k[3] \in DOMAIN entries
                     THEN entries[k[3]] ELSE local[k]]
      /\ UNCHANGED <<objects, minted>>
  BY DEF Correct
<1>2. \A k \in LocalKey : local'[k] # local[k] => k[1] = e /\ k[2] = t
  BY <1>1
<1>3. Gone' = Gone
  BY <1>1, GoneStands DEF Live, IInv
<1> QED
  BY <1>2, <1>3, RepointStep DEF IInv

\* A write to an object the mapping holds takes nothing live away.
LEMMA UpdateQuiet ==
  ASSUME IInv, IInv', UNCHANGED <<minted, local>>,
         NEW o \in Object, NEW e \in Endpoint, NEW t \in EntityType, NEW l \in LocalId,
         o = local[<<e, t, l>>], o # None,
         NEW obj, objects' = [objects EXCEPT ![o] = obj]
  PROVE  UNCHANGED Promise!vars
<1> USE DEF IInv
<1>1. Live(o)
  BY DEF MappingInverse, LocalResolves
<1>2. LocalResolves' /\ local'[<<e, t, l>>] = o
  BY DEF MappingInverse
<1>3. objects'[o] # None
  <2>1. local'[<<e, t, l>>] # None
    BY <1>2
  <2>2. Live(local[<<e, t, l>>])'
    BY <1>2, <2>1 DEF LocalResolves
  <2> QED
    BY <1>2, <2>2 DEF Live
<1>4. \A q \in Object \ {o} : objects'[q] = objects[q]
  BY DEF TypeOK
<1>5. Gone' = Gone
  BY <1>1, <1>3, <1>4, GoneStands DEF Live
<1> QED
  BY <1>5, PromiseStands

LEMMA NamedInObject ==
  ASSUME TypeOK, NEW e \in Endpoint, NEW t \in EntityType, NEW l \in LocalId,
         local[<<e, t, l>>] # None
  PROVE  local[<<e, t, l>>] \in Object
BY DEF TypeOK, LocalKey

LEMMA PromiseInit == Init => Promise!Init
BY SSOTAssumption DEF Init, Promise!Init, Pairs, Gone, LocalKey

\* Every step of the store is one the promise allows, or leaves it alone.
LEMMA PromiseStep == IInv /\ IInv' /\ [Next]_vars => [Promise!Next]_Promise!vars
<1> SUFFICES ASSUME IInv, IInv', [Next]_vars
             PROVE  Promise!Next \/ UNCHANGED Promise!vars
  OBVIOUS
<1>0. TypeOK
  BY DEF IInv
<1>1. ASSUME NEW e \in Endpoint, NEW t \in EntityType, NEW l \in LocalId,
             NEW patch \in Patch, NEW base \in Base, NEW active \in ActiveSent,
             NEW entry \in EntrySent, PutCreate(e, t, l, patch, base, active, entry)
      PROVE  Promise!Next
  BY <1>1, CreateLearns DEF Promise!Next
<1>2. ASSUME NEW e \in Endpoint, NEW t \in EntityType, NEW l \in LocalId,
             NEW patch \in Patch, NEW base \in Base, NEW active \in ActiveSent,
             NEW entry \in EntrySent, PutUpdate(e, t, l, patch, base, active, entry)
      PROVE  UNCHANGED Promise!vars
  <2> DEFINE o == local[<<e, t, l>>]
             obj == Revised(objects[o], e, patch, Changed(objects[o], patch, base), active)
  <2>1. /\ objects' = [objects EXCEPT ![o] = obj]
        /\ UNCHANGED <<minted, local>> /\ o # None
    BY <1>2 DEF PutUpdate, mapping
  <2>2. o \in Object
    BY <1>0, <2>1, NamedInObject
  <2> HIDE DEF obj
  <2> QED
    BY <2>1, <2>2, UpdateQuiet
<1>3. ASSUME NEW e \in Endpoint, NEW t \in EntityType, NEW l \in LocalId,
             NEW base \in Base, Deactivate(e, t, l, base)
      PROVE  UNCHANGED Promise!vars
  <2> DEFINE o == local[<<e, t, l>>]
             obj == [objects[o] EXCEPT !.revision = @ + 1, !.active = FALSE,
                                       !.sourceEndpointID = e, !.seq = seq + 1]
  <2>1. /\ objects' = [objects EXCEPT ![o] = obj]
        /\ UNCHANGED <<minted, local>> /\ o # None
    BY <1>3 DEF Deactivate, mapping
  <2>2. o \in Object
    BY <1>0, <2>1, NamedInObject
  <2> HIDE DEF obj
  <2> QED
    BY <2>1, <2>2, UpdateQuiet
<1>4. ASSUME NEW e \in Endpoint, NEW t \in EntityType, NEW l \in LocalId,
             NEW patch \in Patch, NEW base \in Base, NEW active \in ActiveSent,
             NEW entry \in EntrySent, PutKept(e, t, l, patch, base, active, entry)
      PROVE  UNCHANGED Promise!vars
  BY <1>0, <1>4, QuietStep DEF PutKept, mapping
<1>5. ASSUME NEW e \in Endpoint, NEW t \in EntityType, NEW l \in LocalId,
             NEW o \in Object, Bind(e, t, l, o)
      PROVE  Promise!Next
  <2>1. {<<l, o>>} \in SUBSET (LocalId \X Object)
    OBVIOUS
  <2>2. RecordPairs(e, {<<l, o>>}) /\ \A p \in {<<l, o>>} : Bindable(e, p[1], p[2])
    BY <1>5 DEF Bind
  <2> QED
    BY <2>1, <2>2, RecordLearns DEF Promise!Next
<1>6. ASSUME NEW e \in Endpoint, NEW pairs \in SUBSET (LocalId \X Object),
             ApplyBindings(e, pairs)
      PROVE  Promise!Next
  <2> DEFINE recorded == {p \in pairs : /\ ~DuplicateInRequest(pairs, p)
                                        /\ Bindable(e, p[1], p[2])}
  <2>1. /\ RecordPairs(e, recorded) /\ recorded \in SUBSET (LocalId \X Object)
        /\ \A p \in recorded : Bindable(e, p[1], p[2])
    BY <1>6 DEF ApplyBindings
  <2> HIDE DEF recorded
  <2> QED
    BY <2>1, RecordLearns DEF Promise!Next
<1>7. ASSUME NEW e \in Endpoint, NEW t \in EntityType, NEW entries \in Entries,
             Correct(e, t, entries)
      PROVE  Promise!Next
  BY <1>7, CorrectRepoints DEF Promise!Next
<1>8. ASSUME NEW e \in Removable, RemoveEndpoint(e)
      PROVE  Promise!Next
  <2>1. e \in Endpoint
    BY SSOTAssumption
  <2> QED
    BY <1>8, <2>1, DropStep DEF Promise!Next, IInv
<1>9. ASSUME NEW tenant \in Resettable, ResetTenant(tenant)
      PROVE  Promise!Next
  BY <1>9, ClearStep DEF Promise!Next, IInv
<1>10. ASSUME NEW e \in Endpoint, NEW o \in Object, Request(e, o)
       PROVE  UNCHANGED Promise!vars
  BY <1>0, <1>10, QuietStep DEF Request, mapping
<1>11. ASSUME NEW e \in Endpoint, NEW types \in SUBSET EntityType, SelectTypes(e, types)
       PROVE  UNCHANGED Promise!vars
  BY <1>0, <1>11, QuietStep DEF SelectTypes, mapping
<1>12. CASE UNCHANGED vars
  BY <1>0, <1>12, QuietStep DEF vars
<1> QED
  BY <1>1, <1>2, <1>3, <1>4, <1>5, <1>6, <1>7, <1>8, <1>9, <1>10, <1>11, <1>12
     DEF Next, Put

\* Whatever is asked of the store, in whatever order, it gives every endpoint
\* the one-to-one correspondence that Correspondence promises: only the
\* endpoint itself adds to it, a correction edits one entity type of it, and
\* it is otherwise only cleared whole, a cleared object never named again.
THEOREM MappingKeepsPromise == Spec => KeepsCorrespondence
<1>1. IInv /\ IInv' /\ [Next]_vars => [Promise!Next]_Promise!vars
  BY PromiseStep
<1> QED
  BY <1>1, PromiseInit, Inductive, PTL DEF Spec, KeepsCorrespondence, Promise!Spec
=============================================================================
