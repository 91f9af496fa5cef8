----------------------------- MODULE SSOT_proofs -----------------------------
(***************************************************************************)
(* Proofs about SSOT for every value of its constants: facts about merge   *)
(* patches and the history first, then the inductive invariant, then the   *)
(* properties that follow from it.                                         *)
(***************************************************************************)
EXTENDS SSOT, WellFoundedInduction, TLAPS

----------------------------------------------------------------------------
(* Merge patches *)

\* The details of a party merge into details.
LEMMA MergeDetailsType ==
  ASSUME NEW p \in DetailsSent, NEW c \in DetailsValue \cup {Absent}
  PROVE  MergeDetails(c, p) \in DetailsValue
<1>1. PartyTypeOf(c) = p.partyTypeCode => c.parent \in Object \cup {Absent}
  BY DEF PartyTypeOf, DetailsSent, DetailsValue
<1>2. /\ p.partyTypeCode \in {"PERSON", "ORGANIZATION"}
      /\ p.parent \in Object \cup {Keep, Null}
  BY DEF DetailsSent
<1> QED
  BY <1>1, <1>2 DEF MergeDetails, DetailsValue

\* A patch applied to what an attribute may hold yields what it may hold.
LEMMA PatchAttributeType ==
  ASSUME NEW k \in Attribute, NEW patch \in Patch, k \in DOMAIN patch,
         NEW c \in StoredAt(k)
  PROVE  PatchAttribute(k, c, patch[k]) \in StoredAt(k)
<1>1. patch[k] \in {Null} \cup IF k = Details THEN DetailsSent ELSE Value
  BY PatchAssumption
<1>2. CASE patch[k] = Null
  BY <1>2 DEF PatchAttribute, StoredAt
<1>3. CASE patch[k] # Null /\ k # Details
  BY <1>1, <1>3 DEF PatchAttribute, StoredAt
<1>4. CASE patch[k] # Null /\ k = Details
  <2>1. patch[k] \in DetailsSent /\ c \in DetailsValue \cup {Absent}
    BY <1>1, <1>4 DEF StoredAt
  <2> QED
    BY <2>1, <1>4, MergeDetailsType DEF PatchAttribute, StoredAt
<1> QED
  BY <1>2, <1>3, <1>4

\* Patching what a patch already produced changes nothing, whatever it was
\* produced from: the details merge is idempotent, not only the replacements.
LEMMA PatchIdempotent ==
  ASSUME NEW k \in Attribute, NEW patch \in Patch, k \in DOMAIN patch,
         NEW c \in StoredAt(k)
  PROVE  PatchAttribute(k, PatchAttribute(k, c, patch[k]), patch[k])
           = PatchAttribute(k, c, patch[k])
<1> DEFINE p == patch[k]
           merged == MergeDetails(c, p)
<1>1. CASE p = Null \/ k # Details
  BY <1>1 DEF PatchAttribute
<1>2. CASE p # Null /\ k = Details
  <2>1. p \in DetailsSent /\ c \in DetailsValue \cup {Absent}
    BY <1>2, PatchAssumption DEF StoredAt
  <2>2. merged \in DetailsValue
    BY <2>1, MergeDetailsType
  <2>3. PartyTypeOf(merged) = p.partyTypeCode
    BY <2>2, MarksAssumption DEF PartyTypeOf, MergeDetails
  <2>4. MergeDetails(merged, p) = merged
    BY <2>3 DEF MergeDetails
  <2> QED
    BY <1>2, <2>4 DEF PatchAttribute
<1> QED
  BY <1>1, <1>2

----------------------------------------------------------------------------
(* The history of an attribute *)

\* A nonempty set of numbers up to m has a greatest element.
LEMMA LatestExists ==
  ASSUME NEW m \in Nat, NEW S \in SUBSET (1..m), S # {}
  PROVE  \E x \in S : \A y \in S : y <= x
<1> DEFINE T == {m - x : x \in S}
           R == {p \in Nat \X Nat : p[1] < p[2]}
<1>1. IsWellFoundedOn(R, Nat)
  <2>1. R = OpToRel(<, Nat)
    BY DEF OpToRel
  <2> QED
    BY <2>1, NatLessThanWellFounded
<1>2. T \subseteq Nat /\ T # {}
  <2>1. \A x \in S : m - x \in Nat
    OBVIOUS
  <2>2. PICK x \in S : TRUE
    OBVIOUS
  <2> QED
    BY <2>1, <2>2
<1>3. PICK t \in T : \A u \in T : <<u, t>> \notin R
  <2> HIDE DEF T, R
  <2> QED
    BY <1>1, <1>2, WFMin
<1>4. PICK x \in S : t = m - x
  OBVIOUS
<1>5. ASSUME NEW y \in S
      PROVE  y <= x
  <2>1. m - y \in T /\ m - y \in Nat /\ m - x \in Nat
    OBVIOUS
  <2>2. ~(m - y < m - x)
    BY <1>3, <1>4, <2>1
  <2> QED
    BY <2>2
<1> QED
  BY <1>5

\* ValueAt returns what the attribute may hold.
LEMMA ValueAtType ==
  ASSUME NEW obj \in CanonicalObject, NEW k \in Attribute, NEW r \in Nat
  PROVE  ValueAt(obj, k, r) \in StoredAt(k)
<1> DEFINE upTo == {h \in obj.history[k] : h.revision <= r}
<1>1. /\ upTo \subseteq Entry
      /\ \A h \in upTo : h.value \in StoredAt(k)
  BY DEF CanonicalObject, History
<1>2. CASE upTo = {}
  BY <1>2 DEF ValueAt, StoredAt
<1>3. CASE upTo # {}
  <2> DEFINE S == {h.revision : h \in upTo}
  <2>1. S \in SUBSET (1..MaxRevision) /\ S # {} /\ MaxRevision \in Nat
    BY <1>1, <1>3, SSOTAssumption DEF Entry
  <2>2. PICK x \in S : \A y \in S : y <= x
    <3> HIDE DEF S
    <3> QED
      BY <2>1, LatestExists
  <2>3. \E h \in upTo : \A g \in upTo : g.revision <= h.revision
    BY <2>2
  <2> QED
    BY <1>1, <1>3, <2>3 DEF ValueAt
<1> QED
  BY <1>2, <1>3

----------------------------------------------------------------------------
(* Type correctness *)

\* What a create stores is a canonical object at its first revision.
LEMMA NewObjectType ==
  ASSUME TypeOK, seq < MaxSeq, NEW e \in Endpoint, NEW t \in EntityType,
         NEW patch \in Patch, NEW active \in BOOLEAN
  PROVE  NewObject(e, t, CreateContent(patch), active) \in CanonicalObject
<1> DEFINE content == CreateContent(patch)
           entries(k) == IF content[k] = Absent THEN {}
                         ELSE {[revision |-> 1, value |-> content[k]]}
           history == [k \in Attribute |-> entries(k)]
<1>1. content \in Content
  <2>1. \A k \in Attribute : Absent \in StoredAt(k) /\ StoredAt(k) \subseteq Stored
    BY DEF StoredAt, Stored
  <2>2. \A k \in Attribute : content[k] \in StoredAt(k)
    BY <2>1, PatchAttributeType DEF CreateContent
  <2> QED
    BY <2>1, <2>2 DEF CreateContent, Content
<1>2. 1 \in 1..MaxRevision /\ seq + 1 \in 1..MaxSeq
  BY SSOTAssumption DEF TypeOK
<1> HIDE DEF content
<1>3. \A k \in Attribute : /\ entries(k) \in SUBSET Entry
                           /\ \A h \in entries(k) : h.value \in StoredAt(k)
  BY <1>1, <1>2 DEF Content, Entry
<1>4. history \in History
  <2> HIDE DEF entries
  <2> QED
    BY <1>3 DEF History
<1>5. NewObject(e, t, content, active) =
        [typ |-> t, tenantID |-> TenantOf[e], revision |-> 1, active |-> active,
         sourceEndpointID |-> e, seq |-> seq + 1, content |-> content,
         history |-> history]
  BY DEF NewObject
<1>6. TenantOf[e] \in Tenant
  BY SSOTAssumption
<1> HIDE DEF history
<1> QED
  BY <1>1, <1>2, <1>4, <1>5, <1>6 DEF CanonicalObject, content

\* What an update stores is a canonical object, one revision on.
LEMMA RevisedType ==
  ASSUME TypeOK, seq < MaxSeq, NEW e \in Endpoint, NEW patch \in Patch,
         NEW active \in ActiveSent, NEW changed \in SUBSET DOMAIN patch,
         NEW obj \in CanonicalObject, obj.revision < MaxRevision
  PROVE  Revised(obj, e, patch, changed, active) \in CanonicalObject
<1> DEFINE revision == obj.revision + 1
           entry(k) == [revision |-> revision, value |-> Patched(obj, patch, k)]
           live == IF active = Omitted THEN obj.active ELSE active
           content == [k \in Attribute |-> IF k \in changed
                         THEN Patched(obj, patch, k) ELSE obj.content[k]]
           history == [k \in Attribute |-> IF k \in changed
                         THEN obj.history[k] \cup {entry(k)} ELSE obj.history[k]]
<1>1. \A k \in changed : k \in Attribute /\ Patched(obj, patch, k) \in StoredAt(k)
  BY PatchAttributeType, PatchAssumption DEF CanonicalObject, Content, Patched
<1>2. \A k \in Attribute : StoredAt(k) \subseteq Stored
  BY DEF StoredAt, Stored
<1>3. revision \in 1..MaxRevision /\ seq + 1 \in 1..MaxSeq
  BY SSOTAssumption DEF TypeOK, CanonicalObject
<1>4. content \in Content
  <2>1. \A k \in Attribute : obj.content[k] \in StoredAt(k)
    BY DEF CanonicalObject, Content
  <2> QED
    BY <1>1, <1>2, <2>1 DEF Content
<1>5. history \in History
  <2>1. \A k \in Attribute : /\ obj.history[k] \in SUBSET Entry
                             /\ \A h \in obj.history[k] : h.value \in StoredAt(k)
    BY DEF CanonicalObject, History
  <2>2. \A k \in changed : entry(k) \in Entry /\ entry(k).value \in StoredAt(k)
    BY <1>1, <1>2, <1>3 DEF Entry
  <2> HIDE DEF entry
  <2>3. ASSUME NEW k \in Attribute
        PROVE  /\ history[k] \in SUBSET Entry
               /\ \A h \in history[k] : h.value \in StoredAt(k)
    <3>1. CASE k \in changed
      <4>1. history[k] = obj.history[k] \cup {entry(k)}
        BY <3>1
      <4> HIDE DEF history
      <4> QED
        BY <2>1, <2>2, <3>1, <4>1
    <3>2. CASE k \notin changed
      BY <2>1, <3>2
    <3> QED
      BY <3>1, <3>2
  <2> QED
    BY <2>3 DEF History
<1>6. live \in BOOLEAN
  BY SSOTAssumption DEF CanonicalObject
<1>7. Revised(obj, e, patch, changed, active) =
        [obj EXCEPT !.revision = revision, !.active = live, !.sourceEndpointID = e,
                    !.seq = seq + 1, !.content = content, !.history = history]
  BY DEF Revised, CanonicalObject
<1> HIDE DEF revision, live, content, history
<1> QED
  BY <1>3, <1>4, <1>5, <1>6, <1>7 DEF CanonicalObject

LEMMA FramesType ==
  ASSUME NEW o \in Object, NEW obj \in CanonicalObject, NEW to \in SUBSET Endpoint,
         NEW deactivated \in BOOLEAN
  PROVE  Frames(o, obj, to, deactivated) \in SUBSET Frame
BY DEF Frames, Frame, CanonicalObject

\* A local id in use names a live object.
LEMMA NamedObject ==
  ASSUME TypeOK, MappingInverse, NEW e \in Endpoint, NEW t \in EntityType,
         NEW l \in LocalId, local[<<e, t, l>>] # None
  PROVE  local[<<e, t, l>>] \in Object /\ Live(local[<<e, t, l>>])
<1>1. local[<<e, t, l>>] \in Object \cup {None}
  BY DEF TypeOK, LocalKey
<1>2. Live(local[<<e, t, l>>])
  BY DEF MappingInverse, LocalResolves
<1> QED
  BY <1>1, <1>2

\* Recording pairs keeps the mapping in its types.
LEMMA RecordPairsType ==
  ASSUME TypeOK, NEW e \in Endpoint, NEW pairs \in SUBSET (LocalId \X Object),
         RecordPairs(e, pairs), late' \in SUBSET Endpoint
  PROVE  TypeOK'
<1> DEFINE named == {p[2] : p \in pairs}
<1>1. named \subseteq Object
  OBVIOUS
<1>2. local' \in [LocalKey -> Object \cup {None}]
  <2>1. \A k \in LocalKey :
          (\E o \in named : <<k[3], o>> \in pairs /\ objects[o].typ = k[2]) =>
          (CHOOSE o \in named : <<k[3], o>> \in pairs /\ objects[o].typ = k[2]) \in Object
    BY <1>1
  <2> QED
    BY <2>1 DEF RecordPairs, TypeOK
<1>3. canonical' \in [Endpoint \X Object -> LocalId \cup {None}]
  <2>1. \A o \in named : \E l \in LocalId : <<l, o>> \in pairs
    OBVIOUS
  <2>2. \A o \in named : (CHOOSE l \in LocalId : <<l, o>> \in pairs) \in LocalId
    BY <2>1
  <2> QED
    BY <2>2 DEF RecordPairs, TypeOK
<1>4. localEntries' \in [Endpoint \X Object -> LocalId \cup {None}]
  BY DEF RecordPairs, TypeOK
<1>5. /\ UNCHANGED <<objects, minted, endpoints, toggles, seq>>
      /\ published' = {} /\ accepted' = None
  BY DEF RecordPairs
<1> QED
  BY <1>2, <1>3, <1>4, <1>5 DEF TypeOK, Live

\* Every step of the store keeps its variables in their types.
LEMMA TypeStep == TypeOK /\ MappingInverse /\ [Next]_vars => TypeOK'
<1> SUFFICES ASSUME TypeOK, MappingInverse, [Next]_vars
             PROVE  TypeOK'
  OBVIOUS
<1> USE DEF LocalKey
<1>a. \A o \in Object : Live(o) => objects[o] \in CanonicalObject
  BY DEF TypeOK, Live
<1>b. \A obj, e : Recipients(obj, e) \in SUBSET Endpoint
  BY DEF Recipients, TypeOK
<1>c. None \notin CanonicalObject /\ None \notin Object /\ None \notin LocalId
  BY MarksAssumption, SSOTAssumption
<1>d. seq < MaxSeq => seq + 1 \in 0..MaxSeq
  BY SSOTAssumption DEF TypeOK
<1>e. ASSUME NEW e \in Endpoint, NEW t \in EntityType, NEW l \in LocalId,
             local[<<e, t, l>>] # None
      PROVE  local[<<e, t, l>>] \in Object /\ Live(local[<<e, t, l>>])
  BY <1>e, NamedObject
<1>1. ASSUME NEW e \in Endpoint, NEW t \in EntityType, NEW l \in LocalId,
             NEW patch \in Patch, NEW base, NEW active \in ActiveSent,
             NEW entry \in EntrySent, PutCreate(e, t, l, patch, base, active, entry)
      PROVE  TypeOK'
  <2> DEFINE obj == NewObject(e, t, CreateContent(patch), active # FALSE)
  <2>1. PICK o \in Object \ minted :
          /\ objects' = [objects EXCEPT ![o] = obj]
          /\ minted' = minted \cup {o}
          /\ local' = [local EXCEPT ![<<e, t, l>>] = o]
          /\ canonical' = [canonical EXCEPT ![<<e, o>>] = l]
          /\ RecordLocalEntry(e, o, l, entry)
          /\ published' = Frames(o, obj, Recipients(obj, e), FALSE)
    BY <1>1 DEF PutCreate
  <2>2. obj \in CanonicalObject
    BY <1>1, NewObjectType DEF PutCreate
  <2> HIDE DEF obj
  <2>3. published' \in SUBSET Frame
    BY <2>1, <2>2, <1>b, FramesType
  <2>4. localEntries' \in [Endpoint \X Object -> LocalId \cup {None}]
    BY <2>1 DEF RecordLocalEntry, TypeOK
  <2>5. objects' \in [Object -> CanonicalObject \cup {None}]
    BY <2>1, <2>2 DEF TypeOK
  <2>6. \A q \in Object : Live(q)' => q \in minted'
    BY <2>1 DEF TypeOK, Live
  <2>7. /\ local' \in [LocalKey -> Object \cup {None}]
        /\ canonical' \in [Endpoint \X Object -> LocalId \cup {None}]
        /\ minted' \in SUBSET Object
    BY <2>1 DEF TypeOK
  <2>8. /\ UNCHANGED <<endpoints, toggles>> /\ late' \in SUBSET Endpoint
        /\ seq' \in 0..MaxSeq /\ accepted' = None
    BY <1>1, <1>d DEF PutCreate, Admitted, Acting, TypeOK
  <2> QED
    BY <2>3, <2>4, <2>5, <2>6, <2>7, <2>8 DEF TypeOK
<1>2. ASSUME NEW e \in Endpoint, NEW t \in EntityType, NEW l \in LocalId,
             NEW patch \in Patch, NEW base, NEW active \in ActiveSent,
             NEW entry \in EntrySent, PutUpdate(e, t, l, patch, base, active, entry)
      PROVE  TypeOK'
  <2> DEFINE o == local[<<e, t, l>>]
             changed == Changed(objects[o], patch, base)
             obj == Revised(objects[o], e, patch, changed, active)
  <2>1. /\ objects' = [objects EXCEPT ![o] = obj]
        /\ published' = Frames(o, obj, Recipients(obj, e), FALSE)
        /\ RecordLocalEntry(e, o, l, entry)
        /\ objects[o].revision < MaxRevision /\ base \in 1..objects[o].revision
        /\ seq < MaxSeq /\ seq' = seq + 1
        /\ accepted' = [object |-> o, base |-> base]
        /\ UNCHANGED <<minted, mapping, endpoints, toggles>>
        /\ late' \in SUBSET Endpoint
        /\ o # None
    BY <1>2 DEF PutUpdate, Applies, Admitted, Acting, TypeOK
  <2>2. o \in Object /\ Live(o) /\ objects[o] \in CanonicalObject
    BY <2>1, <1>a, <1>e
  <2>3. obj \in CanonicalObject
    BY <2>1, <2>2, RevisedType DEF Changed
  <2>4. base \in 1..MaxRevision
    BY <2>1, <2>2, SSOTAssumption DEF CanonicalObject
  <2> HIDE DEF obj, o
  <2>5. published' \in SUBSET Frame
    BY <2>1, <2>2, <2>3, <1>b, FramesType
  <2>6. localEntries' \in [Endpoint \X Object -> LocalId \cup {None}]
    BY <2>1 DEF RecordLocalEntry, TypeOK
  <2>7. /\ objects' \in [Object -> CanonicalObject \cup {None}]
        /\ \A q \in Object : Live(q)' => q \in minted'
    BY <2>1, <2>2, <2>3 DEF TypeOK, Live
  <2>8. accepted' \in [object : Object, base : 1..MaxRevision]
    BY <2>1, <2>2, <2>4
  <2>9. UNCHANGED <<minted, local, canonical, endpoints, toggles>> /\ seq' \in 0..MaxSeq
    BY <2>1, <1>d DEF mapping
  <2> QED
    BY <2>1, <2>5, <2>6, <2>7, <2>8, <2>9 DEF TypeOK
<1>3. ASSUME NEW e \in Endpoint, NEW t \in EntityType, NEW l \in LocalId,
             NEW patch \in Patch, NEW base, NEW active \in ActiveSent,
             NEW entry \in EntrySent, PutKept(e, t, l, patch, base, active, entry)
      PROVE  TypeOK'
  BY <1>3 DEF PutKept, Admitted, Acting, RecordLocalEntry, mapping, TypeOK, Live
<1>4. ASSUME NEW e \in Endpoint, NEW t \in EntityType, NEW l \in LocalId,
             NEW base, Deactivate(e, t, l, base)
      PROVE  TypeOK'
  <2> DEFINE o == local[<<e, t, l>>]
             obj == [objects[o] EXCEPT !.revision = @ + 1, !.active = FALSE,
                                       !.sourceEndpointID = e, !.seq = seq + 1]
  <2>1. /\ objects' = [objects EXCEPT ![o] = obj]
        /\ published' = Frames(o, obj, Recipients(obj, e), TRUE)
        /\ base = objects[o].revision /\ base < MaxRevision
        /\ seq < MaxSeq /\ seq' = seq + 1
        /\ accepted' = [object |-> o, base |-> base]
        /\ UNCHANGED <<minted, mapping, localEntries, endpoints, toggles>>
        /\ late' \in SUBSET Endpoint
        /\ o # None
    BY <1>4 DEF Deactivate, Acting, TypeOK
  <2>2. o \in Object /\ Live(o) /\ objects[o] \in CanonicalObject
    BY <2>1, <1>a, <1>e
  <2>3. /\ objects[o].revision + 1 \in 1..MaxRevision /\ seq + 1 \in 1..MaxSeq
        /\ base \in 1..MaxRevision
    <3>1. objects[o].revision \in Nat /\ seq \in Nat /\ MaxRevision \in Nat /\ MaxSeq \in Nat
      BY <2>2, SSOTAssumption DEF CanonicalObject, TypeOK
    <3>2. objects[o].revision >= 1
      BY <2>2 DEF CanonicalObject
    <3> QED
      BY <2>1, <3>1, <3>2
  <2>4. obj \in CanonicalObject
    BY <2>2, <2>3 DEF CanonicalObject
  <2> HIDE DEF obj, o
  <2>5. published' \in SUBSET Frame
    BY <2>1, <2>2, <2>4, <1>b, FramesType
  <2>6. /\ objects' \in [Object -> CanonicalObject \cup {None}]
        /\ \A q \in Object : Live(q)' => q \in minted'
    BY <2>1, <2>2, <2>4 DEF TypeOK, Live
  <2>7. accepted' \in [object : Object, base : 1..MaxRevision]
    BY <2>1, <2>2, <2>3
  <2>8. /\ UNCHANGED <<minted, local, canonical, localEntries, endpoints, toggles>>
        /\ seq' \in 0..MaxSeq
    BY <2>1, <1>d DEF mapping
  <2> QED
    BY <2>1, <2>5, <2>6, <2>7, <2>8 DEF TypeOK
<1>5. ASSUME NEW e \in Endpoint, NEW o \in Object, Request(e, o)
      PROVE  TypeOK'
  <2>1. published' \in SUBSET Frame
    BY <1>5, <1>a, FramesType DEF Request
  <2> QED
    BY <1>5, <2>1 DEF Request, Acting, mapping, TypeOK, Live
<1>6. ASSUME NEW e \in Endpoint, NEW t \in EntityType, NEW l \in LocalId,
             NEW o \in Object, Bind(e, t, l, o)
      PROVE  TypeOK'
  <2>1. {<<l, o>>} \in SUBSET (LocalId \X Object)
    OBVIOUS
  <2> QED
    BY <1>6, <2>1, RecordPairsType DEF Bind, Acting, TypeOK
<1>7. ASSUME NEW e \in Endpoint, NEW pairs \in SUBSET (LocalId \X Object),
             ApplyBindings(e, pairs)
      PROVE  TypeOK'
  <2> DEFINE recorded == {p \in pairs : /\ ~DuplicateInRequest(pairs, p)
                                        /\ Bindable(e, p[1], p[2])}
  <2>1. recorded \in SUBSET (LocalId \X Object) /\ late' \in SUBSET Endpoint
    BY <1>7 DEF ApplyBindings, Acting, TypeOK
  <2>2. RecordPairs(e, recorded)
    BY <1>7 DEF ApplyBindings
  <2> HIDE DEF recorded
  <2> QED
    BY <2>1, <2>2, RecordPairsType
<1>8. ASSUME NEW e \in Endpoint, NEW t \in EntityType, NEW entries \in Entries,
             Correct(e, t, entries)
      PROVE  TypeOK'
  <2> DEFINE listed == DOMAIN entries
             targets == {entries[l] : l \in listed} \ {None}
  <2>1. listed \subseteq LocalId /\ \A l \in listed : entries[l] \in Object \cup {None}
    BY DEF Entries
  <2>2. \A o \in targets : (CHOOSE l \in listed : entries[l] = o) \in LocalId
    BY <2>1
  <2>3. local' \in [LocalKey -> Object \cup {None}]
    BY <1>8, <2>1 DEF Correct, TypeOK
  <2>4. canonical' \in [Endpoint \X Object -> LocalId \cup {None}]
    BY <1>8, <2>2 DEF Correct, TypeOK
  <2>5. localEntries' \in [Endpoint \X Object -> LocalId \cup {None}]
    BY <1>8 DEF Correct, TypeOK
  <2>6. /\ UNCHANGED <<objects, minted, endpoints, toggles, seq>>
        /\ published' = {} /\ accepted' = None /\ late' \in SUBSET Endpoint
    BY <1>8 DEF Correct, Acting, TypeOK
  <2> QED
    BY <2>3, <2>4, <2>5, <2>6 DEF TypeOK, Live
<1>9. ASSUME NEW e \in Endpoint, NEW types \in SUBSET EntityType, SelectTypes(e, types)
      PROVE  TypeOK'
  BY <1>9 DEF SelectTypes, mapping, TypeOK, Live
<1>10. ASSUME NEW e \in Endpoint, RemoveEndpoint(e)
       PROVE  TypeOK'
  BY <1>10 DEF RemoveEndpoint, TypeOK, Live
<1>11. ASSUME NEW tenant, ResetTenant(tenant)
       PROVE  TypeOK'
  BY <1>11, <1>d DEF ResetTenant, TypeOK, Live
<1>12. CASE UNCHANGED vars
  BY <1>12 DEF vars, mapping, TypeOK, Live
<1> QED
  BY <1>1, <1>2, <1>3, <1>4, <1>5, <1>6, <1>7, <1>8, <1>9, <1>10, <1>11, <1>12,
     SSOTAssumption
     DEF Next, Put

----------------------------------------------------------------------------
(* The identifier mapping *)

\* The mapping stands while it is untouched and every object it names stays,
\* under the entity type and in the tenant it was created with.
LEMMA MappingStands ==
  ASSUME TypeOK, MappingInverse, UNCHANGED <<local, canonical>>,
         \A o \in Object : Live(o) => /\ Live(o)'
                                      /\ objects'[o].typ = objects[o].typ
                                      /\ objects'[o].tenantID = objects[o].tenantID
  PROVE  MappingInverse'
<1>1. LocalResolves'
  <2> SUFFICES ASSUME NEW e \in Endpoint, NEW t \in EntityType, NEW l \in LocalId,
                      local[<<e, t, l>>] # None
               PROVE  LET o == local[<<e, t, l>>] IN
                      /\ Live(o)'
                      /\ objects'[o].typ = t
                      /\ objects'[o].tenantID = TenantOf[e]
                      /\ canonical[<<e, o>>] = l
    BY DEF LocalResolves, Live
  <2>1. local[<<e, t, l>>] \in Object
    BY DEF TypeOK, LocalKey
  <2> QED
    BY <2>1 DEF MappingInverse, LocalResolves
<1>2. CanonicalResolves'
  BY DEF MappingInverse, CanonicalResolves
<1> QED
  BY <1>1, <1>2 DEF MappingInverse

\* Recording pairs nobody holds, with distinct ids on both sides, keeps it.
LEMMA RecordPairsInverse ==
  ASSUME TypeOK, MappingInverse, NEW e \in Endpoint,
         NEW pairs \in SUBSET (LocalId \X Object), RecordPairs(e, pairs),
         \A p \in pairs : Bindable(e, p[1], p[2]),
         \A p, q \in pairs :
           (p[2] = q[2] \/ (p[1] = q[1] /\ objects[p[2]].typ = objects[q[2]].typ)) => p = q
  PROVE  MappingInverse'
<1> DEFINE new(t, l, o) == <<l, o>> \in pairs /\ objects[o].typ = t
<1>1. \A l \in LocalId, o \in Object : <<l, o>> \in pairs =>
        /\ Live(o)
        /\ objects[o].tenantID = TenantOf[e]
        /\ local[<<e, objects[o].typ, l>>] = None
        /\ canonical[<<e, o>>] = None
        /\ objects[o].typ \in EntityType
  <2> SUFFICES ASSUME NEW l \in LocalId, NEW o \in Object, <<l, o>> \in pairs
               PROVE  /\ Live(o)
                      /\ objects[o].tenantID = TenantOf[e]
                      /\ local[<<e, objects[o].typ, l>>] = None
                      /\ canonical[<<e, o>>] = None
                      /\ objects[o].typ \in EntityType
    OBVIOUS
  <2>1. Bindable(e, l, o)
    OBVIOUS
  <2> QED
    BY <2>1 DEF Bindable, Live, TypeOK, CanonicalObject
<1>2. \A t \in EntityType, l \in LocalId, o \in Object :
        new(t, l, o) => local'[<<e, t, l>>] = o /\ canonical'[<<e, o>>] = l
  <2> SUFFICES ASSUME NEW t \in EntityType, NEW l \in LocalId, NEW o \in Object,
                      new(t, l, o)
               PROVE  local'[<<e, t, l>>] = o /\ canonical'[<<e, o>>] = l
    OBVIOUS
  <2> DEFINE named == {p[2] : p \in pairs}
  <2>1. o \in named
    OBVIOUS
  <2>2. \A q \in named : <<l, q>> \in pairs /\ objects[q].typ = t => q = o
    OBVIOUS
  <2>3. \A m \in LocalId : <<m, o>> \in pairs => m = l
    OBVIOUS
  <2>4. local'[<<e, t, l>>] = CHOOSE q \in named : <<l, q>> \in pairs /\ objects[q].typ = t
    BY <2>1 DEF RecordPairs, LocalKey
  <2>5. canonical'[<<e, o>>] = CHOOSE m \in LocalId : <<m, o>> \in pairs
    BY <2>1 DEF RecordPairs
  <2> HIDE DEF named
  <2> QED
    BY <2>1, <2>2, <2>3, <2>4, <2>5
<1>3. \A f \in Endpoint, t \in EntityType, l \in LocalId :
        ~(f = e /\ \E o \in Object : new(t, l, o)) =>
          local'[<<f, t, l>>] = local[<<f, t, l>>]
  BY DEF RecordPairs, LocalKey
<1>4. \A f \in Endpoint, o \in Object :
        ~(f = e /\ \E l \in LocalId : <<l, o>> \in pairs) =>
          canonical'[<<f, o>>] = canonical[<<f, o>>]
  <2> SUFFICES ASSUME NEW f \in Endpoint, NEW o \in Object,
                      ~(f = e /\ \E l \in LocalId : <<l, o>> \in pairs)
               PROVE  canonical'[<<f, o>>] = canonical[<<f, o>>]
    OBVIOUS
  <2>1. ~(f = e /\ o \in {p[2] : p \in pairs})
    OBVIOUS
  <2> QED
    BY <2>1 DEF RecordPairs
<1>5. UNCHANGED objects
  BY DEF RecordPairs
<1>6. LocalResolves'
  <2> SUFFICES ASSUME NEW f \in Endpoint, NEW t \in EntityType, NEW l \in LocalId,
                      local'[<<f, t, l>>] # None
               PROVE  LET o == local'[<<f, t, l>>] IN
                      /\ Live(o)
                      /\ objects[o].typ = t
                      /\ objects[o].tenantID = TenantOf[f]
                      /\ canonical'[<<f, o>>] = l
    BY <1>5 DEF LocalResolves, Live
  <2> DEFINE o == local'[<<f, t, l>>]
  <2>1. CASE f = e /\ \E q \in Object : new(t, l, q)
    <3>1. PICK q \in Object : new(t, l, q)
      BY <2>1
    <3>2. o = q /\ canonical'[<<e, q>>] = l
      BY <3>1, <2>1, <1>2
    <3> QED
      BY <3>1, <3>2, <2>1, <1>1
  <2>2. CASE ~(f = e /\ \E q \in Object : new(t, l, q))
    <3>1. o = local[<<f, t, l>>]
      BY <2>2, <1>3
    <3>a. o \in Object
      BY <3>1 DEF TypeOK, LocalKey
    <3>2. Live(o) /\ objects[o].typ = t /\ objects[o].tenantID = TenantOf[f]
          /\ canonical[<<f, o>>] = l
      BY <3>1 DEF MappingInverse, LocalResolves
    <3>3. ~(f = e /\ \E m \in LocalId : <<m, o>> \in pairs)
      BY <3>a, <3>2, <1>1, SSOTAssumption
    <3> QED
      BY <3>a, <3>2, <3>3, <1>4
  <2> QED
    BY <2>1, <2>2
<1>7. CanonicalResolves'
  <2> SUFFICES ASSUME NEW f \in Endpoint, NEW o \in Object,
                      canonical'[<<f, o>>] # None
               PROVE  /\ Live(o)
                      /\ local'[<<f, objects[o].typ, canonical'[<<f, o>>]>>] = o
    BY <1>5 DEF CanonicalResolves, Live
  <2>1. CASE f = e /\ \E l \in LocalId : <<l, o>> \in pairs
    <3>1. PICK l \in LocalId : <<l, o>> \in pairs
      BY <2>1
    <3>2. Live(o) /\ objects[o].typ \in EntityType /\ new(objects[o].typ, l, o)
      BY <3>1, <1>1
    <3>3. local'[<<e, objects[o].typ, l>>] = o /\ canonical'[<<e, o>>] = l
      BY <3>2, <1>2
    <3> QED
      BY <2>1, <3>2, <3>3
  <2>2. CASE ~(f = e /\ \E l \in LocalId : <<l, o>> \in pairs)
    <3> DEFINE l == canonical[<<f, o>>]
    <3>1. canonical'[<<f, o>>] = l /\ l \in LocalId
      BY <2>2, <1>4, SSOTAssumption DEF TypeOK
    <3>2. Live(o) /\ local[<<f, objects[o].typ, l>>] = o
      BY <3>1, <2>2 DEF MappingInverse, CanonicalResolves
    <3>3. objects[o].typ \in EntityType
      BY <3>2 DEF Live, TypeOK, CanonicalObject
    <3>4. ASSUME f = e, NEW q \in Object, new(objects[o].typ, l, q)
          PROVE  FALSE
      <4>1. local[<<e, objects[q].typ, l>>] = None
        BY <3>1, <3>4, <1>1
      <4> QED
        BY <3>2, <3>4, <4>1, SSOTAssumption
    <3> HIDE DEF l
    <3> QED
      BY <3>1, <3>2, <3>3, <3>4, <1>3
  <2> QED
    BY <2>1, <2>2
<1> QED
  BY <1>6, <1>7 DEF MappingInverse

\* A correction keeps it, swaps and removals included.
LEMMA CorrectInverse ==
  ASSUME TypeOK, MappingInverse, NEW e \in Endpoint, NEW t \in EntityType,
         NEW entries \in Entries, Correct(e, t, entries)
  PROVE  MappingInverse'
<1> DEFINE listed == DOMAIN entries
           targets == {entries[l] : l \in listed} \ {None}
           dropped == Dropped(e, t, entries)
           name(o) == CHOOSE l \in listed : entries[l] = o
<1>1. /\ listed \subseteq LocalId
      /\ targets \subseteq Object
  BY DEF Entries
<1>2. /\ \A l, m \in listed : entries[l] = entries[m] /\ entries[l] # None => l = m
      /\ \A o \in targets : /\ Live(o)
                            /\ objects[o].typ = t
                            /\ objects[o].tenantID = TenantOf[e]
                            /\ canonical[<<e, o>>] \in listed \cup {None}
      /\ local' = [k \in LocalKey |-> IF k[1] = e /\ k[2] = t /\ k[3] \in listed
                                      THEN entries[k[3]] ELSE local[k]]
      /\ canonical' = [k \in Endpoint \X Object |->
           IF k[1] # e THEN canonical[k]
           ELSE IF k[2] \in targets THEN name(k[2])
           ELSE IF k[2] \in dropped THEN None
           ELSE canonical[k]]
  BY DEF Correct
<1>a. UNCHANGED objects
  BY DEF Correct
<1>3. \A o \in targets : /\ name(o) \in listed /\ entries[name(o)] = o
                         /\ \A l \in listed : entries[l] = o => l = name(o)
  BY <1>2
<1>4. \A f \in Endpoint, u \in EntityType, l \in LocalId :
        local'[<<f, u, l>>] = IF f = e /\ u = t /\ l \in listed
                              THEN entries[l] ELSE local[<<f, u, l>>]
  BY <1>2 DEF LocalKey
<1>5. \A f \in Endpoint, o \in Object :
        canonical'[<<f, o>>] = IF f # e THEN canonical[<<f, o>>]
                               ELSE IF o \in targets THEN name(o)
                               ELSE IF o \in dropped THEN None
                               ELSE canonical[<<f, o>>]
  BY <1>2
<1>6. \A o \in dropped : \E l \in listed : local[<<e, t, l>>] = o /\ o # None
  BY DEF Dropped
<1>7. \A l \in listed : local[<<e, t, l>>] # None => local[<<e, t, l>>] \in dropped
  BY DEF Dropped
<1> HIDE DEF name, dropped
<1>8. LocalResolves'
  <2> SUFFICES ASSUME NEW f \in Endpoint, NEW u \in EntityType, NEW l \in LocalId,
                      local'[<<f, u, l>>] # None
               PROVE  LET o == local'[<<f, u, l>>] IN
                      /\ Live(o)
                      /\ objects[o].typ = u
                      /\ objects[o].tenantID = TenantOf[f]
                      /\ canonical'[<<f, o>>] = l
    BY <1>a DEF LocalResolves, Live
  <2> DEFINE o == local'[<<f, u, l>>]
  <2>1. CASE f = e /\ u = t /\ l \in listed
    <3>1. o = entries[l] /\ o \in targets
      BY <2>1, <1>4
    <3> QED
      BY <2>1, <3>1, <1>1, <1>2, <1>3, <1>5
  <2>2. CASE ~(f = e /\ u = t /\ l \in listed)
    <3>1. o = local[<<f, u, l>>]
      BY <2>2, <1>4
    <3>2. o \in Object
      BY <3>1 DEF TypeOK, LocalKey
    <3>3. /\ Live(o) /\ objects[o].typ = u /\ objects[o].tenantID = TenantOf[f]
          /\ canonical[<<f, o>>] = l
      BY <3>1 DEF MappingInverse, LocalResolves
    <3>4. f = e => o \notin targets
      BY <2>2, <3>3, <1>2, SSOTAssumption
    <3>5. ASSUME f = e, o \in dropped
          PROVE  FALSE
      <4>1. PICK m \in listed : local[<<e, t, m>>] = o /\ o # None
        BY <3>5, <1>6
      <4>2. canonical[<<e, o>>] = m /\ objects[o].typ = t
        BY <4>1, <1>1 DEF MappingInverse, LocalResolves
      <4> QED
        BY <4>2, <3>3, <3>5, <2>2
    <3> QED
      BY <3>2, <3>3, <3>4, <3>5, <1>5
  <2> QED
    BY <2>1, <2>2
<1>9. CanonicalResolves'
  <2> SUFFICES ASSUME NEW f \in Endpoint, NEW o \in Object,
                      canonical'[<<f, o>>] # None
               PROVE  /\ Live(o)
                      /\ local'[<<f, objects[o].typ, canonical'[<<f, o>>]>>] = o
    BY <1>a DEF CanonicalResolves, Live
  <2>1. CASE f = e /\ o \in targets
    BY <2>1, <1>1, <1>2, <1>3, <1>4, <1>5
  <2>2. CASE ~(f = e /\ o \in targets)
    <3> DEFINE l == canonical[<<f, o>>]
    <3>1. canonical'[<<f, o>>] = l /\ l # None /\ (f = e => o \notin dropped)
      BY <2>2, <1>5
    <3>2. Live(o) /\ local[<<f, objects[o].typ, l>>] = o
      BY <3>1 DEF MappingInverse, CanonicalResolves
    <3>3. objects[o].typ \in EntityType /\ l \in LocalId
      BY <3>1, <3>2 DEF Live, TypeOK, CanonicalObject
    <3> HIDE DEF l
    <3>4. ~(f = e /\ objects[o].typ = t /\ l \in listed)
      BY <3>1, <3>2, <1>7, SSOTAssumption
    <3> QED
      BY <3>1, <3>2, <3>3, <3>4, <1>4
  <2> QED
    BY <2>1, <2>2
<1> QED
  BY <1>8, <1>9 DEF MappingInverse

\* A new object, under a local id its creator did not use, keeps it.
LEMMA CreateInverse ==
  ASSUME TypeOK, MappingInverse, NEW e \in Endpoint, NEW t \in EntityType,
         NEW l \in LocalId, local[<<e, t, l>>] = None,
         NEW o \in Object \ minted, NEW obj \in CanonicalObject,
         obj.typ = t, obj.tenantID = TenantOf[e],
         objects' = [objects EXCEPT ![o] = obj],
         local' = [local EXCEPT ![<<e, t, l>>] = o],
         canonical' = [canonical EXCEPT ![<<e, o>>] = l]
  PROVE  MappingInverse'
<1>1. /\ ~Live(o) /\ objects'[o] # None /\ objects'[o] = obj
      /\ \A q \in Object \ {o} : objects'[q] = objects[q]
  BY MarksAssumption DEF TypeOK, Live
<1>2. \A f \in Endpoint, u \in EntityType, m \in LocalId :
        local'[<<f, u, m>>] = IF <<f, u, m>> = <<e, t, l>> THEN o ELSE local[<<f, u, m>>]
  BY DEF TypeOK, LocalKey
<1>3. \A f \in Endpoint, q \in Object :
        canonical'[<<f, q>>] = IF <<f, q>> = <<e, o>> THEN l ELSE canonical[<<f, q>>]
  BY DEF TypeOK
<1>4. LocalResolves'
  <2> SUFFICES ASSUME NEW f \in Endpoint, NEW u \in EntityType, NEW m \in LocalId,
                      local'[<<f, u, m>>] # None
               PROVE  LET q == local'[<<f, u, m>>] IN
                      /\ objects'[q] # None
                      /\ objects'[q].typ = u
                      /\ objects'[q].tenantID = TenantOf[f]
                      /\ canonical'[<<f, q>>] = m
    BY DEF LocalResolves, Live
  <2>1. CASE <<f, u, m>> = <<e, t, l>>
    BY <2>1, <1>1, <1>2, <1>3
  <2>2. CASE <<f, u, m>> # <<e, t, l>>
    <3> DEFINE q == local[<<f, u, m>>]
    <3>1. local'[<<f, u, m>>] = q /\ q # None
      BY <2>2, <1>2
    <3>2. q \in Object
      BY <3>1 DEF TypeOK, LocalKey
    <3>3. /\ Live(q) /\ objects[q].typ = u /\ objects[q].tenantID = TenantOf[f]
          /\ canonical[<<f, q>>] = m
      BY <3>1 DEF MappingInverse, LocalResolves
    <3>4. q # o /\ objects'[q] = objects[q]
      BY <3>2, <3>3, <1>1
    <3> HIDE DEF q
    <3> QED
      BY <3>1, <3>2, <3>3, <3>4, <1>3 DEF Live
  <2> QED
    BY <2>1, <2>2
<1>5. CanonicalResolves'
  <2> SUFFICES ASSUME NEW f \in Endpoint, NEW q \in Object,
                      canonical'[<<f, q>>] # None
               PROVE  /\ objects'[q] # None
                      /\ local'[<<f, objects'[q].typ, canonical'[<<f, q>>]>>] = q
    BY DEF CanonicalResolves, Live
  <2>1. CASE <<f, q>> = <<e, o>>
    BY <2>1, <1>1, <1>2, <1>3
  <2>2. CASE <<f, q>> # <<e, o>>
    <3> DEFINE m == canonical[<<f, q>>]
    <3>1. canonical'[<<f, q>>] = m /\ m # None
      BY <2>2, <1>3
    <3>2. Live(q) /\ local[<<f, objects[q].typ, m>>] = q
      BY <3>1 DEF MappingInverse, CanonicalResolves
    <3>3. objects'[q] = objects[q] /\ objects[q].typ \in EntityType /\ m \in LocalId
      BY <3>1, <3>2, <1>1 DEF Live, TypeOK, CanonicalObject
    <3> HIDE DEF m
    <3>4. <<f, objects[q].typ, m>> # <<e, t, l>>
      BY <3>2, SSOTAssumption
    <3> QED
      BY <3>1, <3>2, <3>3, <3>4, <1>2 DEF Live
  <2> QED
    BY <2>1, <2>2
<1> QED
  BY <1>4, <1>5 DEF MappingInverse

\* What the wipes leave of the mapping: nothing of a removed endpoint, and
\* nothing that names a removed object.
LEMMA WipeInverse ==
  ASSUME TypeOK, MappingInverse, NEW gone \in SUBSET Endpoint, NEW wiped \in SUBSET Object,
         \A o \in Object \ wiped : objects'[o] = objects[o],
         local' = [k \in LocalKey |-> IF k[1] \in gone \/ local[k] \in wiped
                                      THEN None ELSE local[k]],
         canonical' = [k \in Endpoint \X Object |->
                         IF k[1] \in gone \/ k[2] \in wiped THEN None ELSE canonical[k]]
  PROVE  MappingInverse'
<1>1. \A e \in Endpoint, t \in EntityType, l \in LocalId :
        local'[<<e, t, l>>] = IF e \in gone \/ local[<<e, t, l>>] \in wiped
                              THEN None ELSE local[<<e, t, l>>]
  BY DEF LocalKey
<1>2. \A e \in Endpoint, o \in Object :
        canonical'[<<e, o>>] = IF e \in gone \/ o \in wiped
                               THEN None ELSE canonical[<<e, o>>]
  OBVIOUS
<1>3. LocalResolves'
  <2> SUFFICES ASSUME NEW e \in Endpoint, NEW t \in EntityType, NEW l \in LocalId,
                      local'[<<e, t, l>>] # None
               PROVE  LET o == local'[<<e, t, l>>] IN
                      /\ objects'[o] # None
                      /\ objects'[o].typ = t
                      /\ objects'[o].tenantID = TenantOf[e]
                      /\ canonical'[<<e, o>>] = l
    BY DEF LocalResolves, Live
  <2> DEFINE o == local[<<e, t, l>>]
  <2>1. local'[<<e, t, l>>] = o /\ o # None /\ e \notin gone /\ o \notin wiped
    BY <1>1
  <2>2. o \in Object
    BY <2>1 DEF TypeOK, LocalKey
  <2>3. /\ Live(o) /\ objects[o].typ = t /\ objects[o].tenantID = TenantOf[e]
        /\ canonical[<<e, o>>] = l
    BY <2>1 DEF MappingInverse, LocalResolves
  <2> HIDE DEF o
  <2> QED
    BY <2>1, <2>2, <2>3, <1>2 DEF Live
<1>4. CanonicalResolves'
  <2> SUFFICES ASSUME NEW e \in Endpoint, NEW o \in Object,
                      canonical'[<<e, o>>] # None
               PROVE  /\ objects'[o] # None
                      /\ local'[<<e, objects'[o].typ, canonical'[<<e, o>>]>>] = o
    BY DEF CanonicalResolves, Live
  <2> DEFINE l == canonical[<<e, o>>]
  <2>1. canonical'[<<e, o>>] = l /\ l # None /\ e \notin gone /\ o \notin wiped
    BY <1>2
  <2>2. Live(o) /\ local[<<e, objects[o].typ, l>>] = o
    BY <2>1 DEF MappingInverse, CanonicalResolves
  <2>3. objects'[o] = objects[o] /\ objects[o].typ \in EntityType /\ l \in LocalId
    BY <2>1, <2>2 DEF Live, TypeOK, CanonicalObject
  <2> HIDE DEF l
  <2> QED
    BY <2>1, <2>2, <2>3, <1>1 DEF Live
<1> QED
  BY <1>3, <1>4 DEF MappingInverse

\* Every step of the store keeps the mapping one mapping.
LEMMA MappingStep == TypeOK /\ MappingInverse /\ [Next]_vars => MappingInverse'
<1> SUFFICES ASSUME TypeOK, MappingInverse, [Next]_vars
             PROVE  MappingInverse'
  OBVIOUS
<1>a. \A o \in Object : objects[o] \in CanonicalObject \cup {None}
  BY DEF TypeOK
<1>b. None \notin CanonicalObject
  BY MarksAssumption
<1>c. ASSUME NEW e \in Endpoint, NEW t \in EntityType, NEW l \in LocalId,
             local[<<e, t, l>>] # None
      PROVE  local[<<e, t, l>>] \in Object /\ Live(local[<<e, t, l>>])
  BY <1>c, NamedObject
<1>1. ASSUME NEW e \in Endpoint, NEW t \in EntityType, NEW l \in LocalId,
             NEW patch \in Patch, NEW base, NEW active \in ActiveSent,
             NEW entry \in EntrySent, PutCreate(e, t, l, patch, base, active, entry)
      PROVE  MappingInverse'
  <2> DEFINE obj == NewObject(e, t, CreateContent(patch), active # FALSE)
  <2>1. PICK o \in Object \ minted :
          /\ objects' = [objects EXCEPT ![o] = obj]
          /\ local' = [local EXCEPT ![<<e, t, l>>] = o]
          /\ canonical' = [canonical EXCEPT ![<<e, o>>] = l]
    BY <1>1 DEF PutCreate
  <2>2. obj \in CanonicalObject /\ local[<<e, t, l>>] = None
    BY <1>1, NewObjectType DEF PutCreate
  <2>3. obj.typ = t /\ obj.tenantID = TenantOf[e]
    BY DEF NewObject
  <2> HIDE DEF obj
  <2> QED
    BY <2>1, <2>2, <2>3, CreateInverse
<1>2. ASSUME NEW e \in Endpoint, NEW t \in EntityType, NEW l \in LocalId,
             NEW patch \in Patch, NEW base, NEW active \in ActiveSent,
             NEW entry \in EntrySent, PutUpdate(e, t, l, patch, base, active, entry)
      PROVE  MappingInverse'
  <2> DEFINE o == local[<<e, t, l>>]
             obj == Revised(objects[o], e, patch, Changed(objects[o], patch, base), active)
  <2>1. /\ objects' = [objects EXCEPT ![o] = obj]
        /\ seq < MaxSeq /\ objects[o].revision < MaxRevision
        /\ UNCHANGED <<local, canonical>> /\ o # None
    BY <1>2 DEF PutUpdate, mapping
  <2>2. o \in Object /\ Live(o)
    BY <2>1, <1>c
  <2>3. objects[o] \in CanonicalObject
    BY <2>2, <1>a DEF Live
  <2>4. obj \in CanonicalObject
    BY <2>1, <2>3, RevisedType DEF Changed
  <2>5. obj.typ = objects[o].typ /\ obj.tenantID = objects[o].tenantID
    BY <2>3 DEF Revised, CanonicalObject
  <2> HIDE DEF obj, o
  <2>6. \A q \in Object : Live(q) => /\ Live(q)'
                                     /\ objects'[q].typ = objects[q].typ
                                     /\ objects'[q].tenantID = objects[q].tenantID
    BY <2>1, <2>2, <2>4, <2>5, <1>b DEF Live, TypeOK
  <2> QED
    BY <2>1, <2>6, MappingStands
<1>3. ASSUME NEW e \in Endpoint, NEW t \in EntityType, NEW l \in LocalId,
             NEW patch \in Patch, NEW base, NEW active \in ActiveSent,
             NEW entry \in EntrySent, PutKept(e, t, l, patch, base, active, entry)
      PROVE  MappingInverse'
  BY <1>3, MappingStands DEF PutKept, mapping, Live
<1>4. ASSUME NEW e \in Endpoint, NEW t \in EntityType, NEW l \in LocalId,
             NEW base, Deactivate(e, t, l, base)
      PROVE  MappingInverse'
  <2> DEFINE o == local[<<e, t, l>>]
             obj == [objects[o] EXCEPT !.revision = @ + 1, !.active = FALSE,
                                       !.sourceEndpointID = e, !.seq = seq + 1]
  <2>1. /\ objects' = [objects EXCEPT ![o] = obj]
        /\ base = objects[o].revision /\ base < MaxRevision /\ seq < MaxSeq
        /\ UNCHANGED <<local, canonical>> /\ o # None
    BY <1>4 DEF Deactivate, mapping
  <2>2. o \in Object /\ Live(o)
    BY <2>1, <1>c
  <2>3. objects[o] \in CanonicalObject
    BY <2>2, <1>a DEF Live
  <2>4. obj.typ = objects[o].typ /\ obj.tenantID = objects[o].tenantID
    BY <2>3 DEF CanonicalObject
  <2>5. objects[o].revision + 1 \in 1..MaxRevision /\ seq + 1 \in 1..MaxSeq
    <3>1. objects[o].revision \in 1..MaxRevision /\ seq \in 0..MaxSeq
      BY <2>3 DEF CanonicalObject, TypeOK
    <3> QED
      BY <2>1, <3>1, SSOTAssumption
  <2>6. obj \in CanonicalObject
    BY <2>3, <2>5 DEF CanonicalObject
  <2> HIDE DEF obj, o
  <2>7. \A q \in Object : Live(q) => /\ Live(q)'
                                     /\ objects'[q].typ = objects[q].typ
                                     /\ objects'[q].tenantID = objects[q].tenantID
    BY <2>1, <2>2, <2>4, <2>6, <1>b DEF Live, TypeOK
  <2> QED
    BY <2>1, <2>7, MappingStands
<1>5. ASSUME NEW e \in Endpoint, NEW o \in Object, Request(e, o)
      PROVE  MappingInverse'
  BY <1>5, MappingStands DEF Request, mapping, Live
<1>6. ASSUME NEW e \in Endpoint, NEW t \in EntityType, NEW l \in LocalId,
             NEW o \in Object, Bind(e, t, l, o)
      PROVE  MappingInverse'
  <2>1. {<<l, o>>} \in SUBSET (LocalId \X Object)
    OBVIOUS
  <2>2. RecordPairs(e, {<<l, o>>}) /\ Bindable(e, l, o)
    BY <1>6 DEF Bind
  <2> QED
    BY <2>1, <2>2, RecordPairsInverse
<1>7. ASSUME NEW e \in Endpoint, NEW pairs \in SUBSET (LocalId \X Object),
             ApplyBindings(e, pairs)
      PROVE  MappingInverse'
  <2> DEFINE recorded == {p \in pairs : /\ ~DuplicateInRequest(pairs, p)
                                        /\ Bindable(e, p[1], p[2])}
  <2>1. RecordPairs(e, recorded)
    BY <1>7 DEF ApplyBindings
  <2>2. recorded \in SUBSET (LocalId \X Object)
        /\ \A p \in recorded : Bindable(e, p[1], p[2]) /\ Live(p[2])
    BY DEF Bindable
  <2>3. \A p, q \in recorded :
          (p[2] = q[2] \/ (p[1] = q[1] /\ objects[p[2]].typ = objects[q[2]].typ)) => p = q
    BY <2>2 DEF DuplicateInRequest
  <2> HIDE DEF recorded
  <2> QED
    BY <2>1, <2>2, <2>3, RecordPairsInverse
<1>8. ASSUME NEW e \in Endpoint, NEW t \in EntityType, NEW entries \in Entries,
             Correct(e, t, entries)
      PROVE  MappingInverse'
  BY <1>8, CorrectInverse
<1>9. ASSUME NEW e \in Endpoint, NEW types \in SUBSET EntityType, SelectTypes(e, types)
      PROVE  MappingInverse'
  BY <1>9, MappingStands DEF SelectTypes, mapping, Live
<1>10. ASSUME NEW e \in Endpoint, RemoveEndpoint(e)
       PROVE  MappingInverse'
  <2>1. /\ local' = [k \in LocalKey |-> IF k[1] \in {e} \/ local[k] \in {}
                                        THEN None ELSE local[k]]
        /\ canonical' = [k \in Endpoint \X Object |->
                           IF k[1] \in {e} \/ k[2] \in {} THEN None ELSE canonical[k]]
        /\ UNCHANGED objects
    BY <1>10 DEF RemoveEndpoint
  <2>2. {e} \in SUBSET Endpoint /\ {} \in SUBSET Object
    OBVIOUS
  <2> QED
    BY <2>1, <2>2, WipeInverse
<1>11. ASSUME NEW tenant, ResetTenant(tenant)
       PROVE  MappingInverse'
  <2> DEFINE wiped == {o \in Object : Live(o) /\ objects[o].tenantID = tenant}
  <2>1. /\ local' = [k \in LocalKey |-> IF k[1] \in {} \/ local[k] \in wiped
                                        THEN None ELSE local[k]]
        /\ canonical' = [k \in Endpoint \X Object |->
                           IF k[1] \in {} \/ k[2] \in wiped THEN None ELSE canonical[k]]
        /\ \A o \in Object \ wiped : objects'[o] = objects[o]
    BY <1>11 DEF ResetTenant
  <2>2. {} \in SUBSET Endpoint /\ wiped \in SUBSET Object
    OBVIOUS
  <2> HIDE DEF wiped
  <2> QED
    BY <2>1, <2>2, WipeInverse
<1>12. CASE UNCHANGED vars
  BY <1>12, MappingStands DEF vars, mapping, Live
<1> QED
  BY <1>1, <1>2, <1>3, <1>4, <1>5, <1>6, <1>7, <1>8, <1>9, <1>10, <1>11, <1>12,
     SSOTAssumption
     DEF Next, Put

\* What the two rest on, together inductive.
IInv == TypeOK /\ MappingInverse

LEMMA InductiveInit == Init => IInv
BY SSOTAssumption DEF Init, IInv, TypeOK, MappingInverse, LocalResolves,
   CanonicalResolves, Live, LocalKey

LEMMA Inductive == Spec => []IInv
<1>1. IInv /\ [Next]_vars => IInv'
  BY TypeStep, MappingStep DEF IInv
<1> QED
  BY <1>1, InductiveInit, PTL DEF Spec

\* The store's variables keep their types whatever is asked of it.
THEOREM TypeCorrect == Spec => []TypeOK
BY Inductive, PTL DEF IInv

\* However creates, binds, bulk confirmations, corrections, endpoint removals
\* and resets interleave, the two directions of the mapping are one mapping:
\* a local id resolves to a live object of its type in the endpoint's tenant,
\* and back to itself.
THEOREM MappingIsOneToOne == Spec => []MappingInverse
BY Inductive, PTL DEF IInv

----------------------------------------------------------------------------
(* Revisions *)

\* What touches objects.
LEMMA ChangingSteps ==
  ASSUME [Next]_vars, ~UNCHANGED objects
  PROVE  \/ \E e \in Endpoint, t \in EntityType, l \in LocalId, patch \in Patch,
               base \in Base, active \in ActiveSent, entry \in EntrySent :
              \/ PutCreate(e, t, l, patch, base, active, entry)
              \/ PutUpdate(e, t, l, patch, base, active, entry)
         \/ \E e \in Endpoint, t \in EntityType, l \in LocalId, base \in Base :
              Deactivate(e, t, l, base)
         \/ \E tenant \in Resettable : ResetTenant(tenant)
<1>1. \A e, t, l, patch, base, active, entry :
        ~PutKept(e, t, l, patch, base, active, entry)
  BY DEF PutKept
<1>2. \A e, o2, t, l : ~Request(e, o2) /\ ~Bind(e, t, l, o2)
  BY DEF Request, Bind, RecordPairs
<1>3. \A e, pairs : ~ApplyBindings(e, pairs)
  BY DEF ApplyBindings, RecordPairs
<1>4. \A e, t, entries : ~Correct(e, t, entries)
  BY DEF Correct
<1>5. \A e, types : ~SelectTypes(e, types) /\ ~RemoveEndpoint(e)
  BY DEF SelectTypes, RemoveEndpoint
<1>6. Next
  BY DEF vars
<1> QED
  BY <1>1, <1>2, <1>3, <1>4, <1>5, <1>6 DEF Next, Put
\* An object two successive states hold was left alone, updated or deactivated.
LEMMA ObjectStep ==
  ASSUME TypeOK, MappingInverse, [Next]_vars, NEW o \in Object, Live(o), objects'[o] # None
  PROVE  \/ objects'[o] = objects[o]
         \/ \E e \in Endpoint, patch \in Patch, base \in 1..objects[o].revision,
               active \in ActiveSent :
              /\ Applies(o, patch, base, active)
              /\ objects'[o] = Revised(objects[o], e, patch,
                                       Changed(objects[o], patch, base), active)
              /\ accepted' = [object |-> o, base |-> base]
         \/ \E e \in Endpoint :
              /\ objects[o].active
              /\ objects'[o] = [objects[o] EXCEPT !.revision = @ + 1, !.active = FALSE,
                                  !.sourceEndpointID = e, !.seq = seq + 1]
<1> DEFINE Goal ==
         \/ objects'[o] = objects[o]
         \/ \E e \in Endpoint, patch \in Patch, base \in 1..objects[o].revision,
               active \in ActiveSent :
              /\ Applies(o, patch, base, active)
              /\ objects'[o] = Revised(objects[o], e, patch,
                                       Changed(objects[o], patch, base), active)
              /\ accepted' = [object |-> o, base |-> base]
         \/ \E e \in Endpoint :
              /\ objects[o].active
              /\ objects'[o] = [objects[o] EXCEPT !.revision = @ + 1, !.active = FALSE,
                                  !.sourceEndpointID = e, !.seq = seq + 1]
<1>1. ASSUME NEW e \in Endpoint, NEW t \in EntityType, NEW l \in LocalId,
             NEW patch \in Patch, NEW base, NEW active \in ActiveSent,
             NEW entry \in EntrySent, PutCreate(e, t, l, patch, base, active, entry)
      PROVE  objects'[o] = objects[o]
  BY <1>1 DEF PutCreate, TypeOK
<1>2. ASSUME NEW e \in Endpoint, NEW t \in EntityType, NEW l \in LocalId,
             NEW patch \in Patch, NEW base, NEW active \in ActiveSent,
             NEW entry \in EntrySent, PutUpdate(e, t, l, patch, base, active, entry)
      PROVE  Goal
  <2> DEFINE q == local[<<e, t, l>>]
             obj == Revised(objects[q], e, patch, Changed(objects[q], patch, base), active)
  <2>1. /\ objects' = [objects EXCEPT ![q] = obj]
        /\ Applies(q, patch, base, active)
        /\ accepted' = [object |-> q, base |-> base]
    BY <1>2 DEF PutUpdate
  <2>2. base \in 1..objects[q].revision
    BY <2>1 DEF Applies
  <2>3. CASE q = o
    <3>1. objects'[o] = obj
      BY <2>1, <2>3 DEF TypeOK
    <3> HIDE DEF q
    <3> QED
      BY <2>1, <2>2, <2>3, <3>1
  <2>4. CASE q # o
    BY <2>1, <2>4 DEF TypeOK
  <2> QED
    BY <2>3, <2>4
<1>3. ASSUME NEW e \in Endpoint, NEW t \in EntityType, NEW l \in LocalId,
             NEW base, Deactivate(e, t, l, base)
      PROVE  Goal
  <2> DEFINE q == local[<<e, t, l>>]
  <2>1. /\ objects' = [objects EXCEPT ![q] =
                         [objects[q] EXCEPT !.revision = @ + 1, !.active = FALSE,
                                            !.sourceEndpointID = e, !.seq = seq + 1]]
        /\ objects[q].active
    BY <1>3 DEF Deactivate
  <2> HIDE DEF q
  <2> QED
    BY <2>1 DEF TypeOK
<1>4. ASSUME NEW tenant, ResetTenant(tenant)
      PROVE  objects'[o] = objects[o]
  BY <1>4 DEF ResetTenant
<1>5. ASSUME UNCHANGED objects
      PROVE  objects'[o] = objects[o]
  BY <1>5
<1> HIDE DEF Goal
<1>6. Goal
  <2>1. objects'[o] = objects[o] => Goal
    BY DEF Goal
  <2> QED
    BY <2>1, <1>1, <1>2, <1>3, <1>4, <1>5, ChangingSteps
<1> QED
  BY <1>6 DEF Goal

\* What an update leaves of an object's content.
LEMMA RevisedContent ==
  ASSUME NEW obj \in CanonicalObject, NEW e, NEW patch, NEW changed, NEW active
  PROVE  LET new == Revised(obj, e, patch, changed, active) IN
         /\ new.revision = obj.revision + 1
         /\ new.seq = seq + 1
         /\ new.active = IF active = Omitted THEN obj.active ELSE active
         /\ new.content = [k \in Attribute |-> IF k \in changed
                             THEN Patched(obj, patch, k) ELSE obj.content[k]]
BY DEF Revised, CanonicalObject

\* A revision is produced exactly when content or activity changes, and takes a
\* position no earlier change has: an update that would change nothing is
\* answered without one, so a change cannot travel in a loop.
THEOREM RevisionsAreChanges == Spec => EveryRevisionIsAChange
<1>1. ASSUME IInv, [Next]_vars
      PROVE  RevisesExactlyChanges
  <2> SUFFICES ASSUME NEW o \in Object, Live(o), objects'[o] # None
               PROVE  LET was == objects[o]
                          is == objects'[o] IN
                      IF was.content = is.content /\ was.active = is.active
                      THEN is = was
                      ELSE is.revision = was.revision + 1 /\ is.seq > seq
    BY DEF RevisesExactlyChanges, Live
  <2> DEFINE was == objects[o]
             is == objects'[o]
  <2>1. TypeOK /\ MappingInverse /\ was \in CanonicalObject /\ seq \in Nat
    BY <1>1, SSOTAssumption DEF IInv, TypeOK, Live
  <2>2. CASE is = was
    BY <2>2
  <2>3. ASSUME NEW e \in Endpoint, NEW patch \in Patch, NEW base,
               NEW active \in ActiveSent, Applies(o, patch, base, active),
               is = Revised(was, e, patch, Changed(was, patch, base), active)
        PROVE  /\ is.content # was.content \/ is.active # was.active
               /\ is.revision = was.revision + 1 /\ is.seq > seq
    <3> DEFINE changed == Changed(was, patch, base)
    <3>1. /\ is.revision = was.revision + 1 /\ is.seq = seq + 1
          /\ is.active = IF active = Omitted THEN was.active ELSE active
          /\ is.content = [k \in Attribute |-> IF k \in changed
                             THEN Patched(was, patch, k) ELSE was.content[k]]
      BY <2>1, <2>3, RevisedContent
    <3>2. changed # {} \/ ActiveChanged(was, active)
      BY <2>3 DEF Applies
    <3>3. CASE changed # {}
      <4>1. PICK k \in changed : TRUE
        BY <3>3
      <4>2. k \in Attribute /\ Patched(was, patch, k) # was.content[k]
        BY <4>1, PatchAssumption DEF Changed
      <4>3. is.content[k] # was.content[k]
        BY <3>1, <4>1, <4>2
      <4> QED
        BY <2>1, <3>1, <4>3
    <3>4. CASE ActiveChanged(was, active)
      BY <2>1, <3>1, <3>4 DEF ActiveChanged
    <3> QED
      BY <3>2, <3>3, <3>4
  <2>4. ASSUME NEW e \in Endpoint, was.active,
               is = [was EXCEPT !.revision = @ + 1, !.active = FALSE,
                                !.sourceEndpointID = e, !.seq = seq + 1]
        PROVE  is.active # was.active /\ is.revision = was.revision + 1 /\ is.seq > seq
    <3>1. is.active = FALSE /\ is.revision = was.revision + 1 /\ is.seq = seq + 1
      BY <2>1, <2>4 DEF CanonicalObject
    <3> QED
      BY <2>1, <2>4, <3>1
  <2> HIDE DEF was, is
  <2> QED
    BY <1>1, <2>1, <2>2, <2>3, <2>4, ObjectStep DEF was, is
<1> QED
  BY <1>1, Inductive, PTL DEF Spec, EveryRevisionIsAChange

\* An accepted write names a live object that stays.
LEMMA AcceptedStep ==
  ASSUME TypeOK, MappingInverse, Next, accepted' # None
  PROVE  LET o == accepted'.object IN o \in Object /\ Live(o) /\ objects'[o] # None
<1>1. ASSUME NEW e \in Endpoint, NEW t \in EntityType, NEW l \in LocalId,
             NEW patch \in Patch, NEW base, NEW active \in ActiveSent,
             NEW entry \in EntrySent, PutUpdate(e, t, l, patch, base, active, entry)
      PROVE  /\ accepted'.object = local[<<e, t, l>>] /\ local[<<e, t, l>>] # None
             /\ UNCHANGED local
  BY <1>1 DEF PutUpdate, mapping
<1>2. ASSUME NEW e \in Endpoint, NEW t \in EntityType, NEW l \in LocalId,
             NEW base, Deactivate(e, t, l, base)
      PROVE  /\ accepted'.object = local[<<e, t, l>>] /\ local[<<e, t, l>>] # None
             /\ UNCHANGED local
  BY <1>2 DEF Deactivate, mapping
<1>3. \E e \in Endpoint, t \in EntityType, l \in LocalId :
        \/ \E patch \in Patch, base \in Base, active \in ActiveSent, entry \in EntrySent :
             PutUpdate(e, t, l, patch, base, active, entry)
        \/ \E base \in Base : Deactivate(e, t, l, base)
  <2>1. ASSUME NEW e, NEW t, NEW l, NEW patch, NEW base, NEW active, NEW entry,
               PutCreate(e, t, l, patch, base, active, entry)
        PROVE  FALSE
    BY <2>1 DEF PutCreate
  <2>a. \A e, t, l, patch, base, active, entry :
          ~PutKept(e, t, l, patch, base, active, entry)
    BY DEF PutKept
  <2>2. \A e, o, t, l : ~Request(e, o) /\ ~Bind(e, t, l, o)
    BY DEF Request, Bind, RecordPairs
  <2>3. \A e, pairs : ~ApplyBindings(e, pairs)
    BY DEF ApplyBindings, RecordPairs
  <2>4. \A e, t, entries : ~Correct(e, t, entries)
    BY DEF Correct
  <2>5. \A e, types : ~SelectTypes(e, types) /\ ~RemoveEndpoint(e)
    BY DEF SelectTypes, RemoveEndpoint
  <2>6. \A tenant : ~ResetTenant(tenant)
    BY DEF ResetTenant
  <2> QED
    BY <2>1, <2>a, <2>2, <2>3, <2>4, <2>5, <2>6 DEF Next, Put
<1>4. PICK e \in Endpoint, t \in EntityType, l \in LocalId :
        /\ accepted'.object = local[<<e, t, l>>] /\ local[<<e, t, l>>] # None
        /\ UNCHANGED local
  BY <1>1, <1>2, <1>3
<1>5. accepted'.object \in Object /\ Live(accepted'.object)
  BY <1>4, NamedObject
<1>6. objects'[accepted'.object] # None
  <2>1. LocalResolves'
    BY MappingStep DEF MappingInverse
  <2>2. local'[<<e, t, l>>] # None => objects'[local'[<<e, t, l>>]] # None
    BY <1>4, <2>1 DEF LocalResolves, Live
  <2> QED
    BY <1>4, <2>2
<1> QED
  BY <1>5, <1>6

\* An update overwrites an attribute only where it still holds what it held at
\* the base the write was made from, so no change made since is lost: what a
\* write says beyond that is either a conflict, or what the attribute holds.
THEOREM NothingIsLost == Spec => NoLostUpdate
<1>1. ASSUME IInv, [Next]_vars
      PROVE  [OverwritesOnlyWhatItSaw]_vars
  <2> SUFFICES ASSUME ~UNCHANGED vars, accepted' # None,
                      NEW k \in Attribute,
                      objects'[accepted'.object].content[k]
                        # objects[accepted'.object].content[k]
               PROVE  ValueAt(objects[accepted'.object], k, accepted'.base)
                        = objects[accepted'.object].content[k]
    BY DEF OverwritesOnlyWhatItSaw
  <2> DEFINE o == accepted'.object
             obj == objects[o]
  <2>1. TypeOK /\ MappingInverse /\ Next
    BY <1>1 DEF IInv
  <2>2. o \in Object /\ Live(o) /\ objects'[o] # None
    BY <2>1, AcceptedStep
  <2>3. obj \in CanonicalObject
    BY <2>1, <2>2 DEF TypeOK, Live
  <2> HIDE DEF o
  <2>4. ASSUME NEW e \in Endpoint,
               objects'[o] = [obj EXCEPT !.revision = @ + 1, !.active = FALSE,
                                         !.sourceEndpointID = e, !.seq = seq + 1]
        PROVE  FALSE
    <3>1. objects'[o].content = obj.content
      BY <2>3, <2>4 DEF CanonicalObject
    <3> QED
      BY <3>1 DEF o
  <2>5. PICK e \in Endpoint, patch \in Patch, base \in 1..obj.revision,
             active \in ActiveSent :
          /\ Applies(o, patch, base, active)
          /\ objects'[o] = Revised(obj, e, patch, Changed(obj, patch, base), active)
          /\ accepted' = [object |-> o, base |-> base]
    BY <1>1, <2>1, <2>2, <2>4, ObjectStep DEF o
  <2>6. objects'[o].content = [j \in Attribute |-> IF j \in Changed(obj, patch, base)
                                 THEN Patched(obj, patch, j) ELSE obj.content[j]]
    BY <2>3, <2>5, RevisedContent
  <2>7. k \in Changed(obj, patch, base)
    BY <2>6 DEF o
  <2>8. k \in DOMAIN patch /\ ~Conflicts(obj, patch, base, k) /\ base \in Nat
    BY <2>3, <2>5, <2>7 DEF Applies, Changed, CanonicalObject
  <2>9. Intended(obj, patch, base, k) # obj.content[k]
    <3>1. ValueAt(obj, k, base) \in StoredAt(k)
      BY <2>3, <2>8, ValueAtType
    <3>2. PatchAttribute(k, Intended(obj, patch, base, k), patch[k])
            = Intended(obj, patch, base, k)
      BY <2>8, <3>1, PatchIdempotent DEF Intended
    <3> QED
      BY <2>7, <3>2 DEF Changed, Patched
  <2> QED
    BY <2>5, <2>7, <2>8, <2>9 DEF Conflicts, Changed, o
<1> QED
  BY <1>1, Inductive, PTL DEF Spec, NoLostUpdate

----------------------------------------------------------------------------
(* Local entries *)

\* Every step leaves a local entry only under the name its endpoint has for the
\* object.
LEMMA EntryStep ==
  ASSUME IInv, LocalEntryUnderOwnName, [Next]_vars
  PROVE  LocalEntryUnderOwnName'
<1> DEFINE Named(f, o) == localEntries[<<f, o>>] # None =>
                            localEntries[<<f, o>>] = canonical[<<f, o>>]
<1>a. /\ localEntries \in [Endpoint \X Object -> LocalId \cup {None}]
      /\ canonical \in [Endpoint \X Object -> LocalId \cup {None}]
      /\ \A f \in Endpoint, o \in Object : Named(f, o)
  BY DEF IInv, TypeOK, LocalEntryUnderOwnName
<1>b. ASSUME NEW e \in Endpoint, NEW t \in EntityType, NEW l \in LocalId, NEW entry,
             local[<<e, t, l>>] # None, UNCHANGED canonical,
             RecordLocalEntry(e, local[<<e, t, l>>], l, entry)
      PROVE  LocalEntryUnderOwnName'
  <2>1. canonical[<<e, local[<<e, t, l>>]>>] = l
    BY <1>b DEF IInv, MappingInverse, LocalResolves
  <2> QED
    BY <1>a, <1>b, <2>1 DEF RecordLocalEntry, LocalEntryUnderOwnName
<1>c. ASSUME NEW e, NEW pairs, RecordPairs(e, pairs)
      PROVE  LocalEntryUnderOwnName'
  BY <1>a, <1>c DEF RecordPairs, LocalEntryUnderOwnName
<1>d. ASSUME UNCHANGED <<localEntries, canonical>>
      PROVE  LocalEntryUnderOwnName'
  BY <1>a, <1>d DEF LocalEntryUnderOwnName
<1>1. ASSUME NEW e \in Endpoint, NEW t \in EntityType, NEW l \in LocalId,
             NEW patch, NEW base, NEW active, NEW entry,
             PutCreate(e, t, l, patch, base, active, entry)
      PROVE  LocalEntryUnderOwnName'
  <2>1. PICK o \in Object : canonical' = [canonical EXCEPT ![<<e, o>>] = l]
                            /\ RecordLocalEntry(e, o, l, entry)
    BY <1>1 DEF PutCreate
  <2> QED
    BY <1>a, <2>1 DEF RecordLocalEntry, LocalEntryUnderOwnName
<1>2. ASSUME NEW e \in Endpoint, NEW t \in EntityType, NEW l \in LocalId,
             NEW patch, NEW base, NEW active, NEW entry,
             \/ PutUpdate(e, t, l, patch, base, active, entry)
             \/ PutKept(e, t, l, patch, base, active, entry)
      PROVE  LocalEntryUnderOwnName'
  BY <1>b, <1>2 DEF PutUpdate, PutKept, mapping
<1>3. ASSUME \/ \E e, t, l, base : Deactivate(e, t, l, base)
             \/ \E e, o : Request(e, o)
             \/ \E e, types : SelectTypes(e, types)
             \/ UNCHANGED vars
      PROVE  LocalEntryUnderOwnName'
  <2>1. \A e, t, l, base : Deactivate(e, t, l, base) => UNCHANGED <<localEntries, canonical>>
    BY DEF Deactivate, mapping
  <2>2. \A e, o : Request(e, o) => UNCHANGED <<localEntries, canonical>>
    BY DEF Request, mapping
  <2>3. \A e, types : SelectTypes(e, types) => UNCHANGED <<localEntries, canonical>>
    BY DEF SelectTypes, mapping
  <2>4. UNCHANGED vars => UNCHANGED <<localEntries, canonical>>
    BY DEF vars
  <2> QED
    BY <1>d, <1>3, <2>1, <2>2, <2>3, <2>4
<1>4. ASSUME NEW e \in Endpoint, NEW t \in EntityType, NEW entries \in Entries,
             Correct(e, t, entries)
      PROVE  LocalEntryUnderOwnName'
  <2> DEFINE listed == DOMAIN entries
             targets == {entries[l] : l \in listed} \ {None}
             dropped == Dropped(e, t, entries)
  <2>1. /\ \A o \in targets : Live(o) /\ objects[o].typ = t
                              /\ canonical[<<e, o>>] \in listed \cup {None}
        /\ canonical' = [k \in Endpoint \X Object |->
             IF k[1] # e THEN canonical[k]
             ELSE IF k[2] \in targets THEN CHOOSE l \in listed : entries[l] = k[2]
             ELSE IF k[2] \in dropped THEN None
             ELSE canonical[k]]
        /\ localEntries' = [k \in Endpoint \X Object |->
             IF k[1] = e /\ k[2] \in dropped THEN None ELSE localEntries[k]]
    BY <1>4 DEF Correct
  <2>2. ASSUME NEW o \in targets, o \in Object, o \notin dropped
        PROVE  localEntries[<<e, o>>] = None
    <3>1. CASE canonical[<<e, o>>] = None
      BY <1>a, <2>2, <3>1
    <3>2. CASE canonical[<<e, o>>] # None
      <4>1. canonical[<<e, o>>] \in listed
        BY <2>1, <2>2, <3>2
      <4>2. local[<<e, t, canonical[<<e, o>>]>>] = o
        BY <2>1, <2>2, <3>2 DEF IInv, MappingInverse, CanonicalResolves
      <4>3. o # None
        BY <2>2
      <4> QED
        BY <2>2, <4>1, <4>2, <4>3 DEF Dropped
    <3> QED
      BY <3>1, <3>2
  <2> HIDE DEF targets, dropped
  <2>3. ASSUME NEW f \in Endpoint, NEW o \in Object, localEntries'[<<f, o>>] # None
        PROVE  localEntries'[<<f, o>>] = canonical'[<<f, o>>]
    <3>1. localEntries'[<<f, o>>] = localEntries[<<f, o>>] /\ ~(f = e /\ o \in dropped)
      BY <2>1, <2>3
    <3>2. ~(f = e /\ o \in targets)
      BY <2>2, <2>3, <3>1
    <3>3. canonical'[<<f, o>>] = canonical[<<f, o>>]
      BY <2>1, <3>1, <3>2
    <3> QED
      BY <1>a, <2>3, <3>1, <3>3
  <2> QED
    BY <2>3 DEF LocalEntryUnderOwnName
<1>5. ASSUME NEW e, RemoveEndpoint(e)
      PROVE  LocalEntryUnderOwnName'
  BY <1>a, <1>5 DEF RemoveEndpoint, LocalEntryUnderOwnName
<1>6. ASSUME NEW tenant, ResetTenant(tenant)
      PROVE  LocalEntryUnderOwnName'
  BY <1>a, <1>6 DEF ResetTenant, LocalEntryUnderOwnName
<1>7. ASSUME NEW e, \/ \E t, l, o : Bind(e, t, l, o)
                    \/ \E pairs : ApplyBindings(e, pairs)
      PROVE  LocalEntryUnderOwnName'
  BY <1>c, <1>7 DEF Bind, ApplyBindings
<1> HIDE DEF Named
<1> QED
  BY <1>1, <1>2, <1>3, <1>4, <1>5, <1>6, <1>7 DEF Next, Put

\* The local entry shown beside an endpoint's referenceId was sent under that
\* very id, whatever was bound, corrected, removed or reset since
\* (recordLocalEntry, correct and the wipes).
THEOREM EntriesUnderOwnName == Spec => []LocalEntryUnderOwnName
<1>1. Init => LocalEntryUnderOwnName
  BY DEF Init, LocalEntryUnderOwnName
<1>2. IInv /\ LocalEntryUnderOwnName /\ [Next]_vars => LocalEntryUnderOwnName'
  BY EntryStep
<1> QED
  BY <1>1, <1>2, Inductive, PTL DEF Spec

----------------------------------------------------------------------------
(* The history *)

\* What the latest of a set of entries says.
Says(S) ==
  IF S = {} THEN Absent
  ELSE (CHOOSE h \in S : \A g \in S : g.revision <= h.revision).value

\* The history of a content attribute as an object carries it: no entry after
\* the object's revision, one per revision, each a change, the last the content.
Recorded(obj) ==
  \A k \in Attribute :
    /\ \A h \in obj.history[k] : h.revision <= obj.revision
    /\ \A h, g \in obj.history[k] : h.revision = g.revision => h = g
    /\ ValueAt(obj, k, obj.revision) = obj.content[k]
    /\ \A h \in obj.history[k] : h.value # ValueAt(obj, k, h.revision - 1)

HistoryKept == \A o \in Object : Live(o) => Recorded(objects[o])

LEMMA ValueAtSays ==
  \A obj, k, r : ValueAt(obj, k, r) = Says({h \in obj.history[k] : h.revision <= r})
BY DEF ValueAt, Says

\* The latest of entries that one of them is after.
LEMMA LatestSays ==
  ASSUME NEW S, NEW h \in S, \A g \in S : g.revision <= h.revision,
         \A g \in S : g.revision = h.revision => g = h,
         \A g \in S : g.revision \in Int
  PROVE  Says(S) = h.value
<1>1. \A g \in S : (\A x \in S : x.revision <= g.revision) => g = h
  OBVIOUS
<1>2. (CHOOSE g \in S : \A x \in S : x.revision <= g.revision) = h
  BY <1>1
<1> QED
  BY <1>2 DEF Says

LEMMA NewRecorded ==
  ASSUME NEW e \in Endpoint, NEW t, NEW content \in Content, NEW active
  PROVE  Recorded(NewObject(e, t, content, active))
<1> DEFINE obj == NewObject(e, t, content, active)
<1>1. obj.revision = 1 /\ obj.content = content
      /\ \A k \in Attribute : obj.history[k] = IF content[k] = Absent THEN {}
                                ELSE {[revision |-> 1, value |-> content[k]]}
  BY DEF NewObject
<1> HIDE DEF obj
<1> SUFFICES ASSUME NEW k \in Attribute
             PROVE  /\ \A h \in obj.history[k] : h.revision <= obj.revision
                    /\ \A h, g \in obj.history[k] : h.revision = g.revision => h = g
                    /\ ValueAt(obj, k, obj.revision) = obj.content[k]
                    /\ \A h \in obj.history[k] : h.value # ValueAt(obj, k, h.revision - 1)
  BY DEF Recorded, obj
<1>2. CASE content[k] = Absent
  <2>1. {h \in obj.history[k] : h.revision <= 1} = {}
    BY <1>1, <1>2
  <2> QED
    BY <1>1, <1>2, <2>1, ValueAtSays DEF Says
<1>3. CASE content[k] # Absent
  <2> DEFINE entry == [revision |-> 1, value |-> content[k]]
  <2>1. obj.history[k] = {entry} /\ entry.revision = 1 /\ entry.value = content[k]
    BY <1>1, <1>3
  <2> HIDE DEF entry
  <2>2. /\ {h \in obj.history[k] : h.revision <= 1} = {entry}
        /\ {h \in obj.history[k] : h.revision <= 0} = {}
    BY <2>1
  <2>3. ValueAt(obj, k, 1) = content[k]
    <3>1. /\ entry \in {entry} /\ \A g \in {entry} : g.revision <= entry.revision
          /\ \A g \in {entry} : g.revision = entry.revision => g = entry
          /\ \A g \in {entry} : g.revision \in Int
      BY <2>1
    <3>2. Says({entry}) = entry.value
      BY <3>1, LatestSays
    <3> QED
      BY <2>1, <2>2, <3>2, ValueAtSays
  <2>4. ValueAt(obj, k, 0) = Absent
    BY <2>2, ValueAtSays DEF Says
  <2> QED
    BY <1>1, <1>3, <2>1, <2>3, <2>4
<1> QED
  BY <1>2, <1>3

\* A next revision that records what it changes keeps the history, whether it
\* changes an attribute or leaves it.
LEMMA NextRecorded ==
  ASSUME NEW obj \in CanonicalObject, Recorded(obj), NEW next,
         next.revision = obj.revision + 1, NEW changed,
         \A k \in Attribute \ changed : next.history[k] = obj.history[k]
                                        /\ next.content[k] = obj.content[k],
         \A k \in changed \cap Attribute :
           /\ next.history[k] = obj.history[k]
                \cup {[revision |-> obj.revision + 1, value |-> next.content[k]]}
           /\ next.content[k] # obj.content[k]
  PROVE  Recorded(next)
<1> DEFINE r == obj.revision
<1>1. r \in Nat
  BY DEF CanonicalObject
<1> SUFFICES ASSUME NEW k \in Attribute
             PROVE  /\ \A h \in next.history[k] : h.revision <= next.revision
                    /\ \A h, g \in next.history[k] : h.revision = g.revision => h = g
                    /\ ValueAt(next, k, next.revision) = next.content[k]
                    /\ \A h \in next.history[k] : h.value # ValueAt(next, k, h.revision - 1)
  BY DEF Recorded
<1>2. /\ \A h \in obj.history[k] : h.revision \in Int /\ h.revision <= r
      /\ \A h, g \in obj.history[k] : h.revision = g.revision => h = g
      /\ ValueAt(obj, k, r) = obj.content[k]
      /\ \A h \in obj.history[k] : h.value # ValueAt(obj, k, h.revision - 1)
  BY DEF Recorded, CanonicalObject, History, Entry
<1>3. CASE k \notin changed
  <2>1. {h \in next.history[k] : h.revision <= r + 1} = {h \in obj.history[k] : h.revision <= r}
    BY <1>1, <1>2, <1>3
  <2>2. \A n : ValueAt(next, k, n) = ValueAt(obj, k, n)
    BY <1>3, ValueAtSays
  <2>3. ValueAt(next, k, r + 1) = ValueAt(obj, k, r)
    BY <2>1, ValueAtSays
  <2> QED
    BY <1>1, <1>2, <1>3, <2>2, <2>3
<1>4. CASE k \in changed
  <2> DEFINE entry == [revision |-> r + 1, value |-> next.content[k]]
  <2>1. /\ next.history[k] = obj.history[k] \cup {entry}
        /\ entry.revision = r + 1 /\ entry.value = next.content[k]
        /\ next.content[k] # obj.content[k]
    BY <1>4
  <2> HIDE DEF entry
  <2>2. ASSUME NEW n \in Int, n <= r
        PROVE  ValueAt(next, k, n) = ValueAt(obj, k, n)
    <3>1. {h \in next.history[k] : h.revision <= n} = {h \in obj.history[k] : h.revision <= n}
      BY <1>1, <2>1, <2>2
    <3> QED
      BY <3>1, ValueAtSays
  <2>3. ValueAt(next, k, r + 1) = next.content[k]
    <3> DEFINE S == {h \in next.history[k] : h.revision <= r + 1}
    <3>1. /\ entry \in S /\ \A g \in S : g.revision <= entry.revision
          /\ \A g \in S : g.revision = entry.revision => g = entry
          /\ \A g \in S : g.revision \in Int
      BY <1>1, <1>2, <2>1
    <3> HIDE DEF S
    <3>2. Says(S) = entry.value
      BY <3>1, LatestSays
    <3> QED
      BY <2>1, <3>2, ValueAtSays DEF S
  <2>4. \A h \in next.history[k] : h.revision <= r + 1
    BY <1>1, <1>2, <2>1
  <2>5. \A h, g \in next.history[k] : h.revision = g.revision => h = g
    BY <1>1, <1>2, <2>1
  <2>6. ASSUME NEW h \in next.history[k]
        PROVE  h.value # ValueAt(next, k, h.revision - 1)
    <3>1. CASE h \in obj.history[k]
      <4>1. h.revision - 1 \in Int /\ h.revision - 1 <= r
        BY <1>1, <1>2, <3>1
      <4> QED
        BY <1>2, <2>2, <3>1, <4>1
    <3>2. CASE h = entry
      <4>1. h.revision - 1 = r
        BY <1>1, <2>1, <3>2
      <4> QED
        BY <1>1, <1>2, <2>1, <2>2, <3>2, <4>1
    <3> QED
      BY <2>1, <3>1, <3>2
  <2> QED
    BY <2>3, <2>4, <2>5, <2>6
<1> QED
  BY <1>3, <1>4

LEMMA RevisedRecorded ==
  ASSUME NEW obj \in CanonicalObject, Recorded(obj), NEW e, NEW patch \in Patch,
         NEW base, NEW active
  PROVE  Recorded(Revised(obj, e, patch, Changed(obj, patch, base), active))
<1> DEFINE changed == Changed(obj, patch, base)
           next == Revised(obj, e, patch, changed, active)
<1>1. /\ next.revision = obj.revision + 1
      /\ next.content = [k \in Attribute |-> IF k \in changed
                           THEN Patched(obj, patch, k) ELSE obj.content[k]]
      /\ next.history = [k \in Attribute |-> IF k \in changed
                           THEN obj.history[k] \cup {[revision |-> obj.revision + 1,
                                                      value |-> Patched(obj, patch, k)]}
                           ELSE obj.history[k]]
  BY DEF Revised, CanonicalObject
<1>2. \A k \in changed : Patched(obj, patch, k) # obj.content[k]
  BY DEF Changed
<1> HIDE DEF changed, next
<1> QED
  BY <1>1, <1>2, NextRecorded DEF changed, next

LEMMA HistoryStep ==
  ASSUME IInv, HistoryKept, [Next]_vars
  PROVE  HistoryKept'
<1> SUFFICES ASSUME NEW o \in Object, objects'[o] # None
             PROVE  Recorded(objects'[o])
  BY DEF HistoryKept, Live, Recorded, ValueAt
<1>1. CASE Live(o)
  <2> DEFINE was == objects[o]
             is == objects'[o]
  <2>1. TypeOK /\ MappingInverse /\ was \in CanonicalObject /\ Recorded(was)
    BY <1>1 DEF IInv, TypeOK, HistoryKept, Live
  <2>2. ASSUME NEW e \in Endpoint,
               is = [was EXCEPT !.revision = @ + 1, !.active = FALSE,
                                !.sourceEndpointID = e, !.seq = seq + 1]
        PROVE  Recorded(is)
    <3>1. /\ is.revision = was.revision + 1
          /\ is.history = was.history /\ is.content = was.content
      BY <2>1, <2>2 DEF CanonicalObject
    <3>2. /\ \A k \in Attribute \ {} : is.history[k] = was.history[k]
                                      /\ is.content[k] = was.content[k]
          /\ {} \cap Attribute = {}
      BY <3>1
    <3> HIDE DEF was, is
    <3> QED
      BY <2>1, <3>1, <3>2, NextRecorded
  <2>3. ASSUME NEW e \in Endpoint, NEW patch \in Patch, NEW base, NEW active,
               is = Revised(was, e, patch, Changed(was, patch, base), active)
        PROVE  Recorded(is)
    BY <2>1, <2>3, RevisedRecorded
  <2>4. CASE is = was
    BY <2>1, <2>4
  <2> HIDE DEF was, is
  <2>5. \/ objects'[o] = objects[o]
        \/ \E e \in Endpoint, patch \in Patch, base \in 1..objects[o].revision,
              active \in ActiveSent :
             /\ Applies(o, patch, base, active)
             /\ objects'[o] = Revised(objects[o], e, patch,
                                      Changed(objects[o], patch, base), active)
             /\ accepted' = [object |-> o, base |-> base]
        \/ \E e \in Endpoint :
             /\ objects[o].active
             /\ objects'[o] = [objects[o] EXCEPT !.revision = @ + 1, !.active = FALSE,
                                 !.sourceEndpointID = e, !.seq = seq + 1]
    BY <1>1, <2>1, ObjectStep
  <2> QED
    BY <2>2, <2>3, <2>4, <2>5 DEF was, is
<1>2. CASE ~Live(o)
  <2>1. PICK e \in Endpoint, t \in EntityType, patch \in Patch, active \in BOOLEAN :
          objects'[o] = NewObject(e, t, CreateContent(patch), active)
    <3>1. ASSUME NEW e \in Endpoint, NEW t \in EntityType, NEW l \in LocalId,
                 local[<<e, t, l>>] # None
          PROVE  local[<<e, t, l>>] # o
      BY <1>2, <3>1, NamedObject DEF IInv
    <3>2. objects[o] = None /\ objects \in [Object -> CanonicalObject \cup {None}]
      BY <1>2 DEF Live, IInv, TypeOK
    <3>3. ASSUME NEW e \in Endpoint, NEW t \in EntityType, NEW l \in LocalId,
                 NEW patch, NEW base, NEW active, NEW entry,
                 PutUpdate(e, t, l, patch, base, active, entry)
          PROVE  FALSE
      BY <3>1, <3>2, <3>3 DEF PutUpdate
    <3>4. ASSUME NEW e \in Endpoint, NEW t \in EntityType, NEW l \in LocalId,
                 NEW base, Deactivate(e, t, l, base)
          PROVE  FALSE
      BY <3>1, <3>2, <3>4 DEF Deactivate
    <3>5. ASSUME NEW tenant, ResetTenant(tenant)
          PROVE  FALSE
      BY <3>2, <3>5 DEF ResetTenant
    <3>6. ASSUME NEW e \in Endpoint, NEW t \in EntityType, NEW l \in LocalId,
                 NEW patch \in Patch, NEW base, NEW active, NEW entry,
                 PutCreate(e, t, l, patch, base, active, entry)
          PROVE  objects'[o] = NewObject(e, t, CreateContent(patch), active # FALSE)
      BY <3>2, <3>6 DEF PutCreate
    <3>7. ~UNCHANGED objects
      BY <3>2
    <3> QED
      BY <3>3, <3>4, <3>5, <3>6, <3>7, ChangingSteps
  <2>2. CreateContent(patch) \in Content
    <3>1. \A k \in Attribute : Absent \in StoredAt(k) /\ StoredAt(k) \subseteq Stored
      BY DEF StoredAt, Stored
    <3>2. \A k \in Attribute : CreateContent(patch)[k] \in StoredAt(k)
      BY <3>1, PatchAttributeType DEF CreateContent
    <3> QED
      BY <3>1, <3>2 DEF CreateContent, Content
  <2> QED
    BY <2>1, <2>2, NewRecorded
<1> QED
  BY <1>1, <1>2

\* The history an object carries reconstructs what each attribute held at any
\* base a writer may name, which the three-way merge rests on (put, valueAt).
THEOREM HistoryIsWhole == Spec => []HistoryReconstructs
<1>1. Init => HistoryKept
  BY DEF Init, HistoryKept, Live
<1>2. IInv /\ HistoryKept /\ [Next]_vars => HistoryKept'
  BY HistoryStep
<1>3. HistoryKept => HistoryReconstructs
  BY DEF HistoryKept, HistoryReconstructs, Recorded
<1> QED
  BY <1>1, <1>2, <1>3, Inductive, PTL DEF Spec

----------------------------------------------------------------------------
(* Announcements *)

\* Whom a set of frames tells of an object.
Told(frames, q) == {f.to : f \in {g \in frames : g.object = q}}

LEMMA FramesTell ==
  ASSUME NEW o, NEW q, NEW obj, NEW to, NEW deactivated,
         NEW frames, frames = Frames(o, obj, to, deactivated)
  PROVE  Told(frames, q) = IF q = o THEN to ELSE {}
<1> DEFINE frame(e) == [to |-> e, object |-> o, revision |-> obj.revision,
                        position |-> obj.seq, deactivated |-> deactivated]
<1>1. frames = {frame(e) : e \in to} /\ \A e : frame(e).to = e /\ frame(e).object = o
  BY DEF Frames
<1> HIDE DEF frame
<1>2. /\ \A f \in frames : f.object = o /\ f.to \in to
      /\ \A e \in to : \E f \in frames : f.to = e /\ f.object = o
  BY <1>1
<1> QED
  BY <1>2 DEF Told

\* A change is announced to every endpoint opted into it in its tenant but the
\* one it came from, and nothing is announced of what did not change but to an
\* endpoint that asked (deliver, deliverTo and the request).
THEOREM ChangesAreAnnounced == Spec => AnnouncedToOthers
<1> DEFINE Right(q) == IF Live(q)' /\ objects'[q] # objects[q]
                       THEN Told(published', q) = {e \in endpoints : Entitled(e, objects'[q])}
                                        \ {objects'[q].sourceEndpointID}
                       ELSE \A e, f \in Told(published', q) : e = f
<1>1. ASSUME IInv, Next, NEW q \in Object
      PROVE  Right(q)
  <2>1. objects \in [Object -> CanonicalObject \cup {None}] /\ None \notin CanonicalObject
        /\ TypeOK /\ MappingInverse
    BY <1>1, MarksAssumption DEF IInv, TypeOK
  <2>2. ASSUME NEW o \in Object, NEW obj, obj # None, obj # objects[o],
               NEW deactivated, NEW e, obj.sourceEndpointID = e,
               objects' = [objects EXCEPT ![o] = obj],
               published' = Frames(o, obj, Recipients(obj, e), deactivated)
        PROVE  Right(q)
    <3>1. Told(published', q) = IF q = o THEN Recipients(obj, e) ELSE {}
      BY <2>2, FramesTell
    <3>2. objects'[q] = IF q = o THEN obj ELSE objects[q]
      BY <2>1, <2>2
    <3>3. Recipients(obj, e) = {f \in endpoints : Entitled(f, obj)} \ {e}
      BY DEF Recipients
    <3>4. CASE q = o
      BY <2>2, <3>1, <3>2, <3>3, <3>4 DEF Live
    <3>5. CASE q # o
      BY <3>1, <3>2, <3>5
    <3> QED
      BY <3>4, <3>5
  <2>3. ASSUME published' = {}, objects'[q] \in {None, objects[q]}
        PROVE  Right(q)
    BY <2>3 DEF Live, Told
  <2>4. ASSUME NEW e \in Endpoint, NEW t \in EntityType, NEW l \in LocalId,
               NEW patch \in Patch, NEW base, NEW active, NEW entry,
               PutCreate(e, t, l, patch, base, active, entry)
        PROVE  Right(q)
    <3> DEFINE obj == NewObject(e, t, CreateContent(patch), active # FALSE)
    <3>1. PICK o \in Object \ minted :
            /\ objects' = [objects EXCEPT ![o] = obj]
            /\ published' = Frames(o, obj, Recipients(obj, e), FALSE)
      BY <2>4 DEF PutCreate
    <3>2. obj \in CanonicalObject
      BY <2>1, <2>4, NewObjectType DEF PutCreate
    <3>3. objects[o] = None
      BY <2>1, <3>1 DEF TypeOK, Live
    <3>4. obj.sourceEndpointID = e
      BY DEF NewObject
    <3> HIDE DEF obj, Right
    <3> QED
      BY <2>1, <2>2, <3>1, <3>2, <3>3, <3>4
  <2>5. ASSUME NEW e \in Endpoint, NEW t \in EntityType, NEW l \in LocalId,
               NEW patch \in Patch, NEW base, NEW active \in ActiveSent, NEW entry,
               PutUpdate(e, t, l, patch, base, active, entry)
        PROVE  Right(q)
    <3> DEFINE o == local[<<e, t, l>>]
               obj == Revised(objects[o], e, patch, Changed(objects[o], patch, base), active)
    <3>1. /\ objects' = [objects EXCEPT ![o] = obj]
          /\ published' = Frames(o, obj, Recipients(obj, e), FALSE)
          /\ o # None
      BY <2>5 DEF PutUpdate
    <3>2. o \in Object /\ objects[o] \in CanonicalObject
      BY <2>1, <3>1, NamedObject DEF Live
    <3>3. obj.revision = objects[o].revision + 1 /\ obj.sourceEndpointID = e
          /\ DOMAIN obj = DOMAIN objects[o]
      BY <3>2 DEF Revised, CanonicalObject
    <3>4. obj # objects[o]
      BY <3>2, <3>3 DEF CanonicalObject
    <3>5. obj \in CanonicalObject
      BY <2>1, <2>5, <3>1, <3>2, RevisedType DEF PutUpdate, Changed
    <3> HIDE DEF obj, o, Right
    <3> QED
      BY <2>1, <2>2, <3>1, <3>2, <3>3, <3>4, <3>5
  <2>6. ASSUME NEW e \in Endpoint, NEW t \in EntityType, NEW l \in LocalId,
               NEW base, Deactivate(e, t, l, base)
        PROVE  Right(q)
    <3> DEFINE o == local[<<e, t, l>>]
               obj == [objects[o] EXCEPT !.revision = @ + 1, !.active = FALSE,
                                         !.sourceEndpointID = e, !.seq = seq + 1]
    <3>1. /\ objects' = [objects EXCEPT ![o] = obj]
          /\ published' = Frames(o, obj, Recipients(obj, e), TRUE)
          /\ o # None /\ base = objects[o].revision /\ base < MaxRevision /\ seq < MaxSeq
      BY <2>6 DEF Deactivate
    <3>2. o \in Object /\ objects[o] \in CanonicalObject
      BY <2>1, <3>1, NamedObject DEF Live
    <3> HIDE DEF o
    <3>a. objects[o].revision + 1 \in 1..MaxRevision /\ seq + 1 \in 1..MaxSeq
          /\ objects[o].revision \in Int
      BY <2>1, <3>1, <3>2, SSOTAssumption DEF CanonicalObject, TypeOK
    <3>3. obj.revision = objects[o].revision + 1 /\ obj.sourceEndpointID = e
          /\ obj \in CanonicalObject
      BY <3>2, <3>a DEF CanonicalObject
    <3> HIDE DEF obj
    <3>4. obj # objects[o]
      BY <3>a, <3>3
    <3> HIDE DEF Right
    <3> QED
      BY <2>1, <2>2, <3>1, <3>2, <3>3, <3>4
  <2>7. ASSUME NEW e \in Endpoint, NEW o \in Object, Request(e, o)
        PROVE  Right(q)
    <3>1. published' = Frames(o, objects[o], {e}, FALSE) /\ UNCHANGED objects
      BY <2>7 DEF Request
    <3>2. Told(published', q) = IF q = o THEN {e} ELSE {}
      BY <3>1, FramesTell
    <3> QED
      BY <3>1, <3>2
  <2>8. ASSUME NEW tenant, ResetTenant(tenant)
        PROVE  published' = {} /\ objects'[q] \in {None, objects[q]}
    BY <2>8 DEF ResetTenant
  <2> DEFINE Quiet == published' = {} /\ UNCHANGED objects
  <2>9. /\ \A e, t, l, patch, base, active, entry :
             PutKept(e, t, l, patch, base, active, entry) => Quiet
        /\ \A e, t, l, o : Bind(e, t, l, o) => Quiet
        /\ \A e, pairs : ApplyBindings(e, pairs) => Quiet
        /\ \A e, t, entries : Correct(e, t, entries) => Quiet
        /\ \A e, types : SelectTypes(e, types) => Quiet
        /\ \A e : RemoveEndpoint(e) => Quiet
    BY DEF PutKept, Bind, ApplyBindings, RecordPairs, Correct, SelectTypes, RemoveEndpoint
  <2>10. Quiet => Right(q)
    BY <2>3
  <2> HIDE DEF Right, Quiet
  <2>11. CASE \E e \in Endpoint, t \in EntityType, l \in LocalId :
               \/ \E patch \in Patch, base \in Base, active \in ActiveSent,
                     entry \in EntrySent : Put(e, t, l, patch, base, active, entry)
               \/ \E base \in Base : Deactivate(e, t, l, base)
               \/ \E o \in Object : Bind(e, t, l, o)
    BY <2>4, <2>5, <2>6, <2>9, <2>10, <2>11 DEF Put
  <2>12. CASE \/ \E e \in Endpoint, pairs \in SUBSET (LocalId \X Object) :
                   ApplyBindings(e, pairs)
              \/ \E e \in Endpoint, t \in EntityType, entries \in Entries :
                   Correct(e, t, entries)
              \/ \E e \in Endpoint, types \in SUBSET EntityType : SelectTypes(e, types)
              \/ \E e \in Removable : RemoveEndpoint(e)
    BY <2>9, <2>10, <2>12
  <2> QED
    BY <1>1, <2>3, <2>7, <2>8, <2>11, <2>12 DEF Next
<1>2. IInv /\ [Next]_vars =>
        [\A o \in Object : LET told == {f.to : f \in {g \in published' : g.object = o}} IN
           IF Live(o)' /\ objects'[o] # objects[o]
           THEN told = {e \in endpoints : Entitled(e, objects'[o])}
                         \ {objects'[o].sourceEndpointID}
           ELSE \A e, f \in told : e = f]_vars
  BY <1>1 DEF Told
<1> QED
  BY <1>2, Inductive, PTL DEF Spec, AnnouncedToOthers

----------------------------------------------------------------------------
(* Parents *)

\* A parent the details name is a live party of the tenant.
ParentOK(details, tenant) ==
  details # Absent /\ details.parent # Absent =>
    /\ Live(details.parent)
    /\ objects[details.parent].typ = Party
    /\ objects[details.parent].tenantID = tenant

\* A patch whose references resolve makes no other parent of resolved ones.
LEMMA ParentPatched ==
  ASSUME NEW e \in Endpoint, NEW patch \in Patch, Details \in DOMAIN patch,
         ResolveRefs(e, patch), NEW current \in DetailsValue \cup {Absent},
         ParentOK(current, TenantOf[e])
  PROVE  ParentOK(PatchAttribute(Details, current, patch[Details]), TenantOf[e])
<1> DEFINE sent == patch[Details]
<1>1. CASE sent = Null
  BY <1>1 DEF PatchAttribute, ParentOK
<1>2. CASE sent # Null
  <2>1. sent \in DetailsSent
    BY <1>2, PatchAssumption
  <2>2. sent.partyTypeCode \in {"PERSON", "ORGANIZATION"}
    BY <2>1 DEF DetailsSent
  <2>3. PatchAttribute(Details, current, sent) = MergeDetails(current, sent)
    BY <1>2 DEF PatchAttribute
  <2>4. CASE sent.parent \notin {Null, Keep}
    <3>1. Live(sent.parent) /\ ParentIn(sent.parent, TenantOf[e])
      BY <1>2, <2>4 DEF ResolveRefs
    <3>2. MergeDetails(current, sent).parent = sent.parent
      BY <2>4 DEF MergeDetails
    <3> QED
      BY <2>3, <3>1, <3>2 DEF ParentOK, ParentIn
  <2>5. CASE /\ sent.parent \in {Null, Keep}
             /\ sent.parent = Keep /\ PartyTypeOf(current) = sent.partyTypeCode
    <3>1. current # Absent
      BY <2>2, <2>5 DEF PartyTypeOf
    <3>2. MergeDetails(current, sent).parent = current.parent
      BY <2>5 DEF MergeDetails
    <3> QED
      BY <2>3, <3>1, <3>2 DEF ParentOK
  <2>6. CASE /\ sent.parent \in {Null, Keep}
             /\ ~(sent.parent = Keep /\ PartyTypeOf(current) = sent.partyTypeCode)
    <3>1. MergeDetails(current, sent).parent = Absent
      BY <2>6 DEF MergeDetails
    <3> QED
      BY <2>3, <3>1 DEF ParentOK
  <2> QED
    BY <2>4, <2>5, <2>6
<1> QED
  BY <1>1, <1>2

\* An object that stays keeps its type and tenant.
LEMMA ObjectStays ==
  ASSUME IInv, [Next]_vars, NEW p \in Object, Live(p), objects'[p] # None
  PROVE  objects'[p].typ = objects[p].typ /\ objects'[p].tenantID = objects[p].tenantID
<1>1. TypeOK /\ MappingInverse /\ objects[p] \in CanonicalObject
  BY DEF IInv, TypeOK, Live
<1>2. \/ objects'[p] = objects[p]
      \/ \E e \in Endpoint, patch \in Patch, base \in 1..objects[p].revision,
            active \in ActiveSent :
           /\ Applies(p, patch, base, active)
           /\ objects'[p] = Revised(objects[p], e, patch,
                                    Changed(objects[p], patch, base), active)
           /\ accepted' = [object |-> p, base |-> base]
      \/ \E e \in Endpoint :
           /\ objects[p].active
           /\ objects'[p] = [objects[p] EXCEPT !.revision = @ + 1, !.active = FALSE,
                               !.sourceEndpointID = e, !.seq = seq + 1]
  BY <1>1, ObjectStep
<1> QED
  BY <1>1, <1>2 DEF Revised, CanonicalObject

\* What each step leaves in an object's details was resolved before it.
LEMMA DetailsStep ==
  ASSUME IInv, ParentsResolve, Details \in Attribute, [Next]_vars,
         NEW o \in Object, objects'[o] # None
  PROVE  ParentOK(objects'[o].content[Details], objects'[o].tenantID)
<1>1. /\ TypeOK /\ MappingInverse
      /\ objects \in [Object -> CanonicalObject \cup {None}]
  BY DEF IInv, TypeOK
<1>2. ASSUME NEW q \in Object, Live(q)
      PROVE  /\ objects[q] \in CanonicalObject
             /\ objects[q].content[Details] \in DetailsValue \cup {Absent}
             /\ ParentOK(objects[q].content[Details], objects[q].tenantID)
  BY <1>1, <1>2 DEF ParentsResolve, ParentOK, Live, CanonicalObject, Content, StoredAt
<1>3. CASE objects'[o] = objects[o]
  BY <1>2, <1>3 DEF Live
<1>4. ASSUME NEW e \in Endpoint, NEW t \in EntityType, NEW l \in LocalId,
             NEW patch \in Patch, NEW base, NEW active, NEW entry,
             PutCreate(e, t, l, patch, base, active, entry), objects'[o] # objects[o]
      PROVE  ParentOK(objects'[o].content[Details], objects'[o].tenantID)
  <2>1. objects'[o] = NewObject(e, t, CreateContent(patch), active # FALSE)
        /\ ResolveRefs(e, patch)
    BY <1>1, <1>4 DEF PutCreate, Admitted
  <2>2. /\ objects'[o].tenantID = TenantOf[e]
        /\ objects'[o].content[Details] = IF Details \in DOMAIN patch
             THEN PatchAttribute(Details, Absent, patch[Details]) ELSE Absent
    BY <2>1 DEF NewObject, CreateContent
  <2>3. ParentOK(Absent, TenantOf[e])
    BY DEF ParentOK
  <2> QED
    BY <2>1, <2>2, <2>3, ParentPatched
<1>5. ASSUME NEW e \in Endpoint, NEW t \in EntityType, NEW l \in LocalId,
             NEW patch \in Patch, NEW base, NEW active, NEW entry,
             PutUpdate(e, t, l, patch, base, active, entry), objects'[o] # objects[o]
      PROVE  ParentOK(objects'[o].content[Details], objects'[o].tenantID)
  <2>1. /\ local[<<e, t, l>>] = o /\ o # None /\ ResolveRefs(e, patch)
        /\ objects'[o] = Revised(objects[o], e, patch,
                                 Changed(objects[o], patch, base), active)
    BY <1>1, <1>5 DEF PutUpdate, Admitted
  <2>2. Live(o) /\ objects[o].tenantID = TenantOf[e]
    BY <1>1, <2>1 DEF MappingInverse, LocalResolves
  <2>3. /\ objects'[o].tenantID = objects[o].tenantID
        /\ objects'[o].content[Details] =
             IF Details \in Changed(objects[o], patch, base)
             THEN PatchAttribute(Details, objects[o].content[Details], patch[Details])
             ELSE objects[o].content[Details]
    BY <1>2, <2>1, <2>2 DEF Revised, CanonicalObject, Patched
  <2>4. Details \in Changed(objects[o], patch, base) => Details \in DOMAIN patch
    BY DEF Changed
  <2> QED
    BY <1>2, <2>1, <2>2, <2>3, <2>4, ParentPatched
<1>6. ASSUME NEW e \in Endpoint, NEW t \in EntityType, NEW l \in LocalId,
             NEW base, Deactivate(e, t, l, base), objects'[o] # objects[o]
      PROVE  ParentOK(objects'[o].content[Details], objects'[o].tenantID)
  <2>1. /\ local[<<e, t, l>>] = o /\ o # None
        /\ objects'[o] = [objects[o] EXCEPT !.revision = @ + 1, !.active = FALSE,
                            !.sourceEndpointID = e, !.seq = seq + 1]
    BY <1>1, <1>6 DEF Deactivate
  <2>2. Live(o)
    BY <1>1, <2>1 DEF MappingInverse, LocalResolves
  <2>3. /\ objects'[o].tenantID = objects[o].tenantID
        /\ objects'[o].content = objects[o].content
    BY <1>2, <2>1, <2>2 DEF CanonicalObject
  <2> QED
    BY <1>2, <2>2, <2>3
<1>7. ASSUME NEW tenant, ResetTenant(tenant)
      PROVE  objects'[o] = objects[o]
  BY <1>7 DEF ResetTenant
<1>8. CASE objects'[o] # objects[o]
  <2>1. ~UNCHANGED objects
    BY <1>8
  <2> QED
    BY <1>4, <1>5, <1>6, <1>7, <1>8, <2>1, ChangingSteps
<1> QED
  BY <1>3, <1>8

LEMMA ParentStep ==
  ASSUME IInv, ParentsResolve, [Next]_vars
  PROVE  ParentsResolve'
<1> SUFFICES ASSUME NEW o \in Object, objects'[o] # None, Details \in Attribute,
                    objects'[o].content[Details] # Absent,
                    objects'[o].content[Details].parent # Absent
             PROVE  LET p == objects'[o].content[Details].parent IN
                    /\ objects'[p] # None
                    /\ objects'[p].typ = Party
                    /\ objects'[p].tenantID = objects'[o].tenantID
  BY DEF ParentsResolve, Live
<1> DEFINE details == objects'[o].content[Details]
           p == details.parent
<1>1. /\ Live(p) /\ objects[p].typ = Party /\ objects[p].tenantID = objects'[o].tenantID
  BY DetailsStep DEF ParentOK
<1>2. TypeOK'
  BY TypeStep DEF IInv
<1>3. details \in DetailsValue
  BY <1>2 DEF TypeOK, CanonicalObject, Content, StoredAt
<1>4. p \in Object
  BY <1>3 DEF DetailsValue
<1>5. objects'[p] # None
  <2> SUFFICES ASSUME objects'[p] = None PROVE FALSE
    OBVIOUS
  <2> HIDE DEF p
  <2>1. ~UNCHANGED objects /\ LocalResolves'
        /\ objects \in [Object -> CanonicalObject \cup {None}]
        /\ local \in [LocalKey -> Object \cup {None}]
    BY <1>1, MappingStep DEF Live, IInv, TypeOK, MappingInverse
  <2>2. ASSUME NEW e \in Endpoint, NEW t \in EntityType, NEW l \in LocalId,
               local'[<<e, t, l>>] = p
        PROVE  FALSE
    BY <1>1, <2>1, <2>2, <1>4, SSOTAssumption DEF LocalResolves, Live
  <2>3. ASSUME NEW e \in Endpoint, NEW t \in EntityType, NEW l \in LocalId,
               NEW patch, NEW base, NEW active, NEW entry,
               PutCreate(e, t, l, patch, base, active, entry)
        PROVE  FALSE
    <3>1. PICK q, obj : /\ objects' = [objects EXCEPT ![q] = obj]
                        /\ local' = [local EXCEPT ![<<e, t, l>>] = q]
                        /\ q \in Object
      BY <2>3 DEF PutCreate
    <3>2. local'[<<e, t, l>>] = q /\ q # p
      BY <2>1, <2>2, <3>1 DEF LocalKey
    <3> QED
      BY <1>1, <1>4, <2>1, <3>1, <3>2 DEF Live
  <2>4. ASSUME NEW e \in Endpoint, NEW t \in EntityType, NEW l \in LocalId,
               NEW patch, NEW base, NEW active, NEW entry,
               PutUpdate(e, t, l, patch, base, active, entry)
        PROVE  FALSE
    BY <1>1, <1>4, <2>1, <2>2, <2>4 DEF PutUpdate, Live, mapping
  <2>5. ASSUME NEW e \in Endpoint, NEW t \in EntityType, NEW l \in LocalId,
               NEW base, Deactivate(e, t, l, base)
        PROVE  FALSE
    BY <1>1, <1>4, <2>1, <2>2, <2>5 DEF Deactivate, Live, mapping
  <2>6. ASSUME NEW tenant, ResetTenant(tenant)
        PROVE  FALSE
    <3>1. objects[p].tenantID = tenant /\ objects'[o] = objects[o]
      BY <1>1, <1>4, <2>6 DEF ResetTenant, Live
    <3>2. objects[o].tenantID = tenant /\ objects[o] # None
      BY <1>1, <3>1
    <3> QED
      BY <2>6, <3>2 DEF ResetTenant, Live
  <2> QED
    BY <2>1, <2>3, <2>4, <2>5, <2>6, ChangingSteps
<1> HIDE DEF p
<1> QED
  BY <1>1, <1>4, <1>5, ObjectStays DEF p

\* A parent organization a party names stays a live party of its own tenant,
\* whoever patches, re-types or resets (resolveRefs, mergePatch, ResetTenant).
THEOREM ParentsStay == Spec => []ParentsResolve
<1>1. Init => ParentsResolve
  BY DEF Init, ParentsResolve, Live
<1>2. IInv /\ ParentsResolve /\ [Next]_vars => ParentsResolve'
  BY ParentStep
<1> QED
  BY <1>1, <1>2, Inductive, PTL DEF Spec

\* Only parties have details.
DetailsOfParties ==
  \A o \in Object : Live(o) /\ Details \in Attribute =>
    (objects[o].content[Details] # Absent => objects[o].typ = Party)

\* A parent the details of o name, other than o itself, is an organization.
OrganizationOK(details, o) ==
  details # Absent /\ details.parent \notin {Absent, o} =>
    PartyTypeOf(objects[details.parent].content[Details]) = "ORGANIZATION"

\* A patch whose references resolve names organizations where it names any.
LEMMA OrganizationPatched ==
  ASSUME NEW e \in Endpoint, NEW patch \in Patch, Details \in DOMAIN patch,
         ResolveRefs(e, patch), NEW current \in DetailsValue \cup {Absent},
         NEW o, OrganizationOK(current, o)
  PROVE  OrganizationOK(PatchAttribute(Details, current, patch[Details]), o)
<1> DEFINE sent == patch[Details]
<1>1. CASE sent = Null
  BY <1>1 DEF PatchAttribute, OrganizationOK
<1>2. CASE sent # Null
  <2>1. sent \in DetailsSent
    BY <1>2, PatchAssumption
  <2>2. sent.partyTypeCode \in {"PERSON", "ORGANIZATION"}
    BY <2>1 DEF DetailsSent
  <2>3. PatchAttribute(Details, current, sent) = MergeDetails(current, sent)
    BY <1>2 DEF PatchAttribute
  <2>4. CASE sent.parent \notin {Null, Keep}
    <3>1. ParentIn(sent.parent, TenantOf[e])
      BY <1>2, <2>4 DEF ResolveRefs
    <3>2. MergeDetails(current, sent).parent = sent.parent
      BY <2>4 DEF MergeDetails
    <3> QED
      BY <2>3, <3>1, <3>2 DEF OrganizationOK, ParentIn
  <2>5. CASE sent.parent = Keep /\ PartyTypeOf(current) = sent.partyTypeCode
    <3>1. current # Absent
      BY <2>2, <2>5 DEF PartyTypeOf
    <3>2. MergeDetails(current, sent).parent = current.parent
      BY <2>5 DEF MergeDetails
    <3> QED
      BY <2>3, <3>1, <3>2 DEF OrganizationOK
  <2>6. CASE /\ sent.parent \in {Null, Keep}
             /\ ~(sent.parent = Keep /\ PartyTypeOf(current) = sent.partyTypeCode)
    <3>1. MergeDetails(current, sent).parent = Absent
      BY <2>6 DEF MergeDetails
    <3> QED
      BY <2>3, <3>1 DEF OrganizationOK
  <2> QED
    BY <2>4, <2>5, <2>6
<1> QED
  BY <1>1, <1>2

\* What a local id names is live and of the id's type.
LEMMA TypeOfNamed ==
  ASSUME MappingInverse, NEW e \in Endpoint, NEW t \in EntityType, NEW l \in LocalId,
         NEW o, local[<<e, t, l>>] = o, o # None
  PROVE  Live(o) /\ objects[o].typ = t
BY DEF MappingInverse, LocalResolves

\* What a step makes of an object's details: they stay, or a patch whose
\* references resolve is applied to them, or to none. Only a party is patched
\* so, and only as its being named allows.
LEMMA DetailsWritten ==
  ASSUME IInv, Details \in Attribute, [Next]_vars, NEW o \in Object, objects'[o] # None
  PROVE  \/ Live(o) /\ objects'[o].content[Details] = objects[o].content[Details]
         \/ ~Live(o) /\ objects'[o].content[Details] = Absent
         \/ \E e \in Endpoint, patch \in Patch :
              /\ Details \in DOMAIN patch /\ ResolveRefs(e, patch)
              /\ objects'[o].typ = Party
              /\ IF Live(o)
                 THEN /\ KindChangeAllowed(o, patch)
                      /\ objects'[o].content[Details]
                           = PatchAttribute(Details, objects[o].content[Details], patch[Details])
                 ELSE objects'[o].content[Details]
                        = PatchAttribute(Details, Absent, patch[Details])
<1> DEFINE Goal ==
         \/ Live(o) /\ objects'[o].content[Details] = objects[o].content[Details]
         \/ ~Live(o) /\ objects'[o].content[Details] = Absent
         \/ \E e \in Endpoint, patch \in Patch :
              /\ Details \in DOMAIN patch /\ ResolveRefs(e, patch)
              /\ objects'[o].typ = Party
              /\ IF Live(o)
                 THEN /\ KindChangeAllowed(o, patch)
                      /\ objects'[o].content[Details]
                           = PatchAttribute(Details, objects[o].content[Details], patch[Details])
                 ELSE objects'[o].content[Details]
                        = PatchAttribute(Details, Absent, patch[Details])
<1>1. /\ TypeOK /\ MappingInverse
      /\ objects \in [Object -> CanonicalObject \cup {None}]
  BY DEF IInv, TypeOK
<1>2. CASE objects'[o] = objects[o]
  BY <1>2 DEF Live
<1>3. ASSUME NEW e \in Endpoint, NEW t \in EntityType, NEW l \in LocalId,
             NEW patch \in Patch, NEW base, NEW active, NEW entry,
             PutCreate(e, t, l, patch, base, active, entry), objects'[o] # objects[o]
      PROVE  Goal
  <2>1. /\ objects'[o] = NewObject(e, t, CreateContent(patch), active # FALSE)
        /\ ResolveRefs(e, patch) /\ (Details \in DOMAIN patch => t = Party)
        /\ o \notin minted
    BY <1>1, <1>3 DEF PutCreate, Admitted
  <2>2. ~Live(o)
    BY <1>1, <2>1 DEF TypeOK, Live
  <2>3. /\ objects'[o].typ = t
        /\ objects'[o].content[Details] = IF Details \in DOMAIN patch
             THEN PatchAttribute(Details, Absent, patch[Details]) ELSE Absent
    BY <2>1 DEF NewObject, CreateContent
  <2> QED
    BY <2>1, <2>2, <2>3
<1>4. ASSUME NEW e \in Endpoint, NEW t \in EntityType, NEW l \in LocalId,
             NEW patch \in Patch, NEW base, NEW active, NEW entry,
             PutUpdate(e, t, l, patch, base, active, entry), objects'[o] # objects[o]
      PROVE  Goal
  <2>1. /\ ResolveRefs(e, patch) /\ (Details \in DOMAIN patch => t = Party)
        /\ KindChangeAllowed(o, patch)
        /\ objects'[o] = Revised(objects[o], e, patch,
                                 Changed(objects[o], patch, base), active)
    BY <1>1, <1>4 DEF PutUpdate, Admitted, Applies
  <2>2. Live(o) /\ objects[o].typ = t
    <3>1. local[<<e, t, l>>] = o /\ o # None
      BY <1>1, <1>4 DEF PutUpdate
    <3> QED
      BY <1>1, <3>1, TypeOfNamed
  <2>3. /\ objects'[o].typ = objects[o].typ
        /\ objects'[o].content[Details] =
             IF Details \in Changed(objects[o], patch, base)
             THEN PatchAttribute(Details, objects[o].content[Details], patch[Details])
             ELSE objects[o].content[Details]
    BY <1>1, <2>1, <2>2 DEF Revised, CanonicalObject, Patched, Live
  <2>4. Details \in Changed(objects[o], patch, base) => Details \in DOMAIN patch
    BY DEF Changed
  <2> QED
    BY <2>1, <2>2, <2>3, <2>4
<1>5. ASSUME NEW e \in Endpoint, NEW t \in EntityType, NEW l \in LocalId,
             NEW base, Deactivate(e, t, l, base), objects'[o] # objects[o]
      PROVE  Goal
  <2>1. /\ local[<<e, t, l>>] = o /\ o # None
        /\ objects'[o] = [objects[o] EXCEPT !.revision = @ + 1, !.active = FALSE,
                            !.sourceEndpointID = e, !.seq = seq + 1]
    BY <1>1, <1>5 DEF Deactivate
  <2>2. Live(o)
    BY <1>1, <2>1 DEF MappingInverse, LocalResolves
  <2> QED
    BY <1>1, <2>1, <2>2 DEF CanonicalObject, Live
<1>6. ASSUME NEW tenant, ResetTenant(tenant)
      PROVE  objects'[o] = objects[o]
  BY <1>6 DEF ResetTenant
<1> HIDE DEF Goal
<1>7. ASSUME objects'[o] # objects[o]
      PROVE  Goal
  <2>1. ~UNCHANGED objects
    BY <1>7
  <2> QED
    BY <1>3, <1>4, <1>5, <1>6, <1>7, <2>1, ChangingSteps
<1>8. (objects'[o] = objects[o]) => Goal
  BY <1>2 DEF Goal
<1> QED
  BY <1>7, <1>8 DEF Goal

LEMMA DetailsOfPartiesStep ==
  ASSUME IInv, DetailsOfParties, [Next]_vars
  PROVE  DetailsOfParties'
<1> SUFFICES ASSUME NEW o \in Object, objects'[o] # None, Details \in Attribute,
                    objects'[o].content[Details] # Absent
             PROVE  objects'[o].typ = Party
  BY DEF DetailsOfParties, Live
<1>1. Live(o) => objects'[o].typ = objects[o].typ
  BY ObjectStays
<1> QED
  BY <1>1, DetailsWritten DEF DetailsOfParties

LEMMA OrganizationStep ==
  ASSUME IInv, ParentsResolve, DetailsOfParties, ParentsOfOthersAreOrganizations,
         [Next]_vars
  PROVE  ParentsOfOthersAreOrganizations'
<1> SUFFICES ASSUME NEW o \in Object, objects'[o] # None, Details \in Attribute,
                    objects'[o].content[Details] # Absent,
                    objects'[o].content[Details].parent \notin {Absent, o}
             PROVE  PartyTypeOf(objects'[objects'[o].content[Details].parent].content[Details])
                      = "ORGANIZATION"
  BY DEF ParentsOfOthersAreOrganizations, Live, PartyTypeOf
<1> DEFINE p == objects'[o].content[Details].parent
<1>1. Live(p)
  BY DetailsStep DEF ParentOK
<1>2. objects'[p] # None
  BY ParentStep DEF ParentsResolve, Live
<1>3. p \in Object
  <2>1. TypeOK'
    BY TypeStep DEF IInv
  <2>2. objects'[o].content[Details] \in DetailsValue
    BY <2>1 DEF TypeOK, CanonicalObject, Content, StoredAt
  <2> QED
    BY <2>2 DEF DetailsValue
<1>4. /\ objects \in [Object -> CanonicalObject \cup {None}]
      /\ objects' \in [Object -> CanonicalObject \cup {None}]'
  BY TypeStep DEF IInv, TypeOK
<1>5. OrganizationOK(objects'[o].content[Details], o)
  <2>1. OrganizationOK(Absent, o)
    BY DEF OrganizationOK
  <2>2. ASSUME Live(o)
        PROVE  /\ objects[o].content[Details] \in DetailsValue \cup {Absent}
               /\ OrganizationOK(objects[o].content[Details], o)
    BY <1>4, <2>2 DEF ParentsOfOthersAreOrganizations, OrganizationOK, Live,
                      CanonicalObject, Content, StoredAt
  <2> QED
    BY <2>1, <2>2, DetailsWritten, OrganizationPatched
<1>6. PartyTypeOf(objects[p].content[Details]) = "ORGANIZATION"
  BY <1>5 DEF OrganizationOK
<1> HIDE DEF p
<1>7. p # o
  BY DEF p
<1>8. CASE objects'[o] = objects[o]
  \* o names p already, so p may not stop being an organization.
  <2>1. NamedAsParent(p)
    BY <1>8 DEF NamedAsParent, DetailsOfParties, Live, p
  <2>2. \A patch : KindChangeAllowed(p, patch) /\ Details \in DOMAIN patch =>
          PartyTypeOf(PatchAttribute(Details, objects[p].content[Details], patch[Details]))
            = "ORGANIZATION"
    BY <1>6, <2>1 DEF KindChangeAllowed, Patched
  <2> QED
    <3>1. CASE objects'[p].content[Details] = objects[p].content[Details]
      BY <1>6, <3>1 DEF p
    <3>2. CASE objects'[p].content[Details] # objects[p].content[Details]
      <4>1. \E patch \in Patch :
              /\ Details \in DOMAIN patch /\ KindChangeAllowed(p, patch)
              /\ objects'[p].content[Details]
                   = PatchAttribute(Details, objects[p].content[Details], patch[Details])
        BY <1>1, <1>2, <1>3, <3>2, DetailsWritten
      <4> QED
        BY <2>2, <4>1 DEF p
    <3> QED
      BY <3>1, <3>2
<1>9. CASE objects'[o] # objects[o]
  \* One object at a time is written, and it is o.
  <2>1. objects'[p] = objects[p]
    <3>1. ~UNCHANGED objects
      BY <1>9
    <3>2. ASSUME NEW e \in Endpoint, NEW t \in EntityType, NEW l \in LocalId,
                 NEW patch, NEW base, NEW active, NEW entry,
                 PutCreate(e, t, l, patch, base, active, entry)
          PROVE  objects'[p] = objects[p]
      <4>1. PICK q, obj : objects' = [objects EXCEPT ![q] = obj]
        BY <3>2 DEF PutCreate
      <4> QED
        BY <1>3, <1>4, <1>7, <1>9, <4>1
    <3>3. ASSUME NEW e \in Endpoint, NEW t \in EntityType, NEW l \in LocalId,
                 NEW patch, NEW base, NEW active, NEW entry,
                 PutUpdate(e, t, l, patch, base, active, entry)
          PROVE  objects'[p] = objects[p]
      <4>1. PICK q, obj : objects' = [objects EXCEPT ![q] = obj]
        BY <3>3 DEF PutUpdate
      <4> QED
        BY <1>3, <1>4, <1>7, <1>9, <4>1
    <3>4. ASSUME NEW e \in Endpoint, NEW t \in EntityType, NEW l \in LocalId,
                 NEW base, Deactivate(e, t, l, base)
          PROVE  objects'[p] = objects[p]
      <4>1. PICK q, obj : objects' = [objects EXCEPT ![q] = obj]
        BY <3>4 DEF Deactivate
      <4> QED
        BY <1>3, <1>4, <1>7, <1>9, <4>1
    <3>5. ASSUME NEW tenant, ResetTenant(tenant)
          PROVE  objects'[p] = objects[p]
      BY <1>2, <1>3, <3>5 DEF ResetTenant
    <3> QED
      BY <3>1, <3>2, <3>3, <3>4, <3>5, ChangingSteps
  <2> QED
    BY <1>6, <2>1 DEF p
<1> QED
  BY <1>8, <1>9 DEF p

\* Whom a party names as its parent organization, itself apart, stays an
\* organization: a write that would make it a person is refused while anybody
\* names it (resolveRefs, checkKindChange).
THEOREM ParentsStayOrganizations == Spec => []ParentsOfOthersAreOrganizations
<1>1. Init => DetailsOfParties /\ ParentsOfOthersAreOrganizations
  BY DEF Init, DetailsOfParties, ParentsOfOthersAreOrganizations, Live
<1>2. IInv /\ ParentsResolve /\ DetailsOfParties /\ ParentsOfOthersAreOrganizations
        /\ [Next]_vars
      => DetailsOfParties' /\ ParentsOfOthersAreOrganizations'
  BY DetailsOfPartiesStep, OrganizationStep
<1> QED
  BY <1>1, <1>2, Inductive, ParentsStay, PTL DEF Spec
=============================================================================
