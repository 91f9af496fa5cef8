-------------------------------- MODULE SSOT --------------------------------
(***************************************************************************)
(* The single source of truth agrirouter keeps (testrouter's `store`):     *)
(* canonical objects with their revisions, and the identifier mapping that *)
(* says what each endpoint calls each object.                              *)
(*                                                                         *)
(* Every operation runs under the store's one mutex, so it is one action.  *)
(* A request first looks its endpoint up under the mutex and takes the     *)
(* mutex again for the operation: `late` holds the endpoints a user        *)
(* removed between the two.                                                *)
(*                                                                         *)
(* A request that is refused and changes nothing is a stuttering step and  *)
(* has no action. Attribute values are opaque except a party's details,    *)
(* whose party type and parent organization the store looks into; the      *)
(* other reference slots carry no condition beyond that the target exists  *)
(* in the tenant, which the parent reference stands for.                   *)
(***************************************************************************)
EXTENDS Integers, FiniteSets

CONSTANTS
  Endpoint,     \* agrirouter endpoint ids; never reused
  Tenant,
  TenantOf,     \* the tenant of each endpoint
  EntityType,
  Party,        \* the entity type whose details the store looks into
  LocalId,      \* the identifiers participants use
  Object,       \* the agrirouter ids uuid.New hands out; never reused
  Attribute,    \* content attributes
  Details,      \* the attribute holding a party's details
  Value,        \* values of every other attribute
  Patch,        \* the merge patches a write may carry
  ActiveSent,   \* what a write may say about `active`
  EntrySent,    \* whether a write carries a local entry
  Removable,    \* bound: endpoints a user may remove
  Resettable,   \* bound: tenants a user may reset
  MaxRevision,  \* bound: writes to one object
  MaxSeq        \* bound: numbered changes

CONSTANTS None, Absent, Null, Keep, Omitted, NoBase

ASSUME SSOTAssumption ==
  /\ TenantOf \in [Endpoint -> Tenant]
  /\ None \notin Object \cup LocalId
  /\ ActiveSent \subseteq BOOLEAN \cup {Omitted}
  /\ EntrySent \subseteq BOOLEAN
  /\ Removable \subseteq Endpoint
  /\ Resettable \subseteq Tenant
  /\ NoBase \notin Int
  /\ Omitted \notin BOOLEAN
  /\ MaxRevision \in Nat \ {0}
  /\ MaxSeq \in Nat

VARIABLES
  objects,      \* canonical objects; None where the id names nothing
  minted,       \* ids handed out so far
  local,        \* (endpoint, type, localId) -> object
  canonical,    \* (endpoint, object) -> localId: the same mapping read back
  localEntries, \* the local id under which an endpoint last sent its entry
  endpoints,    \* endpoints that exist
  late,         \* removed endpoints with a request already past its look-up
  toggles,      \* the user's selection per endpoint
  seq,          \* number of the latest change
  published,    \* entity frames the last operation handed to the hub
  accepted      \* the update the last operation was answered a revision for:
                \* its object and the base it was made from, or None

mapping == <<local, canonical>>
vars == <<objects, minted, local, canonical, localEntries, endpoints, late,
          toggles, seq, published, accepted>>

LocalKey == Endpoint \X EntityType \X LocalId

----------------------------------------------------------------------------
(* Content and merge patches *)

PartyTypeOf(details) ==
  IF details = Absent THEN "UNKNOWN" ELSE details.partyTypeCode

\* Details replace whole when the party type changes and merge otherwise.
MergeDetails(current, patch) ==
  [partyTypeCode |-> patch.partyTypeCode,
   parent |-> IF patch.parent \notin {Null, Keep} THEN patch.parent
              ELSE IF /\ patch.parent = Keep
                      /\ PartyTypeOf(current) = patch.partyTypeCode
              THEN current.parent
              ELSE Absent]

PatchAttribute(k, current, patch) ==
  IF patch = Null THEN Absent
  ELSE IF k = Details THEN MergeDetails(current, patch)
  ELSE patch

\* What an attribute held as of a revision: its latest entry not after it.
ValueAt(obj, k, revision) ==
  LET upTo == {h \in obj.history[k] : h.revision <= revision} IN
  IF upTo = {} THEN Absent
  ELSE (CHOOSE h \in upTo : \A g \in upTo : g.revision <= h.revision).value

----------------------------------------------------------------------------
(* Delivery and entitlement *)

Live(o) == objects[o] # None

Entitled(e, obj) == TenantOf[e] = obj.tenantID /\ obj.typ \in toggles[e]

\* Variant the runs must reject: a change echoes to its origin.
RecipientsWithOrigin(obj, exclude) == {e \in endpoints : Entitled(e, obj)}

Recipients(obj, exclude) == {e \in endpoints \ {exclude} : Entitled(e, obj)}

\* One frame per recipient, all at the object's position.
Frames(o, obj, to, deactivated) ==
  {[to |-> e, object |-> o, revision |-> obj.revision, position |-> obj.seq,
    deactivated |-> deactivated] : e \in to}

\* The look-up of the acting endpoint succeeded; a late request is spent.
Acting(e) ==
  /\ e \in endpoints \cup late
  /\ late' = late \ {e}

RecordLocalEntry(e, o, l, sent) ==
  localEntries' = [localEntries EXCEPT ![<<e, o>>] = IF sent THEN l ELSE None]

----------------------------------------------------------------------------
(* Writing an entity *)

\* Variant the runs must reject: the parent may be another tenant's.
ParentInAnyTenant(parent, tenant) ==
  /\ objects[parent].typ = Party
  /\ PartyTypeOf(objects[parent].content[Details]) = "ORGANIZATION"

ParentIn(parent, tenant) ==
  /\ objects[parent].typ = Party
  /\ objects[parent].tenantID = tenant
  /\ PartyTypeOf(objects[parent].content[Details]) = "ORGANIZATION"

\* The parent a patch names is an organization of the writer's tenant.
ResolveRefs(e, patch) ==
  (Details \in DOMAIN patch /\ patch[Details] # Null) =>
    LET parent == patch[Details].parent IN
    parent \notin {Keep, Null} =>
      /\ Live(parent)
      /\ ParentIn(parent, TenantOf[e])

NamedAsParent(o) ==
  \E q \in Object : /\ Live(q)
                    /\ objects[q].typ = Party
                    /\ objects[q].content[Details] # Absent
                    /\ objects[q].content[Details].parent = o

\* The order of put's checks before it looks the local id up.
Admitted(e, t, patch) ==
  /\ Acting(e)
  /\ t \in toggles[e]
  /\ Details \in DOMAIN patch => t = Party
  /\ ResolveRefs(e, patch)

CreateContent(patch) ==
  [k \in Attribute |-> IF k \in DOMAIN patch
                       THEN PatchAttribute(k, Absent, patch[k]) ELSE Absent]

\* Variant the runs must reject: counting revisions from zero.
NewObjectFromZero(e, t, content, active) ==
  [typ |-> t, tenantID |-> TenantOf[e], revision |-> 0, active |-> active,
   sourceEndpointID |-> e, seq |-> seq + 1, content |-> content,
   history |-> [k \in Attribute |-> {}]]

NewObject(e, t, content, active) ==
  [typ |-> t, tenantID |-> TenantOf[e], revision |-> 1, active |-> active,
   sourceEndpointID |-> e, seq |-> seq + 1, content |-> content,
   history |-> [k \in Attribute |->
                  IF content[k] = Absent THEN {}
                  ELSE {[revision |-> 1, value |-> content[k]]}]]

PutCreate(e, t, l, patch, base, active, entry) ==
  /\ Admitted(e, t, patch)
  /\ local[<<e, t, l>>] = None
  /\ base = NoBase
  /\ seq < MaxSeq
  /\ \E o \in Object \ minted :
       LET obj == NewObject(e, t, CreateContent(patch), active # FALSE) IN
       /\ objects' = [objects EXCEPT ![o] = obj]
       /\ minted' = minted \cup {o}
       /\ local' = [local EXCEPT ![<<e, t, l>>] = o]
       /\ canonical' = [canonical EXCEPT ![<<e, o>>] = l]
       /\ RecordLocalEntry(e, o, l, entry)
       /\ published' = Frames(o, obj, Recipients(obj, e), FALSE)
  /\ seq' = seq + 1
  /\ accepted' = None
  /\ UNCHANGED <<endpoints, toggles>>

\* Variant the runs must reject: any stated `active` counts as a change.
ActiveStated(obj, active) == active # Omitted

ActiveChanged(obj, active) == active # Omitted /\ active # obj.active

Patched(obj, patch, k) == PatchAttribute(k, obj.content[k], patch[k])

Intended(obj, patch, base, k) ==
  PatchAttribute(k, ValueAt(obj, k, base), patch[k])

\* Variant the runs must reject: only removing the details is refused.
KindClearingAllowed(o, patch) ==
  (/\ Details \in DOMAIN patch
   /\ PartyTypeOf(objects[o].content[Details]) = "ORGANIZATION"
   /\ patch[Details] = Null)
     => ~NamedAsParent(o)

KindChangeAllowed(o, patch) ==
  LET obj == objects[o] IN
  (/\ Details \in DOMAIN patch
   /\ PartyTypeOf(obj.content[Details]) = "ORGANIZATION"
   /\ PartyTypeOf(Patched(obj, patch, Details)) # "ORGANIZATION")
     => ~NamedAsParent(o)

ChangesNothing(obj, patch, active) ==
  /\ ~ActiveChanged(obj, active)
  /\ \A k \in DOMAIN patch : Patched(obj, patch, k) = obj.content[k]

\* Variant the runs must reject: the last writer wins unless it removes.
ConflictsOnRemoval(obj, patch, base, k) ==
  /\ patch[k] = Null
  /\ obj.content[k] # ValueAt(obj, k, base)
  /\ obj.content[k] # Absent

\* Both the write and somebody else changed the attribute, and differently.
Conflicts(obj, patch, base, k) ==
  /\ Intended(obj, patch, base, k) # ValueAt(obj, k, base)
  /\ obj.content[k] # ValueAt(obj, k, base)
  /\ Intended(obj, patch, base, k) # obj.content[k]

Changed(obj, patch, base) ==
  {k \in DOMAIN patch : /\ Intended(obj, patch, base, k) # ValueAt(obj, k, base)
                        /\ Patched(obj, patch, k) # obj.content[k]}

\* put gets past every refusal and produces a revision.
Applies(o, patch, base, active) ==
  LET obj == objects[o] IN
  /\ KindChangeAllowed(o, patch)
  /\ ~ChangesNothing(obj, patch, active)
  /\ base \in 1..obj.revision
  /\ \A k \in DOMAIN patch : ~Conflicts(obj, patch, base, k)
  /\ Changed(obj, patch, base) # {} \/ ActiveChanged(obj, active)

\* Variant the runs must reject: a removal leaves no trace in the history.
RevisedForgettingRemovals(obj, e, patch, changed, active) ==
  LET revision == obj.revision + 1
      kept == {k \in changed : Patched(obj, patch, k) # Absent} IN
  [obj EXCEPT
     !.revision = revision,
     !.active = IF active = Omitted THEN @ ELSE active,
     !.sourceEndpointID = e,
     !.seq = seq + 1,
     !.content = [k \in Attribute |->
                    IF k \in changed THEN Patched(obj, patch, k) ELSE @[k]],
     !.history = [k \in Attribute |->
                    IF k \in kept
                    THEN @[k] \cup {[revision |-> revision,
                                     value |-> Patched(obj, patch, k)]}
                    ELSE @[k]]]

Revised(obj, e, patch, changed, active) ==
  LET revision == obj.revision + 1 IN
  [obj EXCEPT
     !.revision = revision,
     !.active = IF active = Omitted THEN @ ELSE active,
     !.sourceEndpointID = e,
     !.seq = seq + 1,
     !.content = [k \in Attribute |->
                    IF k \in changed THEN Patched(obj, patch, k) ELSE @[k]],
     !.history = [k \in Attribute |->
                    IF k \in changed
                    THEN @[k] \cup {[revision |-> revision,
                                     value |-> Patched(obj, patch, k)]}
                    ELSE @[k]]]

PutUpdate(e, t, l, patch, base, active, entry) ==
  LET o == local[<<e, t, l>>] IN
  /\ Admitted(e, t, patch)
  /\ o # None
  /\ Applies(o, patch, base, active)
  /\ objects[o].revision < MaxRevision
  /\ seq < MaxSeq
  /\ LET changed == Changed(objects[o], patch, base)
         obj == Revised(objects[o], e, patch, changed, active) IN
     /\ objects' = [objects EXCEPT ![o] = obj]
     /\ published' = Frames(o, obj, Recipients(obj, e), FALSE)
  /\ RecordLocalEntry(e, o, l, entry)
  /\ seq' = seq + 1
  /\ accepted' = [object |-> o, base |-> base]
  /\ UNCHANGED <<minted, mapping, endpoints, toggles>>

\* A no-op, or a write refused after its local id resolved: what it says of
\* its local entry is kept whatever else becomes of it.
PutKept(e, t, l, patch, base, active, entry) ==
  LET o == local[<<e, t, l>>] IN
  /\ Admitted(e, t, patch)
  /\ o # None
  /\ ~Applies(o, patch, base, active)
  /\ RecordLocalEntry(e, o, l, entry)
  /\ published' = {}
  /\ accepted' = None
  /\ UNCHANGED <<objects, minted, mapping, endpoints, toggles, seq>>

Put(e, t, l, patch, base, active, entry) ==
  \/ PutCreate(e, t, l, patch, base, active, entry)
  \/ PutUpdate(e, t, l, patch, base, active, entry)
  \/ PutKept(e, t, l, patch, base, active, entry)

Deactivate(e, t, l, base) ==
  LET o == local[<<e, t, l>>] IN
  /\ Acting(e)
  /\ t \in toggles[e]
  /\ o # None
  /\ objects[o].active
  /\ base = objects[o].revision
  /\ base < MaxRevision /\ seq < MaxSeq
  /\ LET obj == [objects[o] EXCEPT !.revision = @ + 1, !.active = FALSE,
                                   !.sourceEndpointID = e, !.seq = seq + 1] IN
     /\ objects' = [objects EXCEPT ![o] = obj]
     /\ published' = Frames(o, obj, Recipients(obj, e), TRUE)
  /\ seq' = seq + 1
  /\ accepted' = [object |-> o, base |-> base]
  /\ UNCHANGED <<minted, mapping, localEntries, endpoints, toggles>>

\* A requested object goes to whoever asked, its last writer included.
Request(e, o) ==
  /\ Acting(e)
  /\ Live(o)
  /\ Entitled(e, objects[o])
  /\ published' = Frames(o, objects[o], {e}, FALSE)
  /\ accepted' = None
  /\ UNCHANGED <<objects, minted, mapping, localEntries, endpoints, toggles, seq>>

----------------------------------------------------------------------------
(* The identifier mapping *)

\* Variant the runs must reject: the object may have a local id already.
BindableTwice(e, l, o) ==
  /\ Live(o)
  /\ objects[o].tenantID = TenantOf[e]
  /\ objects[o].typ \in toggles[e]
  /\ local[<<e, objects[o].typ, l>>] = None

\* bindLocked would record the pair rather than refuse it or find it recorded.
Bindable(e, l, o) ==
  /\ Live(o)
  /\ objects[o].tenantID = TenantOf[e]
  /\ objects[o].typ \in toggles[e]
  /\ local[<<e, objects[o].typ, l>>] = None
  /\ canonical[<<e, o>>] = None

\* The effect of recording a set of pairs with distinct ids on both sides.
RecordPairs(e, pairs) ==
  LET named == {p[2] : p \in pairs} IN
  /\ local' = [k \in LocalKey |->
       IF k[1] = e /\ \E o \in named : <<k[3], o>> \in pairs /\ objects[o].typ = k[2]
       THEN CHOOSE o \in named : <<k[3], o>> \in pairs /\ objects[o].typ = k[2]
       ELSE local[k]]
  /\ canonical' = [k \in Endpoint \X Object |->
       IF k[1] = e /\ k[2] \in named
       THEN CHOOSE l \in LocalId : <<l, k[2]>> \in pairs
       ELSE canonical[k]]
  /\ localEntries' = [k \in Endpoint \X Object |->
       IF k[1] = e /\ k[2] \in named THEN None ELSE localEntries[k]]
  /\ published' = {}
  /\ accepted' = None
  /\ UNCHANGED <<objects, minted, endpoints, toggles, seq>>

Bind(e, t, l, o) ==
  /\ Acting(e)
  /\ Live(o) /\ objects[o].typ = t
  /\ Bindable(e, l, o)
  /\ RecordPairs(e, {<<l, o>>})

\* Two pairs of one request name the same thing: neither is recorded.
DuplicateInRequest(pairs, p) ==
  \E q \in pairs \ {p} :
    \/ q[2] = p[2]
    \/ /\ q[1] = p[1]
       /\ Live(q[2]) /\ Live(p[2])
       /\ objects[q[2]].typ = objects[p[2]].typ

\* The bindings that confirm a reconciliation, each recorded or rejected on
\* its own. Whether the load state admits the confirmation is InitialLoad's.
ApplyBindings(e, pairs) ==
  LET recorded == {p \in pairs : /\ ~DuplicateInRequest(pairs, p)
                                 /\ Bindable(e, p[1], p[2])} IN
  /\ Acting(e)
  /\ recorded # {}
  /\ RecordPairs(e, recorded)

\* Variant the runs must reject: only entries removed outright are dropped.
DroppedRemoved(e, t, entries) ==
  {local[<<e, t, l>>] : l \in {m \in DOMAIN entries : entries[m] = None}} \ {None}

\* The objects the listed local ids named.
Dropped(e, t, entries) == {local[<<e, t, l>>] : l \in DOMAIN entries} \ {None}

\* entries maps each listed local id to an object, or to None. Every listed
\* pair is dropped before any is written, so a swap is one call.
Correct(e, t, entries) ==
  LET listed == DOMAIN entries
      targets == {entries[l] : l \in listed} \ {None}
      dropped == Dropped(e, t, entries) IN
  /\ Acting(e)
  /\ t \in toggles[e]
  /\ \A l, m \in listed : entries[l] = entries[m] /\ entries[l] # None => l = m
  /\ \A o \in targets : /\ Live(o)
                        /\ objects[o].typ = t
                        /\ objects[o].tenantID = TenantOf[e]
                        /\ canonical[<<e, o>>] \in listed \cup {None}
  /\ local' = [k \in LocalKey |-> IF k[1] = e /\ k[2] = t /\ k[3] \in listed
                                  THEN entries[k[3]] ELSE local[k]]
  /\ canonical' = [k \in Endpoint \X Object |->
       IF k[1] # e THEN canonical[k]
       ELSE IF k[2] \in targets THEN CHOOSE l \in listed : entries[l] = k[2]
       ELSE IF k[2] \in dropped THEN None
       ELSE canonical[k]]
  /\ localEntries' = [k \in Endpoint \X Object |->
       IF k[1] = e /\ k[2] \in dropped THEN None ELSE localEntries[k]]
  /\ published' = {}
  /\ accepted' = None
  /\ UNCHANGED <<objects, minted, endpoints, toggles, seq>>

----------------------------------------------------------------------------
(* What users do in agrirouter *)

\* The selection itself; what it does to the initial load is InitialLoad's.
SelectTypes(e, types) ==
  /\ e \in endpoints
  /\ types # toggles[e]
  /\ toggles' = [toggles EXCEPT ![e] = types]
  /\ published' = {}
  /\ accepted' = None
  /\ UNCHANGED <<objects, minted, mapping, localEntries, endpoints, late, seq>>

\* The endpoint's mapping goes with it. A request of its own that had already
\* resolved the endpoint still holds it, selection included.
RemoveEndpoint(e) ==
  /\ e \in endpoints
  /\ local' = [k \in LocalKey |-> IF k[1] = e THEN None ELSE local[k]]
  /\ canonical' = [k \in Endpoint \X Object |-> IF k[1] = e THEN None ELSE canonical[k]]
  /\ localEntries' = [k \in Endpoint \X Object |->
       IF k[1] = e /\ canonical[k] # None THEN None ELSE localEntries[k]]
  /\ endpoints' = endpoints \ {e}
  /\ \E inFlight \in SUBSET {e} : late' = late \cup inFlight
  /\ published' = {}
  /\ accepted' = None
  /\ UNCHANGED <<objects, minted, toggles, seq>>

\* The one hard removal: every object of the tenant, every pair for them, and
\* every selection in it.
ResetTenant(tenant) ==
  LET wiped == {o \in Object : Live(o) /\ objects[o].tenantID = tenant} IN
  /\ seq < MaxSeq
  /\ objects' = [o \in Object |-> IF o \in wiped THEN None ELSE objects[o]]
  /\ local' = [k \in LocalKey |-> IF local[k] \in wiped THEN None ELSE local[k]]
  /\ canonical' = [k \in Endpoint \X Object |->
       IF k[2] \in wiped THEN None ELSE canonical[k]]
  /\ localEntries' = [k \in Endpoint \X Object |->
       IF k[2] \in wiped THEN None ELSE localEntries[k]]
  /\ toggles' = [e \in Endpoint |->
       IF e \in endpoints /\ TenantOf[e] = tenant THEN {} ELSE toggles[e]]
  /\ seq' = seq + 1
  /\ published' = {}
  /\ accepted' = None
  /\ UNCHANGED <<minted, endpoints, late>>

----------------------------------------------------------------------------

Init ==
  /\ objects = [o \in Object |-> None]
  /\ minted = {}
  /\ local = [k \in LocalKey |-> None]
  /\ canonical = [k \in Endpoint \X Object |-> None]
  /\ localEntries = [k \in Endpoint \X Object |-> None]
  /\ endpoints = Endpoint
  /\ late = {}
  /\ toggles = [e \in Endpoint |-> {}]
  /\ seq = 0
  /\ published = {}
  /\ accepted = None

Base == 0..MaxRevision \cup {NoBase}

Entries == UNION {[listed -> Object \cup {None}] : listed \in SUBSET LocalId \ {{}}}

Next ==
  \/ \E e \in Endpoint, t \in EntityType, l \in LocalId :
       \/ \E patch \in Patch, base \in Base, active \in ActiveSent, entry \in EntrySent :
            Put(e, t, l, patch, base, active, entry)
       \/ \E base \in Base : Deactivate(e, t, l, base)
       \/ \E o \in Object : Bind(e, t, l, o)
  \/ \E e \in Endpoint, o \in Object : Request(e, o)
  \/ \E e \in Endpoint, pairs \in SUBSET (LocalId \X Object) : ApplyBindings(e, pairs)
  \/ \E e \in Endpoint, t \in EntityType, entries \in Entries : Correct(e, t, entries)
  \/ \E e \in Endpoint, types \in SUBSET EntityType : SelectTypes(e, types)
  \/ \E e \in Removable : RemoveEndpoint(e)
  \/ \E tenant \in Resettable : ResetTenant(tenant)

Spec == Init /\ [][Next]_vars

----------------------------------------------------------------------------
(* Types *)

DetailsValue == [partyTypeCode : {"PERSON", "ORGANIZATION"},
                 parent : Object \cup {Absent}]

DetailsSent == [partyTypeCode : {"PERSON", "ORGANIZATION"},
                parent : Object \cup {Keep, Null}]

StoredAt(k) == {Absent} \cup IF k = Details THEN DetailsValue ELSE Value

Stored == Value \cup DetailsValue \cup {Absent}

Entry == [revision : 1..MaxRevision, value : Stored]

Content == {c \in [Attribute -> Stored] : \A k \in Attribute : c[k] \in StoredAt(k)}

History == {h \in [Attribute -> SUBSET Entry] :
              \A k \in Attribute : \A entry \in h[k] : entry.value \in StoredAt(k)}

CanonicalObject ==
  [typ : EntityType, tenantID : Tenant, revision : 1..MaxRevision,
   active : BOOLEAN, sourceEndpointID : Endpoint, seq : 1..MaxSeq,
   content : Content, history : History]

ASSUME PatchAssumption ==
  \A patch \in Patch :
    /\ DOMAIN patch \subseteq Attribute
    /\ \A k \in DOMAIN patch :
         patch[k] \in {Null} \cup IF k = Details THEN DetailsSent ELSE Value

\* The marks for "nothing" are none of the values they stand in for.
ASSUME MarksAssumption ==
  /\ None \notin CanonicalObject
  /\ Absent \notin DetailsValue

Frame == [to : Endpoint, object : Object, revision : 1..MaxRevision,
          position : 1..MaxSeq, deactivated : BOOLEAN]

\* Every variable of the store holds a value of its type, and only ids that
\* were handed out name an object.
TypeOK ==
  /\ objects \in [Object -> CanonicalObject \cup {None}]
  /\ minted \in SUBSET Object
  /\ \A o \in Object : Live(o) => o \in minted
  /\ local \in [LocalKey -> Object \cup {None}]
  /\ canonical \in [Endpoint \X Object -> LocalId \cup {None}]
  /\ localEntries \in [Endpoint \X Object -> LocalId \cup {None}]
  /\ endpoints \in SUBSET Endpoint
  /\ late \in SUBSET Endpoint
  /\ toggles \in [Endpoint -> SUBSET EntityType]
  /\ seq \in 0..MaxSeq
  /\ published \in SUBSET Frame
  /\ accepted \in [object : Object, base : 1..MaxRevision] \cup {None}

----------------------------------------------------------------------------
(* Safety: the identifier mapping *)

\* What an endpoint's local id resolves to is a live object of that type in
\* the endpoint's own tenant, and that endpoint calls it by that id.
LocalResolves ==
  \A e \in Endpoint, t \in EntityType, l \in LocalId :
    LET o == local[<<e, t, l>>] IN
    o # None => /\ Live(o)
                /\ objects[o].typ = t
                /\ objects[o].tenantID = TenantOf[e]
                /\ canonical[<<e, o>>] = l

\* What an endpoint calls an object resolves, for that endpoint, to it.
CanonicalResolves ==
  \A e \in Endpoint, o \in Object :
    canonical[<<e, o>>] # None =>
      /\ Live(o)
      /\ local[<<e, objects[o].typ, canonical[<<e, o>>]>>] = o

\* `local` and `canonical` are one mapping read both ways, whatever sequence
\* of creates, binds, corrections, removals and resets built it: put and
\* bindLocked read one to write both, and correct and the wipes edit each.
MappingInverse == LocalResolves /\ CanonicalResolves

\* The local entry shown beside an endpoint's referenceId was sent under that
\* very id: no bind, correction or removal leaves one behind for another id.
LocalEntryUnderOwnName ==
  \A e \in Endpoint, o \in Object :
    localEntries[<<e, o>>] # None => localEntries[<<e, o>>] = canonical[<<e, o>>]

\* The mapping as a set of pairs, and the objects a reset took.
Pairs == {p \in Endpoint \X EntityType \X LocalId \X Object :
            local[<<p[1], p[2], p[3]>>] = p[4]}

Gone == {o \in minted : ~Live(o)}

Promise == INSTANCE Correspondence WITH pairs <- Pairs, forgotten <- Gone

\* The store's operations, races and removals included, give every endpoint
\* the one-to-one correspondence Correspondence promises.
KeepsCorrespondence == Promise!Spec

\* The mapping does not outlive the endpoint (the claim made for keying it by
\* the agrirouter endpoint id).
MappingDiesWithEndpoint ==
  \A e \in Endpoint \ endpoints, t \in EntityType, l \in LocalId :
    local[<<e, t, l>>] = None

----------------------------------------------------------------------------
(* Safety: revisions and the three-way merge *)

\* The per-attribute history reconstructs the current content, and each entry
\* of it records a change: what a merge against any base rests on.
HistoryReconstructs ==
  \A o \in Object : Live(o) =>
    \A k \in Attribute :
      LET obj == objects[o] IN
      /\ ValueAt(obj, k, obj.revision) = obj.content[k]
      /\ \A h \in obj.history[k] : h.value # ValueAt(obj, k, h.revision - 1)

\* A person's parent stays a live party of the same tenant.
ParentsResolve ==
  \A o \in Object : Live(o) /\ Details \in Attribute =>
    LET details == objects[o].content[Details] IN
    details # Absent /\ details.parent # Absent =>
      /\ Live(details.parent)
      /\ objects[details.parent].typ = Party
      /\ objects[details.parent].tenantID = objects[o].tenantID

\* No write leaves a person naming, as its organization, a party that is no
\* longer one (checkKindChange, and the parent check of resolveRefs).
ParentsAreOrganizations ==
  \A o \in Object : Live(o) /\ Details \in Attribute =>
    LET details == objects[o].content[Details] IN
    details # Absent /\ details.parent # Absent =>
      PartyTypeOf(objects[details.parent].content[Details]) = "ORGANIZATION"

\* The same for every party but the one naming itself.
ParentsOfOthersAreOrganizations ==
  \A o \in Object : Live(o) /\ Details \in Attribute =>
    LET details == objects[o].content[Details] IN
    details # Absent /\ details.parent \notin {Absent, o} =>
      PartyTypeOf(objects[details.parent].content[Details]) = "ORGANIZATION"

OverwritesOnlyWhatItSaw ==
  accepted' # None =>
    LET o == accepted'.object IN
    \A k \in Attribute : objects'[o].content[k] # objects[o].content[k]
      => ValueAt(objects[o], k, accepted'.base) = objects[o].content[k]

\* An update overwrites an attribute only where the attribute still holds what
\* it held at the base the write was made from: nobody's change since is lost.
NoLostUpdate == [][OverwritesOnlyWhatItSaw]_vars

RevisesExactlyChanges ==
  \A o \in Object : Live(o) /\ Live(o)' =>
    LET was == objects[o]
        is == objects'[o] IN
    IF was.content = is.content /\ was.active = is.active
    THEN is = was
    ELSE is.revision = was.revision + 1 /\ is.seq > seq

\* Loop prevention: a revision is produced exactly when content or activity
\* changes, one at a time, and takes a position no earlier change has.
EveryRevisionIsAChange == [][RevisesExactlyChanges]_vars

\* A change is announced to every endpoint opted into it in its tenant but the
\* one it came from; an unchanged object goes at most to one that asked.
AnnouncedToOthers ==
  [][\A o \in Object : LET told == {f.to : f \in {g \in published' : g.object = o}} IN
       IF Live(o)' /\ objects'[o] # objects[o]
       THEN told = {e \in endpoints : Entitled(e, objects'[o])}
                     \ {objects'[o].sourceEndpointID}
       ELSE \A e, f \in told : e = f]_vars

\* The last revision deactivated the object and changed nothing else.
LastDeactivated(obj) ==
  /\ ~obj.active
  /\ \A k \in Attribute : \A h \in obj.history[k] : h.revision # obj.revision

\* A deactivation and an edit made from before it conflict: of the two, only
\* one succeeds.
DeactivationConflicts ==
  [][accepted' # None /\ LastDeactivated(objects[accepted'.object]) =>
       accepted'.base = objects[accepted'.object].revision]_vars
=============================================================================
