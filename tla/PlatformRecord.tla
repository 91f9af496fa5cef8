--------------------------- MODULE PlatformRecord ---------------------------
(***************************************************************************)
(* One canonical object and the platform's record of it, through the       *)
(* platform's codec: which parts of a delivered object its tables keep,    *)
(* what a send states about the parts they do not, and what agrirouter's   *)
(* merge makes of it while other participants write and the user edits.    *)
(*                                                                         *)
(* A content has one attribute of each kind the codec or the merge treats  *)
(* differently. Identity, delivery, activity and deletion are Participant's.*)
(***************************************************************************)
EXTENDS Integers, Sequences

CONSTANTS
  EntityType,   \* the entity types the object may be of
  Value,        \* values of an attribute or a part
  Target,       \* objects a reference can name
  MaxRevision,  \* bound: revisions
  MaxEdits,     \* bound: edits of the platform's user
  MaxMoves,     \* bound: moves of the referenced type in or out of the selection
  None,         \* no value
  Keep, Null,   \* what a patch says of an attribute: leave it, remove it
  Own           \* a record of the platform's own that agrirouter does not know

Attribute == {"name", "plain", "ref", "other", "nested", "details"}

\* The parts of the nested attribute: contactInfo's, or a boundary's.
Part == {"addresses", "phones", "geometry", "creationMethod", "gnss"}

PartyType == {"PERSON", "ORGANIZATION"}

\* The attributes of the details, of either party type.
Detail == {"firstName", "parentOrganizationRef", "commercialRegistryNumber"}

Table == {"organization", "person", "field", "boundary"}

MaybeValue == Value \cup {None}
Parts == [Part -> MaybeValue]
Details == [partyTypeCode : PartyType, parts : [Detail -> MaybeValue]]

\* What a patch says part by part.
ValuePatch == Value \cup {Keep, Null}
PartsSent == [Part -> ValuePatch]
DetailsSent == [partyTypeCode : PartyType, parts : [Detail -> ValuePatch]]

RowType ==
  [name : MaybeValue, plain : MaybeValue, ref : Target \cup {Own, None}, parts : Parts,
   details : [Detail -> MaybeValue]]

ASSUME CodecAssumption ==
  /\ EntityType \subseteq {"party", "field", "boundary"}
  /\ {MaxRevision, MaxEdits, MaxMoves} \subseteq Nat
  /\ Value # {} /\ Target # {}
  /\ {None, Keep, Null, Own} \cap (Value \cup Target) = {}
  /\ None # Keep /\ None # Null /\ None # Own /\ Keep # Null /\ Keep # Own /\ Null # Own

\* The marks for "nothing" are no record, object or list of parts.
ASSUME MarksAssumption ==
  /\ None \notin RowType /\ None \notin PartyType
  /\ Keep \notin PartsSent /\ Null \notin PartsSent
  /\ Keep \notin DetailsSent /\ Null \notin DetailsSent

VARIABLES
  typ,       \* the object's entity type
  history,   \* its content at each revision, at agrirouter
  selected,  \* whether the type it references is selected on the endpoint
  held,      \* referenced objects the platform has bound a record to
  named,     \* those agrirouter knows the platform's local id for
  tables,    \* the record's row in each of the platform's tables, or None
  known,     \* the revision the record was applied at, or 0
  edited,    \* attributes the user has edited since
  edits, moves

world == <<typ, history, selected, held, named>>
record == <<tables, known, edited>>
vars == <<world, record, edits, moves>>

----------------------------------------------------------------------------
(* A patch and what it makes of a content *)

NoParts == [p \in Part |-> None]
NoDetail == [d \in Detail |-> None]

\* RFC 7396 over a nested object: a part is replaced, removed or left.
MergeParts(current, patch) ==
  [p \in DOMAIN patch |->
     CASE patch[p] = Keep -> current[p]
       [] patch[p] = Null -> None
       [] OTHER -> patch[p]]

PartyTypeOf(details) == IF details = None THEN None ELSE details.partyTypeCode

\* Details of another party type replace the ones held, the same type's merge.
MergeDetails(current, patch) ==
  [partyTypeCode |-> patch.partyTypeCode,
   parts |-> MergeParts(IF PartyTypeOf(current) = patch.partyTypeCode
                        THEN current.parts ELSE NoDetail, patch.parts)]

PatchAttribute(k, current, patch) ==
  CASE patch = Keep -> current
    [] patch = Null -> None
    [] patch \notin {Keep, Null} /\ k = "details" -> MergeDetails(current, patch)
    [] patch \notin {Keep, Null} /\ k = "nested" ->
         MergeParts(IF current = None THEN NoParts ELSE current, patch)
    [] OTHER -> patch

Latest == history[Len(history)]

Intended(base, patch, k) == PatchAttribute(k, history[base][k], patch[k])
Patched(patch, k) == PatchAttribute(k, Latest[k], patch[k])

Conflicts(base, patch, k) ==
  /\ Intended(base, patch, k) # history[base][k]
  /\ Latest[k] # history[base][k]
  /\ Intended(base, patch, k) # Latest[k]

\* The content a write makes of the latest revision: what it leaves as it saw
\* it stays as it is now.
Merged(base, patch) ==
  [k \in Attribute |->
     IF Intended(base, patch, k) = history[base][k] THEN Latest[k] ELSE Patched(patch, k)]

----------------------------------------------------------------------------
(* The codec *)

\* The parts the platform has columns for; a person has none.
ModelledParts(table) ==
  CASE table = "organization" -> {"addresses"}
    [] table = "boundary" -> {"geometry", "creationMethod"}
    [] OTHER -> {}

ModelledDetails(table) ==
  CASE table = "organization" -> {"commercialRegistryNumber"}
    [] table = "person" -> {"firstName"}
    [] OTHER -> {}

TableFor(c) ==
  IF typ # "party" THEN typ
  ELSE IF PartyTypeOf(c["details"]) = "PERSON" THEN "person"
  ELSE "organization"

\* A reference is the platform's record of its target: the local id the frame
\* carries, or else the record some pair of the platform's has.
ResolveRef(target) == IF target \in named \cup held THEN target ELSE None

Only(parts, modelled) == [p \in DOMAIN parts |-> IF p \in modelled THEN parts[p] ELSE None]

ColumnValues(c, table) ==
  [name |-> c["name"],
   plain |-> c["plain"],
   parts |-> Only(IF c["nested"] = None THEN NoParts ELSE c["nested"], ModelledParts(table)),
   details |-> Only(IF c["details"] = None THEN NoDetail ELSE c["details"].parts,
                    ModelledDetails(table))]

\* The row a content is kept as; a reference to a type not selected is not
\* written.
Row(c, table, ref) ==
  LET values == ColumnValues(c, table) IN
  [name |-> values.name, plain |-> values.plain, parts |-> values.parts,
   details |-> values.details, ref |-> ref]

\* The column a delivered reference leaves.
RefColumn(c, table) ==
  IF selected THEN ResolveRef(c["ref"])
  ELSE IF tables[table] = None THEN None
  ELSE tables[table].ref

\* Variant the runs must reject: a party that changed its type stays in both tables.
UpsertRecordBeside(row, table) == tables' = [tables EXCEPT ![table] = row]

\* A party that changed its type leaves the table of its old one.
UpsertRecord(row, table) == tables' = [t \in Table |-> IF t = table THEN row ELSE None]

HeldIn == CHOOSE t \in Table : tables[t] # None
Holds == \E t \in Table : tables[t] # None
Loaded == tables[HeldIn]

\* Variant the runs must reject: nulls for an object agrirouter may not hold.
PartsPatchAlways(row, table) ==
  [p \in Part |-> CASE p \notin ModelledParts(table) -> Keep
                    [] p \in ModelledParts(table) /\ row.parts[p] = None -> Null
                    [] OTHER -> row.parts[p]]

\* What a send states of the nested attribute: nothing where the platform holds
\* no part of it, and else each part it has a column for.
PartsPatch(row, table) ==
  IF \A p \in ModelledParts(table) : row.parts[p] = None
  THEN Keep
  ELSE [p \in Part |-> CASE p \notin ModelledParts(table) -> Keep
                         [] p \in ModelledParts(table) /\ row.parts[p] = None -> Null
                         [] OTHER -> row.parts[p]]

DetailsPatch(row, table) ==
  IF typ # "party" THEN Keep
  ELSE [partyTypeCode |-> IF table = "person" THEN "PERSON" ELSE "ORGANIZATION",
        parts |-> [d \in Detail |->
                     CASE d \notin ModelledDetails(table) -> Keep
                       [] d \in ModelledDetails(table) /\ row.details[d] = None -> Null
                       [] OTHER -> row.details[d]]]

\* Whether the type has the attribute at all.
Has(k) ==
  CASE k = "details" -> typ = "party"
    [] k = "nested" -> typ # "field"
    [] k \in {"ref", "plain"} -> typ # "party"
    [] OTHER -> TRUE

\* Every attribute there is a column for goes out, removed where the column is
\* empty; a required one and a reference are left out instead.
ToEntity(row, table) ==
  [k \in Attribute |->
     CASE k = "name" -> IF row.name = None THEN Keep ELSE row.name
       [] k = "plain" -> IF ~Has("plain") THEN Keep
                         ELSE IF row.plain = None THEN Null ELSE row.plain
       [] k = "ref" -> IF row.ref = None \/ ~selected THEN Keep ELSE row.ref
       [] k = "nested" -> PartsPatch(row, table)
       [] k = "details" -> DetailsPatch(row, table)
       [] OTHER -> Keep]

----------------------------------------------------------------------------
(* Other participants, delivery and the user *)

NewRevision(content) == history' = Append(history, content)

PatchOf(k) ==
  CASE k = "name" -> Value
    [] k \in {"plain", "other"} -> Value \cup {Null}
    [] k = "ref" -> Target \cup (IF typ = "boundary" THEN {} ELSE {Null})
    [] k = "nested" ->
         {[p \in Part |-> IF p = q THEN v ELSE Keep] :
            q \in {r \in Part : (r \in {"addresses", "phones"}) = (typ = "party")},
            v \in Value \cup {Null}}
           \cup (IF typ = "party" THEN {Null} ELSE {})
    [] OTHER ->
         {[partyTypeCode |-> code, parts |-> [d \in Detail |-> IF d = q THEN v ELSE Keep]] :
            code \in PartyType, q \in Detail, v \in ValuePatch}
           \cup {Null}

\* A detail belongs to one party type.
OfItsType(k, patch) ==
  (k = "details" /\ patch # Null) =>
    \A d \in Detail : patch.parts[d] # Keep =>
      (d = "commercialRegistryNumber") = (patch.partyTypeCode = "ORGANIZATION")

OtherWrite(k, patch) ==
  /\ Len(history) < MaxRevision
  /\ Has(k) /\ OfItsType(k, patch)
  /\ PatchAttribute(k, Latest[k], patch) # Latest[k]
  /\ NewRevision([Latest EXCEPT ![k] = PatchAttribute(k, @, patch)])
  /\ UNCHANGED <<typ, selected, held, named, record, edits, moves>>

\* A content takes the place of what the tables hold, edits included, but for a
\* reference to a type not selected.
Apply(c, revision) ==
  /\ UpsertRecord(Row(c, TableFor(c), RefColumn(c, TableFor(c))), TableFor(c))
  /\ known' = revision
  /\ edited' = IF selected THEN {} ELSE edited \cap {"ref"}

\* The object is delivered as it is at a revision not below the one held: the
\* next on the stream, the latest after a break, or again, in a load's set or
\* by a request.
Deliver(revision) ==
  /\ revision >= known
  /\ Apply(history[revision], revision)
  /\ UNCHANGED <<world, edits, moves>>

\* The user's edit is stored as any record is.
EditRecord(row, table, k) ==
  /\ Holds /\ edits < MaxEdits
  /\ edits' = edits + 1
  /\ UpsertRecord(row, table)
  /\ edited' = edited \cup {k}
  /\ UNCHANGED <<world, known, moves>>

EditName(v) == Holds /\ EditRecord([Loaded EXCEPT !.name = v], HeldIn, "name")

EditPlain(v) ==
  Holds /\ Has("plain") /\ EditRecord([Loaded EXCEPT !.plain = v], HeldIn, "plain")

EditRef(r) == Holds /\ Has("ref") /\ EditRecord([Loaded EXCEPT !.ref = r], HeldIn, "ref")

EditParts(p, v) ==
  /\ Holds /\ p \in ModelledParts(HeldIn)
  /\ EditRecord([Loaded EXCEPT !.parts[p] = v], HeldIn, "nested")

\* Details of the other party type move the record to its table, without what
\* that table has no column for.
EditDetails(table, v) ==
  /\ Holds /\ Has("details")
  /\ table \in {"person", "organization"}
  /\ LET d == CHOOSE d \in Detail : d \in ModelledDetails(table) IN
     EditRecord([Loaded EXCEPT !.details = [NoDetail EXCEPT ![d] = v],
                               !.parts = Only(@, ModelledParts(table))],
                table, "details")

TargetApplied(t) ==
  /\ t \notin held
  /\ held' = held \cup {t}
  /\ UNCHANGED <<typ, history, selected, named, record, edits, moves>>

TargetBound(t) ==
  /\ t \in held \ named
  /\ named' = named \cup {t}
  /\ UNCHANGED <<typ, history, selected, held, record, edits, moves>>

\* The user at agrirouter moves the referenced type in or out; a boundary's
\* cannot be, and no load has run yet.
MoveSelection ==
  /\ typ = "field" /\ moves < MaxMoves
  /\ moves' = moves + 1
  /\ selected' = ~selected
  /\ UNCHANGED <<typ, history, held, named, record, edits>>

----------------------------------------------------------------------------
(* Sending *)

Patch == ToEntity(Loaded, HeldIn)

\* A reference agrirouter cannot resolve is refused before anything is merged.
Resolves(patch) == patch["ref"] = Keep \/ patch["ref"] \in named

ChangesNothing(patch) == \A k \in Attribute : Patched(patch, k) = Latest[k]

SendKept ==
  /\ Holds /\ known > 0
  /\ Resolves(Patch)
  /\ \/ ChangesNothing(Patch)
     \/ /\ \A k \in Attribute : ~Conflicts(known, Patch, k)
        /\ Merged(known, Patch) = Latest
  /\ Apply(Latest, Len(history))
  /\ UNCHANGED <<world, edits, moves>>

SendRevises ==
  /\ Holds /\ known > 0
  /\ Len(history) < MaxRevision
  /\ Resolves(Patch)
  /\ ~ChangesNothing(Patch)
  /\ \A k \in Attribute : ~Conflicts(known, Patch, k)
  /\ Merged(known, Patch) # Latest
  /\ NewRevision(Merged(known, Patch))
  /\ Apply(Merged(known, Patch), Len(history) + 1)
  /\ UNCHANGED <<typ, selected, held, named, edits, moves>>

----------------------------------------------------------------------------

NewContent ==
  [k \in Attribute |->
     CASE k = "name" -> CHOOSE v \in Value : TRUE
       [] k = "ref" /\ typ # "party" -> CHOOSE t \in Target : TRUE
       [] k = "nested" /\ typ = "boundary" ->
            [NoParts EXCEPT !["geometry"] = CHOOSE v \in Value : TRUE]
       [] OTHER -> None]

Init ==
  /\ typ \in EntityType
  /\ history = <<NewContent>>
  /\ selected \in IF typ = "field" THEN BOOLEAN ELSE {TRUE}
  /\ held = {} /\ named = {}
  /\ tables = [t \in Table |-> None]
  /\ known = 0 /\ edited = {} /\ edits = 0 /\ moves = 0

User ==
  \/ \E v \in Value : EditName(v)
  \/ \E v \in MaybeValue : EditPlain(v)
  \/ \E r \in Target \cup {Own} : EditRef(r)
  \/ \E p \in Part, v \in MaybeValue : EditParts(p, v)
  \/ \E table \in Table, v \in MaybeValue : EditDetails(table, v)

Next ==
  \/ \E k \in Attribute : \E patch \in PatchOf(k) : OtherWrite(k, patch)
  \/ \E revision \in DOMAIN history : Deliver(revision)
  \/ User
  \/ \E t \in Target : TargetApplied(t) \/ TargetBound(t)
  \/ MoveSelection
  \/ SendKept \/ SendRevises

Spec == Init /\ [][Next]_vars

----------------------------------------------------------------------------
(* Properties *)

\* What the object may hold.
Contents ==
  {c \in [Attribute -> MaybeValue \cup Target \cup Parts \cup Details] :
     /\ {c["name"], c["plain"], c["other"]} \subseteq MaybeValue
     /\ c["ref"] \in Target \cup {None}
     /\ c["nested"] \in Parts \cup {None}
     /\ c["details"] \in Details \cup {None}}

TypeOK ==
  /\ typ \in EntityType /\ selected \in BOOLEAN
  /\ history \in Seq(Contents) /\ history # <<>>
  /\ tables \in [Table -> RowType \cup {None}]
  /\ known \in 0..Len(history)
  /\ edited \subseteq Attribute
  /\ held \subseteq Target /\ named \subseteq held
  /\ {edits, moves} \subseteq Nat

\* A party whose type nobody stated is sent as the organization it is kept as.
Guessed == {k \in {"details"} : typ = "party" /\ history[known]["details"] = None}

\* A send changes nothing its user did not edit: not an attribute the platform
\* has no column for, not a reference it could not resolve, not a part somebody
\* else removed, and nothing at all when the record is as it was delivered.
OnlyEditsAreSent ==
  [][SendRevises =>
       /\ \A k \in Attribute \ (edited \cup Guessed) : Latest'[k] = Latest[k]
       /\ \A p \in Part \ ModelledParts(HeldIn) :
            Latest'["nested"] # None /\ Latest["nested"] # None =>
              Latest'["nested"][p] = Latest["nested"][p]]_vars

\* What a platform shows of an object is what the object held when it was
\* applied, in one table, but for what its user has edited since.
ShowsWhatItModels ==
  known > 0 =>
    LET c == history[known] IN
    /\ \A t, u \in Table : tables[t] # None /\ tables[u] # None => t = u
    /\ Holds
    /\ edited \subseteq {"ref"} =>
         /\ HeldIn = TableFor(c)
         /\ [k \in {"name", "plain", "parts", "details"} |-> Loaded[k]] = ColumnValues(c, HeldIn)

\* A reference to a record the platform has is shown, once the object was
\* delivered as it stands.
ReferenceShown ==
  known = Len(history) /\ edited = {} /\ selected /\ history[known]["ref"] \in held =>
    Loaded.ref = history[known]["ref"]

=============================================================================
