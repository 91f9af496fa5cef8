----------------------- MODULE PlatformRecord_proofs -----------------------
(***************************************************************************)
(* Theorems about the platform's codec, for any values, targets and        *)
(* revisions: what the tables show of an object, and that a send changes   *)
(* nothing its user did not edit.                                          *)
(*                                                                         *)
(* Both rest on one invariant, which says attribute by attribute what a    *)
(* column still holds of the revision the record was applied at while its  *)
(* user has not edited it.                                                 *)
(***************************************************************************)
EXTENDS PlatformRecord, TLAPS

----------------------------------------------------------------------------
(* Types *)

\* What a patch may say of each attribute.
Says(k) ==
  CASE k \in {"name", "plain", "other"} -> ValuePatch
    [] k = "ref" -> Target \cup {Keep, Null}
    [] k = "nested" -> PartsSent \cup {Keep, Null}
    [] OTHER -> DetailsSent \cup {Keep, Null}

\* What a content may hold of each attribute.
Holding(k) ==
  CASE k \in {"name", "plain", "other"} -> MaybeValue
    [] k = "ref" -> Target \cup {None}
    [] k = "nested" -> Parts \cup {None}
    [] OTHER -> Details \cup {None}

LEMMA ContentsType ==
  ASSUME NEW c PROVE c \in Contents <=> c = [k \in Attribute |-> c[k]]
                                        /\ \A k \in Attribute : c[k] \in Holding(k)
<1>1. ASSUME c \in Contents
      PROVE  c = [k \in Attribute |-> c[k]] /\ \A k \in Attribute : c[k] \in Holding(k)
  BY <1>1 DEF Contents, Attribute, Holding
<1>2. ASSUME c = [k \in Attribute |-> c[k]], \A k \in Attribute : c[k] \in Holding(k)
      PROVE  c \in Contents
  <2>1. \A k \in Attribute : c[k] \in MaybeValue \cup Target \cup Parts \cup Details
    BY <1>2 DEF Holding, MaybeValue
  <2>2. /\ c["name"] \in MaybeValue /\ c["plain"] \in MaybeValue /\ c["other"] \in MaybeValue
        /\ c["ref"] \in Target \cup {None}
        /\ c["nested"] \in Parts \cup {None}
        /\ c["details"] \in Details \cup {None}
    BY <1>2 DEF Holding, Attribute
  <2> QED
    BY <1>2, <2>1, <2>2 DEF Contents
<1> QED
  BY <1>1, <1>2

LEMMA MergePartsType ==
  /\ \A current \in Parts, patch \in PartsSent : MergeParts(current, patch) \in Parts
  /\ \A current, patch : current \in [Detail -> MaybeValue] /\ patch \in [Detail -> ValuePatch]
       => MergeParts(current, patch) \in [Detail -> MaybeValue]
BY DEF MergeParts, Parts, PartsSent, ValuePatch, MaybeValue

LEMMA PatchAttributeType ==
  ASSUME NEW k \in Attribute, NEW current \in Holding(k), NEW patch \in Says(k)
  PROVE  PatchAttribute(k, current, patch) \in Holding(k)
<1>1. CASE patch = Keep
  BY <1>1, CodecAssumption DEF PatchAttribute
<1>2. CASE patch = Null
  BY <1>2, CodecAssumption DEF PatchAttribute, Holding, MaybeValue
<1>3. CASE patch \notin {Keep, Null} /\ k = "details"
  <2>1. PatchAttribute(k, current, patch) = MergeDetails(current, patch)
    BY <1>3 DEF PatchAttribute
  <2>2. patch \in DetailsSent /\ current \in Details \cup {None}
    BY <1>3 DEF Says, Holding
  <2> DEFINE before == IF PartyTypeOf(current) = patch.partyTypeCode
                       THEN current.parts ELSE NoDetail
  <2>3. before \in [Detail -> MaybeValue]
    <3>1. NoDetail \in [Detail -> MaybeValue]
      BY DEF NoDetail, MaybeValue
    <3>2. patch.partyTypeCode \in PartyType
      BY <2>2 DEF DetailsSent
    <3> QED
      BY <2>2, <3>1, <3>2, MarksAssumption DEF PartyTypeOf, Details
  <2>4. MergeParts(before, patch.parts) \in [Detail -> MaybeValue]
    BY <2>2, <2>3, MergePartsType DEF DetailsSent
  <2> QED
    BY <1>3, <2>1, <2>2, <2>4 DEF MergeDetails, Details, DetailsSent, Holding
<1>4. CASE patch \notin {Keep, Null} /\ k = "nested"
  <2>1. NoParts \in Parts
    BY DEF NoParts, Parts, MaybeValue
  <2> QED
    BY <1>4, <2>1, MergePartsType DEF PatchAttribute, Says, Holding
<1>5. CASE patch \notin {Keep, Null} /\ k \notin {"details", "nested"}
  BY <1>5 DEF PatchAttribute, Says, Holding, Attribute, ValuePatch, MaybeValue
<1> QED
  BY <1>1, <1>2, <1>3, <1>4, <1>5

LEMMA PatchOfType ==
  ASSUME TypeOK, NEW k \in Attribute, NEW patch \in PatchOf(k)
  PROVE  patch \in Says(k)
<1>1. CASE k \in {"name", "plain", "other"}
  BY <1>1 DEF PatchOf, Says, ValuePatch
<1>2. CASE k = "ref"
  BY <1>2 DEF PatchOf, Says
<1>3. CASE k = "nested"
  BY <1>3 DEF PatchOf, Says, PartsSent, ValuePatch
<1>4. CASE k = "details"
  <2>1. CASE patch = Null
    BY <1>4, <2>1 DEF Says
  <2>2. CASE patch # Null
    <3>1. PICK code \in PartyType, q \in Detail, v \in ValuePatch :
            patch = [partyTypeCode |-> code,
                     parts |-> [d \in Detail |-> IF d = q THEN v ELSE Keep]]
      BY <1>4, <2>2 DEF PatchOf
    <3>2. [d \in Detail |-> IF d = q THEN v ELSE Keep] \in [Detail -> ValuePatch]
      BY DEF ValuePatch
    <3> QED
      BY <1>4, <3>1, <3>2 DEF Says, DetailsSent
  <2> QED
    BY <2>1, <2>2
<1> QED
  BY <1>1, <1>2, <1>3, <1>4 DEF Attribute

LEMMA LoadedType == TypeOK /\ Holds => HeldIn \in Table /\ Loaded \in RowType
BY DEF TypeOK, Holds, HeldIn, Loaded

LEMMA TableForType ==
  ASSUME TypeOK, NEW c PROVE TableFor(c) \in Table
BY CodecAssumption DEF TypeOK, TableFor, Table

\* A content the platform can hold makes a row of the platform's.
LEMMA RowType_ ==
  ASSUME TypeOK, NEW c \in Contents, NEW table \in Table
  PROVE  /\ RefColumn(c, table) \in Target \cup {Own, None}
         /\ Row(c, table, RefColumn(c, table)) \in RowType
<1>1. \A k \in Attribute : c[k] \in Holding(k)
  BY ContentsType
<1>2. c["name"] \in MaybeValue /\ c["plain"] \in MaybeValue
      /\ c["ref"] \in Target \cup {None}
      /\ c["nested"] \in Parts \cup {None} /\ c["details"] \in Details \cup {None}
  BY DEF Contents
<1>3. RefColumn(c, table) \in Target \cup {Own, None}
  BY <1>2 DEF TypeOK, RefColumn, ResolveRef, RowType
<1>4. ColumnValues(c, table).parts \in Parts
  BY <1>2 DEF ColumnValues, Only, NoParts, Parts, MaybeValue
<1>5. ColumnValues(c, table).details \in [Detail -> MaybeValue]
  BY <1>2 DEF ColumnValues, Only, NoDetail, Details, MaybeValue
<1> QED
  BY <1>2, <1>3, <1>4, <1>5 DEF Row, RowType, ColumnValues

\* A send that agrirouter can resolve says of each attribute what a patch may.
LEMMA ToEntityType ==
  ASSUME TypeOK, NEW row \in RowType, NEW table \in Table,
         Resolves(ToEntity(row, table)), NEW k \in Attribute
  PROVE  ToEntity(row, table)[k] \in Says(k)
<1> DEFINE patch == ToEntity(row, table)
<1>1. CASE k = "name"
  BY <1>1 DEF ToEntity, Attribute, Says, RowType, ValuePatch, MaybeValue
<1>2. CASE k = "plain"
  BY <1>2 DEF ToEntity, Attribute, Says, RowType, ValuePatch, MaybeValue
<1>3. CASE k = "ref"
  BY <1>3 DEF Resolves, Says, TypeOK
<1>4. CASE k = "nested"
  <2>1. patch[k] = PartsPatch(row, table)
    BY <1>4 DEF ToEntity, Attribute
  <2>2. row.parts \in Parts
    BY DEF RowType
  <2>3. PartsPatch(row, table) \in PartsSent \cup {Keep}
    BY <2>2 DEF PartsPatch, PartsSent, Parts, ValuePatch, MaybeValue
  <2> QED
    BY <1>4, <2>1, <2>3 DEF Says
<1>5. CASE k = "details"
  <2>1. patch[k] = DetailsPatch(row, table)
    BY <1>5 DEF ToEntity, Attribute
  <2>2. row.details \in [Detail -> MaybeValue]
    BY DEF RowType
  <2>3. DetailsPatch(row, table) \in DetailsSent \cup {Keep}
    BY <2>2 DEF DetailsPatch, DetailsSent, PartyType, ValuePatch, MaybeValue
  <2> QED
    BY <1>5, <2>1, <2>3 DEF Says
<1>6. CASE k = "other"
  BY <1>6 DEF ToEntity, Attribute, Says, ValuePatch
<1> QED
  BY <1>1, <1>2, <1>3, <1>4, <1>5, <1>6 DEF Attribute

LEMMA HistoryType ==
  ASSUME TypeOK
  PROVE  /\ Len(history) \in Nat \ {0}
         /\ Latest \in Contents
         /\ \A i \in 1..Len(history) : history[i] \in Contents
BY DEF TypeOK, Latest

\* The merge makes a content of contents.
LEMMA MergedType ==
  ASSUME TypeOK, NEW base \in 1..Len(history), NEW patch,
         \A k \in Attribute : patch[k] \in Says(k)
  PROVE  Merged(base, patch) \in Contents
<1>1. \A k \in Attribute : Latest[k] \in Holding(k)
  BY HistoryType, ContentsType
<1>2. \A k \in Attribute : Patched(patch, k) \in Holding(k)
  BY <1>1, PatchAttributeType DEF Patched
<1>3. \A k \in Attribute : Merged(base, patch)[k] \in Holding(k)
  BY <1>1, <1>2 DEF Merged
<1>4. Merged(base, patch) = [k \in Attribute |-> Merged(base, patch)[k]]
  BY DEF Merged
<1> QED
  BY <1>3, <1>4, ContentsType

----------------------------------------------------------------------------
(* The invariant *)

OneTable == \A t, u \in Table : tables[t] # None /\ tables[u] # None => t = u

\* The content the record was applied with.
Given == history[known]

NameKept == "name" \notin edited => Loaded.name = Given["name"]

PlainKept == "plain" \notin edited => Loaded.plain = Given["plain"]

DetailsKept ==
  "details" \notin edited =>
    HeldIn = TableFor(Given) /\ Loaded.details = ColumnValues(Given, HeldIn).details

\* A record moved between the tables of the two party types loses its parts,
\* and holds all of them otherwise.
PartsKept ==
  "nested" \notin edited =>
    \/ Loaded.parts = ColumnValues(Given, HeldIn).parts
    \/ "details" \in edited /\ Loaded.parts = NoParts

IInv ==
  /\ TypeOK
  /\ OneTable
  /\ Holds <=> known > 0
  /\ known > 0 => NameKept /\ PlainKept /\ DetailsKept /\ PartsKept

LEMMA Upserted ==
  ASSUME NEW row \in RowType, NEW table \in Table, UpsertRecord(row, table)
  PROVE  /\ tables' \in [Table -> RowType \cup {None}]
         /\ OneTable' /\ Holds' /\ HeldIn' = table /\ Loaded' = row
<1>1. /\ \A t \in Table : tables'[t] = IF t = table THEN row ELSE None
      /\ tables' \in [Table -> RowType \cup {None}]
      /\ row # None
  BY MarksAssumption DEF UpsertRecord
<1>2. HeldIn' = table
  BY <1>1 DEF HeldIn
<1> QED
  BY <1>1, <1>2 DEF OneTable, Holds, Loaded

\* Applying a content leaves the columns as the content has them.
LEMMA Applied ==
  ASSUME IInv, NEW c \in Contents, NEW revision, Apply(c, revision),
         history' \in Seq(Contents), revision \in 1..Len(history'), history'[revision] = c,
         UNCHANGED <<typ, selected, held, named, edits, moves>>
  PROVE  /\ IInv' /\ HeldIn' = TableFor(c) /\ Loaded'.ref = RefColumn(c, TableFor(c))
<1> DEFINE table == TableFor(c)
           row == Row(c, table, RefColumn(c, table))
<1>1. table \in Table /\ row \in RowType
  BY TableForType, RowType_ DEF IInv
<1>2. /\ tables' \in [Table -> RowType \cup {None}]
      /\ OneTable' /\ Holds' /\ HeldIn' = table /\ Loaded' = row
  BY <1>1, Upserted DEF Apply
<1>3. known' = revision /\ known' > 0 /\ Given' = c
  BY DEF Apply, Given
<1>4. edited' \subseteq Attribute /\ edited' \subseteq {"ref"}
  BY DEF Apply, Attribute
<1>5. TypeOK'
  BY <1>2, <1>3, <1>4 DEF IInv, TypeOK
<1>6. TableFor(c)' = table
  BY DEF TableFor
<1>7. row.name = c["name"] /\ row.plain = c["plain"]
      /\ row.parts = ColumnValues(c, table).parts
      /\ row.details = ColumnValues(c, table).details
      /\ row.ref = RefColumn(c, table)
  BY DEF Row, ColumnValues
<1>8. NameKept' /\ PlainKept' /\ DetailsKept' /\ PartsKept'
  <2>1. NameKept' /\ PlainKept'
    BY <1>2, <1>3, <1>7 DEF NameKept, PlainKept
  <2>2. TableFor(Given)' = table /\ ColumnValues(Given, HeldIn)' = ColumnValues(c, table)
    BY <1>2, <1>3 DEF TableFor, ColumnValues
  <2> QED
    BY <1>2, <1>7, <2>1, <2>2 DEF DetailsKept, PartsKept
<1> QED
  BY <1>2, <1>3, <1>5, <1>7, <1>8 DEF IInv

\* What leaves the record and the revision it was applied at alone.
LEMMA Untouched ==
  ASSUME IInv, UNCHANGED <<typ, record>>, known > 0 => history'[known] = history[known], TypeOK'
  PROVE  IInv'
<1>1. \A c, t : ColumnValues(c, t)' = ColumnValues(c, t) /\ TableFor(c)' = TableFor(c)
  BY DEF ColumnValues, TableFor
<1>2. HeldIn' = HeldIn /\ Loaded' = Loaded /\ Holds' = Holds /\ OneTable' = OneTable
  BY DEF record, HeldIn, Loaded, Holds, OneTable
<1>3. known > 0 => Given' = Given
  BY DEF record, Given
<1>4. known > 0 => NameKept' /\ PlainKept' /\ DetailsKept' /\ PartsKept'
  BY <1>1, <1>2, <1>3
     DEF IInv, record, NameKept, PlainKept, DetailsKept, PartsKept, ColumnValues, TableFor
<1> QED
  BY <1>2, <1>4 DEF IInv, record

LEMMA EditType ==
  ASSUME IInv, NEW row \in RowType, NEW table \in Table, NEW k \in Attribute,
         EditRecord(row, table, k)
  PROVE  /\ TypeOK' /\ OneTable' /\ Holds' /\ known' > 0 /\ Given' = Given
         /\ HeldIn' = table /\ Loaded' = row /\ edited' = edited \cup {k}
<1>1. /\ tables' \in [Table -> RowType \cup {None}]
      /\ OneTable' /\ Holds' /\ HeldIn' = table /\ Loaded' = row
  BY Upserted DEF EditRecord
<1>2. TypeOK'
  BY <1>1 DEF EditRecord, world, IInv, TypeOK
<1> QED
  BY <1>1, <1>2 DEF EditRecord, world, IInv, Given

LEMMA EditStep ==
  ASSUME IInv, NEW row \in RowType, NEW table \in Table, NEW k \in Attribute,
         EditRecord(row, table, k),
         k # "name" => row.name = Loaded.name,
         k # "plain" => row.plain = Loaded.plain,
         k # "details" => table = HeldIn /\ row.details = Loaded.details,
         k \notin {"details", "nested"} => row.parts = Loaded.parts,
         k = "details" /\ "nested" \notin edited =>
           \/ row.parts = NoParts
           \/ row.parts = Loaded.parts /\ ModelledParts(table) = ModelledParts(HeldIn)
  PROVE  IInv'
<1>1. /\ TypeOK' /\ OneTable' /\ Holds' /\ known' > 0 /\ Given' = Given
      /\ HeldIn' = table /\ Loaded' = row /\ edited' = edited \cup {k}
  BY EditType
<1>2. NameKept /\ PlainKept /\ DetailsKept /\ PartsKept
  BY DEF EditRecord, IInv
<1>3. NameKept' /\ PlainKept'
  BY <1>1, <1>2 DEF NameKept, PlainKept
<1>4. \A c, t : ColumnValues(c, t)' = ColumnValues(c, t) /\ TableFor(c)' = TableFor(c)
  BY DEF ColumnValues, TableFor, EditRecord, world
<1>5. TableFor(Given)' = TableFor(Given) /\ ColumnValues(Given, HeldIn)' = ColumnValues(Given, table)
  BY <1>1 DEF ColumnValues, TableFor, EditRecord, world
<1>6. DetailsKept'
  BY <1>1, <1>2, <1>5 DEF DetailsKept
<1>7. PartsKept'
  <2>1. CASE k \notin {"details", "nested"}
    BY <1>1, <1>2, <1>5, <2>1 DEF PartsKept
  <2>2. CASE k = "nested"
    BY <1>1, <2>2 DEF PartsKept
  <2>3. CASE k = "details"
    <3>1. CASE row.parts = NoParts \/ "nested" \in edited
      BY <1>1, <2>3, <3>1 DEF PartsKept
    <3>2. CASE /\ "nested" \notin edited /\ row.parts = Loaded.parts
               /\ ModelledParts(table) = ModelledParts(HeldIn)
      <4>1. ColumnValues(Given, table).parts = ColumnValues(Given, HeldIn).parts
        BY <3>2 DEF ColumnValues
      <4> QED
        BY <1>1, <1>2, <1>5, <2>3, <3>2, <4>1 DEF PartsKept
    <3> QED
      BY <2>3, <3>1, <3>2
  <2> QED
    BY <2>1, <2>2, <2>3
<1> QED
  BY <1>1, <1>3, <1>6, <1>7 DEF IInv

\* Details given anew keep the parts where the table stays one that has them,
\* and lose all of them otherwise.
LEMMA PartsMoved ==
  ASSUME IInv, Holds, "nested" \notin edited, NEW table \in {"person", "organization"}
  PROVE  LET moved == Only(Loaded.parts, ModelledParts(table)) IN
         \/ moved = NoParts
         \/ moved = Loaded.parts /\ ModelledParts(table) = ModelledParts(HeldIn)
<1> DEFINE moved == Only(Loaded.parts, ModelledParts(table))
<1>1. Loaded.parts = NoParts \/ Loaded.parts = ColumnValues(Given, HeldIn).parts
  BY DEF IInv, PartsKept
<1>2. HeldIn \in Table /\ Loaded.parts \in Parts
  BY LoadedType DEF IInv, RowType
<1>3. \A p \in Part \ ModelledParts(HeldIn) : Loaded.parts[p] = None
  <2>1. CASE Loaded.parts = NoParts
    BY <2>1 DEF NoParts
  <2>2. CASE Loaded.parts = ColumnValues(Given, HeldIn).parts
    <3> DEFINE given == IF Given["nested"] = None THEN NoParts ELSE Given["nested"]
    <3>1. Loaded.parts = Only(given, ModelledParts(HeldIn))
      BY <2>2 DEF ColumnValues
    <3>2. Loaded.parts = [p \in DOMAIN given |->
                            IF p \in ModelledParts(HeldIn) THEN given[p] ELSE None]
      BY <3>1 DEF Only
    <3>3. DOMAIN given = Part
      BY <1>2, <3>2 DEF Parts
    <3> QED
      BY <3>2, <3>3
  <2> QED
    BY <1>1, <2>1, <2>2
<1>4. moved = [p \in Part |-> IF p \in ModelledParts(table) THEN Loaded.parts[p] ELSE None]
  BY <1>2 DEF Only, Parts
<1>5. CASE table = "person" \/ HeldIn # "organization"
  <2>1. ModelledParts(table) \cap ModelledParts(HeldIn) = {}
    BY <1>2, <1>5 DEF ModelledParts, Table
  <2>2. \A p \in Part : moved[p] = None
    BY <1>3, <1>4, <2>1
  <2> QED
    BY <1>4, <2>2 DEF NoParts
<1>6. CASE table = "organization" /\ HeldIn = "organization"
  <2>1. \A p \in Part : moved[p] = Loaded.parts[p]
    BY <1>3, <1>4, <1>6
  <2> QED
    BY <1>2, <1>4, <1>6, <2>1 DEF Parts
<1> QED
  BY <1>5, <1>6

LEMMA UserStep == ASSUME IInv, User PROVE IInv'
<1> DEFINE row == Loaded
<1>1. Holds /\ HeldIn \in Table /\ Loaded \in RowType
  BY LoadedType
     DEF IInv, User, EditName, EditPlain, EditRef, EditParts, EditDetails
<1>2. ASSUME NEW v \in Value, EditName(v) PROVE IInv'
  <2>1. [Loaded EXCEPT !.name = v] \in RowType
    BY <1>1 DEF RowType, MaybeValue
  <2> QED
    BY <1>1, <1>2, <2>1, EditStep DEF EditName, Attribute, RowType
<1>3. ASSUME NEW v \in MaybeValue, EditPlain(v) PROVE IInv'
  <2>1. [Loaded EXCEPT !.plain = v] \in RowType
    BY <1>1 DEF RowType
  <2> QED
    BY <1>1, <1>3, <2>1, EditStep DEF EditPlain, Attribute, RowType
<1>4. ASSUME NEW r \in Target \cup {Own}, EditRef(r) PROVE IInv'
  <2>1. [Loaded EXCEPT !.ref = r] \in RowType
    BY <1>1 DEF RowType
  <2> QED
    BY <1>1, <1>4, <2>1, EditStep DEF EditRef, Attribute, RowType
<1>5. ASSUME NEW p \in Part, NEW v \in MaybeValue, EditParts(p, v) PROVE IInv'
  <2>1. [Loaded EXCEPT !.parts[p] = v] \in RowType
    BY <1>1, <1>5 DEF RowType, Parts
  <2> QED
    BY <1>1, <1>5, <2>1, EditStep DEF EditParts, Attribute, RowType
<1>6. ASSUME NEW table \in Table, NEW v \in MaybeValue, EditDetails(table, v) PROVE IInv'
  <2> DEFINE d == CHOOSE d \in Detail : d \in ModelledDetails(table)
             details == [NoDetail EXCEPT ![d] = v]
             moved == Only(Loaded.parts, ModelledParts(table))
             edit == [Loaded EXCEPT !.details = details,
                                    !.parts = Only(@, ModelledParts(table))]
  <2>1. details \in [Detail -> MaybeValue]
    BY DEF NoDetail, MaybeValue
  <2>2. moved \in Parts
    BY <1>1 DEF RowType, Only, Parts, MaybeValue
  <2>3. edit \in RowType /\ edit.parts = moved /\ edit.name = Loaded.name
        /\ edit.plain = Loaded.plain
    BY <1>1, <2>1, <2>2 DEF RowType
  <2>4. table \in {"person", "organization"} /\ EditRecord(edit, table, "details")
    BY <1>6 DEF EditDetails
  <2>5. "nested" \notin edited =>
          \/ edit.parts = NoParts
          \/ edit.parts = Loaded.parts /\ ModelledParts(table) = ModelledParts(HeldIn)
    BY <1>1, <2>3, <2>4, PartsMoved
  <2> HIDE DEF edit
  <2> QED
    BY <2>3, <2>4, <2>5, EditStep DEF Attribute
<1> QED
  BY <1>2, <1>3, <1>4, <1>5, <1>6 DEF User

----------------------------------------------------------------------------
(* One step per action *)

LEMMA InitInv == Init => IInv
<1> SUFFICES ASSUME Init PROVE IInv
  OBVIOUS
<1>1. NewContent \in Contents
  <2>1. \A k \in Attribute : NewContent[k] \in Holding(k)
    <3>1. (CHOOSE v \in Value : TRUE) \in Value /\ (CHOOSE t \in Target : TRUE) \in Target
      BY CodecAssumption
    <3>2. [NoParts EXCEPT !["geometry"] = CHOOSE v \in Value : TRUE] \in Parts
      BY <3>1 DEF NoParts, Parts, MaybeValue
    <3> QED
      BY <3>1, <3>2 DEF NewContent, Holding, Attribute, MaybeValue
  <2>2. NewContent = [k \in Attribute |-> NewContent[k]]
    BY DEF NewContent
  <2> QED
    BY <2>1, <2>2, ContentsType
<1>2. TypeOK
  <2>1. history \in Seq(Contents) /\ history # <<>> /\ Len(history) = 1
    BY <1>1 DEF Init
  <2>2. tables \in [Table -> RowType \cup {None}]
    BY DEF Init
  <2>3. typ \in EntityType /\ selected \in BOOLEAN
    BY Zenon DEF Init
  <2>4. known = 0 /\ edited = {} /\ held = {} /\ named = {} /\ edits = 0 /\ moves = 0
    BY DEF Init
  <2> QED
    BY <2>1, <2>2, <2>3, <2>4 DEF TypeOK
<1>3. ~Holds /\ OneTable
  BY DEF Init, Holds, OneTable
<1> QED
  BY <1>2, <1>3 DEF Init, IInv

\* A revision is added and those before it stay.
LEMMA RevisionAdded ==
  ASSUME TypeOK, NEW c \in Contents, NewRevision(c)
  PROVE  /\ history' \in Seq(Contents) /\ history' # <<>>
         /\ Len(history') = Len(history) + 1
         /\ history'[Len(history) + 1] = c
         /\ \A i \in 1..Len(history) : history'[i] = history[i]
BY DEF NewRevision, TypeOK

LEMMA WorldStep ==
  ASSUME IInv,
         \/ \E k \in Attribute : \E patch \in PatchOf(k) : OtherWrite(k, patch)
         \/ \E t \in Target : TargetApplied(t) \/ TargetBound(t)
         \/ MoveSelection
         \/ UNCHANGED vars
  PROVE  IInv'
<1>1. ASSUME NEW k \in Attribute, NEW patch \in PatchOf(k), OtherWrite(k, patch)
      PROVE  IInv'
  <2> DEFINE c == [Latest EXCEPT ![k] = PatchAttribute(k, @, patch)]
  <2>1. Latest \in Contents /\ patch \in Says(k)
    BY HistoryType, PatchOfType DEF IInv
  <2>2. \A j \in Attribute : Latest[j] \in Holding(j)
    BY <2>1, ContentsType
  <2>3. \A j \in Attribute : c[j] \in Holding(j)
    BY <2>1, <2>2, PatchAttributeType, ContentsType
  <2>4. c = [j \in Attribute |-> c[j]]
    BY <2>1, ContentsType
  <2>5. c \in Contents
    BY <2>3, <2>4, ContentsType
  <2>6. NewRevision(c)
    BY <1>1 DEF OtherWrite
  <2> HIDE DEF c
  <2>7. TypeOK' /\ (known > 0 => history'[known] = history[known])
    BY <1>1, <2>5, <2>6, RevisionAdded DEF OtherWrite, IInv, TypeOK, record
  <2> QED
    BY <1>1, <2>7, Untouched DEF OtherWrite
<1>2. ASSUME NEW t \in Target, TargetApplied(t) \/ TargetBound(t) PROVE IInv'
  <2>1. TypeOK'
    BY <1>2 DEF TargetApplied, TargetBound, IInv, TypeOK, record
  <2> QED
    BY <1>2, <2>1, Untouched DEF TargetApplied, TargetBound
<1>3. CASE MoveSelection
  <2>1. TypeOK'
    BY <1>3 DEF MoveSelection, IInv, TypeOK, record
  <2> QED
    BY <1>3, <2>1, Untouched DEF MoveSelection
<1>4. CASE UNCHANGED vars
  <2>1. TypeOK'
    BY <1>4 DEF vars, world, record, IInv, TypeOK
  <2> QED
    BY <1>4, <2>1, Untouched DEF vars, world
<1> QED
  BY <1>1, <1>2, <1>3, <1>4

LEMMA DeliverStep ==
  ASSUME IInv, NEW revision \in DOMAIN history, Deliver(revision)
  PROVE  /\ IInv' /\ HeldIn' = TableFor(Given')
         /\ Loaded'.ref = RefColumn(Given', HeldIn')
<1>1. history[revision] \in Contents /\ revision \in 1..Len(history)
  BY HistoryType DEF IInv, TypeOK
<1>2. UNCHANGED <<typ, history, selected, held, named, edits, moves>>
  BY DEF Deliver, world
<1>3. Given' = history[revision]
  BY <1>2 DEF Deliver, Apply, Given
<1> QED
  BY <1>1, <1>2, <1>3, Applied DEF Deliver, IInv, TypeOK

LEMMA SendKeptStep ==
  ASSUME IInv, SendKept
  PROVE  /\ IInv' /\ HeldIn' = TableFor(Given')
         /\ Loaded'.ref = RefColumn(Given', HeldIn')
<1>1. Latest \in Contents /\ Len(history) \in 1..Len(history)
  BY HistoryType DEF IInv
<1>2. UNCHANGED <<typ, history, selected, held, named, edits, moves>>
  BY DEF SendKept, world
<1>3. Given' = Latest
  BY <1>2 DEF SendKept, Apply, Given, Latest
<1> QED
  BY <1>1, <1>2, <1>3, Applied DEF SendKept, IInv, TypeOK, Latest

\* What a send that goes out says is well formed.
LEMMA PatchType ==
  ASSUME IInv, Holds, Resolves(Patch)
  PROVE  \A k \in Attribute : Patch[k] \in Says(k)
BY LoadedType, ToEntityType DEF Patch, IInv

LEMMA SendRevisesStep ==
  ASSUME IInv, SendRevises
  PROVE  /\ IInv' /\ HeldIn' = TableFor(Given')
         /\ Loaded'.ref = RefColumn(Given', HeldIn')
         /\ Latest' = Merged(known, Patch)
<1> DEFINE c == Merged(known, Patch)
<1>1. known \in 1..Len(history) /\ Len(history) \in Nat
  BY HistoryType DEF SendRevises, IInv, TypeOK
<1>2. c \in Contents
  BY <1>1, PatchType, MergedType DEF SendRevises, IInv
<1>3. NewRevision(c) /\ Apply(c, Len(history) + 1)
      /\ UNCHANGED <<typ, selected, held, named, edits, moves>>
  BY DEF SendRevises
<1> HIDE DEF c
<1>4. /\ history' \in Seq(Contents) /\ Len(history') = Len(history) + 1
      /\ history'[Len(history) + 1] = c
  BY <1>2, <1>3, RevisionAdded DEF IInv
<1>5. Given' = c /\ Latest' = c
  BY <1>3, <1>4 DEF Apply, Given, Latest
<1>6. IInv' /\ HeldIn' = TableFor(c) /\ Loaded'.ref = RefColumn(c, TableFor(c))
  BY <1>1, <1>2, <1>3, <1>4, Applied
<1> QED
  BY <1>5, <1>6 DEF c

LEMMA Invariance == Spec => []IInv
<1>1. IInv /\ [Next]_vars => IInv'
  BY WorldStep, UserStep, DeliverStep, SendKeptStep, SendRevisesStep DEF Next
<1> QED
  BY InitInv, <1>1, PTL DEF Spec

----------------------------------------------------------------------------

\* Tables, contents and marks keep their types through every patch, merge and
\* edit (Record.ToEntity, patchAttribute and Tx.columnValues).
THEOREM TypeCorrect == Spec => []TypeOK
BY Invariance, PTL DEF IInv

\* The platform's tables show what the object held when it was applied, in one
\* table, but for its user's edits (Tx.UpsertRecord and Tx.columnValues).
THEOREM ShowsTheObject == Spec => []ShowsWhatItModels
<1>1. IInv => ShowsWhatItModels
  <2> SUFFICES ASSUME IInv, known > 0 PROVE ShowsWhatItModels
    BY DEF ShowsWhatItModels
  <2>1. ASSUME edited \subseteq {"ref"}
        PROVE  /\ HeldIn = TableFor(Given)
               /\ Loaded.name = Given["name"] /\ Loaded.plain = Given["plain"]
               /\ Loaded.parts = ColumnValues(Given, HeldIn).parts
               /\ Loaded.details = ColumnValues(Given, HeldIn).details
    BY <2>1 DEF IInv, NameKept, PlainKept, PartsKept, DetailsKept
  <2>2. ASSUME edited \subseteq {"ref"}
        PROVE  [k \in {"name", "plain", "parts", "details"} |-> Loaded[k]]
                 = ColumnValues(Given, HeldIn)
    BY <2>1, <2>2 DEF ColumnValues
  <2> QED
    BY <2>1, <2>2 DEF IInv, OneTable, ShowsWhatItModels, Given
<1> QED
  BY Invariance, <1>1, PTL

----------------------------------------------------------------------------
(* What a send says of what its user did not edit *)

\* A reference column holds what was delivered, or nothing, while a selection
\* has moved at most once: narrowed again, it would keep an older reference and
\* send it after the next widening.
RefKept ==
  known > 0 /\ "ref" \notin edited =>
    IF selected THEN Loaded.ref \in {None, Given["ref"]} ELSE moves = 0 => Loaded.ref = None

RefInv == IInv /\ RefKept /\ moves <= MaxMoves

LEMMA AppliedRef ==
  ASSUME RefInv, IInv',
         HeldIn' = TableFor(Given'), Loaded'.ref = RefColumn(Given', HeldIn'),
         NEW c, NEW revision, Apply(c, revision),
         UNCHANGED <<typ, selected, held, named, edits, moves>>
  PROVE  RefInv'
<1>1. CASE selected
  BY <1>1 DEF RefInv, RefKept, RefColumn, ResolveRef
<1>2. CASE ~selected
  <2>1. "ref" \notin edited' => "ref" \notin edited
    BY <1>2 DEF Apply
  <2>2. tables[HeldIn'] # None /\ HeldIn' \in Table => Holds /\ Loaded = tables[HeldIn']
    BY DEF RefInv, IInv, OneTable, Holds, HeldIn, Loaded
  <2>3. HeldIn' \in Table
    <3>1. TableFor(Given') \in Table
      BY TableForType DEF RefInv, IInv
    <3> QED
      BY <3>1
  <2>4. "ref" \notin edited /\ moves = 0 => RefColumn(Given', HeldIn') = None
    BY <1>2, <2>2, <2>3 DEF RefColumn, RefInv, RefKept, IInv
  <2> QED
    BY <1>2, <2>1, <2>4 DEF RefInv, RefKept
<1> QED
  BY <1>1, <1>2

LEMMA RefUserStep == ASSUME RefInv, User PROVE RefInv'
<1>1. IInv'
  BY UserStep DEF RefInv
<1>2. Holds /\ HeldIn \in Table /\ Loaded \in RowType
  BY LoadedType
     DEF RefInv, IInv, User, EditName, EditPlain, EditRef, EditParts, EditDetails
<1>3. ASSUME NEW row \in RowType, NEW table \in Table, NEW k \in Attribute,
             EditRecord(row, table, k), k # "ref" => row.ref = Loaded.ref
      PROVE  RefInv'
  <2>1. Given' = Given /\ Loaded' = row /\ edited' = edited \cup {k}
    BY <1>3, EditType DEF RefInv
  <2> QED
    BY <1>1, <1>3, <2>1 DEF RefInv, RefKept, EditRecord, world
<1>4. ASSUME NEW v \in Value, EditName(v) PROVE RefInv'
  <2>1. [Loaded EXCEPT !.name = v] \in RowType
    BY <1>2 DEF RowType, MaybeValue
  <2> QED
    BY <1>2, <1>3, <1>4, <2>1 DEF EditName, Attribute, RowType
<1>5. ASSUME NEW v \in MaybeValue, EditPlain(v) PROVE RefInv'
  <2>1. [Loaded EXCEPT !.plain = v] \in RowType
    BY <1>2 DEF RowType
  <2> QED
    BY <1>2, <1>3, <1>5, <2>1 DEF EditPlain, Attribute, RowType
<1>6. ASSUME NEW r \in Target \cup {Own}, EditRef(r) PROVE RefInv'
  <2>1. [Loaded EXCEPT !.ref = r] \in RowType
    BY <1>2 DEF RowType
  <2> QED
    BY <1>2, <1>3, <1>6, <2>1 DEF EditRef, Attribute
<1>7. ASSUME NEW p \in Part, NEW v \in MaybeValue, EditParts(p, v) PROVE RefInv'
  <2>1. [Loaded EXCEPT !.parts[p] = v] \in RowType
    BY <1>2, <1>7 DEF RowType, Parts
  <2> QED
    BY <1>2, <1>3, <1>7, <2>1 DEF EditParts, Attribute, RowType
<1>8. ASSUME NEW table \in Table, NEW v \in MaybeValue, EditDetails(table, v) PROVE RefInv'
  <2> DEFINE d == CHOOSE d \in Detail : d \in ModelledDetails(table)
             edit == [Loaded EXCEPT !.details = [NoDetail EXCEPT ![d] = v],
                                    !.parts = Only(@, ModelledParts(table))]
  <2>1. [NoDetail EXCEPT ![d] = v] \in [Detail -> MaybeValue]
    BY DEF NoDetail, MaybeValue
  <2>2. Only(Loaded.parts, ModelledParts(table)) \in Parts
    BY <1>2 DEF RowType, Only, Parts, MaybeValue
  <2>3. edit \in RowType /\ edit.ref = Loaded.ref
    BY <1>2, <2>1, <2>2 DEF RowType
  <2>4. EditRecord(edit, table, "details")
    BY <1>8 DEF EditDetails
  <2> HIDE DEF edit
  <2> QED
    BY <1>3, <2>3, <2>4 DEF Attribute
<1> QED
  BY <1>4, <1>5, <1>6, <1>7, <1>8 DEF User

LEMMA RefStep ==
  ASSUME MaxMoves <= 1, RefInv, [Next]_vars
  PROVE  RefInv'
<1>1. ASSUME UNCHANGED <<record, selected, moves>>, IInv', known > 0 => Given' = Given
      PROVE  RefInv'
  BY <1>1 DEF RefInv, RefKept, record, Loaded, HeldIn
<1>2. CASE \/ \E k \in Attribute : \E patch \in PatchOf(k) : OtherWrite(k, patch)
           \/ \E t \in Target : TargetApplied(t) \/ TargetBound(t)
           \/ UNCHANGED vars
  <2>1. IInv'
    BY <1>2, WorldStep DEF RefInv
  <2>2. UNCHANGED <<record, selected, moves>>
    BY <1>2 DEF OtherWrite, TargetApplied, TargetBound, vars, world
  <2>3. known > 0 => Given' = Given
    <3>1. CASE UNCHANGED history
      BY <2>2, <3>1 DEF Given, record
    <3>2. CASE \E k \in Attribute : \E patch \in PatchOf(k) : OtherWrite(k, patch)
      BY <2>2, <3>2 DEF OtherWrite, NewRevision, Given, record, RefInv, IInv, TypeOK
    <3> QED
      BY <1>2, <3>1, <3>2 DEF TargetApplied, TargetBound, vars, world
  <2> QED
    BY <1>1, <2>1, <2>2, <2>3
<1>3. CASE MoveSelection
  <2>1. IInv'
    BY <1>3, WorldStep DEF RefInv
  <2>2. moves = 0 /\ moves' = 1
    BY <1>3, CodecAssumption DEF MoveSelection, RefInv, IInv, TypeOK
  <2>3. Loaded' = Loaded /\ Given' = Given
    BY <1>3 DEF MoveSelection, record, Loaded, HeldIn, Given
  <2>4. selected' = ~selected /\ selected \in BOOLEAN /\ UNCHANGED <<known, edited>>
    BY <1>3 DEF MoveSelection, record, RefInv, IInv, TypeOK
  <2>5. RefKept'
    BY <2>2, <2>3, <2>4 DEF RefKept, RefInv
  <2> QED
    BY <1>3, <2>1, <2>5, CodecAssumption DEF RefInv, MoveSelection, IInv, TypeOK
<1>4. CASE \E revision \in DOMAIN history : Deliver(revision)
  BY <1>4, DeliverStep, AppliedRef DEF RefInv, Deliver, world
<1>5. CASE SendKept
  BY <1>5, SendKeptStep, AppliedRef DEF RefInv, SendKept, world
<1>6. CASE SendRevises
  BY <1>6, SendRevisesStep, AppliedRef DEF RefInv, SendRevises
<1> QED
  BY <1>2, <1>3, <1>4, <1>5, <1>6, RefUserStep DEF Next

\* A selection moved at most once, a column holds no older reference.
LEMMA RefInvariance == ASSUME MaxMoves <= 1 PROVE Spec => []RefInv
<1>1. Init => RefInv
  <2> SUFFICES ASSUME Init PROVE RefInv
    OBVIOUS
  <2> QED
    <3>1. known = 0 /\ moves = 0 /\ MaxMoves \in Nat
      BY CodecAssumption DEF Init
    <3>2. RefKept
      BY <3>1 DEF RefKept
    <3> QED
      BY <3>1, <3>2, InitInv DEF RefInv
<1>2. RefInv /\ [Next]_vars => RefInv'
  BY RefStep
<1> QED
  BY <1>1, <1>2, PTL DEF Spec

\* A part the platform does not model goes out as it came, and one it models
\* is what the content it was applied with had.
LEMMA PartsSame ==
  ASSUME NEW parts \in Parts, NEW table \in Table
  PROVE  LET row == [parts |-> Only(parts, ModelledParts(table))]
             patch == PartsPatch(row, table) IN
         patch # Keep => patch \in PartsSent /\ MergeParts(parts, patch) = parts
<1> DEFINE row == [parts |-> Only(parts, ModelledParts(table))]
           patch == PartsPatch(row, table)
<1>1. \A p \in Part : row.parts[p] = IF p \in ModelledParts(table) THEN parts[p] ELSE None
  BY DEF Only, Parts
<1>2. SUFFICES ASSUME patch # Keep
               PROVE  patch \in PartsSent /\ MergeParts(parts, patch) = parts
  OBVIOUS
<1>3. patch = [p \in Part |-> CASE p \notin ModelledParts(table) -> Keep
                         [] p \in ModelledParts(table) /\ row.parts[p] = None -> Null
                         [] OTHER -> row.parts[p]]
  BY <1>2 DEF PartsPatch
<1>4. patch \in PartsSent
  BY <1>1, <1>3 DEF PartsSent, ValuePatch, Parts, MaybeValue
<1>5. \A p \in Part : MergeParts(parts, patch)[p] = parts[p]
  BY <1>1, <1>3, CodecAssumption DEF MergeParts, Parts, MaybeValue
<1>6. MergeParts(parts, patch) = [p \in Part |-> MergeParts(parts, patch)[p]]
  BY <1>3 DEF MergeParts
<1>7. parts = [p \in Part |-> parts[p]]
  BY DEF Parts
<1> QED
  BY <1>4, <1>5, <1>6, <1>7

LEMMA KeepLeaves == \A k, current : PatchAttribute(k, current, Keep) = current
BY CodecAssumption DEF PatchAttribute

\* An attribute the user did not edit is sent as the content it was applied
\* with had it.
LEMMA IntendedSame ==
  ASSUME RefInv, Holds, known > 0, Resolves(Patch),
         NEW k \in Attribute \ (edited \cup Guessed)
  PROVE  Intended(known, Patch, k) = Given[k]
<1>1. /\ HeldIn \in Table /\ Loaded \in RowType
      /\ known \in 1..Len(history) /\ Given \in Contents
  BY LoadedType, HistoryType DEF RefInv, IInv, TypeOK, Given
<1>2. /\ NameKept /\ PlainKept /\ DetailsKept /\ PartsKept /\ RefKept
  BY DEF RefInv, IInv
<1>3. \A j \in Attribute : Given[j] \in Holding(j)
  BY <1>1, ContentsType
<1>4. Intended(known, Patch, k) = PatchAttribute(k, Given[k], Patch[k])
  BY DEF Intended, Given
<1>5. CASE k = "name"
  BY <1>2, <1>3, <1>4, <1>5, CodecAssumption
     DEF NameKept, Patch, ToEntity, Attribute, PatchAttribute, Holding, MaybeValue
<1>6. CASE k = "plain"
  BY <1>2, <1>3, <1>4, <1>6, CodecAssumption
     DEF PlainKept, Patch, ToEntity, Attribute, PatchAttribute, Holding, MaybeValue
<1>7. CASE k = "ref"
  <2>1. Patch["ref"] = IF Loaded.ref = None \/ ~selected THEN Keep ELSE Loaded.ref
    BY DEF Patch, ToEntity, Attribute
  <2>2. \/ Patch["ref"] = Keep
        \/ Patch["ref"] = Given["ref"] /\ Patch["ref"] \notin {Keep, Null}
    <3>1. CASE Loaded.ref = None
      BY <2>1, <3>1
    <3>2. CASE ~selected
      BY <2>1, <3>2
    <3>3. CASE Loaded.ref # None /\ selected
      BY <1>2, <1>3, <1>7, <2>1, <3>3, CodecAssumption DEF RefKept, Holding, Attribute
    <3> QED
      BY <3>1, <3>2, <3>3
  <2> QED
    BY <1>4, <1>7, <2>2, KeepLeaves DEF PatchAttribute
<1>8. CASE k = "other"
  BY <1>4, <1>8, KeepLeaves DEF Patch, ToEntity, Attribute
<1>9. CASE k = "nested"
  <2> DEFINE given == IF Given["nested"] = None THEN NoParts ELSE Given["nested"]
             row == [parts |-> Only(given, ModelledParts(HeldIn))]
  <2>1. Patch["nested"] = PartsPatch(Loaded, HeldIn)
    BY DEF Patch, ToEntity, Attribute
  <2>2. given \in Parts /\ (Given["nested"] = None => given = NoParts)
    BY <1>1 DEF Contents, NoParts, Parts, MaybeValue
  <2>3. CASE Loaded.parts = NoParts
    <3>1. Patch["nested"] = Keep
      <4>1. ModelledParts(HeldIn) \subseteq Part
        BY <1>1 DEF ModelledParts, Part, Table
      <4>2. \A p \in ModelledParts(HeldIn) : Loaded.parts[p] = None
        BY <2>3, <4>1 DEF NoParts
      <4> QED
        BY <2>1, <4>2 DEF PartsPatch
    <3> QED
      BY <1>4, <1>9, <3>1, KeepLeaves
  <2>4. CASE Loaded.parts = Only(given, ModelledParts(HeldIn))
    <3>1. Patch["nested"] = PartsPatch(row, HeldIn)
      BY <2>1, <2>4 DEF PartsPatch
    <3>2. CASE Patch["nested"] = Keep
      BY <1>4, <1>9, <3>2, KeepLeaves
    <3>3. CASE Patch["nested"] # Keep
      <4>1. Patch["nested"] \in PartsSent /\ MergeParts(given, Patch["nested"]) = given
        BY <1>1, <2>2, <3>1, <3>3, PartsSame
      <4>2. Given["nested"] # None
        <5> SUFFICES ASSUME Given["nested"] = None PROVE FALSE
          OBVIOUS
        <5>1. \A p \in ModelledParts(HeldIn) : Loaded.parts[p] = None
          BY <1>1, <2>2, <2>4 DEF Only, NoParts, ModelledParts, Table, Part
        <5> QED
          BY <2>1, <3>3, <5>1 DEF PartsPatch
      <4>3. Patch["nested"] \notin {Keep, Null}
        BY <4>1, MarksAssumption
      <4> QED
        BY <1>4, <1>9, <4>1, <4>2, <4>3 DEF PatchAttribute
    <3> QED
      BY <3>2, <3>3
  <2> QED
    BY <1>2, <1>9, <2>3, <2>4 DEF PartsKept, ColumnValues
<1>10. CASE k = "details"
  <2>1. Patch["details"] = DetailsPatch(Loaded, HeldIn)
    BY DEF Patch, ToEntity, Attribute
  <2>2. CASE typ # "party"
    BY <1>4, <1>10, <2>1, <2>2, KeepLeaves DEF DetailsPatch
  <2>3. CASE typ = "party"
    <3> DEFINE given == Given["details"]
               patch == Patch["details"]
    <3>1. given \in Details
      BY <1>1, <1>10, <2>3 DEF Guessed, Contents, Given
    <3>2. /\ HeldIn = TableFor(Given)
          /\ Loaded.details = Only(given.parts, ModelledDetails(HeldIn))
      BY <1>2, <1>10, <3>1, <1>1, <2>3 DEF DetailsKept, ColumnValues, Guessed, Given
    <3>3. /\ given.partyTypeCode = IF HeldIn = "person" THEN "PERSON" ELSE "ORGANIZATION"
          /\ given.partyTypeCode \in PartyType /\ given.parts \in [Detail -> MaybeValue]
          /\ given = [partyTypeCode |-> given.partyTypeCode, parts |-> given.parts]
      <4>1. PartyTypeOf(given) = given.partyTypeCode
        BY <1>10, <2>3 DEF Guessed, Given, PartyTypeOf
      <4> QED
        BY <2>3, <3>1, <3>2, <4>1 DEF TableFor, Details, PartyType
    <3>4. patch = [partyTypeCode |-> given.partyTypeCode,
                   parts |-> [d \in Detail |->
                     CASE d \notin ModelledDetails(HeldIn) -> Keep
                       [] d \in ModelledDetails(HeldIn) /\ Loaded.details[d] = None -> Null
                       [] OTHER -> Loaded.details[d]]]
      BY <2>1, <2>3, <3>3 DEF DetailsPatch
    <3>5. \A d \in Detail : Loaded.details[d] =
                              IF d \in ModelledDetails(HeldIn) THEN given.parts[d] ELSE None
      BY <3>2, <3>3 DEF Only
    <3>6. patch.parts \in [Detail -> ValuePatch] /\ MergeParts(given.parts, patch.parts) = given.parts
      <4>1. patch.parts \in [Detail -> ValuePatch]
        BY <3>3, <3>4, <3>5 DEF ValuePatch, MaybeValue
      <4>2. \A d \in Detail : MergeParts(given.parts, patch.parts)[d] = given.parts[d]
        BY <3>3, <3>4, <3>5, CodecAssumption DEF MergeParts, MaybeValue
      <4>3. MergeParts(given.parts, patch.parts)
              = [d \in Detail |-> MergeParts(given.parts, patch.parts)[d]]
        BY <3>4 DEF MergeParts
      <4>4. given.parts = [d \in Detail |-> given.parts[d]]
        BY <3>3
      <4> QED
        BY <4>1, <4>2, <4>3, <4>4
    <3>7. patch \notin {Keep, Null}
      <4>1. patch \in DetailsSent
        BY <3>3, <3>4, <3>6 DEF DetailsSent
      <4> QED
        BY <4>1, MarksAssumption
    <3>8. MergeDetails(given, patch) = given
      <4>1. patch.partyTypeCode = given.partyTypeCode /\ PartyTypeOf(given) = given.partyTypeCode
        BY <1>10, <2>3, <3>4 DEF Guessed, Given, PartyTypeOf
      <4> QED
        BY <3>3, <3>6, <4>1 DEF MergeDetails
    <3> QED
      BY <1>4, <1>10, <3>7, <3>8 DEF PatchAttribute
  <2> QED
    BY <2>2, <2>3
<1> QED
  BY <1>5, <1>6, <1>7, <1>8, <1>9, <1>10 DEF Attribute

\* What a send says of a nested part there is no column for leaves that part.
LEMMA UnmodelledParts ==
  ASSUME NEW current, NEW p \in Part \ ModelledParts(HeldIn),
         current # None, PatchAttribute("nested", current, Patch["nested"]) # None
  PROVE  PatchAttribute("nested", current, Patch["nested"])[p] = current[p]
<1> DEFINE patch == Patch["nested"]
<1>1. patch = PartsPatch(Loaded, HeldIn)
  BY DEF Patch, ToEntity, Attribute
<1>2. CASE patch = Keep
  BY <1>2 DEF PatchAttribute
<1>3. CASE patch = Null
  BY <1>3, CodecAssumption DEF PatchAttribute
<1>4. CASE patch \notin {Keep, Null}
  <2>1. DOMAIN patch = Part /\ patch[p] = Keep
    BY <1>1, <1>4 DEF PartsPatch
  <2>2. PatchAttribute("nested", current, patch) = MergeParts(current, patch)
    BY <1>4 DEF PatchAttribute
  <2> QED
    BY <2>1, <2>2, CodecAssumption DEF MergeParts
<1> QED
  BY <1>2, <1>3, <1>4

\* A send changes nothing its user did not edit, while a selection moves at
\* most once (Record.ToEntity, Store.edit and resourcesMergePatch).
THEOREM OnlyEditsGoOut == ASSUME MaxMoves <= 1 PROVE Spec => OnlyEditsAreSent
<1>1. Spec => []RefInv
  BY RefInvariance
<1>2. ASSUME RefInv, SendRevises
      PROVE  /\ \A k \in Attribute \ (edited \cup Guessed) : Latest'[k] = Latest[k]
             /\ \A p \in Part \ ModelledParts(HeldIn) :
                  Latest'["nested"] # None /\ Latest["nested"] # None =>
                    Latest'["nested"][p] = Latest["nested"][p]
  <2>1. Latest' = Merged(known, Patch) /\ Holds /\ known > 0 /\ Resolves(Patch)
    BY <1>2, SendRevisesStep DEF RefInv, SendRevises
  <2>2. ASSUME NEW k \in Attribute \ (edited \cup Guessed) PROVE Latest'[k] = Latest[k]
    <3>1. Intended(known, Patch, k) = history[known][k]
      BY <1>2, <2>1, IntendedSame DEF Given
    <3> QED
      BY <2>1, <3>1 DEF Merged
  <2>3. Latest'["nested"] = Latest["nested"]
        \/ Latest'["nested"] = PatchAttribute("nested", Latest["nested"], Patch["nested"])
    BY <2>1 DEF Merged, Patched, Attribute
  <2>4. ASSUME NEW p \in Part \ ModelledParts(HeldIn),
               Latest'["nested"] # None, Latest["nested"] # None
        PROVE  Latest'["nested"][p] = Latest["nested"][p]
    BY <2>3, <2>4, UnmodelledParts
  <2> QED
    BY <2>2, <2>4
<1>3. RefInv /\ [Next]_vars =>
        [SendRevises =>
           /\ \A k \in Attribute \ (edited \cup Guessed) : Latest'[k] = Latest[k]
           /\ \A p \in Part \ ModelledParts(HeldIn) :
                Latest'["nested"] # None /\ Latest["nested"] # None =>
                  Latest'["nested"][p] = Latest["nested"][p]]_vars
  BY <1>2
<1> QED
  BY <1>1, <1>3, PTL DEF Spec, OnlyEditsAreSent
=============================================================================
