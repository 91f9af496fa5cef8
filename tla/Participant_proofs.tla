------------------------- MODULE Participant_proofs -------------------------
(***************************************************************************)
(* Theorems about one participant, for any names, any numbers of objects   *)
(* and records and any bounds on faults, moves and resets.                 *)
(*                                                                         *)
(* One record per object. A pair is only ever written for an object        *)
(* nothing else holds, because whoever writes one looks the object up in   *)
(* the same transaction. The exception is a load waiting for a person:     *)
(* what it looked up has to stay true until the answer, and does because   *)
(* the open transaction keeps every other writer out.                      *)
(*                                                                         *)
(* Then the types of the variables; that a pair's revision is not taken    *)
(* back; and that the platform knows the selection, its stream having told *)
(* it of every move that was not overtaken by another number before its    *)
(* frame was handed over (FollowsMoves).                                   *)
(*                                                                         *)
(* Then agrirouter and the platform have the same pairs whenever nothing   *)
(* is in flight, and a load is confirmed only when all of its set is held: *)
(* while nothing has failed, been reset or been asked for again, and as    *)
(* long as whatever fails or is asked for is nothing Rough. To confirm a   *)
(* load whose selection has just gone is rough as well.                    *)
(*                                                                         *)
(* Last, for one call that moves the selection, and as long as a pair      *)
(* about to be bound is not forgotten (Severs): what there is at           *)
(* agrirouter is held as it stands. Until that call has numbered its move  *)
(* nobody is told and nothing runs (Opening). Whatever is on its way says  *)
(* what its object has been (Said), so a pair can only say too little; and *)
(* what is not shown is still to come, in the set or beyond the position   *)
(* of the stream (Reached).                                                *)
(***************************************************************************)
EXTENDS Participant, FiniteSetTheorems, SequenceTheorems, WellFoundedInduction, TLAPS

\* What the load looked up before it asked still holds while it waits.
AskedAboutUnheld == pc = "ask" => Holders(Head(set.frames).object) = {}

IInv ==
  /\ row = [l \in LocalId |-> row[l]]
  /\ "frames" \in DOMAIN set
  /\ AskedAboutUnheld
  /\ OneRecordPerObject

LEMMA InitInv == Init => IInv
BY DEF Init, IInv, AskedAboutUnheld, OneRecordPerObject, Bound

\* Writing the pair of an object no other record holds keeps objects apart.
LEMMA WriteKeepsApart ==
  ASSUME IInv, NEW l, NEW f, Holders(f.object) \subseteq {l},
         row' = [row EXCEPT ![l] = Pair(f.object, f.revision)]
  PROVE  row' = [k \in LocalId |-> row'[k]] /\ OneRecordPerObject'
<1>1. row' = [k \in LocalId |-> row'[k]]
  BY DEF IInv
<1>2. ASSUME NEW k \in LocalId, k # l PROVE row'[k] = row[k]
  BY <1>2 DEF IInv
<1>3. l \in LocalId => row'[l].object = f.object
  BY DEF IInv, Pair
<1>4. ASSUME NEW k \in LocalId, Bound(k)', row'[k].object = f.object
      PROVE  k = l
  BY <1>2, <1>4 DEF Bound, Holders
<1>5. ASSUME NEW k \in LocalId, NEW j \in LocalId, Bound(k)', Bound(j)',
             row'[k].object = row'[j].object
      PROVE  k = j
  <2>1. CASE k = l
    BY <1>3, <1>4, <1>5, <2>1
  <2>2. CASE j = l
    BY <1>3, <1>4, <1>5, <2>2
  <2>3. CASE k # l /\ j # l
    BY <1>2, <1>5, <2>3 DEF IInv, OneRecordPerObject, Bound
  <2> QED
    BY <2>1, <2>2, <2>3
<1> QED
  BY <1>1, <1>5 DEF OneRecordPerObject

\* An object resolves to the one record that holds it, if one does.
LEMMA ResolvesToTheHolder ==
  ASSUME IInv, NEW f
  PROVE  /\ Holders(f.object) # {} => Holders(f.object) = {RecordOf(f)}
         /\ RecordOf(f) = None => Holders(f.object) = {}
<1>1. ASSUME Holders(f.object) # {} PROVE RecordOf(f) \in Holders(f.object)
  BY <1>1 DEF RecordOf
<1>2. \A l, k \in Holders(f.object) : l = k
  BY DEF Holders, IInv, OneRecordPerObject
<1>3. None \notin LocalId
  BY ParticipantAssumption DEF LocalId
<1> QED
  BY <1>1, <1>2, <1>3 DEF Holders

\* Whatever a delivery, a set entry, an answer or a person's choice does to the
\* tables, it keeps objects apart.
Tables == row' = [l \in LocalId |-> row'[l]] /\ OneRecordPerObject'

LEMMA Unmoved == ASSUME IInv, UNCHANGED row PROVE Tables
BY DEF Tables, IInv, OneRecordPerObject, Bound

LEMMA HeldKeepsApart ==
  ASSUME IInv, NEW f, ApplyHeld(RecordOf(f), f)
  PROVE  Tables
<1>1. CASE Superseded(RecordOf(f), f)
  BY <1>1, Unmoved DEF ApplyHeld, tables
<1>2. CASE ~Superseded(RecordOf(f), f)
  <2>1. Holders(f.object) \subseteq {RecordOf(f)}
    BY ResolvesToTheHolder
  <2> QED
    BY <1>2, <2>1, WriteKeepsApart DEF ApplyHeld, Write, Tables
<1> QED
  BY <1>1, <1>2

LEMMA MatchedKeepsApart ==
  ASSUME IInv, NEW f, Holders(f.object) = {}, NEW l, ApplyMatched(l, f)
  PROVE  Tables
BY WriteKeepsApart DEF ApplyMatched, Write, Tables

LEMMA NewKeepsApart ==
  ASSUME IInv, NEW f, Holders(f.object) = {}, ApplyNew(f)
  PROVE  Tables
<1>1. CASE f.active
  BY <1>1, WriteKeepsApart DEF ApplyNew, Write, Tables
<1>2. CASE ~f.active
  BY <1>2, Unmoved DEF ApplyNew, tables
<1> QED
  BY <1>1, <1>2

\* No step that leaves the tables alone disturbs what a load asked about, but
\* for the one that asks.
LEMMA QuietStep ==
  ASSUME IInv, UNCHANGED row, pc' = "ask" => pc = "ask" /\ set'.frames = set.frames,
         "frames" \in DOMAIN set'
  PROVE  IInv'
<1>1. Tables
  BY Unmoved
<1>2. AskedAboutUnheld'
  BY DEF IInv, AskedAboutUnheld, Holders, Bound
<1> QED
  BY <1>1, <1>2 DEF IInv, Tables

\* A step that writes pairs keeps the invariant where no load is waiting after it.
LEMMA WritingStep ==
  ASSUME Tables, pc' # "ask", "frames" \in DOMAIN set'
  PROVE  IInv'
BY DEF IInv, Tables, AskedAboutUnheld

----------------------------------------------------------------------------
(* One step per action *)

\* What leaves the tables, the set and the load's place alone.
LEMMA QuietActions ==
  ASSUME IInv, UNCHANGED <<row, set, pc>>
  PROVE  IInv'
BY QuietStep DEF IInv

LEMMA WorldStep == ASSUME IInv, World PROVE IInv'
<1>1. UNCHANGED <<row, set, pc>>
  BY DEF World, OtherWrite, Select, Deselect, Announce, StartLoad, DropLoad, NumberMove,
         PublishMove, ResetTenant, store, tables, process, loader
<1> QED
  BY <1>1, QuietActions

LEMMA SetWrittenStep == ASSUME IInv, SetWritten PROVE IInv'
<1>1. UNCHANGED row /\ pc' = pc /\ set' = [set EXCEPT !.written = TRUE]
  BY DEF SetWritten, store, tables, process, loader
<1> QED
  BY <1>1, QuietStep DEF IInv

LEMMA ReceiveStep == ASSUME IInv, Receive PROVE IInv'
<1>1. ASSUME NEW event, Receiving(event) PROVE pc' # "ask" /\ UNCHANGED set
  BY <1>1 DEF Receiving, WriterFree, loader
<1>2. CASE ReceiveObject
  <2>1. Tables
    <3>1. CASE RecordOf(Head(live)) # None
      BY <1>2, <3>1, HeldKeepsApart DEF ReceiveObject
    <3>2. CASE RecordOf(Head(live)) = None
      BY <1>2, <3>2, ResolvesToTheHolder, NewKeepsApart DEF ReceiveObject
    <3> QED
      BY <3>1, <3>2
  <2> QED
    BY <1>1, <1>2, <2>1, WritingStep DEF ReceiveObject, IInv
<1>3. CASE ReceiveRoute \/ ReceiveCaughtUp
  BY <1>1, <1>3, Unmoved, WritingStep
     DEF ReceiveRoute, ReceiveCaughtUp, tables, IInv
<1>4. CASE ReceiveReset
  <2>1. Tables
    BY <1>4 DEF ReceiveReset, Tables, OneRecordPerObject, Bound
  <2> QED
    BY <1>1, <1>4, <2>1, WritingStep DEF ReceiveReset, IInv
<1>5. CASE Bind
  BY <1>5, QuietActions DEF Bind, store, tables, loader
<1> QED
  BY <1>2, <1>3, <1>4, <1>5 DEF Receive

LEMMA SendStep == ASSUME IInv, NEW c \in Caller, Send(c) PROVE IInv'
<1>1. CASE SendApply(c)
  <2>1. Tables /\ pc' # "ask" /\ UNCHANGED set
    BY <1>1, HeldKeepsApart DEF SendApply, WriterFree
  <2> QED
    BY <2>1, WritingStep DEF IInv
<1>2. CASE SendRead(c) \/ SendRefused(c)
  <2>1. UNCHANGED <<row, set>> /\ (pc' = "ask" => pc = "ask")
    BY <1>2 DEF SendRead, SendRefused, Fail, store, tables
  <2> QED
    BY <2>1, QuietStep DEF IInv
<1>3. CASE SendCreates(c) \/ SendKept(c) \/ SendRevised(c)
  BY <1>3, QuietActions DEF SendCreates, SendKept, SendRevised, store, tables, loader
<1> QED
  BY <1>1, <1>2, <1>3 DEF Send

LEMMA TakeFrameStep == ASSUME IInv, TakeFrame PROVE IInv'
<1> DEFINE f == Head(set.frames)
<1>1. RecordOf(f) = None => Holders(f.object) = {}
  BY ResolvesToTheHolder
<1>2. ASSUME Tables, Taken(f), UNCHANGED pc PROVE IInv'
  <2>1. pc' # "ask" /\ "frames" \in DOMAIN set'
    BY <1>2 DEF TakeFrame, Taken, IInv
  <2> QED
    BY <1>2, <2>1, WritingStep
<1>3. CASE RecordOf(f) # None /\ ApplyHeld(RecordOf(f), f) /\ Taken(f) /\ UNCHANGED pc
  BY <1>2, <1>3, HeldKeepsApart
<1>4. CASE /\ RecordOf(f) = None /\ Cardinality(Exact(f)) = 1
           /\ \A l \in Exact(f) : ApplyMatched(l, f)
           /\ Taken(f) /\ UNCHANGED pc
  <2>1. PICK l \in Exact(f) : TRUE
    <3>1. Exact(f) # {}
      <4>1. Cardinality({}) = 0
        BY FS_EmptySet
      <4> QED
        BY <1>4, <4>1
    <3> QED
      BY <3>1
  <2> QED
    BY <1>1, <1>2, <1>4, <2>1, MatchedKeepsApart
<1>5. CASE RecordOf(f) = None /\ ApplyNew(f) /\ Taken(f) /\ UNCHANGED pc
  BY <1>1, <1>2, <1>5, NewKeepsApart
<1>6. CASE RecordOf(f) = None /\ UNCHANGED <<set, tables, minted>>
  <2>1. Tables /\ UNCHANGED set
    BY <1>6, Unmoved DEF tables
  <2>2. AskedAboutUnheld'
    BY <1>1, <1>6 DEF AskedAboutUnheld, Holders, Bound, tables
  <2> QED
    BY <1>6, <2>1, <2>2 DEF IInv, Tables
<1> QED
  BY <1>3, <1>4, <1>5, <1>6 DEF TakeFrame

LEMMA LoadStep == ASSUME IInv, Load PROVE IInv'
<1>1. CASE StartRun \/ ReadStatus \/ SetEnds \/ ReadBindings \/ Confirm \/ ListPending
           \/ PushNext \/ Complete
  <2>1. UNCHANGED row /\ pc' # "ask" /\ "frames" \in DOMAIN set'
    BY <1>1 DEF StartRun, ReadStatus, SetEnds, Closed, ReadBindings, Confirm, ListPending,
                PushNext, Complete, store, tables, loader, process, IInv
  <2> QED
    BY <2>1, Unmoved, WritingStep
<1>3. CASE OpenSet
  <2>1. UNCHANGED row /\ pc' # "ask"
    BY <1>3 DEF OpenSet, store, tables, loader, process
  <2>2. "frames" \in DOMAIN set'
    BY <1>3 DEF OpenSet
  <2> QED
    BY <2>1, <2>2, Unmoved, WritingStep
<1>2. CASE DropRejected
  <2>1. CASE row' = [l \in LocalId |-> IF \E p \in pairs : p.local = l THEN Refused ELSE row[l]]
    <3>1. \A l \in LocalId : Bound(l)' => Bound(l) /\ row'[l] = row[l]
      BY <2>1 DEF Bound, Refused
    <3>2. Tables
      BY <2>1, <3>1 DEF IInv, OneRecordPerObject, Tables
    <3> QED
      BY <1>2, <3>2, WritingStep DEF DropRejected, IInv
  <2>2. CASE UNCHANGED row
    BY <1>2, <2>2, Unmoved, WritingStep DEF DropRejected, IInv
  <2> QED
    BY <1>2, <2>1, <2>2 DEF DropRejected
<1> QED
  BY <1>1, <1>2, <1>3, TakeFrameStep DEF Load

\* What the person recognises is still held by nothing.
LEMMA AnswerStep == ASSUME IInv, Answer PROVE IInv'
<1> DEFINE f == Head(set.frames)
<1>1. Holders(f.object) = {}
  BY DEF Answer, IInv, AskedAboutUnheld
<1>2. Tables
  BY <1>1, MatchedKeepsApart, NewKeepsApart DEF Answer
<1> QED
  BY <1>2, WritingStep DEF Answer, Taken, IInv

LEMMA PersonStep == ASSUME IInv, Person PROVE IInv'
<1>1. CASE EndDelete
  <2>1. Tables
    <3>1. CASE UNCHANGED row
      BY <3>1, Unmoved
    <3>2. CASE row' = [row EXCEPT ![calls["user"].local] = None]
      <4>1. \A l \in LocalId : Bound(l)' => Bound(l) /\ row'[l] = row[l]
        BY <3>2 DEF Bound, IInv
      <4> QED
        BY <3>2, <4>1 DEF IInv, OneRecordPerObject, Tables
    <3> QED
      BY <1>1, <3>1, <3>2 DEF EndDelete
  <2> QED
    BY <1>1, <2>1, WritingStep DEF EndDelete, WriterFree, loader, IInv
<1>2. ASSUME \/ StoreCreated \/ PressLoad \/ Replay
             \/ \E n \in Name : BeginCreate(n)
             \/ \E l \in LocalId : ArchiveLocally(l) \/ BeginDelete(l)
             \/ \E o \in Object : Request(o)
      PROVE  IInv'
  <2>1. UNCHANGED <<row, set, pc>>
    BY <1>2 DEF StoreCreated, PressLoad, Replay, BeginCreate, ArchiveLocally, BeginDelete,
                Request, store, tables, loader
  <2> QED
    BY <2>1, QuietActions
<1> QED
  BY <1>1, <1>2, AnswerStep DEF Person

LEMMA FaultStep == ASSUME IInv, Faults PROVE IInv'
<1>1. UNCHANGED row /\ "frames" \in DOMAIN set'
  BY DEF Faults, Disconnect, DropSet, Closed, LoseConfirmation, Crash, LoseCall, store, tables,
         IInv
<1>2. pc' = "ask" => pc = "ask" /\ set'.frames = set.frames
  BY DEF Faults, Disconnect, DropSet, LoseConfirmation, Crash, LoseCall, Fail, loader
<1> QED
  BY <1>1, <1>2, QuietStep

LEMMA Invariance == Spec => []IInv
<1>1. IInv /\ [Next]_vars => IInv'
  <2> SUFFICES ASSUME IInv, [Next]_vars PROVE IInv'
    OBVIOUS
  <2>1. CASE Connect \/ UNCHANGED vars
    BY <2>1, QuietActions DEF Connect, vars, store, tables, process, loader
  <2> QED
    BY <2>1, WorldStep, SetWrittenStep, ReceiveStep, SendStep, LoadStep, PersonStep, FaultStep
       DEF Next
<1> QED
  BY InitInv, <1>1, PTL DEF Spec

----------------------------------------------------------------------------

\* The unique index of the platform's sync table never refuses a pair
\* (Applier.applyIn, applyUnheldObject, Loader.takeCanonicalSet, inbox.Answer and
\* Loader.dropRejected, whose transactions interleave with the person's).
THEOREM ObjectsStayApart == Spec => []OneRecordPerObject
BY Invariance, PTL DEF IInv

----------------------------------------------------------------------------
(* Types. What agrirouter names is there, and what a put sends has a name. *)

MovingOK ==
  /\ moving \in [Mover -> Moving]
  /\ \A m \in Announcing : moving[m].frame.id <= seq
  /\ overtaken \in BOOLEAN /\ withdrawn \in BOOLEAN

RouterOK ==
  /\ seq \in Nat /\ history \in [Object -> Seq(Revision)] /\ changed \in [Object -> 0..seq]
  /\ wiped \subseteq Object /\ \A o \in Object : Len(history[o]) <= MaxRevision
  /\ mapping \in [LocalId -> Object \cup {None}]
  /\ \A l \in LocalId : mapping[l] # None => mapping[l] \in Existing
  /\ selected \in BOOLEAN /\ routeSeq \in 0..seq /\ resetSeq \in 0..seq
  /\ load \in LoadState \cup {None}
  /\ MovingOK

StreamOK ==
  /\ connected \in BOOLEAN /\ live \in Seq(Frame)
  /\ \A i \in 1..Len(live) : live[i].id <= seq

SetOK ==
  set \in [open : BOOLEAN, written : BOOLEAN, frames : Seq(Delivery), holds : SUBSET Object]

StoreOK ==
  /\ record \in [LocalId -> Stored \cup {None}] /\ row \in [LocalId -> Row \cup {None}]
  /\ route \in BOOLEAN \cup {None} /\ position \in 0..seq

ProcessOK ==
  /\ minted \in 0..MaxRecords /\ routed \in BOOLEAN \cup {None}
  /\ wanted \in BOOLEAN /\ replay \in BOOLEAN /\ binding \in Half \cup {None}

LoaderOK ==
  /\ pc \in Pcs /\ takes \in 0..Attempts /\ pairs \subseteq Half /\ pending \subseteq LocalId
  /\ pc = "ask" => set.frames # <<>>

CallsOK ==
  /\ calls \in [Caller -> Call \cup {None}]
  /\ \A c \in Caller : At(c, "send") /\ calls[c].kind = "put" => calls[c].name \in Name

Types ==
  RouterOK /\ StreamOK /\ SetOK /\ StoreOK /\ ProcessOK /\ LoaderOK /\ CallsOK

LEMMA TypesImplyTypeOK == Types => TypeOK
BY DEF Types, RouterOK, MovingOK, StreamOK, SetOK, StoreOK, ProcessOK, LoaderOK, CallsOK, TypeOK

\* What no step changes stays as it is.
LEMMA MovingStill ==
  ASSUME MovingOK, seq \in Nat, seq' \in Nat, seq <= seq', UNCHANGED moving,
         overtaken' \in BOOLEAN, withdrawn' \in BOOLEAN
  PROVE  MovingOK'
<1>1. ASSUME NEW m \in Announcing PROVE moving[m].frame.id <= seq'
  <2>1. moving[m].frame.id \in Nat /\ moving[m].frame.id <= seq
    BY DEF MovingOK, Announcing, Moving, RouteFrames
  <2> QED
    BY <2>1
<1> QED
  BY <1>1 DEF MovingOK, Announcing

LEMMA RouterStill == ASSUME RouterOK, UNCHANGED router PROVE RouterOK'
<1>1. MovingOK'
  <2>1. UNCHANGED <<moving, seq, overtaken, withdrawn>>
    BY DEF router, objects, selection
  <2> QED
    BY <2>1 DEF RouterOK, MovingOK, Announcing
<1> QED
  BY <1>1 DEF RouterOK, Existing, router, objects, selection

LEMMA StreamStill ==
  ASSUME StreamOK, RouterOK, UNCHANGED stream, seq' \in Nat, seq <= seq'
  PROVE  StreamOK'
<1>1. \A i \in 1..Len(live) : live[i].id \in Nat
  BY DEF StreamOK, Frame, RouteFrames, Delivery
<1> QED
  BY <1>1 DEF StreamOK, stream, RouterOK

LEMMA StoreStill ==
  ASSUME StoreOK, RouterOK, UNCHANGED store, seq' \in Nat, seq <= seq'
  PROVE  StoreOK'
BY DEF StoreOK, store, tables, RouterOK

LEMMA ProcessStill == ASSUME ProcessOK, UNCHANGED <<minted, routed, wanted, replay, binding>>
                      PROVE  ProcessOK'
BY DEF ProcessOK

LEMMA LoaderStill == ASSUME LoaderOK, UNCHANGED loader, pc = "ask" => set'.frames = set.frames
                     PROVE  LoaderOK'
BY DEF LoaderOK, loader

LEMMA CallsStill == ASSUME CallsOK, UNCHANGED calls PROVE CallsOK'
BY DEF CallsOK, At

LEMMA SetStill == ASSUME SetOK, UNCHANGED set PROVE SetOK'
BY DEF SetOK

----------------------------------------------------------------------------
(* Numbers, ends of sequences, and frames *)

LEMMA Names ==
  /\ None \notin LocalId /\ None \notin Object /\ None \notin Nat /\ None \notin Name
  /\ None \notin BOOLEAN /\ None \notin LoadState /\ None \notin Row /\ None \notin Call
  /\ None \notin Stored
  /\ MaxObjects \in Nat /\ MaxRecords \in Nat /\ MaxRevision \in Nat /\ MaxRevision > 0
  /\ Attempts \in Nat
  /\ LocalId \subseteq Nat /\ Object \subseteq Nat
BY ParticipantAssumption DEF LocalId, Object

LEMMA Sizes ==
  /\ MaxObjects \in Nat /\ MaxRecords \in Nat /\ MaxRevision \in Nat /\ MaxRevision > 0
  /\ Attempts \in Nat
BY ParticipantAssumption

LEMMA MinOf ==
  ASSUME NEW S \in SUBSET Nat, S # {}
  PROVE  Min(S) \in S
<1>1. IsWellFoundedOn(OpToRel(<, Nat), Nat)
  BY NatLessThanWellFounded
<1>2. PICK m \in S : \A n \in S : ~(<<n, m>> \in OpToRel(<, Nat))
  BY <1>1, WFMin
<1>3. ASSUME NEW n \in S PROVE m <= n
  <2>1. n \in Nat /\ m \in Nat
    OBVIOUS
  <2>2. ~(n < m)
    BY <1>2, <2>1, Zenon DEF OpToRel
  <2> QED
    BY <2>1, <2>2
<1> QED
  BY <1>3 DEF Min

\* The greatest of some numbers is as far from the bound as the least distance.
LEMMA MaxOf ==
  ASSUME NEW b \in Nat, NEW S \in SUBSET (0..b), S # {}
  PROVE  Max(S) \in S /\ \A n \in S : n <= Max(S)
<1> DEFINE T == {b - n : n \in S}
<1>1. T \in SUBSET Nat /\ T # {}
  <2>1. \A n \in S : b - n \in Nat
    OBVIOUS
  <2>2. PICK n \in S : TRUE
    OBVIOUS
  <2>3. b - n \in T
    BY <2>2
  <2> QED
    BY <2>1, <2>3
<1>2. IsWellFoundedOn(OpToRel(<, Nat), Nat)
  BY NatLessThanWellFounded
<1> HIDE DEF T
<1>3. PICK t \in T : \A s \in T : ~(<<s, t>> \in OpToRel(<, Nat))
  BY <1>1, <1>2, WFMin
<1>4. PICK m \in S : t = b - m
  BY <1>3 DEF T
<1>5. ASSUME NEW n \in S PROVE n <= m
  <2>1. b - n \in T /\ b - n \in Nat /\ t \in Nat
    BY <1>1, <1>3 DEF T
  <2>2. ~(b - n < t)
    BY <1>3, <2>1, Zenon DEF OpToRel
  <2>3. n \in Int /\ m \in Int
    BY <1>4
  <2> QED
    BY <1>4, <2>1, <2>2, <2>3
<1>6. m \in S /\ \A n \in S : m >= n
  BY <1>5
<1> QED
  BY <1>5, <1>6 DEF Max

LEMMA LastOf ==
  ASSUME NEW S, NEW s \in Seq(S), s # <<>>
  PROVE  Last(s) \in S /\ Len(s) \in Nat /\ Len(s) > 0
BY DEF Last

LEMMA LocalNameOf ==
  ASSUME NEW o
  PROVE  /\ LocalName(o) \in LocalId \cup {None}
         /\ LocalName(o) # None => mapping[LocalName(o)] = o
         /\ LocalName(o) = None => \A l \in LocalId : mapping[l] # o
BY Names DEF LocalName

\* What is shown of an object is a delivery.
LEMMA RenderedOf ==
  ASSUME NEW o \in Object, NEW revisions \in Seq(Revision), revisions # <<>>,
         Len(revisions) <= MaxRevision, NEW id \in Nat
  PROVE  Rendered(o, revisions, id) \in Delivery
<1>1. Last(revisions) \in Revision /\ Len(revisions) \in 1..MaxRevision
  BY LastOf, Names
<1> QED
  BY <1>1, LocalNameOf DEF Rendered, Delivery, Revision

LEMMA OrderOf ==
  ASSUME NEW objs \in SUBSET Object, NEW order \in InOrder(objs)
  PROVE  /\ Cardinality(objs) \in Nat /\ order \in [1..Cardinality(objs) -> objs]
         /\ \A o \in objs : \E i \in 1..Cardinality(objs) : order[i] = o
<1>1. IsFiniteSet(Object)
  BY FS_Interval, Names DEF Object
<1>2. Cardinality(objs) \in Nat
  BY <1>1, FS_Subset, FS_CardinalityType
<1> QED
  BY <1>2 DEF InOrder, Bijection, Injection, Surjection

\* The objects of a set or a catch-up, as the endpoint is shown them.
LEMMA FramesOf ==
  ASSUME RouterOK, NEW objs \in SUBSET Existing, NEW order \in InOrder(objs)
  PROVE  /\ Frames(order) \in Seq(Delivery) /\ Len(Frames(order)) = Cardinality(objs)
         /\ Cardinality(objs) \in Nat
         /\ \A i \in 1..Cardinality(objs) :
              /\ Frames(order)[i] = Rendered(order[i], history[order[i]], changed[order[i]])
              /\ order[i] \in objs /\ Frames(order)[i].id <= seq
<1>1. Cardinality(objs) \in Nat /\ order \in [1..Cardinality(objs) -> objs]
  BY OrderOf DEF Existing
<1>2. ASSUME NEW i \in 1..Cardinality(objs)
      PROVE  /\ Rendered(order[i], history[order[i]], changed[order[i]]) \in Delivery
             /\ changed[order[i]] <= seq
  <2>1. order[i] \in Object /\ history[order[i]] # <<>>
    BY <1>1 DEF Existing
  <2>2. /\ history[order[i]] \in Seq(Revision) /\ Len(history[order[i]]) <= MaxRevision
        /\ changed[order[i]] \in Nat /\ changed[order[i]] <= seq
    BY <2>1 DEF RouterOK
  <2> QED
    BY <2>1, <2>2, RenderedOf
<1>3. Frames(order) = [i \in 1..Cardinality(objs) |->
                         Rendered(order[i], history[order[i]], changed[order[i]])]
  BY <1>1 DEF Frames
<1>4. Frames(order) \in Seq(Delivery) /\ Len(Frames(order)) = Cardinality(objs)
  BY <1>1, <1>2, <1>3
<1>5. \A i \in 1..Cardinality(objs) :
         Frames(order)[i].id = changed[order[i]]
  BY <1>3 DEF Rendered
<1> QED
  BY <1>1, <1>2, <1>3, <1>4, <1>5

----------------------------------------------------------------------------
(* What agrirouter does keeps the types *)

LEMMA ReviseKeeps ==
  ASSUME RouterOK, NEW o \in Object, o \notin wiped, NEW rev \in Revision, Revise(o, rev),
         UNCHANGED <<selection, resetSeq>>
  PROVE  /\ seq' = seq + 1 /\ seq' \in Nat /\ wiped' = wiped
         /\ history' \in [Object -> Seq(Revision)] /\ changed' \in [Object -> 0..seq']
         /\ \A q \in Object : Len(history'[q]) <= MaxRevision
         /\ Append(history[o], rev) \in Seq(Revision) /\ Append(history[o], rev) # <<>>
         /\ Len(Append(history[o], rev)) = Len(history[o]) + 1
         /\ Len(Append(history[o], rev)) <= MaxRevision
         /\ Existing \subseteq Existing' /\ o \in Existing'
         /\ routeSeq' \in 0..seq' /\ resetSeq' \in 0..seq'
         /\ selected' \in BOOLEAN /\ history' = [history EXCEPT ![o] = Append(@, rev)]
         /\ MovingOK'
<1>1. /\ history' = [history EXCEPT ![o] = Append(history[o], rev)]
      /\ changed' = [changed EXCEPT ![o] = seq + 1] /\ seq' = seq + 1 /\ wiped' = wiped
      /\ Len(history[o]) < MaxRevision
  BY DEF Revise
<1>2. /\ history[o] \in Seq(Revision) /\ Append(history[o], rev) \in Seq(Revision)
      /\ Len(Append(history[o], rev)) = Len(history[o]) + 1 /\ Len(history[o]) \in Nat
  BY DEF RouterOK
<1>3. Append(history[o], rev) # <<>> /\ Len(Append(history[o], rev)) <= MaxRevision
  BY <1>1, <1>2, Sizes
<1>4. history' \in [Object -> Seq(Revision)] /\ history'[o] = Append(history[o], rev)
      /\ \A q \in Object : q # o => history'[q] = history[q]
  BY <1>1, <1>2 DEF RouterOK
<1>5. \A q \in Object : Len(history'[q]) <= MaxRevision
  BY <1>3, <1>4 DEF RouterOK
<1>6. Existing \subseteq Existing' /\ o \in Existing'
  BY <1>1, <1>3, <1>4 DEF Existing
<1>7. /\ seq' \in Nat /\ changed' \in [Object -> 0..seq'] /\ routeSeq' \in 0..seq'
      /\ resetSeq' \in 0..seq' /\ selected' \in BOOLEAN
  BY <1>1 DEF RouterOK, selection
<1>8. MovingOK'
  <2>1. MovingOK /\ UNCHANGED <<moving, withdrawn>> /\ seq \in Nat /\ seq <= seq'
    BY <1>1 DEF RouterOK, selection
  <2>2. overtaken' \in BOOLEAN /\ withdrawn' \in BOOLEAN
    BY <2>1 DEF Revise, Overtake, MovingOK
  <2> QED
    BY <1>7, <2>1, <2>2, MovingStill
<1> QED
  BY <1>1, <1>2, <1>3, <1>4, <1>5, <1>6, <1>7, <1>8

\* An object written keeps the rest of agrirouter's state typed, whatever of the
\* mapping names something that is there.
LEMMA ReviseRouter ==
  ASSUME RouterOK, NEW o \in Object, o \notin wiped, NEW rev \in Revision, Revise(o, rev),
         UNCHANGED <<selection, resetSeq>>,
         \/ UNCHANGED mapping
         \/ \E l \in LocalId : mapping' = [mapping EXCEPT ![l] = o]
  PROVE  RouterOK'
<1>1. /\ mapping' \in [LocalId -> Object \cup {None}]
      /\ \A l \in LocalId : mapping'[l] # None => mapping'[l] \in Existing'
  <2>1. CASE UNCHANGED mapping
    BY <2>1, ReviseKeeps DEF RouterOK
  <2>2. CASE \E l \in LocalId : mapping' = [mapping EXCEPT ![l] = o]
    BY <2>2, ReviseKeeps DEF RouterOK
  <2> QED
    BY <2>1, <2>2
<1>2. load' = load
  BY DEF selection
<1> QED
  BY <1>1, <1>2, ReviseKeeps DEF RouterOK

LEMMA PublishKeeps ==
  ASSUME RouterOK, StreamOK, NEW f \in Frame, seq' \in Nat, seq <= seq', f.id <= seq',
         Publish(f), UNCHANGED connected
  PROVE  StreamOK'
<1>1. live \in Seq(Frame) /\ Len(live) \in Nat /\ seq \in Nat
  BY DEF RouterOK, StreamOK
<1>2. \A i \in 1..Len(live) : live[i].id \in Nat /\ live[i].id <= seq'
  <2>1. \A i \in 1..Len(live) : live[i].id \in Nat /\ live[i].id <= seq
    BY DEF StreamOK, Frame, RouteFrames, Delivery
  <2> QED
    BY <1>1, <2>1
<1>3. CASE connected
  <2>1. live' = Append(live, f)
    BY <1>3 DEF Publish
  <2>2. /\ live' \in Seq(Frame) /\ Len(live') = Len(live) + 1 /\ live'[Len(live) + 1] = f
        /\ \A i \in 1..Len(live) : live'[i] = live[i]
    BY <1>1, <2>1
  <2> QED
    BY <1>1, <1>2, <2>2 DEF StreamOK
<1>4. CASE ~connected
  BY <1>1, <1>2, <1>4 DEF Publish, StreamOK
<1> QED
  BY <1>3, <1>4

LEMMA FrameTypes ==
  /\ Delivery \subseteq Frame
  /\ \A sel \in BOOLEAN, id \in Nat :
       RouteFrame(sel, id) \in Frame /\ RouteFrame(sel, id).id = id
  /\ \A id \in Nat : /\ ResetFrame(id) \in Frame /\ ResetFrame(id).id = id
                     /\ CaughtUp(id) \in Frame /\ CaughtUp(id).id = id
BY DEF Frame, RouteFrames, RouteFrame, ResetFrame, CaughtUp

LEMMA OtherWriteTypes ==
  ASSUME Types, NEW o \in Object, NEW name \in Name, NEW active \in BOOLEAN,
         OtherWrite(o, name, active)
  PROVE  Types'
<1> DEFINE rev == [name |-> name, active |-> active, ours |-> FALSE]
<1>1. o \in Object /\ o \notin wiped
  <2>1. Unused # {} => Min(Unused) \in Unused
    BY MinOf, Names DEF Unused
  <2> QED
    BY <2>1 DEF OtherWrite, Existing, Unused
<1>2. rev \in Revision /\ Revise(o, rev) /\ UNCHANGED <<selection, resetSeq, mapping>>
  BY DEF OtherWrite, Revision
<1> HIDE DEF rev
<1>3. RouterOK'
  BY <1>1, <1>2, ReviseRouter DEF Types
<1>4. seq' = seq + 1 /\ seq \in Nat /\ seq' \in Nat /\ seq <= seq'
  BY <1>1, <1>2, ReviseKeeps DEF Types, RouterOK
<1>5. StreamOK'
  <2>1. CASE selected
    <3>1. Publish(Rendered(o, Append(history[o], rev), seq + 1)) /\ UNCHANGED connected
      BY <2>1 DEF OtherWrite, rev
    <3>2. Rendered(o, Append(history[o], rev), seq + 1) \in Delivery
      BY <1>1, <1>2, <1>4, ReviseKeeps, RenderedOf DEF Types
    <3>3. Rendered(o, Append(history[o], rev), seq + 1).id = seq + 1
      BY DEF Rendered
    <3> QED
      BY <1>4, <3>1, <3>2, <3>3, FrameTypes, PublishKeeps DEF Types
  <2>2. CASE ~selected
    <3>1. UNCHANGED stream
      BY <2>2 DEF OtherWrite, stream
    <3> QED
      BY <1>4, <3>1, StreamStill DEF Types
  <2> QED
    BY <2>1, <2>2
<1>6. UNCHANGED <<set, store, process>>
  BY DEF OtherWrite
<1>7. UNCHANGED <<minted, routed, wanted, replay, binding, loader, calls>>
  BY <1>6 DEF process, receiver
<1> QED
  BY <1>3, <1>4, <1>5, <1>6, <1>7, SetStill, StoreStill, ProcessStill, LoaderStill, CallsStill
     DEF Types

\* What does not touch agrirouter's numbers or the store, and nothing else but
\* the parts it is shown to keep.
LEMMA Elsewhere ==
  ASSUME Types, RouterOK', seq <= seq', StreamOK', UNCHANGED <<set, store, process>>
  PROVE  Types'
<1>1. UNCHANGED <<minted, routed, wanted, replay, binding, loader, calls>>
  BY DEF process, receiver
<1>2. seq' \in Nat
  BY DEF RouterOK
<1> QED
  BY <1>1, <1>2, SetStill, StoreStill, ProcessStill, LoaderStill, CallsStill DEF Types

LEMMA WentTo ==
  ASSUME MovingOK, NEW m \in Mover, NEW at \in {"idle", "start", "withdraw", "drop", "number"},
         Goes(m, at), UNCHANGED <<seq, overtaken, withdrawn>>
  PROVE  /\ MovingOK' /\ moving'[m] = [at |-> at, frame |-> None]
         /\ \A k \in Mover : k # m => moving'[k] = moving[k]
         /\ Announcing' = Announcing \ {m}
<1>1. [at |-> at, frame |-> None] \in Moving
  BY DEF Moving
<1>2. /\ moving' \in [Mover -> Moving] /\ moving'[m] = [at |-> at, frame |-> None]
      /\ \A k \in Mover : k # m => moving'[k] = moving[k]
  BY <1>1 DEF MovingOK, Goes
<1>3. Announcing' = Announcing \ {m}
  BY <1>2 DEF Announcing
<1> QED
  BY <1>2, <1>3 DEF MovingOK, Announcing

\* What a call that moves the selection does before and after it takes a number.
LEMMA GoingTypes ==
  ASSUME Types, NEW m \in Mover,
         Select(m) \/ Deselect(m) \/ StartLoad(m) \/ DropLoad(m)
  PROVE  Types'
<1>1. /\ \E at \in {"idle", "start", "withdraw", "drop", "number"} : Goes(m, at)
      /\ selected' \in BOOLEAN /\ load' \in LoadState \cup {None}
      /\ UNCHANGED <<objects, mapping, routeSeq, withdrawn, resetSeq, set, stream, store, process>>
  BY DEF Select, Deselect, StartLoad, DropLoad, Types, RouterOK, LoadState
<1>2. MovingOK'
  BY <1>1, WentTo DEF Types, RouterOK, objects
<1>3. RouterOK' /\ seq' = seq /\ seq \in Nat
  BY <1>1, <1>2 DEF Types, RouterOK, Existing, objects
<1> QED
  BY <1>1, <1>3, StreamStill, Elsewhere DEF Types

LEMMA NumberedOf ==
  ASSUME RouterOK, NEW m \in Mover, NumberMove(m)
  PROVE  /\ MovingOK' /\ seq' = seq + 1 /\ seq \in Nat
         /\ moving'[m] = [at |-> "publish", frame |-> RouteFrame(selected, seq + 1)]
         /\ \A k \in Mover : k # m => moving'[k] = moving[k]
         /\ Announcing' = Announcing \cup {m}
<1>1. /\ moving' = [moving EXCEPT
                      ![m] = [at |-> "publish", frame |-> RouteFrame(selected, seq + 1)]]
      /\ seq' = seq + 1 /\ overtaken' \in BOOLEAN /\ withdrawn' = withdrawn
      /\ seq \in Nat /\ selected \in BOOLEAN /\ MovingOK
  BY DEF NumberMove, RouterOK
<1>2. /\ RouteFrame(selected, seq + 1) \in RouteFrames
      /\ RouteFrame(selected, seq + 1).id = seq + 1
  BY <1>1 DEF RouteFrames, RouteFrame
<1>3. [at |-> "publish", frame |-> RouteFrame(selected, seq + 1)] \in Moving
  BY <1>2 DEF Moving
<1>4. /\ moving' \in [Mover -> Moving]
      /\ moving'[m] = [at |-> "publish", frame |-> RouteFrame(selected, seq + 1)]
      /\ \A k \in Mover : k # m => moving'[k] = moving[k]
  BY <1>1, <1>3 DEF MovingOK
<1>5. Announcing' = Announcing \cup {m}
  BY <1>4 DEF Announcing
<1>6. ASSUME NEW k \in Announcing' PROVE moving'[k].frame.id <= seq'
  <2>1. CASE k = m
    BY <1>1, <1>2, <1>4, <2>1
  <2>2. CASE k # m
    <3>1. k \in Announcing /\ k \in Mover
      BY <1>5, <2>2 DEF Announcing
    <3>2. moving[k].frame.id \in Nat /\ moving[k].frame.id <= seq
      BY <1>1, <3>1 DEF MovingOK, Announcing, Moving, RouteFrames
    <3> QED
      BY <1>1, <1>4, <2>2, <3>1, <3>2
  <2> QED
    BY <2>1, <2>2
<1> QED
  BY <1>1, <1>4, <1>5, <1>6 DEF MovingOK

LEMMA NumberTypes == ASSUME Types, NEW m \in Mover, NumberMove(m) PROVE Types'
<1>1. MovingOK' /\ seq' = seq + 1 /\ seq \in Nat
  BY NumberedOf DEF Types
<1>2. /\ routeSeq' = seq + 1
      /\ UNCHANGED <<history, changed, wiped, mapping, selected, load, resetSeq, set, stream,
                     store, process>>
  BY DEF NumberMove
<1>3. RouterOK'
  BY <1>1, <1>2 DEF Types, RouterOK, Existing
<1> QED
  BY <1>1, <1>2, <1>3, StreamStill, Elsewhere DEF Types

LEMMA PublishedFrame ==
  ASSUME MovingOK, NEW m \in Announcing
  PROVE  /\ m \in Mover /\ moving[m].frame \in RouteFrames /\ moving[m].frame \in Frame
         /\ moving[m].frame.id \in Nat /\ moving[m].frame.id <= seq
         /\ moving[m].frame.event = "route" /\ moving[m].frame.selected \in BOOLEAN
<1>1. m \in Mover /\ moving[m] \in Moving /\ moving[m].at = "publish"
  BY DEF MovingOK, Announcing
<1>2. moving[m].frame \in RouteFrames
  BY <1>1 DEF Moving
<1> QED
  BY <1>1, <1>2 DEF MovingOK, RouteFrames, Frame

LEMMA PublishTypes == ASSUME Types, NEW m \in Mover, PublishMove(m) PROVE Types'
<1>1. /\ m \in Announcing /\ Publish(moving[m].frame) /\ Goes(m, "idle")
      /\ UNCHANGED <<objects, mapping, selected, routeSeq, load, withdrawn, resetSeq, set,
                     connected, store, process>>
  BY DEF PublishMove, Announcing
<1>2. MovingOK' /\ MovingOK
  BY <1>1, WentTo DEF Types, RouterOK, objects
<1>3. RouterOK' /\ seq' = seq /\ seq \in Nat
  BY <1>1, <1>2 DEF Types, RouterOK, Existing, objects
<1>4. StreamOK'
  BY <1>1, <1>2, <1>3, PublishedFrame, PublishKeeps DEF Types
<1> QED
  BY <1>1, <1>3, <1>4, Elsewhere

LEMMA ResetTypes == ASSUME Types, ResetTenant PROVE Types'
<1>1. /\ wiped' = wiped \cup Existing /\ history' = [o \in Object |-> <<>>]
      /\ changed' = [o \in Object |-> 0] /\ mapping' = [l \in LocalId |-> None]
      /\ selected' = FALSE /\ load' = None /\ seq' = seq + 1
      /\ UNCHANGED <<routeSeq, connected, set, store, process>>
  BY DEF ResetTenant
<1>2. seq \in Nat /\ seq' \in Nat /\ seq <= seq'
  BY <1>1 DEF Types, RouterOK
<1>3. history' \in [Object -> Seq(Revision)] /\ \A o \in Object : Len(history'[o]) <= MaxRevision
  BY <1>1, Names
<1>4. resetSeq' \in 0..seq' /\ StreamOK'
  <2>1. CASE routeSeq > 0
    <3>1. resetSeq' = seq + 1 /\ Publish(ResetFrame(seq + 1))
      BY <2>1 DEF ResetTenant
    <3>2. ResetFrame(seq + 1) \in Frame /\ ResetFrame(seq + 1).id = seq + 1
      BY <1>2, FrameTypes
    <3> QED
      BY <1>1, <1>2, <3>1, <3>2, PublishKeeps DEF Types
  <2>2. CASE ~(routeSeq > 0)
    <3>1. UNCHANGED <<resetSeq, live>>
      BY <2>2 DEF ResetTenant
    <3> QED
      BY <1>1, <1>2, <3>1, StreamStill DEF Types, stream, RouterOK
  <2> QED
    BY <2>1, <2>2
<1>5. wiped' \subseteq Object
  BY <1>1 DEF Types, RouterOK, Existing
<1>6. /\ mapping' \in [LocalId -> Object \cup {None}]
      /\ \A l \in LocalId : mapping'[l] = None
  BY <1>1
<1>7. changed' \in [Object -> 0..seq'] /\ routeSeq' \in 0..seq'
  BY <1>1, <1>2 DEF Types, RouterOK
<1>8. MovingOK'
  <2>1. MovingOK /\ UNCHANGED <<moving, withdrawn>> /\ Overtake
    BY DEF ResetTenant, Types, RouterOK
  <2>2. overtaken' \in BOOLEAN /\ withdrawn' \in BOOLEAN
    BY <2>1 DEF Overtake, MovingOK
  <2> QED
    BY <1>2, <2>1, <2>2, MovingStill
<1>9. RouterOK'
  BY <1>1, <1>2, <1>3, <1>4, <1>5, <1>6, <1>7, <1>8 DEF RouterOK
<1> QED
  BY <1>1, <1>2, <1>4, <1>9, Elsewhere

LEMMA SetWrittenTypes == ASSUME Types, SetWritten PROVE Types'
<1>1. /\ set' = [set EXCEPT !.written = TRUE]
      /\ load' \in {None, "RECONCILING"}
      /\ UNCHANGED <<objects, mapping, selected, routeSeq, moving, withdrawn, resetSeq, stream,
                     store, process>>
  BY DEF SetWritten
<1>2. RouterOK' /\ seq' \in Nat /\ seq <= seq'
  <2>1. MovingOK'
    BY <1>1, MovingStill DEF Types, RouterOK, MovingOK, objects
  <2> QED
    BY <1>1, <2>1 DEF Types, RouterOK, Existing, objects, LoadState
<1>3. SetOK' /\ set'.frames = set.frames
  BY <1>1 DEF Types, SetOK
<1>4. UNCHANGED <<minted, routed, wanted, replay, binding, loader, calls>>
  BY <1>1 DEF process, receiver
<1> QED
  BY <1>1, <1>2, <1>3, <1>4, StreamStill, StoreStill, ProcessStill, LoaderStill, CallsStill
     DEF Types

----------------------------------------------------------------------------
(* What a connection is sent first *)

\* What the selection is once a frame that moves it is received.
TellsAMove(f) == f.event \in {"route", "reset"}
Leaves(f) == IF f.event = "reset" THEN FALSE ELSE f.selected

LEMMA ConcatOf ==
  ASSUME NEW S, NEW a \in Seq(S), NEW b \in Seq(S)
  PROVE  /\ a \o b \in Seq(S) /\ Len(a \o b) = Len(a) + Len(b)
         /\ Len(a) \in Nat /\ Len(b) \in Nat
         /\ \A i \in 1..Len(a) : (a \o b)[i] = a[i]
         /\ \A i \in 1..Len(a \o b) : i > Len(a) =>
              i - Len(a) \in 1..Len(b) /\ (a \o b)[i] = b[i - Len(a)]
BY ConcatProperties

LEMMA Joined ==
  ASSUME NEW S, NEW x \in S, NEW y \in S
  PROVE  <<x>> \o <<>> = <<x>> /\ <<>> \o <<y>> = <<y>> /\ <<x>> \o <<y>> = <<x, y>>
<1>1. <<x>> \in Seq(S) /\ <<y>> \in Seq(S)
  OBVIOUS
<1>2. <<x>> \o <<>> = <<x>> /\ <<>> \o <<y>> = <<y>>
  BY <1>1, ConcatEmptySeq
<1>3. <<x>> \o <<y>> = <<x, y>>
  <2>1. <<x, y>> \in Seq(S) /\ Len(<<x, y>>) = 2
    OBVIOUS
  <2>2. /\ <<x>> \o <<y>> \in Seq(S) /\ Len(<<x>> \o <<y>>) = 2
        /\ (<<x>> \o <<y>>)[1] = x /\ (<<x>> \o <<y>>)[2] = y
    BY <1>1, ConcatProperties
  <2>3. \A i \in 1..2 : (<<x>> \o <<y>>)[i] = <<x, y>>[i]
    <3>1. \A i \in 1..2 : i = 1 \/ i = 2
      OBVIOUS
    <3> QED
      BY <2>2, <3>1
  <2> QED
    BY <2>1, <2>2, <2>3, SeqEqual
<1> QED
  BY <1>2, <1>3

\* A catch-up is the moves passed over, and then frames that move nothing.
LEMMA CatchUpOf ==
  ASSUME RouterOK, NEW from \in Nat, NEW order \in InOrder(Missed(from))
  PROVE  \E heads \in Seq(Frame), rest \in Seq(Frame) :
           /\ CatchUp(from, order) = heads \o rest
           /\ \A i \in 1..Len(rest) : ~TellsAMove(rest[i]) /\ rest[i].id <= seq
           /\ \/ /\ heads = <<>> /\ resetSeq <= from
                 /\ routeSeq <= from \/ routeSeq <= resetSeq
              \/ heads = <<ResetFrame(resetSeq)>> /\ routeSeq <= resetSeq
              \/ heads = <<RouteFrame(selected, routeSeq)>> /\ routeSeq > resetSeq
              \/ /\ heads = <<ResetFrame(resetSeq), RouteFrame(selected, routeSeq)>>
                 /\ routeSeq > resetSeq
<1> DEFINE reset == IF resetSeq > from THEN <<ResetFrame(resetSeq)>> ELSE <<>>
           move == IF routeSeq > from /\ routeSeq > resetSeq
                   THEN <<RouteFrame(selected, routeSeq)>> ELSE <<>>
           heads == reset \o move
           rest == Frames(order) \o <<CaughtUp(seq)>>
<1>1. /\ resetSeq \in Nat /\ routeSeq \in Nat /\ seq \in Nat /\ selected \in BOOLEAN
  BY DEF RouterOK
<1>2. /\ ResetFrame(resetSeq) \in Frame /\ RouteFrame(selected, routeSeq) \in Frame
      /\ CaughtUp(seq) \in Frame /\ CaughtUp(seq).id = seq /\ ~TellsAMove(CaughtUp(seq))
  BY <1>1, FrameTypes DEF CaughtUp, TellsAMove
<1>3. Missed(from) \in SUBSET Existing
  BY DEF Missed
<1>4. /\ Frames(order) \in Seq(Frame) /\ Len(Frames(order)) = Cardinality(Missed(from))
      /\ Cardinality(Missed(from)) \in Nat
      /\ \A i \in 1..Cardinality(Missed(from)) :
           ~TellsAMove(Frames(order)[i]) /\ Frames(order)[i].id <= seq
  <2>1. Frames(order) \in Seq(Delivery)
    BY <1>3, FramesOf
  <2>2. Frames(order) \in Seq(Frame)
    BY <2>1, FrameTypes
  <2>3. \A o, revisions, id : ~TellsAMove(Rendered(o, revisions, id))
    BY DEF Rendered, TellsAMove
  <2> QED
    BY <1>3, <2>2, <2>3, FramesOf
<1>5. /\ rest \in Seq(Frame)
      /\ \A i \in 1..Len(rest) : ~TellsAMove(rest[i]) /\ rest[i].id <= seq
  <2>1. <<CaughtUp(seq)>> \in Seq(Frame)
    BY <1>2
  <2>2. /\ rest \in Seq(Frame) /\ Len(rest) = Len(Frames(order)) + 1
        /\ \A i \in 1..Len(Frames(order)) : rest[i] = Frames(order)[i]
        /\ rest[Len(Frames(order)) + 1] = CaughtUp(seq)
    BY <1>4, <2>1, ConcatOf
  <2> QED
    BY <1>1, <1>2, <1>4, <2>2
<1>6. reset \in Seq(Frame) /\ move \in Seq(Frame) /\ heads \in Seq(Frame)
  BY <1>2
<1>7. CatchUp(from, order) = heads \o rest
  <2>1. CatchUp(from, order) = (heads \o Frames(order)) \o <<CaughtUp(seq)>>
    BY DEF CatchUp
  <2>2. <<CaughtUp(seq)>> \in Seq(Frame)
    BY <1>2
  <2>3. (heads \o Frames(order)) \o <<CaughtUp(seq)>>
          = heads \o (Frames(order) \o <<CaughtUp(seq)>>)
    <3> HIDE DEF heads
    <3> QED
      BY <1>4, <1>6, <2>2, ConcatAssociative
  <2> QED
    BY <2>1, <2>3
<1>8. \/ /\ heads = <<>> /\ resetSeq <= from
         /\ routeSeq <= from \/ routeSeq <= resetSeq
      \/ heads = <<ResetFrame(resetSeq)>> /\ routeSeq <= resetSeq
      \/ heads = <<RouteFrame(selected, routeSeq)>> /\ routeSeq > resetSeq
      \/ /\ heads = <<ResetFrame(resetSeq), RouteFrame(selected, routeSeq)>>
         /\ routeSeq > resetSeq
  <2>1. CASE resetSeq > from /\ routeSeq > resetSeq
    <3>1. reset = <<ResetFrame(resetSeq)>> /\ move = <<RouteFrame(selected, routeSeq)>>
      BY <1>1, <2>1
    <3>2. heads = <<ResetFrame(resetSeq), RouteFrame(selected, routeSeq)>>
      BY <1>2, <3>1, Joined
    <3> QED
      BY <2>1, <3>2
  <2>2. CASE resetSeq > from /\ ~(routeSeq > resetSeq)
    <3>1. reset = <<ResetFrame(resetSeq)>> /\ move = <<>>
      BY <1>1, <2>2
    <3>2. heads = <<ResetFrame(resetSeq)>>
      BY <1>2, <3>1, Joined
    <3> QED
      BY <1>1, <2>2, <3>2
  <2>3. CASE ~(resetSeq > from) /\ routeSeq > from /\ routeSeq > resetSeq
    <3>1. reset = <<>> /\ move = <<RouteFrame(selected, routeSeq)>>
      BY <1>1, <2>3
    <3>2. heads = <<RouteFrame(selected, routeSeq)>>
      BY <1>2, <3>1, Joined
    <3> QED
      BY <2>3, <3>2
  <2>4. CASE ~(resetSeq > from) /\ ~(routeSeq > from /\ routeSeq > resetSeq)
    <3>1. reset = <<>> /\ move = <<>>
      BY <1>1, <2>4
    <3>2. heads = <<>>
      BY <3>1
    <3> QED
      BY <1>1, <2>4, <3>2
  <2> QED
    BY <2>1, <2>2, <2>3, <2>4
<1> HIDE DEF heads, rest
<1> QED
  BY <1>5, <1>6, <1>7, <1>8

LEMMA CatchUpTypes ==
  ASSUME RouterOK, NEW from \in Nat, NEW order \in InOrder(Missed(from))
  PROVE  /\ CatchUp(from, order) \in Seq(Frame)
         /\ \A i \in 1..Len(CatchUp(from, order)) : CatchUp(from, order)[i].id <= seq
<1>1. PICK heads \in Seq(Frame), rest \in Seq(Frame) :
        /\ CatchUp(from, order) = heads \o rest
        /\ \A i \in 1..Len(rest) : rest[i].id <= seq
        /\ \/ heads = <<>> \/ heads = <<ResetFrame(resetSeq)>>
           \/ heads = <<RouteFrame(selected, routeSeq)>>
           \/ heads = <<ResetFrame(resetSeq), RouteFrame(selected, routeSeq)>>
  BY CatchUpOf
<1>2. \A i \in 1..Len(heads) : heads[i].id <= seq
  <2>1. ResetFrame(resetSeq).id <= seq /\ RouteFrame(selected, routeSeq).id <= seq
    BY FrameTypes DEF RouterOK
  <2> QED
    BY <1>1, <2>1
<1> QED
  BY <1>1, <1>2, ConcatOf

LEMMA ConnectTypes == ASSUME Types, Connect PROVE Types'
<1>1. /\ connected' = TRUE /\ replay' = FALSE
      /\ UNCHANGED <<router, set, store, minted, routed, wanted, binding, loader, calls>>
  BY DEF Connect
<1>2. PICK from \in Nat : \E order \in InOrder(Missed(from)) : live' = CatchUp(from, order)
  BY DEF Connect, Types, StoreOK
<1>3. StreamOK'
  <2>1. seq' = seq
    BY <1>1 DEF router, objects
  <2> QED
    BY <1>1, <1>2, <2>1, CatchUpTypes DEF Types, StreamOK
<1>4. ProcessOK'
  BY <1>1 DEF Types, ProcessOK
<1>5. seq' \in Nat /\ seq <= seq'
  BY <1>1 DEF Types, RouterOK, router, objects
<1> QED
  BY <1>1, <1>3, <1>4, <1>5, RouterStill, SetStill, StoreStill, LoaderStill, CallsStill
     DEF Types

----------------------------------------------------------------------------
(* The platform's tables keep their types *)

LEMMA PairOf ==
  ASSUME NEW o \in Object, NEW revision \in 0..MaxRevision
  PROVE  /\ Pair(o, revision) \in Row /\ Pair(o, revision) # None
         /\ Pair(o, revision).object = o /\ Pair(o, revision).revision = revision
<1>1. Pair(o, revision) \in Row
  BY DEF Pair, Row
<1> QED
  BY <1>1, Names DEF Pair

LEMMA RefusedOf == Refused \in Row /\ Refused # None /\ Refused.object = None
<1>1. 0 \in 0..MaxRevision
  BY Names
<1>2. Refused \in Row
  BY <1>1 DEF Refused, Row
<1> QED
  BY <1>2, Names DEF Refused

LEMMA RevisionOf == 1..MaxRevision \subseteq 0..MaxRevision
BY Names

\* What a delivery and an answer say of an object alike.
Told(f) ==
  /\ f.object \in Object /\ f.revision \in 1..MaxRevision /\ f.name \in Name
  /\ f.active \in BOOLEAN /\ f.local \in LocalId \cup {None}

LEMMA DeliveryTold == \A f \in Delivery : Told(f)
BY DEF Delivery, Told

LEMMA WriteTypes ==
  ASSUME NEW l \in LocalId, NEW f, Told(f), Write(l, f),
         record \in [LocalId -> Stored \cup {None}], row \in [LocalId -> Row \cup {None}]
  PROVE  record' \in [LocalId -> Stored \cup {None}] /\ row' \in [LocalId -> Row \cup {None}]
<1>1. [name |-> f.name, archived |-> ~f.active] \in Stored
  BY DEF Told, Stored
<1>2. Pair(f.object, f.revision) \in Row
  BY PairOf, RevisionOf DEF Told
<1> QED
  BY <1>1, <1>2 DEF Write

\* A record's pair and content, and the identifier given out last.
TablesOK ==
  /\ record \in [LocalId -> Stored \cup {None}] /\ row \in [LocalId -> Row \cup {None}]
  /\ minted \in 0..MaxRecords

LEMMA RecordOfTypes ==
  ASSUME NEW f, f.local \in LocalId \cup {None}
  PROVE  RecordOf(f) \in LocalId \cup {None}
BY DEF RecordOf, Holders

LEMMA HeldTypes ==
  ASSUME TablesOK, NEW f, Told(f), RecordOf(f) # None, ApplyHeld(RecordOf(f), f)
  PROVE  TablesOK'
<1>1. RecordOf(f) \in LocalId
  BY RecordOfTypes DEF Told
<1> QED
  BY <1>1, WriteTypes DEF TablesOK, ApplyHeld, tables

LEMMA MatchedTypes ==
  ASSUME TablesOK, NEW f, Told(f), NEW l \in LocalId, record[l] # None, ApplyMatched(l, f)
  PROVE  TablesOK'
<1>1. CASE f.active
  BY <1>1, WriteTypes DEF TablesOK, ApplyMatched
<1>2. CASE ~f.active
  <2>1. record[l] \in Stored
    BY DEF TablesOK
  <2>2. [record[l] EXCEPT !.archived = TRUE] \in Stored
    BY <2>1 DEF Stored
  <2>3. Pair(f.object, f.revision) \in Row
    BY PairOf, RevisionOf DEF Told
  <2>4. /\ record' = [record EXCEPT ![l] = [record[l] EXCEPT !.archived = TRUE]]
        /\ row' = [row EXCEPT ![l] = Pair(f.object, f.revision)] /\ minted' = minted
    BY <1>2 DEF ApplyMatched
  <2> QED
    BY <2>2, <2>3, <2>4 DEF TablesOK
<1> QED
  BY <1>1, <1>2

LEMMA MintedNext == ASSUME TablesOK, minted < MaxRecords
                    PROVE  minted + 1 \in LocalId /\ minted + 1 \in 0..MaxRecords
BY Names DEF TablesOK, LocalId

LEMMA NewTypes ==
  ASSUME TablesOK, NEW f, Told(f), ApplyNew(f)
  PROVE  TablesOK'
<1>1. CASE f.active
  BY <1>1, MintedNext, WriteTypes DEF TablesOK, ApplyNew
<1>2. CASE ~f.active
  BY <1>2 DEF TablesOK, ApplyNew, tables
<1> QED
  BY <1>1, <1>2

----------------------------------------------------------------------------
(* The receive loop keeps the types *)

LEMMA HeadOf ==
  ASSUME RouterOK, StreamOK, live # <<>>
  PROVE  /\ Head(live) \in Frame /\ Head(live) = live[1] /\ Head(live).id \in 0..seq
         /\ Tail(live) \in Seq(Frame) /\ Len(Tail(live)) = Len(live) - 1
         /\ Len(live) \in Nat /\ Len(live) > 0
         /\ \A i \in 1..Len(Tail(live)) : i + 1 \in 1..Len(live) /\ Tail(live)[i] = live[i + 1]
<1>1. /\ Len(live) \in Nat /\ Len(live) > 0 /\ Head(live) = live[1]
      /\ live[1].id <= seq /\ seq \in Nat
  BY DEF StreamOK, RouterOK
<1>2. /\ Head(live) \in Frame /\ Tail(live) \in Seq(Frame) /\ Len(Tail(live)) = Len(live) - 1
      /\ \A i \in 1..Len(Tail(live)) : Tail(live)[i] = live[i + 1]
  BY HeadTailProperties DEF StreamOK
<1>3. Head(live).id \in Nat
  BY <1>2 DEF Frame, RouteFrames, Delivery
<1> QED
  BY <1>1, <1>2, <1>3

LEMMA FrameOf ==
  \A f \in Frame : /\ f.event = "object" => f \in Delivery
                   /\ f.event = "route" => f.selected \in BOOLEAN
BY DEF Frame, RouteFrames, Delivery

LEMMA DropTypes == ASSUME Drop PROVE StreamOK'
<1>1. connected' = FALSE /\ live' = <<>>
  BY DEF Drop
<1>2. <<>> \in Seq(Frame) /\ \A i \in 1..Len(<<>>) : FALSE
  OBVIOUS
<1> QED
  BY <1>1, <1>2 DEF StreamOK

LEMMA TablesTyped == Types => TablesOK
BY DEF Types, StoreOK, ProcessOK, TablesOK

LEMMA ReceivingTypes ==
  ASSUME Types, NEW event, Receiving(event), TablesOK',
         route' \in BOOLEAN \cup {None}, routed' \in BOOLEAN \cup {None}, wanted' \in BOOLEAN,
         binding' \in Half \cup {None}
  PROVE  Types'
<1>1. /\ live # <<>> /\ live' = Tail(live) /\ position' = Head(live).id
      /\ UNCHANGED <<router, set, connected, replay, loader, calls>>
  BY DEF Receiving
<1>2. StreamOK' /\ position' \in 0..seq'
  <2>1. seq' = seq
    BY <1>1 DEF router, objects
  <2> QED
    BY <1>1, <2>1, HeadOf DEF Types, StreamOK
<1>3. StoreOK'
  BY <1>2 DEF StoreOK, TablesOK
<1>4. ProcessOK'
  BY <1>1 DEF ProcessOK, TablesOK, Types
<1> QED
  BY <1>1, <1>2, <1>3, <1>4, RouterStill, SetStill, LoaderStill, CallsStill DEF Types

LEMMA ReceiveTypes == ASSUME Types, Receive PROVE Types'
<1> DEFINE f == Head(live)
<1>1. CASE ReceiveObject
  <2>1. Receiving("object") /\ f \in Delivery /\ Told(f)
    BY <1>1, HeadOf, FrameOf, DeliveryTold DEF ReceiveObject, Receiving, Types
  <2>2. UNCHANGED <<route, routed, wanted>>
    BY <1>1 DEF ReceiveObject
  <2>3. CASE RecordOf(f) # None
    <3>1. ApplyHeld(RecordOf(f), f) /\ UNCHANGED binding
      BY <1>1, <2>3 DEF ReceiveObject
    <3>2. TablesOK'
      BY <2>1, <2>3, <3>1, TablesTyped, HeldTypes
    <3> QED
      BY <2>1, <2>2, <3>1, <3>2, ReceivingTypes DEF Types, StoreOK, ProcessOK
  <2>4. CASE RecordOf(f) = None
    <3>1. /\ ApplyNew(f)
          /\ binding' = IF f.active THEN [local |-> minted + 1, object |-> f.object] ELSE None
      BY <1>1, <2>4 DEF ReceiveObject
    <3>2. TablesOK'
      BY <2>1, <3>1, TablesTyped, NewTypes
    <3>3. f.active => minted + 1 \in LocalId
      BY <3>1, TablesTyped, MintedNext DEF ApplyNew
    <3>4. binding' \in Half \cup {None}
      BY <2>1, <3>1, <3>3 DEF Half, Told
    <3> QED
      BY <2>1, <2>2, <3>2, <3>4, ReceivingTypes DEF Types, StoreOK, ProcessOK
  <2> QED
    BY <2>3, <2>4
<1>2. CASE ReceiveRoute
  <2>1. Receiving("route") /\ f.selected \in BOOLEAN
    BY <1>2, HeadOf, FrameOf DEF ReceiveRoute, Receiving, Types
  <2>2. /\ route' = f.selected /\ routed' = f.selected /\ wanted' = TRUE
        /\ UNCHANGED <<tables, minted, binding>>
    BY <1>2 DEF ReceiveRoute, Routed
  <2> QED
    BY <2>1, <2>2, TablesTyped, ReceivingTypes DEF Types, ProcessOK, TablesOK, tables
<1>3. CASE ReceiveReset
  <2>1. Receiving("reset") /\ row' = [l \in LocalId |-> None]
        /\ route' = FALSE /\ routed' = FALSE /\ wanted' = TRUE
        /\ UNCHANGED <<record, minted, binding>>
    BY <1>3 DEF ReceiveReset, Routed
  <2> QED
    BY <2>1, TablesTyped, ReceivingTypes DEF Types, ProcessOK, TablesOK
<1>4. CASE ReceiveCaughtUp
  <2>1. Receiving("caughtUp") /\ UNCHANGED <<tables, route, minted, routed, wanted, binding>>
    BY <1>4 DEF ReceiveCaughtUp
  <2> QED
    BY <2>1, TablesTyped, ReceivingTypes DEF Types, ProcessOK, StoreOK, TablesOK, tables
<1>5. CASE Bind
  <2>1. /\ binding # None /\ binding' = None
        /\ UNCHANGED <<objects, selection, resetSeq, set, store, minted, routed, wanted, replay,
                       loader, calls>>
    BY <1>5 DEF Bind
  <2>2. RouterOK' /\ StreamOK'
    <3>1. CASE Bindable(binding.local, binding.object)
      <4>1. /\ mapping' = [mapping EXCEPT ![binding.local] = binding.object]
            /\ UNCHANGED stream
        BY <1>5, <3>1 DEF Bind
      <4>2. binding.object \in Existing /\ binding.object \in Object
        BY <3>1 DEF Bindable, Existing
      <4>3. MovingOK'
        BY <2>1 DEF Types, RouterOK, MovingOK, Announcing, objects, selection
      <4>4. RouterOK'
        BY <2>1, <4>1, <4>2, <4>3 DEF Types, RouterOK, objects, selection, Existing
      <4> QED
        BY <2>1, <4>1, <4>4, StreamStill DEF Types, RouterOK, objects
    <3>2. CASE ~Bindable(binding.local, binding.object)
      <4>1. Drop /\ UNCHANGED mapping
        BY <1>5, <3>2 DEF Bind
      <4>2. StreamOK'
        BY <4>1, DropTypes
      <4> QED
        BY <2>1, <4>1, <4>2, RouterStill DEF Types, router
    <3> QED
      BY <3>1, <3>2
  <2>3. ProcessOK'
    BY <2>1 DEF Types, ProcessOK
  <2>4. seq' = seq /\ seq \in Nat
    BY <2>1 DEF objects, Types, RouterOK
  <2> QED
    BY <2>1, <2>2, <2>3, <2>4, StoreStill, SetStill, LoaderStill, CallsStill DEF Types
<1> QED
  BY <1>1, <1>2, <1>3, <1>4, <1>5 DEF Receive

----------------------------------------------------------------------------
(* Sending keeps the types *)

LEMMA CallOf ==
  ASSUME CallsOK, NEW c \in Caller, NEW step, At(c, step)
  PROVE  /\ calls[c] \in Call
         /\ step = "read" => calls[c] \in Reading
         /\ step = "send" => calls[c] \in Sending
         /\ step = "apply" => calls[c] \in Applying
         /\ step = "store" => calls[c] \in Creating
         /\ step = "drop" => calls[c] \in Deleting
BY DEF CallsOK, At, Call, Reading, Sending, Applying, Creating, Deleting

\* One caller's call moves on or ends.
LEMMA CallTypes ==
  ASSUME CallsOK, NEW c \in Caller, NEW k \in Call \cup {None},
         k \in Sending /\ k.kind = "put" => k.name \in Name,
         calls' = [calls EXCEPT ![c] = k]
  PROVE  CallsOK'
<1>1. calls' \in [Caller -> Call \cup {None}] /\ calls'[c] = k
      /\ \A d \in Caller : d # c => calls'[d] = calls[d]
  BY DEF CallsOK
<1>2. At(c, "send")' => k \in Sending
  BY <1>1 DEF At, Call, Reading, Sending, Applying, Creating, Deleting
<1>3. \A d \in Caller : d # c /\ At(d, "send")' => At(d, "send")
  BY <1>1 DEF At
<1> QED
  BY <1>1, <1>2, <1>3 DEF CallsOK

LEMMA EndTypes ==
  ASSUME CallsOK, NEW c \in Caller, calls' = [calls EXCEPT ![c] = None]
  PROVE  CallsOK'
<1>1. None \notin Sending
  BY Names DEF Call
<1> QED
  BY <1>1, CallTypes

LEMMA FailTypes ==
  ASSUME Types, NEW c \in Caller, Fail(c), UNCHANGED <<set, takes, pairs>>
  PROVE  CallsOK' /\ LoaderOK'
<1>1. CallsOK'
  BY EndTypes DEF Fail, Types
<1>2. /\ pc' = IF c = "load" THEN "idle" ELSE pc
      /\ pending' = IF c = "load" THEN {} ELSE pending
  BY DEF Fail
<1>3. LoaderOK'
  BY <1>2 DEF Types, LoaderOK, Pcs
<1> QED
  BY <1>1, <1>3

LEMMA SendReadTypes == ASSUME Types, NEW c \in Caller, SendRead(c) PROVE Types'
<1> DEFINE k == calls[c]
           l == k.local
           sent == [kind |-> k.kind, step |-> "send", local |-> l,
                    name |-> IF record[l] = None THEN None ELSE record[l].name,
                    active |-> record[l] # None /\ ~record[l].archived,
                    base |-> IF Bound(l) THEN row[l].revision ELSE 0]
           bad == IF k.kind = "put" THEN record[l] = None \/ Marked(l) ELSE ~Bound(l)
<1>1. /\ At(c, "read")
      /\ UNCHANGED <<router, set, stream, store, minted, routed, wanted, receiver, takes, pairs>>
      /\ bad => Fail(c)
      /\ ~bad => calls' = [calls EXCEPT ![c] = sent] /\ UNCHANGED <<pc, pending>>
  BY DEF SendRead
<1>2. k \in Reading /\ k.kind \in {"put", "deactivate"} /\ l \in LocalId
  BY <1>1, CallOf DEF Types, Reading
<1>3. CallsOK' /\ LoaderOK'
  <2>1. CASE bad
    BY <1>1, <2>1, FailTypes
  <2>2. CASE ~bad
    <3>1. record[l] # None => record[l] \in Stored
      BY <1>2 DEF Types, StoreOK
    <3>2. Bound(l) => row[l].revision \in 0..MaxRevision
      BY <1>2 DEF Types, StoreOK, Bound, Row
    <3>3. 0 \in 0..MaxRevision
      BY Names
    <3>4. /\ sent.kind = k.kind /\ sent.step = "send" /\ sent.local = l
          /\ sent.name \in Name \cup {None} /\ sent.active \in BOOLEAN
          /\ sent.base \in 0..MaxRevision
      BY <3>1, <3>2, <3>3 DEF Stored
    <3>5. sent \in Sending
      BY <1>2, <3>4 DEF Sending
    <3>6. sent.kind = "put" => sent.name \in Name
      BY <2>2, <3>1 DEF Stored
    <3> HIDE DEF sent
    <3>7. CallsOK'
      BY <1>1, <2>2, <3>5, <3>6, CallTypes DEF Call, Types
    <3>8. LoaderOK'
      BY <1>1, <2>2 DEF Types, LoaderOK
    <3> QED
      BY <3>7, <3>8
  <2> QED
    BY <2>1, <2>2
<1>4. seq' \in Nat /\ seq <= seq'
  BY <1>1 DEF router, objects, Types, RouterOK
<1> QED
  BY <1>1, <1>3, <1>4, RouterStill, StreamStill, SetStill, StoreStill, ProcessStill
     DEF Types, receiver

LEMMA SendRefusedTypes == ASSUME Types, NEW c \in Caller, SendRefused(c) PROVE Types'
<1>1. /\ Fail(c)
      /\ UNCHANGED <<router, set, stream, store, minted, routed, wanted, receiver, takes, pairs>>
  BY DEF SendRefused
<1>2. CallsOK' /\ LoaderOK'
  BY <1>1, FailTypes
<1>3. seq' \in Nat /\ seq <= seq'
  BY <1>1 DEF router, objects, Types, RouterOK
<1> QED
  BY <1>1, <1>2, <1>3, RouterStill, StreamStill, SetStill, StoreStill, ProcessStill
     DEF Types, receiver

LEMMA AnsweredTypes ==
  ASSUME CallsOK, NEW c \in Caller, At(c, "send"), NEW o \in Object, NEW rev \in Revision,
         NEW revision \in 1..MaxRevision, Answered(c, o, rev, revision)
  PROVE  CallsOK'
<1> DEFINE k == calls[c]
           answer == [object |-> o, revision |-> revision, name |-> rev.name,
                      active |-> rev.active, local |-> k.local]
           next == [kind |-> k.kind, step |-> "apply", local |-> k.local, answer |-> answer]
<1>1. k \in Sending /\ c \in DOMAIN calls
  BY CallOf DEF CallsOK
<1>2. calls' = [calls EXCEPT ![c] = next]
  BY <1>1 DEF Answered
<1>3. next \in Applying
  BY <1>1 DEF Applying, Sending, Revision
<1>4. next \notin Sending
  BY DEF Sending
<1> HIDE DEF next
<1> QED
  BY <1>2, <1>3, <1>4, CallTypes DEF Call

\* A write to an object and the answer to it keep the types.
LEMMA WrittenTypes ==
  ASSUME Types, NEW c \in Caller, At(c, "send"), NEW o \in Object, o \notin wiped,
         NEW rev \in Revision, Revise(o, rev),
         NEW revision \in 1..MaxRevision, Answered(c, o, rev, revision),
         \/ UNCHANGED mapping
         \/ \E l \in LocalId : mapping' = [mapping EXCEPT ![l] = o],
         UNCHANGED <<selection, resetSeq, set, stream, store, minted, routed, wanted, receiver,
                     loader>>
  PROVE  Types'
<1>1. RouterOK'
  BY ReviseRouter DEF Types
<1>2. CallsOK'
  BY AnsweredTypes DEF Types
<1>3. seq' \in Nat /\ seq <= seq'
  BY ReviseKeeps DEF Types, RouterOK
<1> QED
  BY <1>1, <1>2, <1>3, StreamStill, SetStill, StoreStill, ProcessStill, LoaderStill
     DEF Types, receiver

LEMMA SendCreatesTypes == ASSUME Types, NEW c \in Caller, SendCreates(c) PROVE Types'
<1> DEFINE o == Min(Unused)
           rev == [name |-> calls[c].name, active |-> calls[c].active, ours |-> TRUE]
<1>1. /\ At(c, "send") /\ calls[c].kind = "put" /\ Unused # {}
      /\ Revise(o, rev) /\ mapping' = [mapping EXCEPT ![calls[c].local] = o]
      /\ Answered(c, o, rev, 1)
      /\ UNCHANGED <<selection, resetSeq, set, stream, store, minted, routed, wanted, receiver,
                     loader>>
  BY DEF SendCreates
<1>2. calls[c] \in Sending /\ calls[c].local \in LocalId /\ calls[c].name \in Name
      /\ calls[c].active \in BOOLEAN
  BY <1>1, CallOf DEF Types, CallsOK, Sending
<1>3. o \in Object /\ o \notin wiped
  BY <1>1, MinOf, Names DEF Unused
<1>4. rev \in Revision /\ 1 \in 1..MaxRevision
  BY <1>2, Names DEF Revision
<1> HIDE DEF o, rev
<1> QED
  BY <1>1, <1>2, <1>3, <1>4, WrittenTypes

\* What an accepted write names is there, and so is the revision it started from.
LEMMA AcceptedOf ==
  ASSUME Types, NEW c \in Caller, Accepted(c)
  PROVE  /\ At(c, "send") /\ calls[c] \in Sending
         /\ mapping[calls[c].local] \in Existing /\ mapping[calls[c].local] \in Object
         /\ Current(mapping[calls[c].local]) \in Revision
         /\ Len(history[mapping[calls[c].local]]) \in 1..MaxRevision
         /\ ~Keeps(calls[c], mapping[calls[c].local]) =>
              Intended(calls[c], mapping[calls[c].local]) \in Revision
<1> DEFINE k == calls[c]
           o == mapping[k.local]
<1>1. At(c, "send") /\ k \in Sending /\ k.local \in LocalId /\ k.active \in BOOLEAN
      /\ (k.kind = "put" => k.name \in Name)
  BY CallOf DEF Accepted, Types, CallsOK, Sending
<1>2. o \in Existing /\ o \in Object
  BY <1>1 DEF Accepted, Types, RouterOK
<1>3. history[o] \in Seq(Revision) /\ history[o] # <<>> /\ Len(history[o]) <= MaxRevision
  BY <1>2 DEF Types, RouterOK, Existing
<1>4. Current(o) \in Revision /\ Len(history[o]) \in 1..MaxRevision
  BY <1>3, LastOf, Names DEF Current
<1>5. ASSUME ~Keeps(k, o) PROVE Intended(k, o) \in Revision
  <2>1. CASE k.kind = "put"
    <3>1. Differs(k, o) /\ ~PutRefused(k)
      BY <1>5, <2>1 DEF Keeps, Accepted
    <3>2. k.base \in 1..Len(history[o])
      BY <1>2, <3>1, Names DEF PutRefused
    <3>3. NameAt(o, k.base) \in Name
      <4>1. history[o][k.base] \in Revision
        BY <1>3, <3>2, ElementOfSeq
      <4> QED
        BY <4>1 DEF NameAt, Revision
    <3>4. Merged(k, o) \in Revision
      BY <1>1, <1>4, <2>1, <3>3 DEF Merged, Revision
    <3> QED
      BY <2>1, <3>4 DEF Intended
  <2>2. CASE k.kind # "put"
    BY <1>4, <2>2 DEF Intended, Deactivated, Revision
  <2> QED
    BY <2>1, <2>2
<1> QED
  BY <1>1, <1>2, <1>4, <1>5

LEMMA SendKeptTypes == ASSUME Types, NEW c \in Caller, SendKept(c) PROVE Types'
<1> DEFINE o == mapping[calls[c].local]
<1>1. /\ Accepted(c) /\ Answered(c, o, Current(o), Len(history[o]))
      /\ UNCHANGED <<router, set, stream, store, minted, routed, wanted, receiver, loader>>
  BY DEF SendKept
<1>2. CallsOK'
  BY <1>1, AcceptedOf, AnsweredTypes DEF Types
<1>3. seq' \in Nat /\ seq <= seq'
  BY <1>1 DEF router, objects, Types, RouterOK
<1> QED
  BY <1>1, <1>2, <1>3, RouterStill, StreamStill, SetStill, StoreStill, ProcessStill, LoaderStill
     DEF Types, receiver

LEMMA SendRevisedTypes == ASSUME Types, NEW c \in Caller, SendRevised(c) PROVE Types'
<1> DEFINE o == mapping[calls[c].local]
           rev == Intended(calls[c], o)
<1>1. /\ Accepted(c) /\ ~Keeps(calls[c], o)
      /\ Revise(o, rev) /\ Answered(c, o, rev, Len(history[o]) + 1)
      /\ UNCHANGED <<mapping, selection, resetSeq, set, stream, store, minted, routed, wanted,
                     receiver, loader>>
  BY DEF SendRevised
<1>2. At(c, "send") /\ o \in Object /\ o \in Existing /\ rev \in Revision
      /\ Len(history[o]) \in 1..MaxRevision
  BY <1>1, AcceptedOf
<1>3. o \notin wiped /\ Len(history[o]) + 1 \in 1..MaxRevision
  BY <1>1, <1>2, Names DEF Existing, Revise
<1> HIDE DEF o, rev
<1> QED
  BY <1>1, <1>2, <1>3, WrittenTypes

LEMMA SendApplyTypes == ASSUME Types, NEW c \in Caller, SendApply(c) PROVE Types'
<1> DEFINE f == calls[c].answer
<1>1. /\ At(c, "apply") /\ ApplyHeld(RecordOf(f), f)
      /\ calls' = [calls EXCEPT ![c] = None]
      /\ pending' = IF c = "load" THEN pending \ {calls[c].local} ELSE pending
      /\ UNCHANGED <<router, set, stream, route, position, routed, wanted, receiver, pc, takes,
                     pairs>>
  BY DEF SendApply
<1>2. Told(f) /\ f.local \in LocalId
  BY <1>1, CallOf, RevisionOf DEF Types, Applying, Told
<1>3. RecordOf(f) # None
  BY <1>2, Names DEF RecordOf, Holders
<1>4. TablesOK'
  BY <1>1, <1>2, <1>3, TablesTyped, HeldTypes
<1>5. CallsOK'
  BY <1>1, EndTypes DEF Types
<1>6. LoaderOK'
  BY <1>1 DEF Types, LoaderOK
<1>7. seq' = seq /\ seq \in Nat
  BY <1>1 DEF router, objects, Types, RouterOK
<1>8. StoreOK' /\ ProcessOK'
  BY <1>1, <1>4, <1>7 DEF Types, StoreOK, ProcessOK, TablesOK, receiver
<1> QED
  BY <1>1, <1>5, <1>6, <1>7, <1>8, RouterStill, StreamStill, SetStill DEF Types

LEMMA SendTypes == ASSUME Types, NEW c \in Caller, Send(c) PROVE Types'
BY SendReadTypes, SendRefusedTypes, SendCreatesTypes, SendKeptTypes, SendRevisedTypes,
   SendApplyTypes DEF Send

----------------------------------------------------------------------------
(* The load keeps the types *)

\* A step of the load that writes neither the tables nor a call.
LEMMA LoadingTypes ==
  ASSUME Types, SetOK', LoaderOK', RouterOK', ProcessOK', seq' = seq,
         UNCHANGED <<stream, store, calls>>
  PROVE  Types'
<1>1. seq' \in Nat /\ seq <= seq'
  BY DEF Types, RouterOK
<1> QED
  BY <1>1, StreamStill, StoreStill, CallsStill DEF Types

\* A delivery taken from the set and applied keeps the types.
LEMMA TakenTypes ==
  ASSUME Types, TablesOK', set.frames # <<>>, Taken(Head(set.frames)), pc' = "take",
         UNCHANGED <<router, stream, route, position, routed, wanted, receiver, takes, pairs,
                     pending, calls>>
  PROVE  Types'
<1>1. SetOK'
  <2>1. Tail(set.frames) \in Seq(Delivery)
    BY DEF Types, SetOK
  <2> QED
    BY <2>1 DEF Types, SetOK, Taken
<1>2. seq' = seq /\ seq \in Nat
  BY DEF router, objects, Types, RouterOK
<1>3. StoreOK' /\ ProcessOK'
  BY <1>2 DEF Types, StoreOK, ProcessOK, TablesOK, receiver
<1>4. LoaderOK'
  BY DEF Types, LoaderOK, Pcs
<1> QED
  BY <1>1, <1>2, <1>3, <1>4, RouterStill, StreamStill, CallsStill DEF Types

LEMMA SetHeadOf ==
  ASSUME Types, set.frames # <<>>
  PROVE  Told(Head(set.frames)) /\ Head(set.frames) \in Delivery
<1>1. set.frames \in Seq(Delivery)
  BY DEF Types, SetOK
<1> QED
  BY <1>1, DeliveryTold

LEMMA TakeFrameTypes == ASSUME Types, TakeFrame PROVE Types'
<1> DEFINE f == Head(set.frames)
<1>1. /\ pc = "take" /\ set.frames # <<>>
      /\ UNCHANGED <<router, stream, route, position, routed, wanted, receiver, takes, pairs,
                     pending, calls>>
  BY DEF TakeFrame
<1>2. Told(f) /\ TablesOK
  BY <1>1, SetHeadOf, TablesTyped
<1>3. CASE RecordOf(f) # None /\ ApplyHeld(RecordOf(f), f) /\ Taken(f) /\ UNCHANGED pc
  BY <1>1, <1>2, <1>3, HeldTypes, TakenTypes
<1>4. CASE /\ Cardinality(Exact(f)) = 1 /\ \A l \in Exact(f) : ApplyMatched(l, f)
           /\ Taken(f) /\ UNCHANGED pc
  <2>1. PICK l \in Exact(f) : TRUE
    <3>1. Cardinality({}) = 0
      BY FS_EmptySet
    <3>2. Exact(f) # {}
      BY <1>4, <3>1
    <3> QED
      BY <3>2
  <2>2. l \in LocalId /\ record[l] # None /\ ApplyMatched(l, f)
    BY <1>4, <2>1 DEF Exact
  <2> QED
    BY <1>1, <1>2, <1>4, <2>2, MatchedTypes, TakenTypes
<1>5. CASE ApplyNew(f) /\ Taken(f) /\ UNCHANGED pc
  BY <1>1, <1>2, <1>5, NewTypes, TakenTypes
<1>6. CASE pc' = "ask" /\ UNCHANGED <<set, tables, minted>>
  <2>1. LoaderOK'
    BY <1>1, <1>6 DEF Types, LoaderOK, Pcs
  <2>2. SetOK' /\ RouterOK' /\ ProcessOK'
    BY <1>1, <1>6, SetStill, RouterStill, ProcessStill DEF Types, receiver
  <2>3. UNCHANGED store /\ seq' = seq
    BY <1>1, <1>6 DEF store, router, objects
  <2> QED
    BY <1>1, <2>1, <2>2, <2>3, LoadingTypes
<1> QED
  BY <1>3, <1>4, <1>5, <1>6 DEF TakeFrame

LEMMA AnswerTypes == ASSUME Types, Answer PROVE Types'
<1> DEFINE f == Head(set.frames)
<1>1. /\ pc = "ask" /\ Taken(f) /\ pc' = "take"
      /\ UNCHANGED <<router, stream, route, position, routed, wanted, receiver, takes, pairs,
                     pending, calls>>
  BY DEF Answer
<1>2. set.frames # <<>> /\ Told(f) /\ TablesOK
  BY <1>1, SetHeadOf, TablesTyped DEF Types, LoaderOK
<1>3. TablesOK'
  <2>1. CASE \E l \in Plausible(f) : ApplyMatched(l, f)
    BY <1>2, <2>1, MatchedTypes DEF Plausible
  <2>2. CASE ApplyNew(f)
    BY <1>2, <2>2, NewTypes
  <2> QED
    BY <2>1, <2>2 DEF Answer
<1> QED
  BY <1>1, <1>2, <1>3, TakenTypes

LEMMA ClosedOf ==
  ASSUME SetOK, Closed
  PROVE  SetOK' /\ set'.frames = <<>>
<1>1. <<>> \in Seq(Delivery)
  OBVIOUS
<1> QED
  BY <1>1 DEF SetOK, Closed

LEMMA OpenSetTypes == ASSUME Types, OpenSet PROVE Types'
<1> DEFINE objs == IF selected THEN Existing ELSE {}
<1>1. PICK order \in InOrder(objs) :
        set' = [open |-> TRUE, written |-> FALSE, frames |-> Frames(order),
                holds |-> {o \in objs : Current(o).active}]
  BY DEF OpenSet
<1>2. UNCHANGED <<router, stream, store, process>> /\ pc = "take"
  BY DEF OpenSet
<1>3. objs \in SUBSET Existing /\ Existing \subseteq Object
  BY DEF Existing
<1>4. Frames(order) \in Seq(Delivery)
  BY <1>3, FramesOf DEF Types
<1>5. {o \in objs : Current(o).active} \subseteq Object
  BY <1>3
<1>6. SetOK'
  BY <1>1, <1>4, <1>5 DEF SetOK
<1>7. LoaderOK'
  BY <1>2 DEF Types, LoaderOK, process, loader
<1> QED
  BY <1>2, <1>6, <1>7, RouterStill, ProcessStill, LoadingTypes
     DEF Types, process, receiver, router, objects

\* What the load records at agrirouter is there.
LEMMA ConfirmedTypes ==
  ASSUME RouterOK, pairs \subseteq Half, ConfirmedAtAgrirouter,
         UNCHANGED <<objects, selected, routeSeq, moving, resetSeq>>, withdrawn' \in BOOLEAN
  PROVE  RouterOK'
<1>1. /\ load' = "LOADING_TO_AGRIROUTER"
      /\ mapping' = [l \in LocalId |->
                       IF \E p \in Recorded : p.local = l
                       THEN (CHOOSE p \in Recorded : p.local = l).object ELSE mapping[l]]
  BY DEF ConfirmedAtAgrirouter
<1>2. ASSUME NEW l \in LocalId
      PROVE  mapping'[l] = None \/ mapping'[l] \in Existing
  <2>1. CASE \E p \in Recorded : p.local = l
    <3>1. (CHOOSE p \in Recorded : p.local = l) \in Recorded
      BY <2>1
    <3>2. \A p \in Recorded : p.object \in Existing
      BY DEF Recorded, Bindable
    <3> QED
      BY <1>1, <2>1, <3>1, <3>2
  <2>2. CASE ~\E p \in Recorded : p.local = l
    BY <1>1, <2>2 DEF RouterOK
  <2> QED
    BY <2>1, <2>2
<1>3. Existing \subseteq Object /\ Existing' = Existing
  BY DEF Existing, objects
<1>4. mapping' \in [LocalId -> Object \cup {None}]
  BY <1>1, <1>2, <1>3
<1>5. MovingOK'
  BY MovingStill DEF RouterOK, MovingOK, objects
<1> QED
  BY <1>1, <1>2, <1>3, <1>4, <1>5 DEF RouterOK, objects, LoadState

LEMMA LoadTypes == ASSUME Types, Load PROVE Types'
<1>0. RouterOK /\ SetOK /\ ProcessOK /\ LoaderOK
  BY DEF Types
<1>1. CASE StartRun
  <2>1. /\ wanted' = FALSE /\ takes' = 0 /\ pc' \in {"status", "idle"}
        /\ UNCHANGED <<router, set, stream, store, minted, routed, receiver, pairs, pending,
                       calls>>
    BY <1>1 DEF StartRun
  <2>2. LoaderOK' /\ ProcessOK'
    <3>1. takes' \in 0..Attempts
      BY <1>0, <2>1, Names DEF LoaderOK
    <3>2. LoaderOK'
      BY <1>0, <2>1, <3>1 DEF LoaderOK, Pcs
    <3> QED
      BY <1>0, <2>1, <3>2 DEF ProcessOK, receiver
  <2> QED
    BY <1>0, <2>1, <2>2, RouterStill, SetStill, LoadingTypes DEF router, objects
<1>2. CASE ReadStatus
  <2>1. /\ pc' \in {"take", "idle", "bind"}
        /\ takes' = takes \/ (takes < Attempts /\ takes' = takes + 1)
        /\ UNCHANGED <<router, set, stream, store, minted, routed, wanted, receiver, pairs,
                       pending, calls>>
    BY <1>2 DEF ReadStatus
  <2>2. LoaderOK' /\ ProcessOK'
    <3>1. takes' \in 0..Attempts
      BY <1>0, <2>1, Names DEF LoaderOK
    <3>2. LoaderOK'
      BY <1>0, <2>1, <3>1 DEF LoaderOK, Pcs
    <3> QED
      BY <1>0, <2>1, <3>2 DEF ProcessOK, receiver
  <2> QED
    BY <1>0, <2>1, <2>2, RouterStill, SetStill, LoadingTypes DEF router, objects
<1>3. CASE SetEnds
  <2>1. /\ Closed /\ pc' = "status"
        /\ UNCHANGED <<router, stream, store, minted, routed, wanted, receiver, takes, pairs,
                       pending, calls>>
    BY <1>3 DEF SetEnds
  <2>2. LoaderOK' /\ ProcessOK'
    BY <1>0, <2>1 DEF LoaderOK, ProcessOK, Pcs, receiver
  <2> QED
    BY <1>0, <2>1, <2>2, RouterStill, ClosedOf, LoadingTypes DEF router, objects
<1>4. CASE ReadBindings
  <2>1. /\ pairs' = {[local |-> l, object |-> row[l].object] : l \in {l \in LocalId : Bound(l)}}
        /\ pc' = "confirm"
        /\ UNCHANGED <<router, set, stream, store, minted, routed, wanted, receiver, takes,
                       pending, calls>>
    BY <1>4 DEF ReadBindings
  <2>2. \A l \in LocalId : Bound(l) => row[l].object \in Object
    BY DEF Bound, Types, StoreOK, Row
  <2>3. pairs' \subseteq Half
    BY <2>1, <2>2 DEF Half
  <2>4. LoaderOK' /\ ProcessOK'
    BY <1>0, <2>1, <2>3 DEF LoaderOK, ProcessOK, Pcs, receiver
  <2> QED
    BY <1>0, <2>1, <2>4, RouterStill, SetStill, LoadingTypes DEF router, objects
<1>5. CASE Confirm
  <2>1. /\ pc' \in {"list", "drop", "idle"} /\ pairs' \subseteq pairs
        /\ UNCHANGED <<objects, selected, routeSeq, moving, resetSeq, set, stream, store, minted,
                       routed, wanted, receiver, takes, pending, calls>>
        /\ \/ ConfirmedAtAgrirouter /\ withdrawn' = (withdrawn \/ ~selected)
           \/ UNCHANGED <<load, withdrawn, mapping>>
    BY <1>5 DEF Confirm
  <2>2. RouterOK'
    <3>1. CASE ConfirmedAtAgrirouter /\ withdrawn' = (withdrawn \/ ~selected)
      BY <1>0, <2>1, <3>1, ConfirmedTypes DEF LoaderOK
    <3>2. CASE UNCHANGED <<load, withdrawn, mapping>>
      BY <1>0, <2>1, <3>2, RouterStill DEF router, selection
    <3> QED
      BY <2>1, <3>1, <3>2
  <2>3. LoaderOK' /\ ProcessOK'
    BY <1>0, <2>1 DEF LoaderOK, ProcessOK, Pcs, receiver
  <2> QED
    BY <1>0, <2>1, <2>2, <2>3, SetStill, LoadingTypes DEF objects
<1>6. CASE DropRejected
  <2>1. /\ pc' \in {"list", "idle"}
        /\ \/ UNCHANGED row
           \/ row' = [l \in LocalId |-> IF \E p \in pairs : p.local = l THEN Refused ELSE row[l]]
        /\ UNCHANGED <<router, set, stream, record, route, position, minted, routed, wanted,
                       receiver, takes, pairs, pending, calls>>
    BY <1>6 DEF DropRejected
  <2>2. StoreOK'
    <3>1. seq' = seq
      BY <2>1 DEF router, objects
    <3>2. row' \in [LocalId -> Row \cup {None}]
      BY <2>1, RefusedOf DEF Types, StoreOK
    <3> QED
      BY <2>1, <3>1, <3>2 DEF Types, StoreOK
  <2>3. LoaderOK' /\ ProcessOK'
    BY <1>0, <2>1 DEF LoaderOK, ProcessOK, Pcs, receiver
  <2>4. seq' \in Nat /\ seq <= seq'
    BY <1>0, <2>1 DEF router, objects, RouterOK
  <2> QED
    BY <2>1, <2>2, <2>3, <2>4, RouterStill, SetStill, StreamStill, CallsStill DEF Types
<1>7. CASE ListPending
  <2>1. /\ pending' = Offerable /\ pc' = "push"
        /\ UNCHANGED <<router, set, stream, store, minted, routed, wanted, receiver, takes,
                       pairs, calls>>
    BY <1>7 DEF ListPending
  <2>2. LoaderOK' /\ ProcessOK'
    BY <1>0, <2>1 DEF LoaderOK, ProcessOK, Pcs, receiver, Offerable
  <2> QED
    BY <1>0, <2>1, <2>2, RouterStill, SetStill, LoadingTypes DEF router, objects
<1>8. CASE PushNext
  <2>1. /\ pending # {} /\ Start("load", "put", Min(pending))
        /\ UNCHANGED <<router, set, stream, store, minted, routed, wanted, receiver, loader>>
    BY <1>8 DEF PushNext
  <2>2. Min(pending) \in LocalId
    BY <1>0, <2>1, MinOf, Names DEF LoaderOK
  <2>3. [kind |-> "put", step |-> "read", local |-> Min(pending)] \in Call
    BY <2>2 DEF Call, Reading
  <2>4. [kind |-> "put", step |-> "read", local |-> Min(pending)] \notin Sending
    BY DEF Sending
  <2>5. CallsOK'
    BY <2>1, <2>3, <2>4, CallTypes DEF Start, Types, Caller
  <2>6. seq' \in Nat /\ seq <= seq'
    BY <1>0, <2>1 DEF router, objects, RouterOK
  <2> QED
    BY <2>1, <2>5, <2>6, RouterStill, SetStill, StreamStill, StoreStill, ProcessStill,
       LoaderStill DEF Types, receiver
<1>9. CASE Complete
  <2>1. /\ pc' = "idle" /\ load' \in {load, "COMPLETED"}
        /\ UNCHANGED <<objects, mapping, selected, routeSeq, moving, withdrawn, resetSeq, set,
                       stream, store, minted, routed, wanted, receiver, takes, pairs, pending,
                       calls>>
    BY <1>9 DEF Complete
  <2>2. LoaderOK' /\ ProcessOK' /\ RouterOK'
    <3>1. MovingOK'
      BY <1>0, <2>1, MovingStill DEF RouterOK, MovingOK, objects
    <3> QED
      BY <1>0, <2>1, <3>1
         DEF LoaderOK, ProcessOK, Pcs, receiver, RouterOK, objects, Existing, LoadState
  <2> QED
    BY <1>0, <2>1, <2>2, SetStill, LoadingTypes DEF objects
<1> QED
  BY <1>1, <1>2, <1>3, <1>4, <1>5, <1>6, <1>7, <1>8, <1>9, OpenSetTypes, TakeFrameTypes
     DEF Load

----------------------------------------------------------------------------
(* The person, faults and the beginning *)

LEMMA SeqStill == ASSUME RouterOK, UNCHANGED router PROVE seq' = seq /\ seq' \in Nat /\ seq <= seq'
BY DEF RouterOK, router, objects

\* A call of the person that starts or moves on, and touches nothing else.
LEMMA UserCallTypes ==
  ASSUME Types, NEW k \in Call \cup {None}, k \notin Sending,
         calls' = [calls EXCEPT !["user"] = k], TablesOK',
         UNCHANGED <<router, set, stream, route, position, routed, wanted, receiver, loader>>
  PROVE  Types'
<1>1. CallsOK'
  BY CallTypes DEF Types, Caller
<1>2. seq' = seq /\ seq' \in Nat /\ seq <= seq'
  BY SeqStill DEF Types
<1>3. StoreOK' /\ ProcessOK'
  BY <1>2 DEF Types, StoreOK, ProcessOK, TablesOK, receiver
<1> QED
  BY <1>1, <1>2, <1>3, RouterStill, SetStill, StreamStill, LoaderStill DEF Types

LEMMA NoneNotSending == None \notin Sending
BY Names DEF Call

LEMMA UserTypes ==
  ASSUME Types,
         \/ StoreCreated \/ EndDelete \/ \E n \in Name : BeginCreate(n)
         \/ \E l \in LocalId : ArchiveLocally(l) \/ BeginDelete(l)
  PROVE  Types'
<1>0. TablesOK /\ "user" \in Caller /\ CallsOK
  BY TablesTyped DEF Caller, Types
<1>1. CASE StoreCreated
  <2> DEFINE k == calls["user"]
             new == [name |-> k.name, archived |-> FALSE]
             next == [kind |-> "put", step |-> "read", local |-> minted + 1]
  <2>1. /\ At("user", "store") /\ minted < MaxRecords /\ minted' = minted + 1
        /\ record' = [record EXCEPT ![minted + 1] = new]
        /\ calls' = [calls EXCEPT !["user"] = next] \/ calls' = [calls EXCEPT !["user"] = None]
        /\ UNCHANGED <<router, set, stream, row, route, position, routed, wanted, receiver,
                       loader>>
    BY <1>1 DEF StoreCreated, Start
  <2>2. k.name \in Name
    BY <1>0, <2>1, CallOf DEF Creating
  <2>3. minted + 1 \in LocalId /\ minted + 1 \in 0..MaxRecords
    BY <1>0, <2>1, MintedNext
  <2>4. new \in Stored
    BY <2>2 DEF Stored
  <2>5. TablesOK'
    BY <1>0, <2>1, <2>3, <2>4 DEF TablesOK
  <2>6. next \in Call /\ next \notin Sending
    BY <2>3 DEF Call, Reading, Sending
  <2> HIDE DEF next, new
  <2> QED
    BY <2>1, <2>5, <2>6, NoneNotSending, UserCallTypes
<1>2. CASE EndDelete
  <2> DEFINE k == calls["user"]
  <2>1. /\ At("user", "drop") /\ record' = [record EXCEPT ![k.local] = None]
        /\ row' = row \/ row' = [row EXCEPT ![k.local] = None]
        /\ calls' = [calls EXCEPT !["user"] = None]
        /\ UNCHANGED <<router, set, stream, route, position, minted, routed, wanted, receiver,
                       loader>>
    BY <1>2 DEF EndDelete
  <2>2. TablesOK'
    BY <1>0, <2>1 DEF TablesOK
  <2> QED
    BY <2>1, <2>2, NoneNotSending, UserCallTypes
<1>3. ASSUME NEW n \in Name, BeginCreate(n) PROVE Types'
  <2> DEFINE next == [kind |-> "put", step |-> "store", name |-> n, send |-> route = TRUE]
  <2>1. /\ calls' = [calls EXCEPT !["user"] = next]
        /\ UNCHANGED <<router, set, stream, store, minted, routed, wanted, receiver, loader>>
    BY <1>3 DEF BeginCreate
  <2>2. next \in Call /\ next \notin Sending
    BY DEF Call, Creating, Sending
  <2>3. TablesOK' /\ UNCHANGED <<route, position>>
    BY <1>0, <2>1 DEF TablesOK, store, tables
  <2> HIDE DEF next
  <2> QED
    BY <2>1, <2>2, <2>3, UserCallTypes
<1>4. ASSUME NEW l \in LocalId, ArchiveLocally(l) PROVE Types'
  <2> DEFINE next == [kind |-> "deactivate", step |-> "read", local |-> l]
  <2>1. /\ record[l] # None /\ record' = [record EXCEPT ![l].archived = TRUE]
        /\ calls' = [calls EXCEPT !["user"] = next]
        /\ UNCHANGED <<router, set, stream, row, route, position, minted, routed, wanted,
                       receiver, loader>>
    BY <1>4 DEF ArchiveLocally, Start
  <2>2. next \in Call /\ next \notin Sending
    BY DEF Call, Reading, Sending
  <2>3. record[l] \in Stored /\ [record[l] EXCEPT !.archived = TRUE] \in Stored
    BY <1>0, <2>1 DEF TablesOK, Stored
  <2>4. TablesOK'
    BY <1>0, <2>1, <2>3 DEF TablesOK
  <2> HIDE DEF next
  <2> QED
    BY <2>1, <2>2, <2>4, UserCallTypes
<1>5. ASSUME NEW l \in LocalId, BeginDelete(l) PROVE Types'
  <2> DEFINE next == [kind |-> "delete", step |-> "drop", local |-> l, bound |-> Bound(l)]
  <2>1. /\ calls' = [calls EXCEPT !["user"] = next]
        /\ UNCHANGED <<router, set, stream, store, minted, routed, wanted, receiver, loader>>
    BY <1>5 DEF BeginDelete
  <2>2. Bound(l) \in BOOLEAN
    BY <1>0 DEF Bound
  <2>3. next \in Call /\ next \notin Sending
    BY <2>2 DEF Call, Deleting, Sending
  <2>4. TablesOK' /\ UNCHANGED <<route, position>>
    BY <1>0, <2>1 DEF TablesOK, store, tables
  <2> HIDE DEF next
  <2> QED
    BY <2>1, <2>3, <2>4, UserCallTypes
<1> QED
  BY <1>1, <1>2, <1>3, <1>4, <1>5

LEMMA PersonTypes == ASSUME Types, Person PROVE Types'
<1>1. CASE PressLoad
  <2>1. /\ wanted' = TRUE
        /\ UNCHANGED <<router, set, stream, store, minted, routed, receiver, loader, calls>>
    BY <1>1 DEF PressLoad
  <2>2. ProcessOK'
    BY <2>1 DEF Types, ProcessOK, receiver
  <2> QED
    BY <2>1, <2>2, SeqStill, RouterStill, SetStill, StreamStill, StoreStill, LoaderStill,
       CallsStill DEF Types
<1>2. CASE Replay
  <2>1. /\ replay' = TRUE /\ Drop /\ binding' = None
        /\ UNCHANGED <<router, set, store, minted, routed, wanted, loader, calls>>
    BY <1>2 DEF Replay
  <2>2. ProcessOK'
    BY <2>1 DEF Types, ProcessOK
  <2> QED
    BY <2>1, <2>2, SeqStill, RouterStill, SetStill, DropTypes, StoreStill, LoaderStill,
       CallsStill DEF Types
<1>3. ASSUME NEW o \in Object, Request(o) PROVE Types'
  <2>1. /\ o \in Existing /\ Publish(Rendered(o, history[o], changed[o])) /\ wanted' = TRUE
        /\ UNCHANGED <<router, set, connected, store, minted, routed, receiver, loader, calls>>
    BY <1>3 DEF Request
  <2>2. /\ history[o] \in Seq(Revision) /\ history[o] # <<>> /\ Len(history[o]) <= MaxRevision
        /\ changed[o] \in Nat /\ changed[o] <= seq
    BY <2>1 DEF Types, RouterOK, Existing
  <2>3. /\ Rendered(o, history[o], changed[o]) \in Delivery
        /\ Rendered(o, history[o], changed[o]).id = changed[o]
    BY <2>2, RenderedOf DEF Rendered
  <2>4. seq' = seq /\ seq' \in Nat /\ seq <= seq'
    BY <2>1, SeqStill DEF Types
  <2>5. StreamOK'
    BY <2>1, <2>2, <2>3, <2>4, FrameTypes, PublishKeeps DEF Types
  <2>6. ProcessOK'
    BY <2>1 DEF Types, ProcessOK, receiver
  <2> QED
    BY <2>1, <2>4, <2>5, <2>6, RouterStill, SetStill, StoreStill, LoaderStill, CallsStill
       DEF Types
<1> QED
  BY <1>1, <1>2, <1>3, AnswerTypes, UserTypes DEF Person

LEMMA FaultTypes == ASSUME Types, Faults PROVE Types'
<1>1. CASE Disconnect
  <2>1. /\ Drop /\ binding' = None
        /\ UNCHANGED <<router, set, store, minted, routed, wanted, replay, loader, calls>>
    BY <1>1 DEF Disconnect
  <2>2. ProcessOK'
    BY <2>1 DEF Types, ProcessOK
  <2> QED
    BY <2>1, <2>2, SeqStill, RouterStill, SetStill, DropTypes, StoreStill, LoaderStill,
       CallsStill DEF Types
<1>2. CASE DropSet
  <2>1. /\ Closed /\ pc' = "status"
        /\ UNCHANGED <<router, stream, store, minted, routed, wanted, receiver, takes, pairs,
                       pending, calls>>
    BY <1>2 DEF DropSet
  <2>2. LoaderOK'
    BY <2>1 DEF Types, LoaderOK, Pcs
  <2>3. SetOK' /\ ProcessOK'
    BY <2>1, ClosedOf, ProcessStill DEF Types, receiver
  <2> QED
    BY <2>1, <2>2, <2>3, SeqStill, RouterStill, LoadingTypes DEF Types
<1>3. CASE LoseConfirmation
  <2>1. /\ ConfirmedAtAgrirouter /\ pc' = "idle" /\ withdrawn' \in BOOLEAN
        /\ UNCHANGED <<objects, selected, routeSeq, moving, resetSeq, set, stream, store, minted,
                       routed, wanted, receiver, takes, pairs, pending, calls>>
    BY <1>3 DEF LoseConfirmation
  <2>2. RouterOK'
    BY <2>1, ConfirmedTypes DEF Types, LoaderOK
  <2>3. LoaderOK'
    BY <2>1 DEF Types, LoaderOK, Pcs
  <2> QED
    BY <2>1, <2>2, <2>3, SetStill, ProcessStill, LoadingTypes DEF Types, receiver, objects
<1>4. CASE Crash
  <2>1. /\ Drop /\ Closed /\ binding' = None /\ replay' = FALSE
        /\ pc' = "idle" /\ takes' = 0 /\ pairs' = {} /\ pending' = {}
        /\ calls' = [c \in Caller |-> None]
        /\ minted' = Max({0} \cup {l \in LocalId : record[l] # None})
        /\ routed' = None /\ wanted' = TRUE
        /\ UNCHANGED <<router, store>>
    BY <1>4 DEF Crash
  <2>2. minted' \in 0..MaxRecords
    <3>1. LocalId \subseteq 0..MaxRecords /\ 0 \in 0..MaxRecords /\ MaxRecords \in Nat
      BY Names DEF LocalId
    <3>2. {0} \cup {l \in LocalId : record[l] # None} \in SUBSET (0..MaxRecords)
      BY <3>1
    <3> QED
      BY <2>1, <3>1, <3>2, MaxOf
  <2>3. ProcessOK'
    BY <2>1, <2>2 DEF ProcessOK
  <2>4. LoaderOK'
    BY <2>1, Names DEF LoaderOK, Pcs
  <2>5. CallsOK'
    BY <2>1 DEF CallsOK, At
  <2> QED
    BY <2>1, <2>3, <2>4, <2>5, SeqStill, RouterStill, ClosedOf, DropTypes, StoreStill
       DEF Types
<1>5. ASSUME NEW c \in Caller, LoseCall(c) PROVE Types'
  <2>1. /\ Fail(c)
        /\ UNCHANGED <<router, set, stream, store, minted, routed, wanted, receiver, takes,
                       pairs>>
    BY <1>5 DEF LoseCall
  <2>2. CallsOK' /\ LoaderOK'
    BY <2>1, FailTypes
  <2> QED
    BY <2>1, <2>2, SeqStill, RouterStill, StreamStill, SetStill, StoreStill, ProcessStill
       DEF Types, receiver
<1> QED
  BY <1>1, <1>2, <1>3, <1>4, <1>5 DEF Faults

LEMMA InitTypes == Init => Types
<1> SUFFICES ASSUME Init PROVE Types
  OBVIOUS
<1>1. /\ Len(Shared) \in Nat /\ Len(Held) \in 0..MaxRecords
      /\ \A o \in 1..Len(Shared) : Shared[o] \in Name
      /\ \A l \in 1..Len(Held) : Held[l] \in Name
  BY ParticipantAssumption
<1>2. RouterOK
  <2>1. \A o \in Object : o <= Len(Shared) => Shared[o] \in Name /\ o \in 1..Len(Shared)
    BY <1>1, Names DEF Object
  <2>2. \A o \in Object :
          /\ history[o] \in Seq(Revision) /\ Len(history[o]) <= MaxRevision
          /\ changed[o] \in 0..seq
    <3> SUFFICES ASSUME NEW o \in Object
                 PROVE  /\ history[o] \in Seq(Revision) /\ Len(history[o]) <= MaxRevision
                        /\ changed[o] \in 0..seq
      OBVIOUS
    <3>1. CASE o <= Len(Shared)
      <4>1. /\ history[o] = <<[name |-> Shared[o], active |-> TRUE, ours |-> FALSE]>>
            /\ changed[o] = o /\ seq = Len(Shared)
        BY <3>1 DEF Init
      <4>2. [name |-> Shared[o], active |-> TRUE, ours |-> FALSE] \in Revision
        BY <2>1, <3>1 DEF Revision
      <4> QED
        BY <2>1, <3>1, <4>1, <4>2, Names
    <3>2. CASE ~(o <= Len(Shared))
      BY <1>1, <3>2, Names DEF Init
    <3> QED
      BY <3>1, <3>2
  <2>3. history = [o \in Object |-> history[o]] /\ changed = [o \in Object |-> changed[o]]
    BY DEF Init
  <2>4. history \in [Object -> Seq(Revision)] /\ changed \in [Object -> 0..seq]
    BY <2>2, <2>3
  <2>5. /\ seq \in Nat /\ wiped \subseteq Object /\ selected \in BOOLEAN
        /\ routeSeq \in 0..seq /\ resetSeq \in 0..seq /\ load = None
    <3>1. /\ seq = Len(Shared) /\ wiped = {} /\ selected = FALSE /\ routeSeq = 0
          /\ resetSeq = 0 /\ load = None
      BY DEF Init
    <3>2. seq \in Nat
      BY <1>1, <3>1
    <3>3. 0 \in 0..seq
      BY <3>2
    <3> QED
      BY <3>1, <3>2, <3>3
  <2>6. mapping \in [LocalId -> Object \cup {None}] /\ \A l \in LocalId : mapping[l] = None
    BY DEF Init
  <2>7. MovingOK
    <3>1. Idle \in Moving /\ Idle.at # "publish"
      BY DEF Idle, Moving
    <3> QED
      BY <3>1 DEF Init, MovingOK, Announcing
  <2> QED
    BY <2>2, <2>4, <2>5, <2>6, <2>7 DEF RouterOK
<1>3. StreamOK
  <2>1. <<>> \in Seq(Frame) /\ \A i \in 1..Len(<<>>) : FALSE
    OBVIOUS
  <2> QED
    BY <2>1 DEF Init, StreamOK
<1>4. SetOK
  <2>1. <<>> \in Seq(Delivery)
    OBVIOUS
  <2> QED
    BY <2>1 DEF Init, SetOK
<1>5. StoreOK
  <2>1. \A l \in LocalId : l <= Len(Held) => [name |-> Held[l], archived |-> FALSE] \in Stored
    BY <1>1, Names DEF LocalId, Stored
  <2>2. record \in [LocalId -> Stored \cup {None}]
    BY <2>1 DEF Init
  <2> QED
    BY <1>1, <2>2 DEF Init, StoreOK
<1>6. ProcessOK /\ CallsOK
  BY <1>1 DEF Init, ProcessOK, CallsOK, At
<1>7. LoaderOK
  BY Names DEF Init, LoaderOK, Pcs
<1> QED
  BY <1>2, <1>3, <1>4, <1>5, <1>6, <1>7 DEF Types

LEMMA StutterTypes == ASSUME Types, UNCHANGED vars PROVE Types'
<1>1. UNCHANGED <<router, set, stream, store, minted, routed, wanted, replay, binding, loader,
                  calls>>
  BY DEF vars, process, receiver
<1> QED
  BY <1>1, SeqStill, RouterStill, StreamStill, SetStill, StoreStill, ProcessStill, LoaderStill,
     CallsStill DEF Types

LEMMA NextTypes == ASSUME Types, [Next]_vars PROVE Types'
<1>1. CASE World
  BY <1>1, OtherWriteTypes, GoingTypes, NumberTypes, PublishTypes, ResetTypes
     DEF World, Announce
<1> QED
  BY <1>1, SetWrittenTypes, ConnectTypes, ReceiveTypes, SendTypes, LoadTypes, PersonTypes,
     FaultTypes, StutterTypes DEF Next

LEMMA AlwaysTyped == Spec => []Types
<1>1. Types /\ [Next]_vars => Types'
  BY NextTypes
<1> QED
  BY InitTypes, <1>1, PTL DEF Spec

\* Every part of the state keeps to its type, for any names, numbers and bounds:
\* what agrirouter keeps, what is on its way, the platform's tables and what the
\* process is doing. What an accepted write works on (Current, NameAt) is there.
THEOREM TypeCorrect == Spec => []TypeOK
<1>1. Types => TypeOK
  BY TypesImplyTypeOK
<1> QED
  BY <1>1, AlwaysTyped, PTL

----------------------------------------------------------------------------
(* Revisions *)

NoneGoesBack ==
  \A l \in LocalId :
    Bound(l) /\ Bound(l)' /\ row'[l].object = row[l].object => row'[l].revision >= row[l].revision

LEMMA RevisionIsNumber ==
  ASSUME TablesOK, NEW l \in LocalId, row[l] # None
  PROVE  row[l].revision \in Nat /\ row[l].object \in Object \cup {None}
BY Names DEF TablesOK, Row

LEMMA UntouchedForward == ASSUME TablesOK, UNCHANGED row PROVE NoneGoesBack
<1>1. \A l \in LocalId : Bound(l) => row[l].revision \in Nat
  BY RevisionIsNumber DEF Bound
<1> QED
  BY <1>1 DEF NoneGoesBack

\* A pair that is given up is not one that goes back.
LEMMA GivenUpForward ==
  ASSUME TablesOK, \A l \in LocalId : Bound(l)' => row'[l] = row[l]
  PROVE  NoneGoesBack
<1>1. \A l \in LocalId : Bound(l) => row[l].revision \in Nat
  BY RevisionIsNumber DEF Bound
<1> QED
  BY <1>1 DEF NoneGoesBack

\* A pair is written for an object nothing held, or for what it held and is not
\* superseded.
LEMMA WriteForward ==
  ASSUME TablesOK, NEW l \in LocalId, NEW f, Told(f),
         row' = [row EXCEPT ![l] = Pair(f.object, f.revision)],
         Bound(l) /\ row[l].object = f.object => ~Superseded(l, f)
  PROVE  NoneGoesBack
<1>1. row'[l] = Pair(f.object, f.revision) /\ \A k \in LocalId : k # l => row'[k] = row[k]
  BY DEF TablesOK
<1>2. /\ Pair(f.object, f.revision).object = f.object
      /\ Pair(f.object, f.revision).revision = f.revision /\ f.revision \in Nat
  BY PairOf, RevisionOf DEF Told
<1>3. \A k \in LocalId : Bound(k) => row[k].revision \in Nat
  BY RevisionIsNumber DEF Bound
<1>4. Bound(l) /\ row[l].object = f.object => f.revision >= row[l].revision
  BY <1>2, <1>3 DEF Superseded, Bound
<1> QED
  BY <1>1, <1>2, <1>3, <1>4 DEF NoneGoesBack

LEMMA HeldForward ==
  ASSUME TablesOK, NEW f, Told(f), RecordOf(f) # None, ApplyHeld(RecordOf(f), f)
  PROVE  NoneGoesBack
<1>1. RecordOf(f) \in LocalId
  BY RecordOfTypes DEF Told
<1>2. CASE Superseded(RecordOf(f), f)
  BY <1>2, UntouchedForward DEF ApplyHeld, tables
<1>3. CASE ~Superseded(RecordOf(f), f)
  BY <1>1, <1>3, WriteForward DEF ApplyHeld, Write
<1> QED
  BY <1>2, <1>3

LEMMA UnheldForward ==
  ASSUME TablesOK, NEW f, Told(f), Holders(f.object) = {},
         \/ \E l \in LocalId : ApplyMatched(l, f)
         \/ ApplyNew(f)
  PROVE  NoneGoesBack
<1>1. \A l \in LocalId : ~(Bound(l) /\ row[l].object = f.object)
  BY DEF Holders
<1>2. ASSUME NEW l \in LocalId, row' = [row EXCEPT ![l] = Pair(f.object, f.revision)]
      PROVE  NoneGoesBack
  BY <1>1, <1>2, WriteForward
<1>3. ASSUME NEW l \in LocalId, ApplyMatched(l, f) PROVE NoneGoesBack
  BY <1>2, <1>3 DEF ApplyMatched, Write
<1>4. CASE ApplyNew(f)
  <2>1. CASE f.active
    BY <1>2, <1>4, <2>1, MintedNext DEF ApplyNew, Write
  <2>2. CASE ~f.active
    BY <1>4, <2>2, UntouchedForward DEF ApplyNew, tables
  <2> QED
    BY <2>1, <2>2
<1> QED
  BY <1>3, <1>4

LEMMA StepsForward ==
  ASSUME Types, IInv, Next
  PROVE  NoneGoesBack \/ UNCHANGED row
<1>1. TablesOK
  BY TablesTyped
<1>2. CASE ReceiveObject
  <2> DEFINE f == Head(live)
  <2>1. Told(f)
    BY <1>2, HeadOf, FrameOf, DeliveryTold DEF ReceiveObject, Receiving, Types
  <2>2. CASE RecordOf(f) # None
    BY <1>1, <1>2, <2>1, <2>2, HeldForward DEF ReceiveObject
  <2>3. CASE RecordOf(f) = None
    BY <1>1, <1>2, <2>1, <2>3, ResolvesToTheHolder, UnheldForward DEF ReceiveObject
  <2> QED
    BY <2>2, <2>3
<1>3. CASE ReceiveReset
  <2>1. \A l \in LocalId : ~Bound(l)'
    BY <1>3 DEF ReceiveReset, Bound
  <2> QED
    BY <1>1, <2>1, GivenUpForward
<1>4. ASSUME NEW c \in Caller, SendApply(c) PROVE NoneGoesBack
  <2> DEFINE f == calls[c].answer
  <2>1. Told(f) /\ f.local \in LocalId /\ ApplyHeld(RecordOf(f), f)
    BY <1>4, CallOf, RevisionOf DEF SendApply, Types, Applying, Told
  <2>2. RecordOf(f) # None
    BY <2>1, Names DEF RecordOf, Holders
  <2> QED
    BY <1>1, <2>1, <2>2, HeldForward
<1>5. CASE TakeFrame
  <2> DEFINE f == Head(set.frames)
  <2>1. Told(f)
    BY <1>5, SetHeadOf DEF TakeFrame
  <2>2. RecordOf(f) = None => Holders(f.object) = {}
    BY ResolvesToTheHolder
  <2>3. CASE RecordOf(f) # None
    BY <1>1, <1>5, <2>1, <2>3, HeldForward DEF TakeFrame
  <2>4. CASE /\ RecordOf(f) = None /\ Cardinality(Exact(f)) = 1
             /\ \A l \in Exact(f) : ApplyMatched(l, f)
    <3>1. Cardinality({}) = 0
      BY FS_EmptySet
    <3>2. \E l \in LocalId : ApplyMatched(l, f)
      BY <2>4, <3>1 DEF Exact
    <3> QED
      BY <1>1, <2>1, <2>2, <2>4, <3>2, UnheldForward
  <2>5. CASE RecordOf(f) = None /\ ApplyNew(f)
    BY <1>1, <2>1, <2>2, <2>5, UnheldForward
  <2>6. CASE UNCHANGED tables
    BY <2>6 DEF tables
  <2> QED
    BY <1>5, <2>3, <2>4, <2>5, <2>6 DEF TakeFrame
<1>6. CASE Answer
  <2> DEFINE f == Head(set.frames)
  <2>1. Told(f)
    BY <1>6, SetHeadOf DEF Answer, Types, LoaderOK
  <2>2. Holders(f.object) = {}
    BY <1>6 DEF Answer, IInv, AskedAboutUnheld
  <2>3. (\E l \in LocalId : ApplyMatched(l, f)) \/ ApplyNew(f)
    BY <1>6 DEF Answer, Plausible
  <2> QED
    BY <1>1, <2>1, <2>2, <2>3, UnheldForward
<1>7. CASE DropRejected
  <2>1. CASE row' = [l \in LocalId |-> IF \E p \in pairs : p.local = l THEN Refused ELSE row[l]]
    <3>1. \A l \in LocalId : Bound(l)' => row'[l] = row[l]
      BY <2>1, RefusedOf DEF Bound
    <3> QED
      BY <1>1, <3>1, GivenUpForward
  <2>2. CASE UNCHANGED row
    BY <2>2
  <2> QED
    BY <1>7, <2>1, <2>2 DEF DropRejected
<1>8. CASE EndDelete
  <2>1. CASE row' = [row EXCEPT ![calls["user"].local] = None]
    <3>1. \A l \in LocalId : Bound(l)' => row'[l] = row[l]
      BY <1>1, <2>1 DEF Bound, TablesOK
    <3> QED
      BY <1>1, <3>1, GivenUpForward
  <2> QED
    BY <1>8, <2>1 DEF EndDelete
<1>9. CASE World \/ SetWritten \/ Connect \/ ReceiveRoute \/ ReceiveCaughtUp \/ Bind \/ Faults
  BY <1>9 DEF World, OtherWrite, Select, Deselect, Announce, StartLoad, DropLoad, NumberMove,
              PublishMove, ResetTenant, SetWritten, Connect, ReceiveRoute, ReceiveCaughtUp,
              Bind, Faults, Disconnect, DropSet, LoseConfirmation, Crash, LoseCall, store, tables
<1>10. CASE \E c \in Caller : SendRead(c) \/ SendRefused(c) \/ SendCreates(c) \/ SendKept(c)
                              \/ SendRevised(c)
  BY <1>10 DEF SendRead, SendRefused, SendCreates, SendKept, SendRevised, store, tables
<1>11. CASE StartRun \/ ReadStatus \/ OpenSet \/ SetEnds \/ ReadBindings \/ Confirm
            \/ ListPending \/ PushNext \/ Complete
  BY <1>11 DEF StartRun, ReadStatus, OpenSet, SetEnds, ReadBindings, Confirm, ListPending,
               PushNext, Complete, store, tables
<1>12. CASE \/ StoreCreated \/ PressLoad \/ Replay \/ \E n \in Name : BeginCreate(n)
            \/ \E l \in LocalId : ArchiveLocally(l) \/ BeginDelete(l)
            \/ \E o \in Object : Request(o)
  BY <1>12 DEF StoreCreated, PressLoad, Replay, BeginCreate, ArchiveLocally, BeginDelete,
               Request, store, tables
<1> QED
  BY <1>2, <1>3, <1>4, <1>5, <1>6, <1>7, <1>8, <1>9, <1>10, <1>11, <1>12
     DEF Next, Receive, Send, Load, Person

\* A frame, an entry of the set or an answer that is late does not put a record
\* back (Applier.applyIn compares with the pair it finds in the transaction that
\* writes; applyUnheldObject, takeCanonicalSet and inbox.Answer write a pair only
\* where none names the object).
THEOREM RevisionsStay == Spec => RevisionsNeverGoBack
<1>1. ASSUME Types, IInv, [Next]_vars
      PROVE  [NoneGoesBack]_vars
  <2>1. CASE Next
    <3>1. NoneGoesBack \/ UNCHANGED row
      BY <1>1, <2>1, StepsForward
    <3> QED
      BY <1>1, <3>1, TablesTyped, UntouchedForward
  <2> QED
    BY <1>1, <2>1
<1>2. [NoneGoesBack]_vars => [\A l \in LocalId :
        Bound(l) /\ Bound(l)' /\ row'[l].object = row[l].object =>
          row'[l].revision >= row[l].revision]_vars
  BY DEF NoneGoesBack
<1> QED
  BY <1>1, <1>2, AlwaysTyped, Invariance, PTL DEF Spec, RevisionsNeverGoBack

----------------------------------------------------------------------------
(* The selection *)

Known == (route = TRUE) = selected

\* A call has moved the selection, or repeated it, and has yet to number that.
Owing == \E m \in Mover : moving[m].at \in {"start", "withdraw", "number"}

\* After its first i frames the stream has the platform know the selection.
Shows(i) ==
  /\ (\A j \in 1..Len(live) : j <= i => ~TellsAMove(live[j])) => Known
  /\ \A k \in 1..Len(live) :
       /\ k <= i /\ TellsAMove(live[k])
       /\ \A j \in 1..Len(live) : j > k /\ j <= i => ~TellsAMove(live[j])
       => Leaves(live[k]) = selected

\* The position says whether the selection recorded is out of date; what is on
\* its way brings it up to date, and does so by the time the latest move is
\* passed.
InSight ==
  /\ routeSeq <= resetSeq => ~selected
  /\ position >= routeSeq /\ position >= resetSeq => Known
  /\ connected => Shows(Len(live))
  /\ \A i \in 1..Len(live) : live[i].id >= routeSeq /\ live[i].id >= resetSeq => Shows(i)

\* What is on its way, and what has been read, is older than the move whose
\* frame is still to be handed over.
Behind ==
  /\ connected /\ Announcing # {} /\ position < routeSeq
  /\ \A i \in 1..Len(live) : live[i].id < routeSeq

\* While nothing is numbered between a move and the handing over of its frame,
\* that frame is the latest there is, and no other call has one.
FrameIsLatest ==
  \A m \in Announcing :
    /\ moving[m].frame.id = routeSeq /\ routeSeq = seq /\ resetSeq < routeSeq
    /\ \A o \in Object : changed[o] < routeSeq
    /\ \A k \in Announcing : k = m

FrameIsRight == \A m \in Announcing : moving[m].frame.selected = selected

FollowsMoves ==
  /\ ~connected => live = <<>>
  /\ ~overtaken => FrameIsLatest
  /\ ~overtaken /\ ~Owing => FrameIsRight /\ (InSight \/ Behind)

\* Numbers are taken by what overtakes a frame not handed over.
Numbering == UNCHANGED <<seq, changed, overtaken>> \/ Overtake

LEMMA NumberingOf ==
  ASSUME Numbering, ~overtaken'
  PROVE  ~overtaken /\ (UNCHANGED <<seq, changed>> \/ Announcing = {})
<1>1. CASE UNCHANGED <<seq, changed, overtaken>>
  <2>1. seq' = seq /\ changed' = changed /\ overtaken' = overtaken
    BY <1>1
  <2> QED
    BY <2>1, Zenon
<1>2. CASE Overtake
  BY <1>2, Zenon DEF Overtake
<1> QED
  BY <1>1, <1>2 DEF Numbering

\* What no call to move the selection is part of.
LEMMA CallsRest ==
  ASSUME UNCHANGED moving
  PROVE  Announcing' = Announcing /\ Owing' = Owing
BY DEF Announcing, Owing

LEMMA FramesRest ==
  ASSUME FollowsMoves, Numbering, UNCHANGED <<routeSeq, resetSeq, moving>>, ~overtaken'
  PROVE  FrameIsLatest'
<1>1. ~overtaken /\ (UNCHANGED <<seq, changed>> \/ Announcing = {}) /\ Announcing' = Announcing
  BY NumberingOf, CallsRest
<1>2. FrameIsLatest
  BY <1>1 DEF FollowsMoves
<1> QED
  BY <1>1, <1>2 DEF FrameIsLatest

LEMMA KnownQuiet ==
  ASSUME FollowsMoves, Numbering,
         UNCHANGED <<selected, routeSeq, resetSeq, moving, position, route, stream>>
  PROVE  FollowsMoves'
<1>1. UNCHANGED <<connected, live>> /\ Announcing' = Announcing /\ Owing' = Owing
  BY CallsRest DEF stream
<1>2. ASSUME ~overtaken', ~Owing' PROVE FrameIsRight' /\ (InSight' \/ Behind')
  <2>1. FrameIsRight /\ (InSight \/ Behind)
    BY <1>1, <1>2, NumberingOf DEF FollowsMoves
  <2>2. FrameIsRight'
    BY <1>1, <2>1 DEF FrameIsRight
  <2>3. InSight => InSight'
    BY <1>1 DEF InSight, Shows, Known
  <2>4. Behind => Behind'
    BY <1>1 DEF Behind
  <2> QED
    BY <2>1, <2>2, <2>3, <2>4
<1>3. ~connected' => live' = <<>>
  BY <1>1 DEF FollowsMoves
<1> QED
  BY <1>2, <1>3, FramesRest DEF FollowsMoves

LEMMA KnownDropped ==
  ASSUME Types, FollowsMoves, Drop,
         UNCHANGED <<selected, routeSeq, resetSeq, moving, position, route, seq, changed,
                     overtaken>>
  PROVE  FollowsMoves'
<1>1. connected' = FALSE /\ live' = <<>> /\ \A i \in 1..Len(<<>>) : FALSE
  BY DEF Drop
<1>2. Announcing' = Announcing /\ Owing' = Owing
  BY CallsRest
<1>5. routeSeq \in Nat /\ resetSeq \in Nat /\ position \in Nat
  BY DEF Types, RouterOK, StoreOK
<1>3. ASSUME ~overtaken', ~Owing' PROVE FrameIsRight' /\ InSight'
  <2>0. ~overtaken
    BY <1>3, NumberingOf DEF Numbering
  <2>1. FrameIsRight /\ (InSight \/ Behind) /\ FrameIsLatest
    BY <1>2, <1>3, <2>0 DEF FollowsMoves
  <2>2. FrameIsRight'
    BY <1>2, <2>1 DEF FrameIsRight
  <2>3. /\ routeSeq <= resetSeq => ~selected
        /\ position >= routeSeq /\ position >= resetSeq => Known
    <3>1. CASE InSight
      BY <3>1 DEF InSight
    <3>2. CASE Behind
      <4>1. resetSeq < routeSeq /\ position < routeSeq
        BY <2>1, <3>2 DEF Behind, FrameIsLatest
      <4> QED
        BY <1>5, <4>1
    <3> QED
      BY <2>1, <3>1, <3>2
  <2>4. /\ routeSeq' <= resetSeq' => ~selected'
        /\ position' >= routeSeq' /\ position' >= resetSeq' => Known'
    BY <2>3 DEF Known
  <2>5. ~connected' /\ \A i \in 1..Len(live') : FALSE
    BY <1>1
  <2>6. InSight'
    BY <2>4, <2>5 DEF InSight
  <2> QED
    BY <2>2, <2>6
<1>4. ~overtaken' => FrameIsLatest'
  BY FramesRest DEF Numbering
<1> QED
  BY <1>1, <1>3, <1>4 DEF FollowsMoves

\* What is appended to the stream.
LEMMA PublishedOf ==
  ASSUME StreamOK, NEW f \in Frame, connected, Publish(f)
  PROVE  /\ Len(live) \in Nat /\ Len(live') = Len(live) + 1
         /\ live'[Len(live) + 1] = f /\ \A i \in 1..Len(live) : live'[i] = live[i]
<1>1. live \in Seq(Frame) /\ live' = Append(live, f)
  BY DEF StreamOK, Publish
<1> QED
  BY <1>1


\* A frame that moves nothing, and is not older than what is announced, changes
\* nothing of what the stream has the platform know.
LEMMA ShowsPublished ==
  ASSUME StreamOK, NEW f \in Frame, connected, Publish(f), NEW i \in 0..Len(live), Shows(i),
         UNCHANGED <<selected, route>>
  PROVE  Shows(i)'
<1> DEFINE n == Len(live)
<1>1. /\ n \in Nat /\ Len(live') = n + 1 /\ \A j \in 1..n : live'[j] = live[j]
  BY PublishedOf
<1>2. \A j \in 1..(n + 1) : j <= i => j \in 1..n
  BY <1>1
<1>3. \A j \in 1..n : j \in 1..(n + 1)
  BY <1>1
<1>4. ASSUME \A j \in 1..Len(live') : j <= i => ~TellsAMove(live'[j]) PROVE Known'
  BY <1>1, <1>3, <1>4 DEF Shows, Known
<1>5. ASSUME NEW k \in 1..Len(live'), k <= i, TellsAMove(live'[k]),
             \A j \in 1..Len(live') : j > k /\ j <= i => ~TellsAMove(live'[j])
      PROVE  Leaves(live'[k]) = selected'
  BY <1>1, <1>2, <1>3, <1>5 DEF Shows
<1> QED
  BY <1>4, <1>5 DEF Shows

\* At its end a stream shows what the frame appended tells, or what it has shown.
LEMMA ShowsAppended ==
  ASSUME StreamOK, NEW f \in Frame, connected, Publish(f),
         \/ TellsAMove(f) /\ Leaves(f) = selected'
         \/ ~TellsAMove(f) /\ Shows(Len(live)) /\ UNCHANGED <<selected, route>>
  PROVE  Shows(Len(live))'
<1> DEFINE n == Len(live)
<1>1. /\ n \in Nat /\ Len(live') = n + 1 /\ live'[n + 1] = f
      /\ \A j \in 1..n : live'[j] = live[j]
  BY PublishedOf
<1>2. /\ \A j \in 1..(n + 1) : j = n + 1 \/ (j \in 1..n /\ n + 1 > j)
      /\ n + 1 \in 1..(n + 1) /\ \A j \in 1..n : j \in 1..(n + 1)
  BY <1>1
<1>3. CASE TellsAMove(f) /\ Leaves(f) = selected'
  <2>1. ~\A j \in 1..(n + 1) : j <= n + 1 => ~TellsAMove(live'[j])
    BY <1>1, <1>2, <1>3
  <2>2. ASSUME NEW k \in 1..(n + 1),
               \A j \in 1..(n + 1) : j > k /\ j <= n + 1 => ~TellsAMove(live'[j])
        PROVE  Leaves(live'[k]) = selected'
    BY <1>1, <1>2, <1>3, <2>2
  <2> QED
    BY <1>1, <2>1, <2>2 DEF Shows
<1>4. CASE ~TellsAMove(f) /\ Shows(Len(live)) /\ UNCHANGED <<selected, route>>
  <2>1. ASSUME \A j \in 1..(n + 1) : j <= n + 1 => ~TellsAMove(live'[j]) PROVE Known'
    <3>1. \A j \in 1..n : j <= n => ~TellsAMove(live[j])
      BY <1>1, <1>2, <2>1
    <3> QED
      BY <1>4, <3>1 DEF Shows, Known
  <2>2. ASSUME NEW k \in 1..(n + 1), TellsAMove(live'[k]),
               \A j \in 1..(n + 1) : j > k /\ j <= n + 1 => ~TellsAMove(live'[j])
        PROVE  Leaves(live'[k]) = selected'
    <3>1. k \in 1..n /\ k <= n /\ TellsAMove(live[k]) /\ live'[k] = live[k]
      BY <1>1, <1>2, <1>4, <2>2
    <3>2. \A j \in 1..n : j > k /\ j <= n => ~TellsAMove(live[j])
      BY <1>1, <1>2, <2>2
    <3> QED
      BY <1>4, <3>1, <3>2 DEF Shows
  <2> QED
    BY <1>1, <2>1, <2>2 DEF Shows
<1> QED
  BY <1>3, <1>4

\* Every place in a stream appended to is one it had, or its end.
LEMMA Places ==
  ASSUME StreamOK, NEW f \in Frame, connected, Publish(f), NEW i \in 1..Len(live')
  PROVE  \/ i \in 1..Len(live) /\ live'[i] = live[i]
         \/ i = Len(live') /\ live'[i] = f
<1>1. /\ Len(live) \in Nat /\ Len(live') = Len(live) + 1 /\ live'[Len(live) + 1] = f
      /\ \A j \in 1..Len(live) : live'[j] = live[j]
  BY PublishedOf
<1>2. i \in 1..Len(live) \/ i = Len(live) + 1
  BY <1>1
<1> QED
  BY <1>1, <1>2

LEMMA KnownPublished ==
  ASSUME Types, FollowsMoves, NEW f \in Frame, ~TellsAMove(f), Publish(f), Numbering,
         Announcing # {} => f.id < routeSeq \/ overtaken',
         UNCHANGED <<selected, routeSeq, resetSeq, moving, position, route, connected>>
  PROVE  FollowsMoves'
<1>0. StreamOK
  BY DEF Types
<1>1. CASE ~connected
  BY <1>1, KnownQuiet DEF Publish, stream
<1>2. CASE connected
  <2>1. Announcing' = Announcing /\ Owing' = Owing
    BY CallsRest
  <2>2. ASSUME ~overtaken', ~Owing' PROVE FrameIsRight' /\ (InSight' \/ Behind')
    <3>1. FrameIsRight /\ (InSight \/ Behind)
      BY <2>1, <2>2, NumberingOf DEF FollowsMoves
    <3>2. FrameIsRight'
      BY <2>1, <3>1 DEF FrameIsRight
    <3>3. CASE InSight
      <4>1. Shows(Len(live))'
        BY <1>0, <1>2, <3>3, ShowsAppended DEF InSight
      <4>2. ASSUME NEW i \in 1..Len(live'), live'[i].id >= routeSeq', live'[i].id >= resetSeq'
            PROVE  Shows(i)'
        <5>1. CASE i = Len(live')
          BY <4>1, <5>1
        <5>2. CASE i \in 1..Len(live) /\ live'[i] = live[i]
          <6>1. Shows(i) /\ i \in 0..Len(live)
            BY <3>3, <4>2, <5>2 DEF InSight
          <6> QED
            BY <1>0, <1>2, <6>1, ShowsPublished
        <5> QED
          BY <1>0, <1>2, <5>1, <5>2, Places
      <4>4. /\ routeSeq' <= resetSeq' => ~selected'
            /\ position' >= routeSeq' /\ position' >= resetSeq' => Known'
        BY <3>3 DEF InSight, Known
      <4> QED
        BY <3>2, <4>1, <4>2, <4>4 DEF InSight
    <3>4. CASE Behind
      <4>1. f.id < routeSeq
        BY <2>2, <3>4 DEF Behind
      <4>2. \A i \in 1..Len(live') : live'[i].id < routeSeq
        BY <1>0, <1>2, <3>4, <4>1, Places DEF Behind
      <4> QED
        BY <2>1, <3>2, <3>4, <4>2 DEF Behind
    <3> QED
      BY <3>1, <3>3, <3>4
  <2>3. connected'
    BY <1>2
  <2> QED
    BY <2>2, <2>3, FramesRest DEF FollowsMoves
<1> QED
  BY <1>1, <1>2

\* A frame that tells what the selection now is, and is the latest there is, is
\* the last on its way.
LEMMA ToldLast ==
  ASSUME StreamOK, NEW f \in Frame, TellsAMove(f), Publish(f), Leaves(f) = selected',
         ~connected => live = <<>>, UNCHANGED connected,
         routeSeq' <= resetSeq' => ~selected',
         position' >= routeSeq' /\ position' >= resetSeq' => Known',
         \A i \in 1..Len(live) :
           live[i].id >= routeSeq' /\ live[i].id >= resetSeq' =>
             Shows(i) /\ UNCHANGED <<selected, route>>
  PROVE  InSight'
<1>1. CASE ~connected
  <2>1. live' = <<>> /\ \A i \in 1..Len(<<>>) : FALSE
    BY <1>1 DEF Publish
  <2> QED
    BY <1>1, <2>1 DEF InSight
<1>2. CASE connected
  <2>1. Shows(Len(live))'
    BY <1>2, ShowsAppended
  <2>2. ASSUME NEW i \in 1..Len(live'), live'[i].id >= routeSeq', live'[i].id >= resetSeq'
        PROVE  Shows(i)'
    <3>1. CASE i = Len(live')
      BY <2>1, <3>1
    <3>2. CASE i \in 1..Len(live) /\ live'[i] = live[i]
      <4>1. Shows(i) /\ i \in 0..Len(live) /\ UNCHANGED <<selected, route>>
        BY <2>2, <3>2
      <4> QED
        BY <1>2, <4>1, ShowsPublished
    <3> QED
      BY <1>2, <3>1, <3>2, Places
  <2> QED
    BY <2>1, <2>2 DEF InSight
<1> QED
  BY <1>1, <1>2

\* A call that moves the selection, or has moved it, and numbers nothing yet.
LEMMA KnownGoing ==
  ASSUME Types, FollowsMoves, NEW m \in Mover,
         Select(m) \/ Deselect(m) \/ StartLoad(m) \/ DropLoad(m)
  PROVE  FollowsMoves'
<1>1. MovingOK /\ UNCHANGED <<seq, changed, overtaken, withdrawn, routeSeq, resetSeq, position,
                              route, connected, live>>
  BY DEF Select, Deselect, StartLoad, DropLoad, Types, RouterOK, objects, stream, store
<1>2. \E at \in {"start", "withdraw", "drop", "number", "idle"} :
        /\ Goes(m, at)
        /\ \/ at \in {"start", "withdraw", "number"}
           \/ UNCHANGED selected /\ moving[m].at \in {"idle", "drop"}
  <2>1. CASE Select(m)
    BY <2>1 DEF Select
  <2>2. CASE Deselect(m)
    <3>1. moving[m].at = "idle" /\ selected' = FALSE
      BY <2>2 DEF Deselect, Idle
    <3>2. CASE selected
      BY <2>2, <3>2 DEF Deselect
    <3>3. CASE ~selected
      <4>1. selected = FALSE
        BY <3>3 DEF Types, RouterOK
      <4> QED
        BY <2>2, <3>1, <4>1 DEF Deselect
    <3> QED
      BY <3>2, <3>3
  <2>3. CASE StartLoad(m)
    BY <2>3 DEF StartLoad
  <2>4. CASE DropLoad(m)
    BY <2>4 DEF DropLoad
  <2> QED
    BY <2>1, <2>2, <2>3, <2>4
<1>3. PICK at \in {"start", "withdraw", "drop", "number", "idle"} :
        /\ Goes(m, at)
        /\ \/ at \in {"start", "withdraw", "number"}
           \/ UNCHANGED selected /\ moving[m].at \in {"idle", "drop"}
  BY <1>2
<1>4. m \notin Announcing
  BY DEF Select, Deselect, StartLoad, DropLoad, Announcing, Idle
<1>5. /\ moving'[m].at = at /\ \A k \in Mover : k # m => moving'[k] = moving[k]
      /\ Announcing' = Announcing /\ \A k \in Announcing : k # m /\ k \in Mover
  BY <1>1, <1>3, <1>4, WentTo DEF Announcing
<1>6. ~overtaken' => FrameIsLatest'
  BY <1>1, <1>5 DEF FollowsMoves, FrameIsLatest
<1>7. ASSUME ~Owing' PROVE ~Owing /\ UNCHANGED selected
  <2>1. at \notin {"start", "withdraw", "number"}
    BY <1>5, <1>7 DEF Owing
  <2> QED
    BY <1>3, <1>5, <1>7, <2>1 DEF Owing
<1>8. ASSUME ~overtaken', ~Owing' PROVE FrameIsRight' /\ (InSight' \/ Behind')
  <2>1. FrameIsRight /\ (InSight \/ Behind) /\ UNCHANGED selected
    BY <1>1, <1>7, <1>8 DEF FollowsMoves
  <2>2. FrameIsRight'
    BY <1>5, <2>1 DEF FrameIsRight
  <2>3. InSight => InSight'
    BY <1>1, <2>1 DEF InSight, Shows, Known
  <2>4. Behind => Behind'
    BY <1>1, <1>5 DEF Behind
  <2> QED
    BY <2>1, <2>2, <2>3, <2>4
<1> QED
  BY <1>1, <1>6, <1>8 DEF FollowsMoves

\* Whatever has happened, a move numbered while no other is to be handed over is
\* the latest there is, and nothing read or on its way is as late.
LEMMA KnownNumbered ==
  ASSUME Types, FollowsMoves, NEW m \in Mover, NumberMove(m)
  PROVE  FollowsMoves'
<1>1. /\ routeSeq' = seq + 1 /\ overtaken' = (Announcing # {})
      /\ UNCHANGED <<selected, resetSeq, changed, position, route, connected, live>>
  BY DEF NumberMove, store, stream
<1>2. /\ seq' = seq + 1 /\ seq \in Nat /\ Announcing' = Announcing \cup {m}
      /\ moving'[m].frame = RouteFrame(selected, seq + 1)
  BY NumberedOf DEF Types
<1>3. /\ resetSeq \in Nat /\ resetSeq <= seq /\ position \in Nat /\ position <= seq
      /\ \A o \in Object : changed[o] \in Nat /\ changed[o] <= seq
      /\ \A i \in 1..Len(live) : live[i].id \in Nat /\ live[i].id <= seq
  <2>1. \A i \in 1..Len(live) : live[i].id \in Nat /\ live[i].id <= seq
    BY DEF Types, StreamOK, Frame, RouteFrames, Delivery
  <2> QED
    BY <2>1 DEF Types, RouterOK, StoreOK
<1>4. /\ RouteFrame(selected, seq + 1).id = seq + 1
      /\ RouteFrame(selected, seq + 1).selected = selected
  BY DEF RouteFrame
<1>5. ASSUME ~overtaken' PROVE FrameIsLatest' /\ FrameIsRight' /\ (InSight' \/ Behind')
  <2>1. Announcing' = {m}
    BY <1>1, <1>2, <1>5
  <2>2. FrameIsLatest'
    <3>1. resetSeq' < routeSeq' /\ \A o \in Object : changed'[o] < routeSeq'
      BY <1>1, <1>2, <1>3
    <3> QED
      BY <1>1, <1>2, <1>4, <2>1, <3>1 DEF FrameIsLatest
  <2>3. FrameIsRight'
    BY <1>1, <1>2, <1>4, <2>1 DEF FrameIsRight
  <2>4. CASE connected
    <3>1. position' < routeSeq' /\ \A i \in 1..Len(live') : live'[i].id < routeSeq'
      BY <1>1, <1>2, <1>3
    <3> QED
      BY <1>1, <2>1, <2>2, <2>3, <2>4, <3>1 DEF Behind
  <2>5. CASE ~connected
    <3>1. live' = <<>> /\ ~connected' /\ \A i \in 1..Len(<<>>) : FALSE
      BY <1>1, <2>5 DEF FollowsMoves
    <3>2. ~(routeSeq' <= resetSeq') /\ ~(position' >= routeSeq')
      BY <1>1, <1>2, <1>3
    <3> QED
      BY <2>2, <2>3, <3>1, <3>2 DEF InSight
  <2> QED
    BY <2>2, <2>3, <2>4, <2>5
<1>6. ~connected' => live' = <<>>
  BY <1>1 DEF FollowsMoves
<1> QED
  BY <1>5, <1>6 DEF FollowsMoves

LEMMA RouteTells ==
  ASSUME NEW f, f.event = "route"
  PROVE  TellsAMove(f) /\ Leaves(f) = f.selected
BY DEF TellsAMove, Leaves

LEMMA KnownAnnounced ==
  ASSUME Types, FollowsMoves, NEW m \in Mover, PublishMove(m)
  PROVE  FollowsMoves'
<1> DEFINE f == moving[m].frame
<1>1. /\ m \in Announcing /\ Publish(f) /\ Goes(m, "idle") /\ MovingOK /\ StreamOK
      /\ UNCHANGED <<seq, changed, overtaken, withdrawn, selected, routeSeq, resetSeq, position,
                     route, connected>>
  BY DEF PublishMove, Announcing, Types, RouterOK, objects, store
<1>2. /\ Announcing' = Announcing \ {m} /\ moving'[m].at = "idle"
      /\ \A k \in Mover : k # m => moving'[k] = moving[k]
  BY <1>1, WentTo
<1>3. f \in Frame /\ f.event = "route" /\ TellsAMove(f) /\ Leaves(f) = f.selected
  BY <1>1, PublishedFrame, RouteTells
<1>4. Owing' <=> Owing
  BY <1>1, <1>2 DEF Owing, Announcing
<1>5. ~overtaken' => Announcing' = {}
  BY <1>1, <1>2 DEF FollowsMoves, FrameIsLatest
<1>6. ASSUME ~overtaken', ~Owing' PROVE InSight'
  <2>1. FrameIsLatest /\ FrameIsRight /\ (InSight \/ Behind)
    BY <1>1, <1>4, <1>6 DEF FollowsMoves
  <2>2. Leaves(f) = selected' /\ resetSeq < routeSeq
    BY <1>1, <1>3, <2>1 DEF FrameIsRight, FrameIsLatest
  <2>3. /\ routeSeq \in Nat /\ resetSeq \in Nat /\ position \in Nat
        /\ \A i \in 1..Len(live) : live[i].id \in Nat
    BY DEF Types, RouterOK, StoreOK, StreamOK, Frame, RouteFrames, Delivery
  <2>4. /\ position >= routeSeq /\ position >= resetSeq => Known
        /\ \A i \in 1..Len(live) :
             live[i].id >= routeSeq /\ live[i].id >= resetSeq => Shows(i)
    <3>1. CASE InSight
      BY <3>1 DEF InSight
    <3>2. CASE Behind
      BY <2>3, <3>2 DEF Behind
    <3> QED
      BY <2>1, <3>1, <3>2
  <2>5. /\ ~connected => live = <<>>
        /\ position' >= routeSeq' /\ position' >= resetSeq' => Known'
        /\ ~(routeSeq' <= resetSeq')
    BY <1>1, <2>2, <2>3, <2>4 DEF FollowsMoves, Known
  <2> HIDE DEF f
  <2> QED
    BY <1>1, <1>3, <2>2, <2>4, <2>5, ToldLast
<1>7. ~connected' => live' = <<>>
  BY <1>1 DEF FollowsMoves, Publish
<1> QED
  BY <1>5, <1>6, <1>7 DEF FollowsMoves, FrameIsLatest, FrameIsRight

\* A connection is sent the moves after where it resumes.
LEMMA ConnectedInSight ==
  ASSUME Types, InSight, Connect
  PROVE  InSight'
<1>1. PICK from \in Nat :
        /\ from = position \/ from = 0
        /\ \E order \in InOrder(Missed(from)) : live' = CatchUp(from, order)
  BY DEF Connect, Types, StoreOK
<1>2. PICK order \in InOrder(Missed(from)) : live' = CatchUp(from, order)
  BY <1>1
<1>3. PICK heads \in Seq(Frame), rest \in Seq(Frame) :
        /\ CatchUp(from, order) = heads \o rest
        /\ \A i \in 1..Len(rest) : ~TellsAMove(rest[i]) /\ rest[i].id <= seq
        /\ \/ /\ heads = <<>> /\ resetSeq <= from
              /\ routeSeq <= from \/ routeSeq <= resetSeq
           \/ heads = <<ResetFrame(resetSeq)>> /\ routeSeq <= resetSeq
           \/ heads = <<RouteFrame(selected, routeSeq)>> /\ routeSeq > resetSeq
           \/ /\ heads = <<ResetFrame(resetSeq), RouteFrame(selected, routeSeq)>>
              /\ routeSeq > resetSeq
  BY CatchUpOf DEF Types
<1>4. connected' /\ UNCHANGED <<selected, routeSeq, resetSeq, position, route>>
  BY DEF Connect, router, selection, store
<1>5. /\ routeSeq \in Nat /\ resetSeq \in Nat /\ position \in Nat /\ selected \in BOOLEAN
  BY DEF Types, RouterOK, StoreOK
<1>6. /\ live' \in Seq(Frame) /\ Len(live') = Len(heads) + Len(rest)
      /\ Len(heads) \in Nat /\ Len(rest) \in Nat
      /\ \A i \in 1..Len(heads) : live'[i] = heads[i]
      /\ \A i \in 1..Len(live') : i > Len(heads) => ~TellsAMove(live'[i])
  BY <1>2, <1>3, ConcatOf
<1>7. /\ TellsAMove(ResetFrame(resetSeq)) /\ TellsAMove(RouteFrame(selected, routeSeq))
      /\ Leaves(ResetFrame(resetSeq)) = FALSE
      /\ Leaves(RouteFrame(selected, routeSeq)) = selected
      /\ ResetFrame(resetSeq).id = resetSeq
  BY DEF ResetFrame, RouteFrame, TellsAMove, Leaves
<1>8. /\ routeSeq <= resetSeq => ~selected
      /\ position >= routeSeq /\ position >= resetSeq => Known
  BY DEF InSight
\* From the last move on, the stream shows what that move left.
<1>9. ASSUME NEW last \in 1..Len(live'), TellsAMove(live'[last]), Leaves(live'[last]) = selected,
             \A j \in 1..Len(live') : j > last => ~TellsAMove(live'[j])
      PROVE  \A i \in 1..Len(live') : i >= last => Shows(i)'
  <2> SUFFICES ASSUME NEW i \in 1..Len(live'), i >= last PROVE Shows(i)'
    OBVIOUS
  <2>1. ~\A j \in 1..Len(live') : j <= i => ~TellsAMove(live'[j])
    BY <1>9
  <2>2. ASSUME NEW k \in 1..Len(live'), k <= i, TellsAMove(live'[k]),
               \A j \in 1..Len(live') : j > k /\ j <= i => ~TellsAMove(live'[j])
        PROVE  k = last
    BY <1>6, <1>9, <2>2
  <2> QED
    BY <1>4, <1>9, <2>1, <2>2 DEF Shows
<1>10. /\ Shows(Len(live))'
       /\ \A i \in 1..Len(live') : live'[i].id >= routeSeq /\ live'[i].id >= resetSeq => Shows(i)'
  <2>1. CASE heads = <<>> /\ resetSeq <= from /\ (routeSeq <= from \/ routeSeq <= resetSeq)
    <3>1. position >= routeSeq /\ position >= resetSeq
      BY <1>1, <1>5, <2>1
    <3>2. Known'
      BY <1>4, <1>8, <3>1 DEF Known
    <3>3. \A i \in 1..Len(live') : ~TellsAMove(live'[i])
      BY <1>6, <2>1
    <3> QED
      BY <3>2, <3>3 DEF Shows
  <2>2. CASE heads = <<ResetFrame(resetSeq)>> /\ routeSeq <= resetSeq
    <3>1. /\ Len(heads) = 1 /\ 1 \in 1..Len(live') /\ live'[1] = ResetFrame(resetSeq)
          /\ \A i \in 1..Len(live') : i > 1 => ~TellsAMove(live'[i])
      BY <1>6, <2>2
    <3>2. Leaves(live'[1]) = selected
      BY <1>5, <1>7, <1>8, <2>2, <3>1
    <3>3. \A i \in 1..Len(live') : i >= 1 => Shows(i)'
      BY <1>7, <1>9, <3>1, <3>2
    <3> QED
      BY <1>6, <3>1, <3>3
  <2>3. CASE heads = <<RouteFrame(selected, routeSeq)>> /\ routeSeq > resetSeq
    <3>1. /\ Len(heads) = 1 /\ 1 \in 1..Len(live') /\ live'[1] = RouteFrame(selected, routeSeq)
          /\ \A i \in 1..Len(live') : i > 1 => ~TellsAMove(live'[i])
      BY <1>6, <2>3
    <3>3. \A i \in 1..Len(live') : i >= 1 => Shows(i)'
      BY <1>7, <1>9, <3>1
    <3> QED
      BY <1>6, <3>1, <3>3
  <2>4. CASE /\ heads = <<ResetFrame(resetSeq), RouteFrame(selected, routeSeq)>>
             /\ routeSeq > resetSeq
    <3>1. /\ Len(heads) = 2 /\ 1 \in 1..Len(live') /\ 2 \in 1..Len(live') /\ Len(live') >= 2
          /\ live'[1] = ResetFrame(resetSeq) /\ live'[2] = RouteFrame(selected, routeSeq)
          /\ \A i \in 1..Len(live') : i > 2 => ~TellsAMove(live'[i])
      BY <1>6, <2>4
    <3>2. \A i \in 1..Len(live') : i >= 2 => Shows(i)'
      BY <1>7, <1>9, <3>1
    <3>3. \A i \in 1..Len(live') : i = 1 \/ i >= 2
      OBVIOUS
    <3>4. ~(live'[1].id >= routeSeq)
      BY <1>5, <1>7, <2>4, <3>1
    <3>5. Len(live') \in 1..Len(live')
      BY <1>6, <3>1
    <3> QED
      BY <3>1, <3>2, <3>3, <3>4, <3>5
  <2> QED
    BY <1>3, <2>1, <2>2, <2>3, <2>4
<1> QED
  BY <1>4, <1>8, <1>10 DEF InSight, Known

LEMMA KnownConnected == ASSUME Types, FollowsMoves, Connect PROVE FollowsMoves'
<1>1. /\ ~connected /\ connected'
      /\ UNCHANGED <<selected, routeSeq, resetSeq, moving, seq, changed, overtaken>>
  BY DEF Connect, router, objects, selection
<1>2. Announcing' = Announcing /\ Owing' = Owing /\ Numbering
  BY <1>1, CallsRest DEF Numbering
<1>3. ASSUME ~overtaken', ~Owing' PROVE FrameIsRight' /\ InSight'
  <2>1. FrameIsRight /\ InSight
    BY <1>1, <1>2, <1>3 DEF FollowsMoves, Behind
  <2> QED
    BY <1>1, <1>2, <2>1, ConnectedInSight DEF FrameIsRight
<1> QED
  BY <1>1, <1>2, <1>3, FramesRest DEF FollowsMoves

\* After a frame is received, the rest shows what it showed behind that frame.
LEMMA ShowsRest ==
  ASSUME StreamOK, live # <<>>, live' = Tail(live), NEW i \in Nat, Shows(i + 1),
         ~TellsAMove(Head(live)) => UNCHANGED route,
         TellsAMove(Head(live)) => route' = Leaves(Head(live)) /\ route' \in BOOLEAN,
         selected \in BOOLEAN, UNCHANGED selected
  PROVE  Shows(i)'
<1> DEFINE n == Len(live)
<1>1. /\ n \in Nat /\ n > 0 /\ Len(live') = n - 1 /\ Head(live) = live[1]
      /\ \A j \in 1..Len(live') : j + 1 \in 1..n /\ live'[j] = live[j + 1]
  BY HeadOf
<1>2. \A j \in 1..n : j = 1 \/ (j - 1 \in 1..Len(live') /\ live[j] = live'[j - 1])
  BY <1>1
<1>3. ASSUME \A j \in 1..Len(live') : j <= i => ~TellsAMove(live'[j]) PROVE Known'
  <2>1. ASSUME NEW j \in 1..n, j > 1, j <= i + 1 PROVE ~TellsAMove(live[j])
    <3>1. j - 1 \in 1..Len(live') /\ j - 1 <= i /\ live[j] = live'[j - 1]
      BY <1>2, <2>1
    <3> QED
      BY <1>3, <3>1
  <2>2. 1 \in 1..n /\ 1 <= i + 1
    BY <1>1
  <2>3. CASE TellsAMove(live[1])
    <3>1. Leaves(live[1]) = selected
      BY <2>1, <2>2, <2>3 DEF Shows
    <3> QED
      BY <1>1, <2>3, <3>1 DEF Known
  <2>4. CASE ~TellsAMove(live[1])
    <3>1. \A j \in 1..n : j <= i + 1 => ~TellsAMove(live[j])
      BY <1>2, <2>1, <2>4
    <3> QED
      BY <1>1, <2>4, <3>1 DEF Shows, Known
  <2> QED
    BY <2>3, <2>4
<1>4. ASSUME NEW k \in 1..Len(live'), k <= i, TellsAMove(live'[k]),
             \A j \in 1..Len(live') : j > k /\ j <= i => ~TellsAMove(live'[j])
      PROVE  Leaves(live'[k]) = selected'
  <2>1. k + 1 \in 1..n /\ k + 1 <= i + 1 /\ live'[k] = live[k + 1]
    BY <1>1, <1>4
  <2>2. ASSUME NEW j \in 1..n, j > k + 1, j <= i + 1 PROVE ~TellsAMove(live[j])
    <3>1. j - 1 \in 1..Len(live') /\ j - 1 > k /\ j - 1 <= i /\ live[j] = live'[j - 1]
      BY <1>1, <1>2, <2>2
    <3> QED
      BY <1>4, <3>1
  <2> QED
    BY <1>4, <2>1, <2>2 DEF Shows
<1> QED
  BY <1>3, <1>4 DEF Shows

\* A frame that is received records the move it tells of, and its number.
LEMMA KnownReceived ==
  ASSUME Types, FollowsMoves, NEW event, Receiving(event),
         ~TellsAMove(Head(live)) => UNCHANGED route,
         TellsAMove(Head(live)) => route' = Leaves(Head(live)) /\ route' \in BOOLEAN
  PROVE  FollowsMoves'
<1> DEFINE n == Len(live)
<1>1. /\ live # <<>> /\ live' = Tail(live) /\ position' = Head(live).id
      /\ UNCHANGED <<selected, routeSeq, resetSeq, moving, seq, changed, overtaken, connected>>
  BY DEF Receiving, router, objects, selection
<1>2. /\ n \in Nat /\ n > 0 /\ Len(live') = n - 1 /\ Head(live) = live[1]
      /\ \A i \in 1..Len(live') : i + 1 \in 1..n /\ live'[i] = live[i + 1]
  BY <1>1, HeadOf DEF Types
<1>3. connected /\ selected \in BOOLEAN /\ StreamOK
  BY <1>1 DEF FollowsMoves, Types, RouterOK
<1>4. Announcing' = Announcing /\ Owing' = Owing /\ Numbering
  BY <1>1, CallsRest DEF Numbering
<1>5. ASSUME NEW i \in Nat, Shows(i + 1) PROVE Shows(i)'
  BY <1>1, <1>3, <1>5, ShowsRest
<1>6. ASSUME InSight PROVE InSight'
  <2>1. ASSUME position' >= routeSeq, position' >= resetSeq PROVE Known'
    <3>1. 1 \in 1..n /\ Shows(0 + 1)
      BY <1>1, <1>2, <1>6, <2>1 DEF InSight
    <3>2. Shows(0)'
      BY <1>5, <3>1
    <3>3. \A j \in 1..Len(live') : ~(j <= 0)
      OBVIOUS
    <3> QED
      BY <3>2, <3>3 DEF Shows
  <2>2. ASSUME NEW i \in 1..Len(live'), live'[i].id >= routeSeq, live'[i].id >= resetSeq
        PROVE  Shows(i)'
    <3>1. i \in Nat /\ Shows(i + 1)
      BY <1>2, <1>6, <2>2 DEF InSight
    <3> QED
      BY <1>5, <3>1
  <2>3. Shows(Len(live))'
    <3>1. n - 1 \in Nat /\ (n - 1) + 1 = n /\ Shows(n)
      BY <1>2, <1>3, <1>6 DEF InSight
    <3>2. ASSUME NEW i \in Nat, i = n - 1 PROVE Shows(i)'
      BY <1>5, <3>1, <3>2
    <3>3. Len(live') = n - 1
      BY <1>2
    <3> QED
      BY <3>1, <3>2, <3>3 DEF Shows
  <2> QED
    BY <1>1, <1>6, <2>1, <2>2, <2>3 DEF InSight
<1>7. ASSUME Behind PROVE Behind'
  <2>1. position' < routeSeq' /\ \A i \in 1..Len(live') : live'[i].id < routeSeq'
    BY <1>1, <1>2, <1>7 DEF Behind
  <2> QED
    BY <1>1, <1>4, <1>7, <2>1 DEF Behind
<1>8. ASSUME ~overtaken', ~Owing' PROVE FrameIsRight' /\ (InSight' \/ Behind')
  <2>1. FrameIsRight /\ (InSight \/ Behind)
    BY <1>1, <1>4, <1>8 DEF FollowsMoves
  <2> QED
    BY <1>1, <1>4, <1>6, <1>7, <2>1 DEF FrameIsRight
<1> QED
  BY <1>1, <1>3, <1>4, <1>8, FramesRest DEF FollowsMoves

LEMMA InitKnown == Init => FollowsMoves
<1> SUFFICES ASSUME Init PROVE FollowsMoves
  OBVIOUS
<1>1. /\ routeSeq = 0 /\ resetSeq = 0 /\ position = 0 /\ selected = FALSE /\ route = None
      /\ connected = FALSE /\ live = <<>> /\ \A i \in 1..Len(<<>>) : FALSE
      /\ \A m \in Mover : moving[m] = Idle
  BY DEF Init
<1>2. None # TRUE
  BY Names
<1>3. Announcing = {}
  BY <1>1 DEF Announcing, Idle
<1>4. InSight
  BY <1>1, <1>2 DEF InSight, Known
<1> QED
  BY <1>1, <1>3, <1>4 DEF FollowsMoves, FrameIsLatest, FrameIsRight

LEMMA RenderedTells == \A o, revisions, id : ~TellsAMove(Rendered(o, revisions, id))
BY DEF Rendered, TellsAMove

LEMMA OtherWriteKnown ==
  ASSUME Types, FollowsMoves, NEW o \in Object, NEW name \in Name, NEW active \in BOOLEAN,
         OtherWrite(o, name, active)
  PROVE  FollowsMoves'
<1> DEFINE rev == [name |-> name, active |-> active, ours |-> FALSE]
<1>1. /\ UNCHANGED <<selected, routeSeq, resetSeq, moving, position, route, connected>>
      /\ Revise(o, rev) /\ Overtake
      /\ \/ Publish(Rendered(o, Append(history[o], rev), seq + 1))
         \/ UNCHANGED live
  BY DEF OtherWrite, Revise, selection, store
<1>2. Rendered(o, Append(history[o], rev), seq + 1) \in Delivery
  <2>1. o \notin wiped
    <3>1. Unused # {} => Min(Unused) \in Unused
      BY MinOf, Names DEF Unused
    <3> QED
      BY <3>1 DEF OtherWrite, Existing, Unused
  <2>2. rev \in Revision /\ UNCHANGED <<selection, resetSeq>>
    BY DEF OtherWrite, Revision
  <2> HIDE DEF rev
  <2>3. seq + 1 \in Nat
    BY DEF Types, RouterOK
  <2> QED
    BY <1>1, <2>1, <2>2, <2>3, ReviseKeeps, RenderedOf DEF Types
<1>3. Announcing # {} => overtaken'
  BY <1>1 DEF Overtake
<1>4. CASE Publish(Rendered(o, Append(history[o], rev), seq + 1))
  BY <1>1, <1>2, <1>3, <1>4, RenderedTells, FrameTypes, KnownPublished DEF Numbering
<1>5. CASE UNCHANGED live
  BY <1>1, <1>5, KnownQuiet DEF stream, Numbering
<1> QED
  BY <1>1, <1>4, <1>5

LEMMA ResetKnown == ASSUME Types, FollowsMoves, ResetTenant PROVE FollowsMoves'
<1>1. /\ selected' = FALSE /\ Overtake /\ seq' = seq + 1
      /\ UNCHANGED <<routeSeq, moving, connected, position, route>>
  BY DEF ResetTenant, store
<1>2. /\ seq \in Nat /\ routeSeq \in 0..seq /\ resetSeq \in 0..seq /\ position \in 0..seq
      /\ selected \in BOOLEAN /\ StreamOK
      /\ \A i \in 1..Len(live) : live[i].id \in Nat /\ live[i].id <= seq
  <2>1. \A i \in 1..Len(live) : live[i].id \in Nat /\ live[i].id <= seq
    BY DEF Types, StreamOK, Frame, RouteFrames, Delivery
  <2> QED
    BY <2>1 DEF Types, RouterOK, StoreOK
<1>3. Announcing' = Announcing /\ Owing' = Owing
  BY <1>1, CallsRest
<1>4. ASSUME ~overtaken' PROVE ~overtaken /\ Announcing = {}
  BY <1>1, <1>4, Zenon DEF Overtake
<1>5. ASSUME ~overtaken', ~Owing' PROVE InSight'
  <2>1. InSight
    BY <1>3, <1>4, <1>5 DEF FollowsMoves, Behind
  <2>2. CASE routeSeq > 0
    <3> DEFINE f == ResetFrame(seq + 1)
    <3>1. resetSeq' = seq + 1 /\ Publish(f)
      BY <2>2 DEF ResetTenant
    <3>2. f \in Frame /\ TellsAMove(f) /\ Leaves(f) = FALSE
      BY <1>2, FrameTypes DEF ResetFrame, TellsAMove, Leaves
    <3>3. /\ ~(position' >= resetSeq')
          /\ \A i \in 1..Len(live) : ~(live[i].id >= resetSeq')
      BY <1>1, <1>2, <3>1
    <3>4. (~connected => live = <<>>) /\ ~selected' /\ Leaves(f) = selected'
      BY <1>1, <3>2 DEF FollowsMoves
    <3> HIDE DEF f
    <3> QED
      BY <1>1, <1>2, <3>1, <3>2, <3>3, <3>4, ToldLast
  <2>3. CASE ~(routeSeq > 0)
    <3>1. UNCHANGED <<resetSeq, live>>
      BY <2>3 DEF ResetTenant
    <3>2. selected = FALSE
      <4>1. routeSeq <= resetSeq
        BY <1>2, <2>3
      <4> QED
        BY <1>2, <2>1, <4>1 DEF InSight
    <3> QED
      BY <1>1, <2>1, <3>1, <3>2 DEF InSight, Shows, Known
  <2> QED
    BY <2>2, <2>3
<1>6. ~connected' => live' = <<>>
  <2>1. CASE ~connected
    <3>1. UNCHANGED live
      BY <2>1 DEF ResetTenant, Publish
    <3> QED
      BY <2>1, <3>1 DEF FollowsMoves
  <2> QED
    BY <1>1, <2>1
<1> QED
  BY <1>3, <1>4, <1>5, <1>6 DEF FollowsMoves, FrameIsLatest, FrameIsRight

LEMMA WorldKnown == ASSUME Types, FollowsMoves, World PROVE FollowsMoves'
BY OtherWriteKnown, ResetKnown, KnownGoing, KnownNumbered, KnownAnnounced DEF World, Announce

LEMMA ReceiveKnown == ASSUME Types, FollowsMoves, Receive PROVE FollowsMoves'
<1> DEFINE f == Head(live)
<1>1. CASE ReceiveObject \/ ReceiveCaughtUp
  <2>1. PICK event : Receiving(event) /\ event \in {"object", "caughtUp"} /\ UNCHANGED route
    BY <1>1 DEF ReceiveObject, ReceiveCaughtUp
  <2>2. ~TellsAMove(f)
    BY <2>1 DEF Receiving, TellsAMove
  <2> QED
    BY <2>1, <2>2, KnownReceived
<1>2. CASE ReceiveRoute
  <2>1. Receiving("route") /\ route' = f.selected
    BY <1>2 DEF ReceiveRoute, Routed
  <2>2. f.event = "route" /\ f \in Frame
    BY <2>1, HeadOf DEF Receiving, Types
  <2>3. TellsAMove(f) /\ Leaves(f) = f.selected /\ f.selected \in BOOLEAN
    BY <2>2, FrameOf DEF TellsAMove, Leaves
  <2> QED
    BY <2>1, <2>3, KnownReceived
<1>3. CASE ReceiveReset
  <2>1. Receiving("reset") /\ route' = FALSE
    BY <1>3 DEF ReceiveReset, Routed
  <2>2. TellsAMove(f) /\ Leaves(f) = FALSE
    BY <2>1 DEF Receiving, TellsAMove, Leaves
  <2> QED
    BY <2>1, <2>2, KnownReceived
<1>4. CASE Bind
  <2>1. /\ UNCHANGED <<selected, routeSeq, resetSeq, moving, position, route, seq, changed,
                       overtaken>>
        /\ Drop \/ UNCHANGED stream
    BY <1>4 DEF Bind, objects, selection, store
  <2> QED
    BY <2>1, KnownDropped, KnownQuiet DEF Numbering
<1> QED
  BY <1>1, <1>2, <1>3, <1>4 DEF Receive

LEMMA RequestKnown ==
  ASSUME Types, FollowsMoves, NEW o \in Object, Request(o)
  PROVE  FollowsMoves'
<1> DEFINE f == Rendered(o, history[o], changed[o])
<1>1. /\ o \in Existing /\ Publish(f) /\ ~TellsAMove(f) /\ f.id = changed[o]
      /\ UNCHANGED <<selected, routeSeq, resetSeq, moving, position, route, connected, seq,
                     changed, overtaken>>
  BY RenderedTells DEF Request, router, objects, selection, store, Rendered
<1>2. /\ history[o] \in Seq(Revision) /\ history[o] # <<>>
      /\ Len(history[o]) <= MaxRevision /\ changed[o] \in Nat
  BY <1>1 DEF Types, RouterOK, Existing
<1>3. f \in Frame
  BY <1>2, RenderedOf, FrameTypes
<1>4. CASE overtaken
  <2>1. overtaken'
    BY <1>1, <1>4
  <2> HIDE DEF f
  <2> QED
    BY <1>1, <1>3, <2>1, KnownPublished DEF Numbering
<1>5. CASE ~overtaken
  <2>1. Announcing # {} => f.id < routeSeq
    BY <1>1, <1>5 DEF FollowsMoves, FrameIsLatest
  <2> HIDE DEF f
  <2> QED
    BY <1>1, <1>3, <2>1, KnownPublished DEF Numbering
<1> QED
  BY <1>4, <1>5

LEMMA StepKnown == ASSUME Types, FollowsMoves, [Next]_vars PROVE FollowsMoves'
<1>1. CASE SetWritten \/ UNCHANGED vars
  BY <1>1, KnownQuiet DEF SetWritten, vars, router, objects, selection, store, Numbering
<1>2. CASE \E c \in Caller : Send(c)
  <2>1. CASE \E c \in Caller : SendCreates(c) \/ SendRevised(c)
    BY <2>1, KnownQuiet
       DEF SendCreates, SendRevised, Revise, selection, store, Numbering
  <2>2. CASE \E c \in Caller :
               SendRead(c) \/ SendRefused(c) \/ SendKept(c) \/ SendApply(c)
    BY <2>2, KnownQuiet
       DEF SendRead, SendRefused, SendKept, SendApply, router, objects, selection, store,
           Numbering
  <2> QED
    BY <1>2, <2>1, <2>2 DEF Send
<1>3. CASE Load
  <2>1. CASE Confirm \/ Complete
    BY <2>1, KnownQuiet DEF Confirm, Complete, objects, store, Numbering
  <2>2. CASE StartRun \/ ReadStatus \/ OpenSet \/ TakeFrame \/ SetEnds \/ ReadBindings
             \/ DropRejected \/ ListPending \/ PushNext
    BY <2>2, KnownQuiet
       DEF StartRun, ReadStatus, OpenSet, TakeFrame, SetEnds, ReadBindings, DropRejected,
           ListPending, PushNext, router, objects, selection, store, Numbering
  <2> QED
    BY <1>3, <2>1, <2>2 DEF Load
<1>4. CASE Person
  <2>1. CASE Replay
    BY <2>1, KnownDropped DEF Replay, router, objects, selection, store
  <2>2. CASE \/ Answer \/ StoreCreated \/ EndDelete \/ PressLoad
             \/ \E n \in Name : BeginCreate(n)
             \/ \E l \in LocalId : ArchiveLocally(l) \/ BeginDelete(l)
    BY <2>2, KnownQuiet
       DEF Answer, StoreCreated, EndDelete, PressLoad, BeginCreate, ArchiveLocally, BeginDelete,
           router, objects, selection, store, Numbering
  <2> QED
    BY <1>4, <2>1, <2>2, RequestKnown DEF Person
<1>5. CASE Faults
  <2>1. CASE Disconnect \/ Crash
    BY <2>1, KnownDropped DEF Disconnect, Crash, router, objects, selection, store
  <2>2. CASE DropSet \/ LoseConfirmation \/ \E c \in Caller : LoseCall(c)
    BY <2>2, KnownQuiet
       DEF DropSet, LoseConfirmation, LoseCall, router, objects, selection, store, Numbering
  <2> QED
    BY <1>5, <2>1, <2>2 DEF Faults
<1> QED
  BY <1>1, <1>2, <1>3, <1>4, <1>5, WorldKnown, KnownConnected, ReceiveKnown DEF Next

LEMMA AlwaysFollows == Spec => []FollowsMoves
<1>1. Types /\ FollowsMoves /\ [Next]_vars => FollowsMoves'
  BY StepKnown
<1> QED
  BY InitKnown, <1>1, AlwaysTyped, PTL DEF Spec

\* With no call left to announce a move and nothing left to receive, the selection
\* the platform has recorded is agrirouter's, whatever overlapping moves, resets,
\* broken connections, restarts and replays came before, unless the latest frame
\* was overtaken between its number and its handing over (publishSelection unlocks
\* between the two; Receiver.handle records a move and its position in one
\* transaction; streams.catchUp sends the moves after a position again).
THEOREM SelectionIsKnown == Spec => []KnowsTheSelection
<1>1. FollowsMoves => KnowsTheSelection
  <2> SUFFICES ASSUME FollowsMoves, NothingMoves, ~overtaken, connected, live = <<>>
               PROVE  Known
    BY DEF KnowsTheSelection, Known
  <2>1. ~Owing /\ Announcing = {}
    BY DEF NothingMoves, Idle, Owing, Announcing
  <2>2. InSight
    BY <2>1 DEF FollowsMoves, Behind
  <2>3. \A i \in 1..Len(<<>>) : FALSE
    OBVIOUS
  <2> QED
    BY <2>2, <2>3 DEF InSight, Shows
<1> QED
  BY <1>1, AlwaysFollows, PTL

----------------------------------------------------------------------------
(* While nothing breaks, nobody wipes the tenant and the person only answers *)

Undisturbed == resets = 0 /\ faults = 0 /\ requests = 0

CountsOK == resets \in Nat /\ faults \in Nat /\ requests \in Nat

\* A frame is of an object that is there, and a local id in it is one agrirouter
\* has for the object.
Agreed(f) ==
  f.object \in Existing /\ (f.local # None => mapping[f.local] = f.object)

\* The load has a write answered that it has not applied.
Answering == At("load", "apply")
AnswersFor(l) == Answering /\ calls["load"].local = l

Quiet == wiped = {} /\ resetSeq = 0 /\ calls["user"] = None

FramesAgree ==
  \A i \in 1..Len(live) :
    live[i].event # "reset" /\ (live[i].event = "object" => Agreed(live[i]))

EntriesAgree == \A i \in 1..Len(set.frames) : Agreed(set.frames[i])

IdsAreKnown ==
  \A l \in LocalId : record[l] # None \/ Bound(l) \/ mapping[l] # None => l <= minted

RowsExist == \A l \in LocalId : Bound(l) => row[l].object \in Existing

\* What agrirouter has a local id for is what the platform has it for, or an
\* answer that says so is on its way.
Halves ==
  \A l \in LocalId :
    mapping[l] # None => (Bound(l) /\ row[l].object = mapping[l]) \/ AnswersFor(l)

BindingIsHeld ==
  binding # None => Bound(binding.local) /\ row[binding.local].object = binding.object

PairsAreHeld ==
  /\ pc # "drop"
  /\ pc = "confirm" => \A p \in pairs : Bound(p.local) /\ row[p.local].object = p.object

\* What is listed for the push has no half of a pair yet.
PushIsFresh ==
  /\ calls["load"] # None => pc = "push" /\ calls["load"].local \in pending
  /\ pc = "push" =>
       \A l \in pending : /\ l <= minted
                          /\ AnswersFor(l) \/ (row[l] = None /\ mapping[l] = None)

\* What was created by the push is nobody else's, and the stream knows its name.
AnswerIsOwn ==
  Answering =>
    LET k == calls["load"] IN
    /\ k.answer.local = k.local /\ mapping[k.local] = k.answer.object
    /\ k.answer.object \in Existing
    /\ row[k.local] = None \/ (Bound(k.local) /\ row[k.local].object = k.answer.object)
    /\ Holders(k.answer.object) \subseteq {k.local}
    /\ \A i \in 1..Len(live) :
         live[i].event = "object" /\ live[i].object = k.answer.object =>
           live[i].local = k.local

\* Agrirouter has not sent the set and no stream of it is open: whatever was taken
\* of it before is asked for again.
Retakes == ~set.open /\ load \in {None, "LOADING_FROM_AGRIROUTER"}

\* What the set held that is active is held, or is still to be taken.
SetIsHeld ==
  /\ pc \notin {"take", "ask"} => set.frames = <<>>
  /\ ~Retakes =>
       \A o \in set.holds :
         \/ Holders(o) # {}
         \/ \E i \in 1..Len(set.frames) : set.frames[i].object = o /\ set.frames[i].active

Sides ==
  /\ Quiet /\ FramesAgree /\ EntriesAgree /\ IdsAreKnown /\ RowsExist /\ Halves
  /\ BindingIsHeld /\ PairsAreHeld /\ PushIsFresh /\ AnswerIsOwn /\ SetIsHeld

RowsKept ==
  \A l \in LocalId : Bound(l) => Bound(l)' /\ row'[l].object = row[l].object
MappingKept == \A l \in LocalId : mapping[l] # None => mapping'[l] = mapping[l]
ExistingKept == Existing \subseteq Existing'

\* A step leaves every pair what it is for, or gives one record a pair for an
\* object nothing held.
SamePairs ==
  \A l \in LocalId :
    row'[l] = row[l] \/ (Bound(l) /\ Bound(l)' /\ row'[l].object = row[l].object)
Gains(l, o) ==
  /\ o \in Existing /\ Holders(o) = {} /\ ~Bound(l)
  /\ Bound(l)' /\ row'[l].object = o
  /\ \A k \in LocalId : k # l => row'[k] = row[k]

LEMMA SamePairsOf ==
  ASSUME SamePairs
  PROVE  /\ RowsKept /\ \A l \in LocalId : row[l] = None => row'[l] = None
         /\ \A l \in LocalId : Bound(l)' => Bound(l)
         /\ \A o : Holders(o)' = Holders(o)
BY DEF SamePairs, RowsKept, Bound, Holders

LEMMA GainsOf ==
  ASSUME NEW l \in LocalId, NEW o, Gains(l, o)
  PROVE  /\ RowsKept /\ \A k \in LocalId : Bound(k)' => k = l \/ Bound(k)
         /\ Holders(o)' = {l} /\ \A q : q # o => Holders(q)' = Holders(q)
<1>1. \A k \in LocalId : k # l => (Bound(k)' <=> Bound(k)) /\ row'[k] = row[k]
  BY DEF Gains, Bound
<1>2. RowsKept /\ \A k \in LocalId : Bound(k)' => k = l \/ Bound(k)
  BY <1>1 DEF Gains, RowsKept
<1>3. Holders(o)' = {l}
  BY <1>1 DEF Gains, Holders
<1>4. \A q : q # o => Holders(q)' = Holders(q)
  BY <1>1 DEF Gains, Holders
<1> QED
  BY <1>2, <1>3, <1>4

LEMMA RowsStill ==
  ASSUME UNCHANGED row
  PROVE  SamePairs
BY DEF SamePairs

LEMMA AgreedKept ==
  ASSUME Types, MappingKept, ExistingKept, NEW f, Agreed(f), f.local \in LocalId \cup {None}
  PROVE  Agreed(f)'
<1>1. f.object \in Existing' /\ f.object # None
  BY Names DEF Agreed, ExistingKept, Existing
<1>2. f.local # None => mapping'[f.local] = f.object
  BY <1>1 DEF Agreed, MappingKept
<1> QED
  BY <1>1, <1>2 DEF Agreed

LEMMA MappingStill == UNCHANGED mapping => MappingKept
BY DEF MappingKept

LEMMA ExistingStill == UNCHANGED <<history, wiped>> => ExistingKept
BY DEF ExistingKept, Existing

\* Each part of the invariant under steps that leave what it is about alone.
LEMMA EntriesStill ==
  ASSUME Types, EntriesAgree, MappingKept, ExistingKept,
         set'.frames = set.frames \/ set'.frames = <<>>
         \/ (set.frames # <<>> /\ set'.frames = Tail(set.frames))
  PROVE  EntriesAgree'
<1>1. set.frames \in Seq(Delivery)
  BY DEF Types, SetOK
<1>2. \A i \in 1..Len(set.frames) : set.frames[i].local \in LocalId \cup {None}
  <2>1. \A i \in 1..Len(set.frames) : set.frames[i] \in Delivery
    BY <1>1
  <2> QED
    BY <2>1, DeliveryTold DEF Told
<1>3. \A i \in 1..Len(set'.frames) : \E j \in 1..Len(set.frames) : set'.frames[i] = set.frames[j]
  <2>1. CASE set'.frames = set.frames
    BY <2>1
  <2>2. CASE set'.frames = <<>>
    BY <2>2
  <2>3. CASE set.frames # <<>> /\ set'.frames = Tail(set.frames)
    <3>1. /\ Len(Tail(set.frames)) = Len(set.frames) - 1 /\ Len(set.frames) \in Nat
          /\ \A i \in 1..Len(Tail(set.frames)) : Tail(set.frames)[i] = set.frames[i + 1]
      BY <1>1, <2>3, HeadTailProperties
    <3>2. \A i \in 1..Len(Tail(set.frames)) : i + 1 \in 1..Len(set.frames)
      BY <3>1
    <3> QED
      BY <2>3, <3>1, <3>2
  <2> QED
    BY <2>1, <2>2, <2>3
<1>4. \A j \in 1..Len(set.frames) : \A f : f = set.frames[j] => Agreed(f)'
  BY <1>2, AgreedKept DEF EntriesAgree
<1> QED
  BY <1>3, <1>4 DEF EntriesAgree

LEMMA FramesStill ==
  ASSUME Types, FramesAgree, MappingKept, ExistingKept,
         UNCHANGED live \/ live' = <<>> \/ (live # <<>> /\ live' = Tail(live))
  PROVE  FramesAgree'
<1>1. \A i \in 1..Len(live) : live[i] \in Frame
  BY DEF Types, StreamOK
<1>2. \A i \in 1..Len(live) : live[i].event = "object" => live[i].local \in LocalId \cup {None}
  BY <1>1, FrameOf DEF Delivery
<1>3. \A i \in 1..Len(live') : \E j \in 1..Len(live) : live'[i] = live[j]
  <2>1. CASE UNCHANGED live
    BY <2>1
  <2>2. CASE live' = <<>>
    BY <2>2
  <2>3. CASE live # <<>> /\ live' = Tail(live)
    BY <2>3, HeadOf DEF Types
  <2> QED
    BY <2>1, <2>2, <2>3
<1>4. \A j \in 1..Len(live) : \A f : f = live[j] =>
         f.event # "reset" /\ (f.event = "object" => Agreed(f)')
  BY <1>2, AgreedKept DEF FramesAgree
<1> QED
  BY <1>3, <1>4 DEF FramesAgree

LEMMA HalvesStill ==
  ASSUME Halves, RowsKept, UNCHANGED mapping, \A l \in LocalId : AnswersFor(l) => AnswersFor(l)'
  PROVE  Halves'
BY DEF Halves, RowsKept

LEMMA BindingStill ==
  ASSUME Types, BindingIsHeld, RowsKept, UNCHANGED binding \/ binding' = None
  PROVE  BindingIsHeld'
<1>1. binding # None => binding.local \in LocalId
  BY DEF Types, ProcessOK, Half
<1> QED
  BY <1>1 DEF BindingIsHeld, RowsKept

LEMMA PairsStill ==
  ASSUME Types, PairsAreHeld, RowsKept,
         UNCHANGED <<pc, pairs>> \/ pc' \notin {"confirm", "drop"}
  PROVE  PairsAreHeld'
<1>1. \A p \in pairs : p.local \in LocalId
  BY DEF Types, LoaderOK, Half
<1> QED
  BY <1>1 DEF PairsAreHeld, RowsKept

LEMMA AnswersStill == ASSUME UNCHANGED calls PROVE \A l : AnswersFor(l)' <=> AnswersFor(l)
BY DEF AnswersFor, Answering, At

LEMMA RetakesStill == ASSUME UNCHANGED load, set'.open = set.open PROVE Retakes => Retakes'
BY DEF Retakes

\* What is on its way after a step is what was, or less.
LEMMA LiveFewer ==
  ASSUME Types, UNCHANGED live \/ live' = <<>> \/ (live # <<>> /\ live' = Tail(live))
  PROVE  \A i \in 1..Len(live') : \E j \in 1..Len(live) : live'[i] = live[j]
<1>1. CASE UNCHANGED live
  BY <1>1
<1>2. CASE live' = <<>>
  BY <1>2
<1>3. CASE live # <<>> /\ live' = Tail(live)
  BY <1>3, HeadOf DEF Types
<1> QED
  BY <1>1, <1>2, <1>3

\* A step that changes no pair, no name and nothing of the load, but perhaps
\* agrirouter's objects and what is on its way.
LEMMA ElsewhereSides ==
  ASSUME Types, Sides, ExistingKept, Quiet', FramesAgree',
         set'.frames = set.frames, set'.holds = set.holds, Retakes => Retakes',
         Answering => \A i \in 1..Len(live') :
           live'[i].event = "object" /\ live'[i].object = calls["load"].answer.object =>
             live'[i].local = calls["load"].local,
         UNCHANGED <<tables, mapping, minted, pc, pairs, pending, calls>>,
         UNCHANGED binding \/ binding' = None
  PROVE  Sides'
<1>1. SamePairs /\ RowsKept /\ MappingKept /\ UNCHANGED <<record, row>>
  BY RowsStill, SamePairsOf, MappingStill DEF tables
<1>2. \A l : (AnswersFor(l)' <=> AnswersFor(l)) /\ (Bound(l)' <=> Bound(l))
  BY <1>1, AnswersStill DEF Bound
<1>3. EntriesAgree'
  BY <1>1, EntriesStill DEF Sides
<1>4. IdsAreKnown'
  BY <1>1, <1>2 DEF Sides, IdsAreKnown
<1>5. RowsExist'
  BY <1>1, <1>2 DEF Sides, RowsExist, ExistingKept
<1>6. Halves'
  BY <1>1, <1>2, HalvesStill DEF Sides
<1>7. BindingIsHeld' /\ PairsAreHeld'
  BY <1>1, BindingStill, PairsStill DEF Sides
<1>8. PushIsFresh'
  BY <1>1, <1>2 DEF Sides, PushIsFresh
<1>9. AnswerIsOwn'
  <2>1. Answering' <=> Answering
    BY DEF Answering, At
  <2>2. \A o : Holders(o)' = Holders(o)
    BY <1>1, SamePairsOf
  <2> QED
    BY <1>1, <1>2, <2>1, <2>2 DEF Sides, AnswerIsOwn, ExistingKept
<1>10. SetIsHeld'
  <2>1. \A o : Holders(o)' = Holders(o)
    BY <1>1, SamePairsOf
  <2> QED
    BY <2>1 DEF Sides, SetIsHeld
<1> QED
  BY <1>3, <1>4, <1>5, <1>6, <1>7, <1>8, <1>9, <1>10 DEF Sides

----------------------------------------------------------------------------
(* What the others do, and connecting *)

LEMMA DeliveryAgreed ==
  ASSUME Types, NEW o \in Existing, NEW revisions, NEW id
  PROVE  Agreed(Rendered(o, revisions, id))
BY LocalNameOf DEF Agreed, Rendered

\* The name of an object an answer brings is the one it was created under.
LEMMA AnswerIsNamed ==
  ASSUME Types, Sides, Answering
  PROVE  /\ calls["load"].local \in LocalId
         /\ LocalName(calls["load"].answer.object) = calls["load"].local
<1> DEFINE k == calls["load"]
<1>2. k.local \in LocalId
  BY CallOf DEF Types, Answering, Applying, Caller
<1>3. mapping[k.local] = k.answer.object /\ k.answer.object \in Existing
  BY DEF Sides, AnswerIsOwn
<1>4. k.answer.object # None
  BY <1>3, Names DEF Existing
<1>5. ASSUME NEW l \in LocalId, mapping[l] = k.answer.object PROVE l = k.local
  <2>1. mapping[l] # None
    BY <1>4, <1>5
  <2>2. CASE Bound(l) /\ row[l].object = mapping[l]
    BY <1>5, <2>2 DEF Sides, AnswerIsOwn, Holders
  <2>3. CASE AnswersFor(l)
    BY <2>3 DEF AnswersFor
  <2> QED
    BY <2>1, <2>2, <2>3 DEF Sides, Halves
<1> QED
  BY <1>2, <1>3, <1>5, LocalNameOf, Names

\* A frame that is published, when it is one of those the invariant allows.
LEMMA PublishedAgrees ==
  ASSUME Types, Sides, ExistingKept, UNCHANGED mapping, NEW f, Publish(f),
         f.event # "reset", f.event = "object" => Agreed(f)',
         Answering /\ f.event = "object" /\ f.object = calls["load"].answer.object =>
           f.local = calls["load"].local
  PROVE  /\ FramesAgree'
         /\ Answering => \A i \in 1..Len(live') :
              live'[i].event = "object" /\ live'[i].object = calls["load"].answer.object =>
                live'[i].local = calls["load"].local
<1>1. CASE ~connected
  <2>1. UNCHANGED live
    BY <1>1 DEF Publish
  <2> QED
    BY <2>1, MappingStill, FramesStill DEF Sides, AnswerIsOwn
<1>2. CASE connected
  <2>1. live' = Append(live, f)
    BY <1>2 DEF Publish
  <2>2. live \in Seq(Frame)
    BY DEF Types, StreamOK
  <2>3. /\ Len(live') = Len(live) + 1 /\ Len(live) \in Nat /\ live'[Len(live) + 1] = f
        /\ \A i \in 1..Len(live) : live'[i] = live[i]
    BY <2>1, <2>2
  <2>4. \A i \in 1..Len(live') : i \in 1..Len(live) \/ i = Len(live) + 1
    BY <2>3
  <2>5. \A i \in 1..Len(live) :
           live[i].event # "reset" /\ (live[i].event = "object" => Agreed(live[i])')
    <3>1. \A g : g.local \in LocalId \cup {None} /\ Agreed(g) => Agreed(g)'
      BY MappingStill, AgreedKept
    <3>2. \A i \in 1..Len(live) : live[i].event = "object" => live[i].local \in LocalId \cup {None}
      <4>1. \A i \in 1..Len(live) : live[i] \in Frame
        BY <2>2
      <4> QED
        BY <4>1, FrameOf, DeliveryTold DEF Told
    <3>3. \A i \in 1..Len(live) :
            live[i].event = "object" => \A g : g = live[i] => Agreed(g)'
      BY <3>1, <3>2 DEF Sides, FramesAgree
    <3>4. \A i \in 1..Len(live) : live[i].event # "reset"
      BY DEF Sides, FramesAgree
    <3>5. \A i \in 1..Len(live) : live'[i].event = "object" => Agreed(live[i])'
      BY <2>3, <3>3
    <3> QED
      BY <2>3, <3>4, <3>5
  <2> QED
    BY <2>3, <2>4, <2>5 DEF FramesAgree, Sides, AnswerIsOwn
<1> QED
  BY <1>1, <1>2

\* Without a reset, what a connection is sent is moves and objects as they are named.
LEMMA CaughtUpOf ==
  ASSUME RouterOK, resetSeq = 0, NEW from \in Nat, NEW order \in InOrder(Missed(from))
  PROVE  \A i \in 1..Len(CatchUp(from, order)) :
           LET f == CatchUp(from, order)[i] IN
           /\ f.event # "reset" /\ (f.event = "route" => routeSeq > 0)
           /\ f.event = "object" =>
                f.object \in Existing /\ f.local = LocalName(f.object)
<1> DEFINE reset == IF resetSeq > from THEN <<ResetFrame(resetSeq)>> ELSE <<>>
           move == IF routeSeq > from /\ routeSeq > resetSeq
                   THEN <<RouteFrame(selected, routeSeq)>> ELSE <<>>
           heads == reset \o move
           Fine(f) == /\ f.event # "reset" /\ (f.event = "route" => routeSeq > 0)
                      /\ f.event = "object" =>
                           f.object \in Existing /\ f.local = LocalName(f.object)
<1>1. routeSeq \in Nat /\ seq \in Nat /\ selected \in BOOLEAN
  BY DEF RouterOK
<1>2. reset = <<>>
  BY <1>1
<1>3. RouteFrame(selected, routeSeq) \in Frame /\ CaughtUp(seq) \in Frame
  BY <1>1, FrameTypes
<1>4. /\ heads = <<>> \/ (heads = <<RouteFrame(selected, routeSeq)>> /\ routeSeq > 0)
      /\ heads \in Seq(Frame)
  <2>1. move = <<>> \/ (move = <<RouteFrame(selected, routeSeq)>> /\ routeSeq > 0)
    BY <1>1
  <2>2. <<RouteFrame(selected, routeSeq)>> \in Seq(Frame) /\ <<>> \in Seq(Frame)
    BY <1>3
  <2>3. move \in Seq(Frame)
    BY <2>1, <2>2
  <2>4. <<>> \o move = move
    BY <2>3, ConcatEmptySeq
  <2> QED
    BY <1>2, <2>1, <2>3, <2>4
<1>5. Missed(from) \in SUBSET Existing
  BY DEF Missed
<1>6. /\ Frames(order) \in Seq(Frame)
      /\ \A i \in 1..Len(Frames(order)) : Fine(Frames(order)[i])
  <2>1. Frames(order) \in Seq(Delivery)
    BY <1>5, FramesOf
  <2>2. Frames(order) \in Seq(Frame)
    BY <2>1, FrameTypes
  <2>3. \A o \in Existing : \A revisions, id : Fine(Rendered(o, revisions, id))
    BY DEF Rendered
  <2>4. \A i \in 1..Len(Frames(order)) : \E o \in Existing : \E revisions, id :
           Frames(order)[i] = Rendered(o, revisions, id)
    BY <1>5, FramesOf
  <2> QED
    BY <2>2, <2>3, <2>4
<1>7. CatchUp(from, order) = (heads \o Frames(order)) \o <<CaughtUp(seq)>>
  BY DEF CatchUp
<1>8. \A i \in 1..Len(heads) : Fine(heads[i])
  <2>1. routeSeq > 0 => Fine(RouteFrame(selected, routeSeq))
    BY DEF RouteFrame
  <2> HIDE DEF Fine
  <2> QED
    BY <1>4, <2>1
<1>9. Fine(CaughtUp(seq))
  BY DEF CaughtUp
<1> HIDE DEF heads, Fine
<1>10. /\ heads \o Frames(order) \in Seq(Frame)
       /\ \A i \in 1..Len(heads \o Frames(order)) : Fine((heads \o Frames(order))[i])
  <2>1. /\ Len(heads) \in Nat /\ Len(Frames(order)) \in Nat
        /\ heads \o Frames(order) \in Seq(Frame)
        /\ \A i \in 1..Len(heads) : (heads \o Frames(order))[i] = heads[i]
        /\ \A i \in 1..Len(heads \o Frames(order)) : i > Len(heads) =>
             /\ i - Len(heads) \in 1..Len(Frames(order))
             /\ (heads \o Frames(order))[i] = Frames(order)[i - Len(heads)]
    BY <1>4, <1>6, ConcatOf
  <2>2. \A i \in 1..Len(heads \o Frames(order)) : i \in 1..Len(heads) \/ i > Len(heads)
    BY <2>1
  <2> QED
    BY <1>6, <1>8, <2>1, <2>2
<1>11. \A i \in 1..Len(CatchUp(from, order)) : Fine(CatchUp(from, order)[i])
  <2> DEFINE most == heads \o Frames(order)
  <2>1. <<CaughtUp(seq)>> \in Seq(Frame) /\ Len(<<CaughtUp(seq)>>) = 1
        /\ <<CaughtUp(seq)>>[1] = CaughtUp(seq)
    BY <1>3
  <2>2. most \in Seq(Frame) /\ CatchUp(from, order) = most \o <<CaughtUp(seq)>>
        /\ \A i \in 1..Len(most) : Fine(most[i])
    BY <1>7, <1>10
  <2> HIDE DEF most
  <2>3. /\ Len(most) \in Nat
        /\ Len(most \o <<CaughtUp(seq)>>) = Len(most) + 1
        /\ \A i \in 1..Len(most) : (most \o <<CaughtUp(seq)>>)[i] = most[i]
        /\ (most \o <<CaughtUp(seq)>>)[Len(most) + 1] = CaughtUp(seq)
    BY <2>1, <2>2, ConcatProperties
  <2> QED
    BY <1>9, <2>2, <2>3
<1> QED
  BY <1>11 DEF Fine

LEMMA ReviseExisting ==
  ASSUME Types, NEW o \in Object, NEW rev, Revise(o, rev)
  PROVE  ExistingKept /\ (o \notin wiped => o \in Existing')
<1>1. history' = [history EXCEPT ![o] = Append(@, rev)] /\ wiped' = wiped
  BY DEF Revise
<1>2. history \in [Object -> Seq(Revision)]
  BY DEF Types, RouterOK
<1>3. Append(history[o], rev) # <<>>
  BY <1>2
<1>4. \A q \in Object : history'[q] = IF q = o THEN Append(history[o], rev) ELSE history[q]
  BY <1>1, <1>2
<1>5. \A q \in Object : history[q] # <<>> => history'[q] # <<>>
  BY <1>3, <1>4
<1> QED
  BY <1>1, <1>3, <1>4, <1>5 DEF ExistingKept, Existing

LEMMA OtherWriteSides ==
  ASSUME Types, Sides, NEW o \in Object, NEW name \in Name, NEW active \in BOOLEAN,
         OtherWrite(o, name, active)
  PROVE  Sides'
<1> DEFINE rev == [name |-> name, active |-> active, ours |-> FALSE]
<1>1. /\ Revise(o, rev)
      /\ UNCHANGED <<mapping, selection, resetSeq, set, connected, store, process>>
      /\ IF selected THEN Publish(Rendered(o, Append(history[o], rev), seq + 1))
                     ELSE UNCHANGED live
  BY DEF OtherWrite
<1> HIDE DEF rev
<1>2. ExistingKept /\ o \in Existing'
  <2>1. wiped = {}
    BY DEF Sides, Quiet
  <2> QED
    BY <1>1, <2>1, ReviseExisting
<1>3. UNCHANGED <<tables, minted, pc, pairs, pending, calls, binding>>
  BY <1>1 DEF store, process, receiver, loader
<1>4. Quiet'
  BY <1>1, <1>3 DEF Sides, Quiet, Revise, selection
<1>5. /\ FramesAgree'
      /\ Answering => \A i \in 1..Len(live') :
           live'[i].event = "object" /\ live'[i].object = calls["load"].answer.object =>
             live'[i].local = calls["load"].local
  <2>1. CASE ~selected
    BY <1>1, <1>2, <2>1, MappingStill, FramesStill DEF Sides, AnswerIsOwn
  <2>2. CASE selected
    <3>1. ASSUME NEW f, f = Rendered(o, Append(history[o], rev), seq + 1)
          PROVE  <1>5!1 /\ <1>5!2
      <4>1. Publish(f) /\ UNCHANGED mapping
        BY <1>1, <2>2, <3>1
      <4>2. f.event = "object" /\ f.object = o /\ f.local = LocalName(o)
        BY <3>1 DEF Rendered
      <4>3. f.local # None => mapping'[f.local] = o
        BY <1>1, <4>2, LocalNameOf
      <4>4. Agreed(f)'
        BY <1>2, <4>2, <4>3 DEF Agreed
      <4>5. Answering /\ f.object = calls["load"].answer.object =>
              f.local = calls["load"].local
        BY <4>2, AnswerIsNamed
      <4> QED
        BY <1>2, <4>1, <4>2, <4>4, <4>5, PublishedAgrees
    <3> QED
      BY <3>1
  <2> QED
    BY <2>1, <2>2
<1> QED
  BY <1>1, <1>2, <1>3, <1>4, <1>5, RetakesStill, ElsewhereSides DEF selection

\* What a call that moves the selection does to the endpoint's load, and its frame.
LEMMA MovingSides ==
  ASSUME Types, Sides, NEW m \in Mover, Select(m) \/ Deselect(m) \/ Announce(m)
  PROVE  Sides'
<1>1. /\ load' = load \/ load' \in {None, "LOADING_FROM_AGRIROUTER"}
      /\ UNCHANGED <<history, wiped, mapping, resetSeq, set, store, process>>
  BY DEF Select, Deselect, Announce, StartLoad, DropLoad, NumberMove, PublishMove, objects
<1>2. UNCHANGED <<tables, minted, pc, pairs, pending, calls, binding>>
  BY <1>1 DEF store, process, receiver, loader
<1>3. Quiet' /\ ExistingKept /\ (Retakes => Retakes')
  BY <1>1, <1>2, ExistingStill DEF Sides, Quiet, Retakes
<1>4. /\ FramesAgree'
      /\ Answering => \A i \in 1..Len(live') :
           live'[i].event = "object" /\ live'[i].object = calls["load"].answer.object =>
             live'[i].local = calls["load"].local
  <2>1. CASE PublishMove(m)
    <3>1. m \in Announcing /\ Publish(moving[m].frame)
      BY <2>1 DEF PublishMove, Announcing
    <3>2. moving[m].frame.event = "route"
      BY <3>1, PublishedFrame DEF Types, RouterOK
    <3>3. ASSUME NEW f, f = moving[m].frame PROVE <1>4!1 /\ <1>4!2
      BY <1>1, <1>3, <3>1, <3>2, <3>3, PublishedAgrees
    <3> QED
      BY <3>3
  <2>2. CASE ~PublishMove(m)
    <3>1. UNCHANGED live
      BY <2>2 DEF Select, Deselect, Announce, StartLoad, DropLoad, NumberMove, stream
    <3> QED
      BY <1>1, <1>3, <3>1, MappingStill, FramesStill DEF Sides, AnswerIsOwn
  <2> QED
    BY <2>1, <2>2
<1> QED
  BY <1>1, <1>2, <1>3, <1>4, ElsewhereSides

LEMMA ConnectSides == ASSUME Types, Sides, Connect PROVE Sides'
<1>1. UNCHANGED <<router, set, store, minted, binding, loader, calls>>
  BY DEF Connect
<1>2. /\ UNCHANGED <<history, wiped, mapping, selected, load, resetSeq, tables, minted, pc,
                     pairs, pending, calls, binding>>
  BY <1>1 DEF router, objects, selection, store, loader
<1>3. Quiet' /\ ExistingKept
  BY <1>2, ExistingStill DEF Sides, Quiet
<1>4. PICK from \in Nat : \E order \in InOrder(Missed(from)) : live' = CatchUp(from, order)
  BY DEF Connect, Types, StoreOK
<1>5. PICK order \in InOrder(Missed(from)) : live' = CatchUp(from, order)
  BY <1>4
<1>6. \A i \in 1..Len(live') :
        /\ live'[i].event # "reset"
        /\ live'[i].event = "object" =>
             live'[i].object \in Existing /\ live'[i].local = LocalName(live'[i].object)
  BY <1>4, <1>5, CaughtUpOf DEF Sides, Quiet, Types
<1>7. FramesAgree'
  <2>1. \A i \in 1..Len(live') : live'[i].event = "object" =>
          /\ live'[i].object \in Existing'
          /\ live'[i].local # None => mapping'[live'[i].local] = live'[i].object
    BY <1>2, <1>3, <1>6, LocalNameOf DEF ExistingKept
  <2> QED
    BY <1>6, <2>1 DEF FramesAgree, Agreed
<1>8. Answering => \A i \in 1..Len(live') :
        live'[i].event = "object" /\ live'[i].object = calls["load"].answer.object =>
          live'[i].local = calls["load"].local
  BY <1>6, AnswerIsNamed
<1> QED
  BY <1>1, <1>2, <1>3, <1>7, <1>8, RetakesStill, ElsewhereSides

----------------------------------------------------------------------------
(* What a delivery, an entry or an answer does to the tables *)

\* A pair may be gained by the record whose answer is on its way, for the
\* object answered, or by one that the push does not wait with.
FreeToGain(l, o) ==
  /\ Answering => (l = calls["load"].local <=> o = calls["load"].answer.object)
  /\ pc = "push" /\ l \in pending => AnswersFor(l)

\* What happens to the pairs, and which records are there afterwards.
Applied ==
  /\ \/ SamePairs
     \/ \E l \in LocalId, o \in Existing : Gains(l, o) /\ FreeToGain(l, o)
  /\ minted' \in Nat /\ minted <= minted' /\ IdsAreKnown'

LEMMA AppliedKeeps == ASSUME Applied PROVE RowsKept
BY SamePairsOf, GainsOf DEF Applied

LEMMA PushStill ==
  ASSUME Types, Sides, Applied, UNCHANGED <<mapping, calls, pc, pending>>
  PROVE  PushIsFresh'
<1>1. \A l : AnswersFor(l)' <=> AnswersFor(l)
  BY AnswersStill
<1>2. minted \in Nat /\ minted' \in Nat /\ minted <= minted'
  BY DEF Applied, Types, ProcessOK
<1>3. pending \subseteq LocalId /\ LocalId \subseteq Nat
  BY Names DEF Types, LoaderOK
<1>4. ASSUME NEW l \in pending, pc = "push" PROVE l <= minted' /\ l <= minted
  BY <1>2, <1>3, <1>4 DEF Sides, PushIsFresh
<1>5. ASSUME NEW l \in pending, pc = "push", ~AnswersFor(l)
      PROVE  row'[l] = None /\ mapping[l] = None
  <2>1. row[l] = None /\ mapping[l] = None /\ l \in LocalId
    BY <1>3, <1>5 DEF Sides, PushIsFresh
  <2>2. CASE SamePairs
    BY <2>1, <2>2, SamePairsOf
  <2>3. ASSUME NEW k \in LocalId, NEW o, Gains(k, o), FreeToGain(k, o) PROVE row'[l] = None
    BY <1>5, <2>1, <2>3 DEF Gains, FreeToGain
  <2> QED
    BY <2>1, <2>2, <2>3 DEF Applied
<1> QED
  BY <1>1, <1>4, <1>5 DEF PushIsFresh, Sides

LEMMA OwnStill ==
  ASSUME Types, Sides, Applied, ExistingKept, UNCHANGED <<mapping, calls>>,
         \A i \in 1..Len(live') : \E j \in 1..Len(live) : live'[i] = live[j]
  PROVE  AnswerIsOwn'
<1> DEFINE k == calls["load"]
<1>1. (Answering' <=> Answering) /\ calls' = calls
  BY DEF Answering, At
<1>2. ASSUME Answering
      PROVE  /\ row'[k.local] = None \/ (Bound(k.local)' /\ row'[k.local].object = k.answer.object)
             /\ Holders(k.answer.object)' \subseteq {k.local}
  <2>1. k.local \in LocalId /\ k.answer.object \in Existing
    BY <1>2, AnswerIsNamed DEF Sides, AnswerIsOwn
  <2>2. /\ row[k.local] = None \/ (Bound(k.local) /\ row[k.local].object = k.answer.object)
        /\ Holders(k.answer.object) \subseteq {k.local}
    BY <1>2 DEF Sides, AnswerIsOwn
  <2>3. CASE SamePairs
    <3>1. Holders(k.answer.object)' = Holders(k.answer.object)
      BY <1>1, <2>3 DEF SamePairs, Bound, Holders
    <3>2. row[k.local] = None => row'[k.local] = None
      BY <2>1, <2>3, SamePairsOf
    <3>3. Bound(k.local) => Bound(k.local)' /\ row'[k.local].object = row[k.local].object
      BY <1>1, <2>1, <2>3 DEF SamePairs, Bound
    <3> QED
      BY <2>2, <3>1, <3>2, <3>3
  <2>4. ASSUME NEW l \in LocalId, NEW o \in Existing, Gains(l, o), FreeToGain(l, o)
        PROVE  <1>2!2
    <3>1. CASE l = k.local
      <4>1. o = k.answer.object
        BY <1>2, <2>4, <3>1 DEF FreeToGain
      <4>2. Bound(k.local)' /\ row'[k.local].object = o
        BY <1>1, <2>4, <3>1 DEF Gains, Bound
      <4>3. Holders(k.answer.object)' \subseteq {k.local}
        BY <1>1, <2>2, <2>4, <3>1, <4>1 DEF Gains, Bound, Holders
      <4> QED
        BY <4>1, <4>2, <4>3
    <3>2. CASE l # k.local
      <4>1. o # k.answer.object
        BY <1>2, <2>4, <3>2 DEF FreeToGain
      <4>2. row'[k.local] = row[k.local]
        BY <2>1, <2>4, <3>2 DEF Gains
      <4>3. Bound(k.local) => Bound(k.local)'
        BY <1>1, <4>2 DEF Bound
      <4>4. Holders(k.answer.object)' \subseteq {k.local}
        BY <1>1, <2>2, <2>4, <4>1 DEF Gains, Bound, Holders
      <4> QED
        BY <2>2, <4>2, <4>3, <4>4
    <3> QED
      BY <3>1, <3>2
  <2> QED
    BY <2>3, <2>4 DEF Applied
<1> QED
  BY <1>1, <1>2 DEF AnswerIsOwn, Sides, ExistingKept

LEMMA RowsExistStill ==
  ASSUME Sides, Applied, ExistingKept
  PROVE  RowsExist'
<1>1. CASE SamePairs
  BY <1>1 DEF SamePairs, Sides, RowsExist, ExistingKept, Bound
<1>2. ASSUME NEW l \in LocalId, NEW o \in Existing, Gains(l, o) PROVE RowsExist'
  BY <1>2, GainsOf DEF Sides, RowsExist, ExistingKept, Gains, RowsKept
<1> QED
  BY <1>1, <1>2 DEF Applied

LEMMA SetHeldStill ==
  ASSUME Sides, RowsKept, set'.frames = set.frames, set'.holds = set.holds, Retakes => Retakes',
         pc' \notin {"take", "ask"} => pc \notin {"take", "ask"}
  PROVE  SetIsHeld'
<1>1. \A o : Holders(o) # {} => Holders(o)' # {}
  BY DEF RowsKept, Holders
<1> QED
  BY <1>1 DEF Sides, SetIsHeld

\* A step that writes the tables as a delivery or an entry does.
LEMMA WritingSides ==
  ASSUME Types, Sides, Applied,
         UNCHANGED <<mapping, history, wiped, selected, load, resetSeq, calls, pairs, pending>>,
         UNCHANGED live \/ live' = <<>> \/ (live # <<>> /\ live' = Tail(live)),
         set'.frames = set.frames \/ set'.frames = <<>>
         \/ (set.frames # <<>> /\ set'.frames = Tail(set.frames)),
         BindingIsHeld', SetIsHeld',
         UNCHANGED pc \/ (pc \in {"take", "ask"} /\ pc' \in {"take", "ask"})
  PROVE  Sides'
<1>1. RowsKept /\ MappingKept /\ ExistingKept
  BY AppliedKeeps, MappingStill, ExistingStill
<1>2. Quiet'
  BY DEF Sides, Quiet
<1>3. FramesAgree' /\ EntriesAgree'
  BY <1>1, FramesStill, EntriesStill DEF Sides
<1>4. IdsAreKnown' /\ RowsExist'
  BY <1>1, RowsExistStill DEF Applied
<1>5. Halves'
  BY <1>1, AnswersStill, HalvesStill DEF Sides
<1>6. PairsAreHeld'
  BY <1>1, PairsStill DEF Sides
<1>7. PushIsFresh'
  <2>1. CASE UNCHANGED pc
    BY <2>1, PushStill
  <2>2. CASE pc \in {"take", "ask"} /\ pc' \in {"take", "ask"}
    BY <2>2 DEF Sides, PushIsFresh
  <2> QED
    BY <2>1, <2>2
<1>8. AnswerIsOwn'
  BY <1>1, LiveFewer, OwnStill
<1> QED
  BY <1>2, <1>3, <1>4, <1>5, <1>6, <1>7, <1>8 DEF Sides

\* An object the platform has is written where it is.
LEMMA HeldApplied ==
  ASSUME Types, Sides, NEW f, Told(f), NEW l \in LocalId, Bound(l), row[l].object = f.object,
         ApplyHeld(l, f), UNCHANGED mapping
  PROVE  Applied
<1>1. /\ record \in [LocalId -> Stored \cup {None}] /\ row \in [LocalId -> Row \cup {None}]
      /\ minted \in Nat
  BY DEF Types, StoreOK, ProcessOK
<1>2. \A k \in LocalId : k # l => record'[k] = record[k] /\ row'[k] = row[k]
  BY <1>1 DEF ApplyHeld, tables, Write
<1>3. row'[l] = row[l] \/ row'[l] = Pair(f.object, f.revision)
  BY <1>1 DEF ApplyHeld, tables, Write
<1>4. Pair(f.object, f.revision) # None /\ Pair(f.object, f.revision).object = f.object
      /\ f.object # None
  BY PairOf, RevisionOf, Names DEF Told
<1>5. SamePairs
  BY <1>2, <1>3, <1>4 DEF SamePairs, Bound
<1>6. minted' = minted
  BY DEF ApplyHeld
<1>7. IdsAreKnown'
  <2>1. \A k \in LocalId : Bound(k)' => Bound(k)
    BY <1>5, SamePairsOf
  <2>2. l <= minted
    BY DEF Sides, IdsAreKnown
  <2> QED
    BY <1>2, <1>6, <2>1, <2>2 DEF Sides, IdsAreKnown
<1> QED
  BY <1>1, <1>5, <1>6, <1>7 DEF Applied

\* One nothing holds becomes the pair of a record that has none.
LEMMA GainApplied ==
  ASSUME Types, Sides, NEW f, Told(f), f.object \in Existing, Holders(f.object) = {},
         NEW l \in LocalId, ~Bound(l), FreeToGain(l, f.object), l <= minted',
         row' = [row EXCEPT ![l] = Pair(f.object, f.revision)],
         \A k \in LocalId : k # l => record'[k] = record[k],
         minted' \in Nat, minted <= minted', UNCHANGED mapping
  PROVE  Applied /\ Gains(l, f.object) /\ Bound(l)' /\ row'[l].object = f.object
<1>1. row \in [LocalId -> Row \cup {None}] /\ minted \in Nat /\ LocalId \subseteq Nat
  BY Names DEF Types, StoreOK, ProcessOK
<1>2. Pair(f.object, f.revision) # None /\ Pair(f.object, f.revision).object = f.object
      /\ f.object # None
  BY PairOf, RevisionOf, Names DEF Told
<1>3. row'[l] = Pair(f.object, f.revision) /\ \A k \in LocalId : k # l => row'[k] = row[k]
  BY <1>1
<1>4. Gains(l, f.object)
  BY <1>2, <1>3 DEF Gains, Bound
<1>5. IdsAreKnown'
  <2>1. \A k \in LocalId : Bound(k)' => k = l \/ Bound(k)
    BY <1>4, GainsOf
  <2>2. \A k \in LocalId : record[k] # None \/ Bound(k) \/ mapping[k] # None => k <= minted
    BY DEF Sides, IdsAreKnown
  <2> QED
    BY <1>1, <2>1, <2>2 DEF IdsAreKnown
<1> QED
  BY <1>2, <1>3, <1>4, <1>5 DEF Applied, Gains

LEMMA NothingApplied ==
  ASSUME Types, Sides, UNCHANGED <<tables, minted, mapping>>
  PROVE  Applied
BY RowsStill DEF Applied, tables, Sides, IdsAreKnown, Types, ProcessOK, Bound

----------------------------------------------------------------------------
(* The receive loop *)

\* What the endpoint is shown under a name is held under it, unless the answer
\* that created it is still to be applied.
LEMMA NamedIsHeld ==
  ASSUME Types, Sides, NEW f, Agreed(f), f.local # None, f.local \in LocalId,
         Holders(f.object) = {}
  PROVE  AnswersFor(f.local) /\ calls["load"].answer.object = f.object /\ row[f.local] = None
<1>1. mapping[f.local] = f.object /\ f.object # None
  BY Names DEF Agreed, Existing
<1>2. AnswersFor(f.local)
  BY <1>1 DEF Sides, Halves, Holders
<1>3. calls["load"].answer.object = f.object /\ row[f.local] = None
  BY <1>1, <1>2 DEF Sides, AnswerIsOwn, AnswersFor, Holders
<1> QED
  BY <1>2, <1>3

\* A delivery or an entry that some record is: it is written to that record.
LEMMA RecordedApplied ==
  ASSUME Types, IInv, Sides, NEW f, Told(f), Agreed(f), RecordOf(f) # None,
         ApplyHeld(RecordOf(f), f), UNCHANGED mapping
  PROVE  Applied /\ Holders(f.object)' # {}
<1>1. CASE Holders(f.object) # {}
  <2>1. RecordOf(f) \in Holders(f.object)
    BY <1>1, ResolvesToTheHolder
  <2>2. RecordOf(f) \in LocalId /\ Bound(RecordOf(f)) /\ row[RecordOf(f)].object = f.object
    BY <2>1 DEF Holders
  <2>3. ASSUME NEW l \in LocalId, l = RecordOf(f) PROVE Applied /\ Bound(l)' /\ row'[l].object = f.object
    <3>1. Bound(l) /\ row[l].object = f.object /\ ApplyHeld(l, f)
      BY <2>2, <2>3
    <3>2. Applied
      BY <3>1, HeldApplied
    <3> QED
      BY <3>1, <3>2, AppliedKeeps DEF RowsKept
  <2> QED
    BY <2>2, <2>3 DEF Holders
<1>2. CASE Holders(f.object) = {}
  <2>1. RecordOf(f) = f.local /\ f.local \in LocalId
    BY <1>2 DEF RecordOf, Told
  <2>2. AnswersFor(f.local) /\ calls["load"].answer.object = f.object /\ row[f.local] = None
    BY <1>2, <2>1, NamedIsHeld
  <2>3. ~Bound(f.local) /\ FreeToGain(f.local, f.object)
    BY <2>2 DEF Bound, FreeToGain, AnswersFor
  <2>4. f.local <= minted /\ minted \in Nat
    <3>1. f.object \in Object /\ f.local # None
      BY <2>1, Names DEF Told
    <3>2. mapping[f.local] # None
      BY <3>1, Names DEF Agreed
    <3> QED
      BY <2>1, <3>2 DEF Sides, IdsAreKnown, Types, ProcessOK
  <2>5. Write(f.local, f) /\ minted' = minted
    BY <2>1, <2>2 DEF ApplyHeld, Superseded
  <2>6. \A k \in LocalId : k # f.local => record'[k] = record[k]
    BY <2>5 DEF Write, Types, StoreOK
  <2>7. ASSUME NEW l \in LocalId, l = f.local
        PROVE  Applied /\ Bound(l)' /\ row'[l].object = f.object
    <3>1. row' = [row EXCEPT ![l] = Pair(f.object, f.revision)]
      BY <2>5, <2>7 DEF Write
    <3>2. ~Bound(l) /\ FreeToGain(l, f.object) /\ l <= minted' /\ minted' \in Nat
          /\ minted <= minted' /\ \A k \in LocalId : k # l => record'[k] = record[k]
      BY <2>3, <2>4, <2>5, <2>6, <2>7
    <3>3. f.object \in Existing
      BY DEF Agreed
    <3> QED
      BY <1>2, <3>1, <3>2, <3>3, GainApplied
  <2> QED
    BY <2>1, <2>7 DEF Holders
<1> QED
  BY <1>1, <1>2

\* One that none is becomes a new record, if it is active.
LEMMA CreatedApplied ==
  ASSUME Types, Sides, NEW f, Told(f), f.object \in Existing, Holders(f.object) = {},
         Answering => f.object # calls["load"].answer.object, ApplyNew(f), UNCHANGED mapping
  PROVE  /\ Applied
         /\ f.active => /\ minted + 1 \in LocalId /\ row'[minted + 1] # None
                        /\ row'[minted + 1].object = f.object
<1>1. CASE f.active
  <2>1. minted' = minted + 1 /\ Write(minted + 1, f) /\ minted < MaxRecords
    BY <1>1 DEF ApplyNew
  <2>2. minted + 1 \in LocalId /\ minted \in Nat /\ minted + 1 \in Nat
    BY <2>1, TablesTyped, MintedNext DEF Types, ProcessOK
  <2>3. \A l \in LocalId : Bound(l) \/ mapping[l] # None => l # minted + 1
    <3>1. LocalId \subseteq Nat
      BY Names
    <3> QED
      BY <2>2, <3>1 DEF Sides, IdsAreKnown
  <2>4. ~Bound(minted + 1)
    BY <2>2, <2>3
  <2>5. FreeToGain(minted + 1, f.object)
    <3>1. Answering => calls["load"].local # minted + 1
      <4>1. Answering => calls["load"].local \in LocalId /\ mapping[calls["load"].local] # None
        BY AnswerIsNamed, Names DEF Sides, AnswerIsOwn, Existing
      <4> QED
        BY <2>3, <4>1
    <3>2. pc = "push" /\ minted + 1 \in pending => FALSE
      BY <2>2 DEF Sides, PushIsFresh
    <3> QED
      BY <3>1, <3>2 DEF FreeToGain
  <2>6. \A k \in LocalId : k # minted + 1 => record'[k] = record[k]
    BY <2>1 DEF Write, Types, StoreOK
  <2>7. ASSUME NEW l \in LocalId, l = minted + 1
        PROVE  Applied /\ Bound(l)' /\ row'[l].object = f.object
    <3>1. row' = [row EXCEPT ![l] = Pair(f.object, f.revision)] /\ l <= minted'
          /\ minted' \in Nat /\ minted <= minted'
      BY <2>1, <2>2, <2>7 DEF Write
    <3> QED
      BY <2>4, <2>5, <2>6, <2>7, <3>1, GainApplied
  <2>8. row'[minted + 1].object = f.object /\ row'[minted + 1] # None
    <3>1. row' = [row EXCEPT ![minted + 1] = Pair(f.object, f.revision)]
      BY <2>1 DEF Write
    <3>2. row'[minted + 1] = Pair(f.object, f.revision)
      BY <2>2, <3>1 DEF Types, StoreOK
    <3> QED
      BY <3>2, PairOf, RevisionOf DEF Told
  <2> QED
    BY <2>2, <2>7, <2>8
<1>2. CASE ~f.active
  BY <1>2, NothingApplied DEF ApplyNew
<1> QED
  BY <1>1, <1>2

LEMMA ReceiveObjectSides == ASSUME Types, IInv, Sides, ReceiveObject PROVE Sides'
<1>1. /\ live # <<>> /\ Head(live).event = "object" /\ binding = None
      /\ live' = Tail(live) /\ UNCHANGED <<router, set, loader, calls>>
  BY DEF ReceiveObject, Receiving
<1>2. /\ Head(live) = live[1] /\ 1 \in 1..Len(live) /\ Head(live) \in Delivery
  BY <1>1, HeadOf, FrameOf DEF Types
<1>3. UNCHANGED <<mapping, history, wiped, selected, load, resetSeq, calls, pairs, pending, pc, set>>
  BY <1>1 DEF router, objects, selection, loader
<1>4. ASSUME NEW f, f = Head(live) PROVE Applied /\ BindingIsHeld'
  <2>1. Told(f) /\ Agreed(f)
    BY <1>1, <1>2, <1>4, DeliveryTold DEF Sides, FramesAgree
  <2>2. CASE RecordOf(f) # None
    <3>1. ApplyHeld(RecordOf(f), f) /\ UNCHANGED binding
      BY <1>4, <2>2 DEF ReceiveObject
    <3>2. Applied
      BY <1>3, <2>1, <2>2, <3>1, RecordedApplied
    <3> QED
      BY <1>1, <3>1, <3>2 DEF BindingIsHeld
  <2>3. CASE RecordOf(f) = None
    <3>1. /\ ApplyNew(f)
          /\ binding' = IF f.active THEN [local |-> minted + 1, object |-> f.object] ELSE None
      BY <1>4, <2>3 DEF ReceiveObject
    <3>2. Holders(f.object) = {} /\ f.local = None
      BY <2>3, ResolvesToTheHolder DEF RecordOf
    <3>3. Answering => f.object # calls["load"].answer.object
      <4>1. Answering => calls["load"].local # None
        BY AnswerIsNamed, Names
      <4> QED
        BY <1>1, <1>2, <1>4, <3>2, <4>1 DEF Sides, AnswerIsOwn
    <3>4. /\ Applied
          /\ f.active => row'[minted + 1] # None /\ row'[minted + 1].object = f.object
      BY <1>3, <2>1, <3>1, <3>2, <3>3, CreatedApplied DEF Agreed
    <3>5. f.object # None
      BY <2>1, Names DEF Told
    <3> QED
      BY <3>1, <3>4, <3>5 DEF BindingIsHeld, Bound
  <2> QED
    BY <2>2, <2>3
<1>5. Applied /\ BindingIsHeld'
  BY <1>4
<1>6. SetIsHeld'
  BY <1>3, <1>5, AppliedKeeps, RetakesStill, SetHeldStill
<1> QED
  BY <1>1, <1>3, <1>5, <1>6, WritingSides

LEMMA BindSides == ASSUME Types, IInv, Sides, Bind PROVE Sides'
<1> DEFINE l == binding.local
           o == binding.object
<1>1. /\ binding # None /\ binding' = None
      /\ UNCHANGED <<objects, selection, resetSeq, set, store, minted, loader, calls>>
  BY DEF Bind
<1>2. l \in LocalId /\ o \in Object
  BY <1>1 DEF Types, ProcessOK, Half
<1>3. Bound(l) /\ row[l].object = o
  BY <1>1 DEF Sides, BindingIsHeld
<1>4. UNCHANGED <<history, wiped, selected, load, resetSeq, record, row, minted, pc, pairs,
                  pending, calls, set>>
  BY <1>1 DEF objects, selection, store, tables, loader
<1>5. ExistingKept /\ Quiet' /\ RowsKept /\ SamePairs
  BY <1>4, ExistingStill, RowsStill, SamePairsOf DEF Sides, Quiet
<1>6. CASE ~Bindable(l, o)
  <2>1. live' = <<>> /\ UNCHANGED mapping
    BY <1>6 DEF Bind, Drop
  <2>2. FramesAgree'
    BY <1>5, <2>1, MappingStill, FramesStill DEF Sides
  <2>3. Len(live') = 0
    BY <2>1
  <2> QED
    BY <1>1, <1>4, <1>5, <2>1, <2>2, <2>3, RetakesStill, ElsewhereSides DEF tables
<1>7. CASE Bindable(l, o)
  <2>1. mapping' = [mapping EXCEPT ![l] = o] /\ UNCHANGED live
    BY <1>7 DEF Bind, stream
  <2>2. mapping[l] \in {None, o} /\ mapping \in [LocalId -> Object \cup {None}]
    BY <1>7 DEF Bindable, Types, RouterOK
  <2>3. mapping'[l] = o /\ \A k \in LocalId : k # l => mapping'[k] = mapping[k]
    BY <1>2, <2>1, <2>2
  <2>4. MappingKept
    BY <2>2, <2>3 DEF MappingKept
  <2>5. FramesAgree' /\ EntriesAgree'
    BY <1>4, <1>5, <2>1, <2>4, FramesStill, EntriesStill DEF Sides
  <2>6. \A k : (AnswersFor(k)' <=> AnswersFor(k)) /\ (Bound(k)' <=> Bound(k))
    BY <1>4, AnswersStill DEF Bound
  <2>7. IdsAreKnown'
    BY <1>2, <1>3, <1>4, <2>3, <2>6 DEF Sides, IdsAreKnown
  <2>8. RowsExist'
    BY <1>4, <1>5, <2>6 DEF Sides, RowsExist, ExistingKept
  <2>9. Halves'
    BY <1>3, <1>4, <2>3, <2>6 DEF Sides, Halves
  <2>10. BindingIsHeld' /\ PairsAreHeld'
    BY <1>1, <1>4, <1>5, BindingStill, PairsStill DEF Sides
  <2>11. PushIsFresh'
    <3>1. pending \subseteq LocalId
      BY DEF Types, LoaderOK
    <3>2. \A k \in pending : row[k] = None => k # l
      BY <1>3 DEF Bound
    <3>3. \A k \in pending : k # l => mapping'[k] = mapping[k]
      BY <2>3, <3>1
    <3> QED
      BY <1>4, <2>6, <3>2, <3>3 DEF Sides, PushIsFresh
  <2>12. AnswerIsOwn'
    <3>1. (Answering' <=> Answering) /\ calls' = calls
      BY <1>4 DEF Answering, At
    <3>2. \A q : Holders(q)' = Holders(q)
      BY <1>5, SamePairsOf
    <3>3. Answering => mapping'[calls["load"].local] = mapping[calls["load"].local]
      <4>1. Answering => /\ calls["load"].local \in LocalId
                         /\ mapping[calls["load"].local] = calls["load"].answer.object
                         /\ calls["load"].answer.object # None
        BY AnswerIsNamed, Names DEF Sides, AnswerIsOwn, Existing
      <4> QED
        BY <2>4, <4>1 DEF MappingKept
    <3> QED
      BY <1>4, <1>5, <2>1, <2>6, <3>1, <3>2, <3>3 DEF Sides, AnswerIsOwn, ExistingKept
  <2>13. SetIsHeld'
    BY <1>4, <1>5, RetakesStill, SetHeldStill
  <2> QED
    BY <1>5, <2>5, <2>7, <2>8, <2>9, <2>10, <2>11, <2>12, <2>13 DEF Sides
<1> QED
  BY <1>6, <1>7

LEMMA ReceiveSides == ASSUME Types, IInv, Sides, Receive PROVE Sides'
<1>1. CASE ReceiveObject
  BY <1>1, ReceiveObjectSides
<1>2. CASE ReceiveRoute \/ ReceiveCaughtUp
  <2>1. /\ live # <<>> /\ live' = Tail(live)
        /\ UNCHANGED <<router, set, loader, calls, tables, minted, binding>>
    BY <1>2 DEF ReceiveRoute, ReceiveCaughtUp, Receiving
  <2>2. UNCHANGED <<history, wiped, mapping, selected, load, resetSeq, pc, pairs, pending>>
    BY <2>1 DEF router, objects, selection, loader
  <2>3. ExistingKept /\ Quiet' /\ FramesAgree'
    BY <2>1, <2>2, ExistingStill, MappingStill, FramesStill DEF Sides, Quiet
  <2>4. Answering => \A i \in 1..Len(live') :
          live'[i].event = "object" /\ live'[i].object = calls["load"].answer.object =>
            live'[i].local = calls["load"].local
    BY <2>1, LiveFewer DEF Sides, AnswerIsOwn
  <2> QED
    BY <2>1, <2>2, <2>3, <2>4, RetakesStill, ElsewhereSides
<1>3. CASE ReceiveReset
  <2>1. live # <<>> /\ Head(live).event = "reset"
    BY <1>3 DEF ReceiveReset, Receiving
  <2>2. Head(live) = live[1] /\ 1 \in 1..Len(live)
    BY <2>1, HeadOf DEF Types
  <2> QED
    BY <2>1, <2>2 DEF Sides, FramesAgree
<1>4. CASE Bind
  BY <1>4, BindSides
<1> QED
  BY <1>1, <1>2, <1>3, <1>4 DEF Receive

----------------------------------------------------------------------------
(* The load and its sends *)

\* A step of the load that changes no pair, no name and nothing on its way.
LEMMA LoaderSides ==
  ASSUME Types, Sides,
         UNCHANGED <<history, wiped, mapping, selected, resetSeq, live, record, row, minted,
                     binding>>,
         set'.frames = set.frames, set'.holds = set.holds,
         Retakes => Retakes',
         ~Answering, ~Answering', calls'["user"] = None, PairsAreHeld', PushIsFresh',
         pc' \in {"take", "ask"} \/ pc \notin {"take", "ask"} \/ set.frames = <<>>
  PROVE  Sides'
<1>1. SamePairs /\ RowsKept /\ MappingKept /\ ExistingKept
  BY RowsStill, SamePairsOf, MappingStill, ExistingStill
<1>2. \A l : ~AnswersFor(l) /\ ~AnswersFor(l)' /\ (Bound(l)' <=> Bound(l))
  BY DEF AnswersFor, Bound
<1>3. Quiet'
  BY DEF Sides, Quiet
<1>4. FramesAgree' /\ EntriesAgree'
  BY <1>1, FramesStill, EntriesStill DEF Sides
<1>5. IdsAreKnown' /\ RowsExist'
  BY <1>1, <1>2 DEF Sides, IdsAreKnown, RowsExist, ExistingKept
<1>6. Halves' /\ BindingIsHeld'
  BY <1>1, <1>2, HalvesStill, BindingStill DEF Sides
<1>7. AnswerIsOwn'
  BY DEF AnswerIsOwn
<1>8. SetIsHeld'
  <2>1. \A o : Holders(o)' = Holders(o)
    BY <1>1, SamePairsOf
  <2> QED
    BY <2>1 DEF Sides, SetIsHeld
<1> QED
  BY <1>3, <1>4, <1>5, <1>6, <1>7, <1>8 DEF Sides

LEMMA LoaderVars ==
  ASSUME UNCHANGED <<router, stream, store, minted, receiver>>
  PROVE  UNCHANGED <<history, wiped, mapping, selected, resetSeq, load, live, record, row, minted,
                     binding>>
BY DEF router, objects, selection, stream, store, tables, receiver

\* Only the load sends.
LEMMA OnlyTheLoad ==
  ASSUME Types, Sides, NEW c \in Caller, Send(c)
  PROVE  c = "load" /\ calls["load"] # None /\ pc = "push"
         /\ calls["load"].local \in pending /\ calls["load"].local \in LocalId
<1>1. calls[c] # None
  BY DEF Send, SendRead, SendRefused, SendCreates, SendKept, SendRevised, SendApply, Accepted, At
<1>2. c = "load"
  BY <1>1 DEF Caller, Sides, Quiet
<1> QED
  BY <1>1, <1>2 DEF Sides, PushIsFresh, Types, LoaderOK

LEMMA FailSides ==
  ASSUME Types, Sides, Fail("load"), ~Answering, pc = "push",
         UNCHANGED <<router, set, stream, store, minted, receiver>>
  PROVE  Sides'
<1>1. /\ pc' = "idle" /\ pending' = {} /\ calls'["load"] = None /\ calls'["user"] = None
  BY DEF Fail, Types, CallsOK, Caller, Sides, Quiet
<1>2. ~Answering'
  BY <1>1 DEF Answering, At
<1>3. PairsAreHeld' /\ PushIsFresh'
  BY <1>1 DEF PairsAreHeld, PushIsFresh
<1> QED
  BY <1>1, <1>2, <1>3, LoaderVars, RetakesStill, LoaderSides

LEMMA SendReadSides == ASSUME Types, Sides, SendRead("load") PROVE Sides'
<1>1. /\ "load" \in Caller /\ Send("load")
      /\ UNCHANGED <<router, set, stream, store, minted, receiver, pairs>> /\ ~Answering
  BY DEF SendRead, Caller, Send, Answering, At
<1>2. /\ calls["load"] # None /\ pc = "push" /\ calls["load"].local \in pending
      /\ calls["load"].local \in LocalId
  BY <1>1, OnlyTheLoad
<1>3. CASE Fail("load")
  BY <1>1, <1>2, <1>3, FailSides
<1>4. CASE ~Fail("load")
  <2> DEFINE k == calls["load"]
             bad == IF k.kind = "put" THEN record[k.local] = None \/ Marked(k.local)
                                      ELSE ~Bound(k.local)
             call == [kind |-> k.kind, step |-> "send", local |-> k.local,
                      name |-> IF record[k.local] = None THEN None ELSE record[k.local].name,
                      active |-> record[k.local] # None /\ ~record[k.local].archived,
                      base |-> IF Bound(k.local) THEN row[k.local].revision ELSE 0]
  <2>0. /\ IF bad THEN Fail("load")
           ELSE calls' = [calls EXCEPT !["load"] = call] /\ UNCHANGED <<pc, pending>>
    BY DEF SendRead
  <2>1. /\ calls' = [calls EXCEPT !["load"] = call]
        /\ call.step = "send" /\ call.local = calls["load"].local
    <3> HIDE DEF bad
    <3> QED
      BY <1>4, <2>0
  <2>2. UNCHANGED <<pc, pending>>
    <3> HIDE DEF bad, call
    <3> QED
      BY <1>4, <2>0
  <2> HIDE DEF call
  <2>3. calls'["load"] = call /\ calls'["user"] = None
    BY <2>1 DEF Types, CallsOK, Caller, Sides, Quiet
  <2>4. ~Answering'
    BY <2>1, <2>3 DEF Answering, At
  <2>5. PairsAreHeld'
    BY <1>2, <2>2 DEF PairsAreHeld
  <2>6. PushIsFresh'
    <3>1. \A l \in pending : l <= minted /\ row[l] = None /\ mapping[l] = None
      BY <1>1, <1>2 DEF Sides, PushIsFresh, AnswersFor
    <3>2. UNCHANGED <<row, mapping, minted>>
      BY <1>1, LoaderVars
    <3> QED
      BY <1>2, <2>1, <2>2, <2>3, <3>1, <3>2 DEF PushIsFresh
  <2> QED
    BY <1>1, <1>2, <2>2, <2>3, <2>4, <2>5, <2>6, LoaderVars, RetakesStill, LoaderSides
<1> QED
  BY <1>3, <1>4

LEMMA SendRefusedSides == ASSUME Types, Sides, SendRefused("load") PROVE Sides'
<1>1. /\ "load" \in Caller /\ Send("load") /\ Fail("load")
      /\ UNCHANGED <<router, set, stream, store, minted, receiver, pairs>> /\ ~Answering
  BY DEF SendRefused, Caller, Send, Answering, At
<1> QED
  BY <1>1, OnlyTheLoad, FailSides

\* What the push offers agrirouter knows nothing of.
LEMMA SendAcceptedSides == ASSUME Types, Sides, Accepted("load"), Send("load") PROVE FALSE
<1>1. pc = "push" /\ calls["load"].local \in pending
  BY OnlyTheLoad DEF Caller
<1>2. ~AnswersFor(calls["load"].local)
  BY DEF Accepted, AnswersFor, Answering, At
<1> QED
  BY <1>1, <1>2 DEF Accepted, Sides, PushIsFresh

LEMMA SendCreatesSides == ASSUME Types, Sides, SendCreates("load") PROVE Sides'
<1> DEFINE l == calls["load"].local
           o == Min(Unused)
           rev == [name |-> calls["load"].name, active |-> calls["load"].active, ours |-> TRUE]
<1>1. /\ Unused # {} /\ Revise(o, rev) /\ mapping' = [mapping EXCEPT ![l] = o]
      /\ Answered("load", o, rev, 1) /\ ~Answering /\ Send("load") /\ mapping[l] = None
      /\ UNCHANGED <<selection, resetSeq, set, stream, store, minted, receiver, loader>>
  BY DEF SendCreates, Answering, At, Send, receiver
<1>2. pc = "push" /\ l \in pending /\ l \in LocalId
  BY <1>1, OnlyTheLoad DEF Caller
<1>3. o \in Object /\ history[o] = <<>> /\ o # None
  <2>1. o \in Unused
    BY <1>1, MinOf, Names DEF Unused
  <2> QED
    BY <2>1, Names DEF Unused
<1>4. o \notin Existing
  BY <1>3 DEF Existing
<1> HIDE DEF o, rev
<1>5. ExistingKept /\ o \in Existing'
  BY <1>1, <1>3, ReviseExisting DEF Sides, Quiet
<1>6. UNCHANGED <<wiped, selected, load, resetSeq, set, live, record, row, minted, binding, pc, pairs,
                  pending>>
  BY <1>1 DEF Revise, selection, stream, store, tables, receiver, loader
<1>7. mapping'[l] = o /\ \A k \in LocalId : k # l => mapping'[k] = mapping[k]
  BY <1>1, <1>2 DEF Types, RouterOK
<1>8. MappingKept
  BY <1>1, <1>7 DEF MappingKept
<1>9. /\ calls'["user"] = None
      /\ calls'["load"] # None /\ calls'["load"].step = "apply" /\ calls'["load"].local = l
      /\ calls'["load"].answer.object = o /\ calls'["load"].answer.local = l
  <2> DEFINE answer == [kind |-> calls["load"].kind, step |-> "apply", local |-> l,
                        answer |-> [object |-> o, revision |-> 1, name |-> rev.name,
                                    active |-> rev.active, local |-> l]]
  <2>1. calls' = [calls EXCEPT !["load"] = answer] /\ calls \in [Caller -> Call \cup {None}]
    BY <1>1 DEF Answered, Types, CallsOK
  <2>2. calls'["load"] = answer /\ calls'["user"] = calls["user"]
    BY <2>1 DEF Caller
  <2>3. calls'["load"] # None
    <3>1. answer \in Applying
      <4>1. calls["load"] \in Sending /\ calls["load"].kind = "put"
        BY CallOf DEF SendCreates, Types, Caller
      <4>2. calls["load"].name \in Name /\ calls["load"].active \in BOOLEAN
        BY <4>1 DEF Types, CallsOK, SendCreates, Caller, Sending
      <4>3. 1 \in 1..MaxRevision
        BY Names
      <4>4. rev.name \in Name /\ rev.active \in BOOLEAN
        BY <4>2 DEF rev
      <4> QED
        BY <1>2, <1>3, <4>1, <4>3, <4>4 DEF Applying
    <3> QED
      BY <2>2, <3>1, Names DEF Call
  <2> QED
    BY <2>2, <2>3 DEF Sides, Quiet
<1>10. Answering' /\ \A k : AnswersFor(k)' <=> k = l
  BY <1>9 DEF AnswersFor, Answering, At
<1>11. row[l] = None /\ SamePairs /\ RowsKept /\ \A k : Bound(k)' <=> Bound(k)
  BY <1>1, <1>2, <1>6, RowsStill, SamePairsOf DEF Sides, PushIsFresh, AnswersFor, Bound
<1>12. Quiet' /\ FramesAgree' /\ EntriesAgree'
  BY <1>5, <1>6, <1>8, <1>9, FramesStill, EntriesStill DEF Sides, Quiet
<1>13. IdsAreKnown'
  BY <1>2, <1>6, <1>7, <1>11 DEF Sides, IdsAreKnown, PushIsFresh
<1>14. RowsExist'
  BY <1>5, <1>6, <1>11 DEF Sides, RowsExist, ExistingKept
<1>15. Halves'
  BY <1>1, <1>6, <1>7, <1>10, <1>11 DEF Sides, Halves, AnswersFor
<1>16. BindingIsHeld' /\ PairsAreHeld'
  BY <1>6, <1>11, BindingStill, PairsStill DEF Sides
<1>17. PushIsFresh'
  <2>1. \A k \in pending : k <= minted /\ row[k] = None /\ mapping[k] = None
    BY <1>1, <1>2 DEF Sides, PushIsFresh, AnswersFor
  <2>2. \A k \in pending : k # l => mapping'[k] = None
    BY <1>7, <2>1 DEF Types, LoaderOK
  <2> QED
    BY <1>2, <1>6, <1>9, <1>10, <2>1, <2>2 DEF PushIsFresh
<1>18. AnswerIsOwn'
  <2>1. Holders(o) = {}
    BY <1>4 DEF Sides, RowsExist, Holders
  <2>2. \A i \in 1..Len(live) : live[i].event = "object" => live[i].object # o
    BY <1>4 DEF Sides, FramesAgree, Agreed
  <2>4. ASSUME NEW q, q = o, NEW j, j = l
        PROVE  /\ j \in LocalId /\ mapping'[j] = q /\ q \in Existing' /\ row'[j] = None
               /\ Holders(q)' = {}
               /\ \A i \in 1..Len(live') : live'[i].event = "object" => live'[i].object # q
               /\ calls'["load"].local = j /\ calls'["load"].answer.local = j
               /\ calls'["load"].answer.object = q
    <3>1. Holders(q) = {}
      BY <2>1, <2>4
    <3>2. Holders(q)' = Holders(q)
      BY <1>11, SamePairsOf
    <3> QED
      BY <1>2, <1>5, <1>6, <1>7, <1>9, <1>11, <2>2, <2>4, <3>1, <3>2
  <2> QED
    BY <2>4 DEF AnswerIsOwn, Holders
<1>19. SetIsHeld'
  BY <1>1, <1>6, <1>11, RetakesStill, SetHeldStill DEF Sides, selection
<1> QED
  BY <1>12, <1>13, <1>14, <1>15, <1>16, <1>17, <1>18, <1>19 DEF Sides

LEMMA SendApplySides == ASSUME Types, IInv, Sides, SendApply("load") PROVE Sides'
<1> DEFINE k == calls["load"]
           l == k.local
           f == k.answer
<1>1. /\ Answering /\ Send("load") /\ ApplyHeld(RecordOf(f), f)
      /\ calls' = [calls EXCEPT !["load"] = None] /\ pending' = pending \ {l}
      /\ UNCHANGED <<router, set, stream, receiver, pc, pairs>>
  BY DEF SendApply, Answering, Send
<1>2. pc = "push" /\ l \in LocalId
  BY <1>1, OnlyTheLoad DEF Caller
<1>3. Told(f)
  BY <1>1, CallOf DEF Types, Answering, Applying, Caller, Told
<1>4. /\ f.local = l /\ mapping[l] = f.object /\ f.object \in Existing
      /\ row[l] = None \/ (Bound(l) /\ row[l].object = f.object)
      /\ Holders(f.object) \subseteq {l}
  BY <1>1 DEF Sides, AnswerIsOwn
<1>5. RecordOf(f) = l
  BY <1>2, <1>4 DEF RecordOf
<1>6. UNCHANGED <<history, wiped, mapping, selected, load, resetSeq, live, set, binding>>
  BY <1>1 DEF router, objects, selection, stream, receiver
<1>7. minted' = minted /\ minted \in Nat /\ l <= minted
  <2>1. mapping[l] # None
    BY <1>4, Names DEF Existing
  <2> QED
    BY <1>1, <1>2, <2>1 DEF ApplyHeld, Sides, IdsAreKnown, Types, ProcessOK
<1>8. Applied /\ row'[l] # None /\ row'[l].object = f.object
  <2>1. CASE Bound(l) /\ row[l].object = f.object
    <3>1. Applied
      BY <1>1, <1>2, <1>3, <1>5, <1>6, <2>1, HeldApplied
    <3> QED
      BY <1>2, <2>1, <3>1, AppliedKeeps DEF RowsKept, Bound
  <2>2. CASE row[l] = None
    <3>1. ~Bound(l) /\ Write(l, f)
      BY <1>1, <1>5, <2>2 DEF Bound, ApplyHeld, Superseded
    <3>2. Holders(f.object) = {}
      BY <1>4, <3>1 DEF Holders
    <3>3. FreeToGain(l, f.object)
      BY <1>1 DEF FreeToGain, AnswersFor
    <3>4. /\ row' = [row EXCEPT ![l] = Pair(f.object, f.revision)]
          /\ \A j \in LocalId : j # l => record'[j] = record[j]
      BY <3>1 DEF Write, Types, StoreOK
    <3>5. Applied
      <4>1. l <= minted' /\ minted' \in Nat /\ minted <= minted' /\ UNCHANGED mapping
        BY <1>6, <1>7
      <4> QED
        BY <1>2, <1>3, <1>4, <3>1, <3>2, <3>3, <3>4, <4>1, GainApplied
    <3>6. row'[l] = Pair(f.object, f.revision)
      BY <1>2, <3>4 DEF Types, StoreOK
    <3> QED
      BY <1>3, <3>5, <3>6, PairOf, RevisionOf DEF Told
  <2> QED
    BY <1>4, <2>1, <2>2
<1>9. f.object # None
  BY <1>3, Names DEF Told
<1> HIDE DEF f
<1>10. calls'["load"] = None /\ calls'["user"] = None
  BY <1>1 DEF Types, CallsOK, Caller, Sides, Quiet
<1>11. ~Answering' /\ \A j : ~AnswersFor(j)'
  BY <1>10 DEF AnswersFor, Answering, At
<1>12. RowsKept /\ MappingKept /\ ExistingKept
  BY <1>6, <1>8, AppliedKeeps, MappingStill, ExistingStill
<1>13. Quiet' /\ FramesAgree' /\ EntriesAgree'
  BY <1>6, <1>10, <1>12, FramesStill, EntriesStill DEF Sides, Quiet
<1>14. IdsAreKnown' /\ RowsExist'
  BY <1>8, <1>12, RowsExistStill DEF Applied
<1>15. Halves'
  <2>1. \A j \in LocalId : AnswersFor(j) => j = l
    BY DEF AnswersFor
  <2>2. \A j \in LocalId : j # l /\ mapping'[j] # None => Bound(j)' /\ row'[j].object = mapping'[j]
    BY <1>6, <1>12, <2>1 DEF Sides, Halves, RowsKept
  <2>3. mapping'[l] = row'[l].object /\ row'[l].object # None /\ row'[l] # None
    BY <1>4, <1>6, <1>8, <1>9
  <2>4. ASSUME NEW j \in LocalId, mapping'[j] # None PROVE Bound(j)' /\ row'[j].object = mapping'[j]
    <3>1. CASE j = l
      BY <2>3, <3>1 DEF Bound
    <3>2. CASE j # l
      BY <2>2, <2>4, <3>2
    <3> QED
      BY <3>1, <3>2
  <2> QED
    BY <2>4 DEF Halves
<1>16. BindingIsHeld' /\ PairsAreHeld'
  BY <1>1, <1>6, <1>12, BindingStill, PairsStill DEF Sides
<1>17. PushIsFresh'
  <2>1. \A j \in pending \ {l} : j <= minted /\ row[j] = None /\ mapping[j] = None
    BY <1>2 DEF Sides, PushIsFresh, AnswersFor
  <2>2. \A j \in LocalId \ {l} : row'[j] = row[j]
    BY <1>1, <1>5 DEF ApplyHeld, tables, Write, Types, StoreOK
  <2>3. pending \subseteq LocalId
    BY DEF Types, LoaderOK
  <2> QED
    BY <1>1, <1>2, <1>6, <1>7, <1>10, <2>1, <2>2, <2>3 DEF PushIsFresh
<1>18. AnswerIsOwn'
  BY <1>11 DEF AnswerIsOwn
<1>19. SetIsHeld'
  BY <1>1, <1>6, <1>12, RetakesStill, SetHeldStill
<1> QED
  BY <1>13, <1>14, <1>15, <1>16, <1>17, <1>18, <1>19 DEF Sides

LEMMA SendSides == ASSUME Types, IInv, Sides, NEW c \in Caller, Send(c) PROVE Sides'
<1>1. c = "load"
  BY OnlyTheLoad
<1>2. SendKept("load") \/ SendRevised("load") => Accepted("load")
  BY DEF SendKept, SendRevised
<1> QED
  BY <1>1, <1>2, SendReadSides, SendRefusedSides, SendCreatesSides, SendApplySides,
     SendAcceptedSides DEF Send

----------------------------------------------------------------------------
(* Taking the set *)

LEMMA SetTakenOf ==
  ASSUME Types, set.frames # <<>>, Taken(Head(set.frames))
  PROVE  /\ set'.frames = Tail(set.frames) /\ set'.holds = set.holds /\ set'.open = set.open
         /\ Head(set.frames) = set.frames[1] /\ Head(set.frames) \in Delivery
         /\ 1 \in 1..Len(set.frames)
         /\ \A i \in 1..Len(set.frames) : i # 1 =>
              i - 1 \in 1..Len(set'.frames) /\ set'.frames[i - 1] = set.frames[i]
<1>1. set.frames \in Seq(Delivery)
  BY DEF Types, SetOK
<1>2. set'.frames = Tail(set.frames) /\ set'.holds = set.holds /\ set'.open = set.open
  BY DEF Taken, Types, SetOK
<1>3. /\ Head(set.frames) = set.frames[1] /\ Len(set.frames) \in Nat /\ Len(set.frames) > 0
      /\ Head(set.frames) \in Delivery /\ Len(Tail(set.frames)) = Len(set.frames) - 1
      /\ \A i \in 1..Len(Tail(set.frames)) : Tail(set.frames)[i] = set.frames[i + 1]
  BY <1>1, HeadTailProperties
<1>4. ASSUME NEW i \in 1..Len(set.frames), i # 1
      PROVE  i - 1 \in 1..Len(set'.frames) /\ set'.frames[i - 1] = set.frames[i]
  <2>1. i - 1 \in 1..Len(Tail(set.frames)) /\ (i - 1) + 1 = i
    BY <1>3, <1>4
  <2> QED
    BY <1>2, <1>3, <2>1
<1> QED
  BY <1>2, <1>3, <1>4

\* An entry has been applied: whoever it is of is held, unless it is inactive.
LEMMA EntryTaken ==
  ASSUME Types, IInv, Sides, set.frames # <<>>, NEW f, f = Head(set.frames), Taken(f),
         Applied, Holders(f.object)' # {} \/ ~f.active,
         pc \in {"take", "ask"}, pc' \in {"take", "ask"},
         UNCHANGED <<router, stream, receiver, pairs, pending, calls>>
  PROVE  Sides'
<1>1. /\ set'.frames = Tail(set.frames) /\ set'.holds = set.holds /\ set'.open = set.open
      /\ f = set.frames[1]
      /\ \A i \in 1..Len(set.frames) : i # 1 =>
           i - 1 \in 1..Len(set'.frames) /\ set'.frames[i - 1] = set.frames[i]
  BY SetTakenOf
<1>2. UNCHANGED <<mapping, history, wiped, selected, load, resetSeq, live, binding>>
  BY DEF router, objects, selection, stream, receiver
<1>3. BindingIsHeld'
  BY <1>2, AppliedKeeps, BindingStill DEF Sides
<1>4. SetIsHeld'
  <2>1. ASSUME NEW o \in set.holds, ~Retakes
        PROVE  \/ Holders(o)' # {}
               \/ \E i \in 1..Len(set'.frames) : set'.frames[i].object = o /\ set'.frames[i].active
    <3>1. CASE Holders(o) # {}
      BY <3>1, AppliedKeeps DEF RowsKept, Holders
    <3>2. CASE Holders(o) = {}
      <4>1. PICK i \in 1..Len(set.frames) : set.frames[i].object = o /\ set.frames[i].active
        BY <2>1, <3>2 DEF Sides, SetIsHeld
      <4>2. CASE i = 1
        BY <1>1, <4>1, <4>2
      <4>3. CASE i # 1
        BY <1>1, <4>1, <4>3
      <4> QED
        BY <4>2, <4>3
    <3> QED
      BY <3>1, <3>2
  <2> QED
    BY <1>1, <1>2, <2>1, RetakesStill DEF SetIsHeld
<1> QED
  BY <1>1, <1>2, <1>3, <1>4, WritingSides

\* One nobody holds is given to a record without a pair, or a new one.
LEMMA MatchedApplied ==
  ASSUME Types, Sides, NEW f, Told(f), f.object \in Existing, Holders(f.object) = {},
         NEW l \in LocalId, record[l] # None, ~Bound(l), ApplyMatched(l, f), ~Answering,
         pc # "push", UNCHANGED mapping
  PROVE  Applied /\ Holders(f.object)' # {}
<1>1. row' = [row EXCEPT ![l] = Pair(f.object, f.revision)] /\ minted' = minted
  BY DEF ApplyMatched, Write
<1>2. \A k \in LocalId : k # l => record'[k] = record[k]
  BY DEF ApplyMatched, Write, Types, StoreOK
<1>3. minted \in Nat /\ l <= minted /\ FreeToGain(l, f.object)
  BY DEF Types, ProcessOK, Sides, IdsAreKnown, FreeToGain
<1>4. Applied /\ Bound(l)' /\ row'[l].object = f.object
  <2>1. l <= minted' /\ minted' \in Nat /\ minted <= minted'
    BY <1>1, <1>3
  <2> QED
    BY <1>1, <1>2, <1>3, <2>1, GainApplied
<1> QED
  BY <1>4 DEF Holders

LEMMA NewEntryApplied ==
  ASSUME Types, Sides, NEW f, Told(f), f.object \in Existing, Holders(f.object) = {},
         ApplyNew(f), ~Answering, UNCHANGED mapping
  PROVE  Applied /\ (Holders(f.object)' # {} \/ ~f.active)
<1>1. /\ Applied
      /\ f.active => /\ minted + 1 \in LocalId /\ row'[minted + 1] # None
                     /\ row'[minted + 1].object = f.object
  BY CreatedApplied
<1>2. f.object # None
  BY Names DEF Told
<1> QED
  BY <1>1, <1>2 DEF Holders, Bound

LEMMA TakeFrameSides == ASSUME Types, IInv, Sides, TakeFrame PROVE Sides'
<1>1. /\ pc = "take" /\ set.frames # <<>>
      /\ UNCHANGED <<router, stream, receiver, pairs, pending, calls>>
  BY DEF TakeFrame
<1>2. ~Answering
  BY <1>1 DEF Answering, At, Sides, PushIsFresh
<1>3. UNCHANGED mapping
  BY <1>1 DEF router
<1>4. ASSUME NEW f, f = Head(set.frames) PROVE Sides'
  <2>1. Told(f) /\ Agreed(f) /\ f.object \in Existing
    <3>1. f = set.frames[1] /\ f \in Delivery /\ 1 \in 1..Len(set.frames)
      BY <1>1, <1>4, SetHeadOf DEF Types
    <3> QED
      BY <3>1, DeliveryTold DEF Sides, EntriesAgree, Agreed
  <2>2. CASE RecordOf(f) # None /\ ApplyHeld(RecordOf(f), f) /\ Taken(f) /\ UNCHANGED pc
    BY <1>1, <1>3, <1>4, <2>1, <2>2, RecordedApplied, EntryTaken
  <2>3. RecordOf(f) = None => Holders(f.object) = {}
    BY ResolvesToTheHolder
  <2>4. CASE /\ RecordOf(f) = None /\ Cardinality(Exact(f)) = 1
             /\ \A l \in Exact(f) : ApplyMatched(l, f)
             /\ Taken(f) /\ UNCHANGED pc
    <3>1. PICK l \in Exact(f) : ApplyMatched(l, f)
      BY <2>4, FS_EmptySet
    <3>2. l \in LocalId /\ record[l] # None /\ ~Bound(l)
      BY <3>1 DEF Exact
    <3>3. Applied /\ Holders(f.object)' # {}
      BY <1>1, <1>2, <1>3, <2>1, <2>3, <2>4, <3>1, <3>2, MatchedApplied
    <3> QED
      BY <1>1, <1>4, <2>4, <3>3, EntryTaken
  <2>5. CASE RecordOf(f) = None /\ ApplyNew(f) /\ Taken(f) /\ UNCHANGED pc
    <3>1. Applied /\ (Holders(f.object)' # {} \/ ~f.active)
      BY <1>2, <1>3, <2>1, <2>3, <2>5, NewEntryApplied
    <3> QED
      BY <1>1, <1>4, <2>5, <3>1, EntryTaken
  <2>6. CASE pc' = "ask" /\ UNCHANGED <<set, tables, minted>>
    <3>1. Applied
      BY <1>3, <2>6, NothingApplied
    <3>2. UNCHANGED <<mapping, history, wiped, selected, load, resetSeq, live, binding>>
      BY <1>1 DEF router, objects, selection, stream, receiver
    <3>3. BindingIsHeld'
      BY <3>1, <3>2, AppliedKeeps, BindingStill DEF Sides
    <3>4. SetIsHeld'
      BY <1>1, <2>6, <3>1, <3>2, AppliedKeeps, RetakesStill, SetHeldStill
    <3> QED
      BY <1>1, <2>6, <3>1, <3>2, <3>3, <3>4, WritingSides
  <2> QED
    BY <1>4, <2>2, <2>4, <2>5, <2>6 DEF TakeFrame
<1> QED
  BY <1>4

LEMMA AnswerSides == ASSUME Types, IInv, Sides, Answer PROVE Sides'
<1>1. /\ pc = "ask" /\ pc' = "take" /\ set.frames # <<>>
      /\ UNCHANGED <<router, stream, receiver, pairs, pending, calls>>
  BY DEF Answer, Types, LoaderOK
<1>2. ~Answering
  BY <1>1 DEF Answering, At, Sides, PushIsFresh
<1>3. UNCHANGED mapping
  BY <1>1 DEF router
<1>4. ASSUME NEW f, f = Head(set.frames) PROVE Sides'
  <2>1. Told(f) /\ f.object \in Existing /\ Holders(f.object) = {}
    <3>1. f = set.frames[1] /\ f \in Delivery /\ 1 \in 1..Len(set.frames)
      BY <1>1, <1>4, SetHeadOf DEF Types
    <3> QED
      BY <1>1, <1>4, <3>1, DeliveryTold DEF Sides, EntriesAgree, Agreed, IInv, AskedAboutUnheld
  <2>2. Taken(f) /\ ((\E l \in Plausible(f) : ApplyMatched(l, f)) \/ ApplyNew(f))
    BY <1>4 DEF Answer
  <2>3. Applied /\ (Holders(f.object)' # {} \/ ~f.active)
    <3>1. CASE ApplyNew(f)
      BY <1>2, <1>3, <2>1, <3>1, NewEntryApplied
    <3>2. ASSUME NEW l \in Plausible(f), ApplyMatched(l, f)
          PROVE  Applied /\ Holders(f.object)' # {}
      <4>1. l \in LocalId /\ record[l] # None /\ ~Bound(l)
        BY <3>2 DEF Plausible, Bound
      <4> QED
        BY <1>1, <1>2, <1>3, <2>1, <3>2, <4>1, MatchedApplied
    <3> QED
      BY <2>2, <3>1, <3>2
  <2> QED
    BY <1>1, <1>4, <2>2, <2>3, EntryTaken
<1> QED
  BY <1>4

----------------------------------------------------------------------------
(* The other steps of the load *)

LEMMA OpenSetSides == ASSUME Types, IInv, Sides, OpenSet PROVE Sides'
<1> DEFINE objs == IF selected THEN Existing ELSE {}
<1>1. /\ pc = "take" /\ UNCHANGED <<router, stream, store, process>>
      /\ \E order \in InOrder(objs) :
           set' = [open |-> TRUE, written |-> FALSE, frames |-> Frames(order),
                   holds |-> {o \in objs : Current(o).active}]
  BY DEF OpenSet
<1>2. PICK order \in InOrder(objs) :
        set' = [open |-> TRUE, written |-> FALSE, frames |-> Frames(order),
                holds |-> {o \in objs : Current(o).active}]
  BY <1>1
<1>3. objs \in SUBSET Existing /\ objs \in SUBSET Object
  BY DEF Existing
<1> HIDE DEF objs
<1>4. set'.frames = Frames(order) /\ set'.holds = {o \in objs : Current(o).active}
  BY <1>2
<1>5. /\ Len(set'.frames) = Cardinality(objs)
      /\ \A i \in 1..Cardinality(objs) :
           /\ order[i] \in Existing
           /\ set'.frames[i] = Rendered(order[i], history[order[i]], changed[order[i]])
      /\ \A o \in objs : \E i \in 1..Cardinality(objs) : order[i] = o
  BY <1>3, <1>4, FramesOf, OrderOf DEF Types
<1>6. UNCHANGED <<history, wiped, mapping, selected, load, resetSeq, live, record, row, minted,
                  binding, pc, pairs, pending, calls>>
  BY <1>1 DEF router, objects, selection, stream, store, tables, process, receiver, loader
<1>7. SamePairs /\ RowsKept /\ MappingKept /\ ExistingKept
  BY <1>6, RowsStill, SamePairsOf, MappingStill, ExistingStill
<1>8. ~Answering
  BY <1>1 DEF Answering, At, Sides, PushIsFresh
<1>9. \A l : ~AnswersFor(l) /\ ~AnswersFor(l)' /\ (Bound(l)' <=> Bound(l))
  BY <1>6, <1>8, AnswersStill DEF AnswersFor, Bound
<1>10. EntriesAgree'
  <2>1. \A o \in Existing : \A revisions, id :
          /\ Rendered(o, revisions, id).object \in Existing'
          /\ Rendered(o, revisions, id).local # None =>
               mapping'[Rendered(o, revisions, id).local] = Rendered(o, revisions, id).object
    BY <1>6, <1>7, LocalNameOf DEF Rendered, ExistingKept
  <2> QED
    BY <1>5, <2>1 DEF EntriesAgree, Agreed
<1>11. SetIsHeld'
  <2>1. \A o \in set'.holds : \E i \in 1..Len(set'.frames) :
          set'.frames[i].object = o /\ set'.frames[i].active
    BY <1>4, <1>5 DEF Rendered, Current
  <2> QED
    BY <1>1, <1>6, <2>1 DEF SetIsHeld
<1>12. Quiet' /\ FramesAgree'
  BY <1>6, <1>7, FramesStill DEF Sides, Quiet
<1>13. IdsAreKnown' /\ RowsExist'
  BY <1>6, <1>7, <1>9 DEF Sides, IdsAreKnown, RowsExist, ExistingKept
<1>14. Halves' /\ BindingIsHeld' /\ PairsAreHeld'
  BY <1>6, <1>7, <1>9, HalvesStill, BindingStill, PairsStill DEF Sides
<1>15. PushIsFresh'
  BY <1>1, <1>6 DEF Sides, PushIsFresh
<1>16. AnswerIsOwn'
  BY <1>6, <1>8 DEF AnswerIsOwn, Answering, At
<1> QED
  BY <1>10, <1>11, <1>12, <1>13, <1>14, <1>15, <1>16 DEF Sides

\* A confirmation arrives between the selection's going and its load's.
Refuses == (Confirm \/ LoseConfirmation) /\ Confirmable /\ ~selected

\* Every pair is taken down at agrirouter, whether or not its answer arrives: none of
\* its halves contradicts one there.
LEMMA ConfirmSides ==
  ASSUME Types, IInv, Sides, Confirm \/ LoseConfirmation, ~Refuses
  PROVE  Sides'
<1>1. /\ pc = "confirm"
      /\ UNCHANGED <<objects, selected, routeSeq, resetSeq, set, stream, store, minted, receiver,
                     pending, calls>>
  BY DEF Confirm, LoseConfirmation
<1>2. calls["load"] = None /\ set.frames = <<>>
  BY <1>1 DEF Sides, PushIsFresh, SetIsHeld
<1>3. ~Answering /\ ~Answering' /\ \A l : ~AnswersFor(l) /\ ~AnswersFor(l)'
  BY <1>1, <1>2 DEF AnswersFor, Answering, At
<1>4. UNCHANGED <<history, wiped, record, row, live, binding>>
  BY <1>1 DEF objects, stream, store, tables, receiver
<1>5. \A p \in pairs : /\ p.local \in LocalId /\ p.object \in Object /\ p.object # None
                       /\ Bound(p.local) /\ row[p.local].object = p.object
  BY <1>1, Names DEF Types, LoaderOK, Half, Sides, PairsAreHeld
<1>6. CASE ~Confirmable
  <2>1. pc' = "idle" /\ UNCHANGED <<load, mapping, pairs>>
    BY <1>6 DEF Confirm, LoseConfirmation
  <2>2. PairsAreHeld' /\ PushIsFresh'
    BY <1>1, <1>2, <2>1 DEF PairsAreHeld, PushIsFresh
  <2>3. calls'["user"] = None
    BY <1>1 DEF Sides, Quiet
  <2> QED
    BY <1>1, <1>2, <1>3, <1>4, <2>1, <2>2, <2>3, RetakesStill, LoaderSides
<1>7. CASE Confirmable
  <2>1. selected
    BY <1>7 DEF Refuses
  <2>2. \A l, k \in LocalId : mapping[l] # None => Bound(l) /\ row[l].object = mapping[l]
    BY <1>3 DEF Sides, Halves
  <2>3. Recorded = pairs
    <3>1. ASSUME NEW p \in pairs PROVE Bindable(p.local, p.object)
      <4>1. p.object \in Existing /\ mapping[p.local] \in {None, p.object}
        BY <1>5, <2>2 DEF Sides, RowsExist
      <4>2. \A l \in LocalId : mapping[l] = p.object => l = p.local
        BY <1>5, <2>2 DEF IInv, OneRecordPerObject
      <4>3. LocalName(p.object) \in {None, p.local}
        BY <4>2, LocalNameOf
      <4> QED
        BY <2>1, <4>1, <4>3 DEF Bindable
    <3> QED
      BY <3>1 DEF Recorded
  <2>4. /\ load' = "LOADING_TO_AGRIROUTER" /\ pc' \in {"list", "idle"}
        /\ mapping' = [l \in LocalId |->
                         IF \E p \in pairs : p.local = l
                         THEN (CHOOSE p \in pairs : p.local = l).object ELSE mapping[l]]
    BY <1>7, <2>3 DEF Confirm, LoseConfirmation, ConfirmedAtAgrirouter
  <2>5. \A l \in LocalId :
          \/ \E p \in pairs : p.local = l /\ mapping'[l] = p.object
          \/ mapping'[l] = mapping[l]
    BY <2>4
  <2>6. \A l \in LocalId : mapping'[l] # None => Bound(l) /\ row[l].object = mapping'[l]
    BY <1>5, <2>2, <2>5
  <2>7. MappingKept
    BY <1>5, <2>2, <2>5 DEF MappingKept
  <2>8. \A l : Bound(l)' <=> Bound(l)
    BY <1>4 DEF Bound
  <2>9. SamePairs /\ RowsKept /\ ExistingKept
    BY <1>4, RowsStill, SamePairsOf, ExistingStill
  <2>10. Quiet'
    BY <1>1, <1>4, <2>1 DEF Sides, Quiet
  <2>11. FramesAgree' /\ EntriesAgree'
    BY <1>1, <1>4, <2>7, <2>9, FramesStill, EntriesStill DEF Sides
  <2>12. IdsAreKnown'
    BY <1>1, <1>4, <2>6, <2>8 DEF Sides, IdsAreKnown
  <2>13. RowsExist'
    BY <1>4, <2>8, <2>9 DEF Sides, RowsExist, ExistingKept
  <2>14. Halves'
    BY <1>4, <2>6, <2>8 DEF Halves
  <2>15. BindingIsHeld' /\ PairsAreHeld' /\ PushIsFresh' /\ AnswerIsOwn'
    BY <1>1, <1>2, <1>3, <1>4, <2>4, <2>9, BindingStill
       DEF Sides, PairsAreHeld, PushIsFresh, AnswerIsOwn
  <2>16. SetIsHeld'
    <3>1. ~Retakes
      BY <1>7, Names DEF Confirmable, Retakes, LoadState
    <3> QED
      BY <1>1, <2>4, <2>9, <3>1, SetHeldStill
  <2> QED
    BY <2>10, <2>11, <2>12, <2>13, <2>14, <2>15, <2>16 DEF Sides
<1> QED
  BY <1>6, <1>7

LEMMA LoadSides == ASSUME Types, IInv, Sides, Load, ~Refuses PROVE Sides'
<1>1. CASE StartRun \/ ReadStatus
  <2>1. /\ pc \in {"idle", "status"} /\ pc' \in {"idle", "status", "take", "bind"}
        /\ UNCHANGED <<router, set, stream, store, minted, receiver, pairs, pending, calls>>
    BY <1>1 DEF StartRun, ReadStatus
  <2>2. calls["load"] = None /\ calls'["user"] = None
    BY <2>1 DEF Sides, PushIsFresh, Quiet
  <2>3. ~Answering /\ ~Answering' /\ PairsAreHeld' /\ PushIsFresh'
    BY <2>1, <2>2 DEF Answering, At, PairsAreHeld, PushIsFresh
  <2> QED
    BY <2>1, <2>2, <2>3, LoaderVars, RetakesStill, LoaderSides
<1>2. CASE OpenSet
  BY <1>2, OpenSetSides
<1>3. CASE TakeFrame
  BY <1>3, TakeFrameSides
<1>4. CASE SetEnds
  <2>1. /\ pc = "take" /\ set.frames = <<>> /\ pc' = "status" /\ Closed
        /\ UNCHANGED <<router, stream, store, minted, receiver, pairs, pending, calls>>
    BY <1>4 DEF SetEnds, SetOver
  <2>2. set'.frames = set.frames /\ set'.holds = set.holds
    BY <2>1 DEF Closed, Types, SetOK
  <2>3. calls["load"] = None /\ calls'["user"] = None
    BY <2>1 DEF Sides, PushIsFresh, Quiet
  <2>4. ~Answering /\ ~Answering' /\ PairsAreHeld' /\ PushIsFresh'
    BY <2>1, <2>3 DEF Answering, At, PairsAreHeld, PushIsFresh
  <2>5. Retakes => Retakes'
    BY <2>1, LoaderVars DEF Retakes, Closed, Types, SetOK
  <2> QED
    BY <2>1, <2>2, <2>3, <2>4, <2>5, LoaderVars, LoaderSides
<1>5. CASE ReadBindings
  <2>1. /\ pc = "bind" /\ pc' = "confirm"
        /\ pairs' = {[local |-> l, object |-> row[l].object] : l \in {l \in LocalId : Bound(l)}}
        /\ UNCHANGED <<router, set, stream, store, minted, receiver, pending, calls>>
    BY <1>5 DEF ReadBindings
  <2>2. calls["load"] = None /\ calls'["user"] = None
    BY <2>1 DEF Sides, PushIsFresh, Quiet
  <2>3. UNCHANGED row
    BY <2>1, LoaderVars
  <2>4. ~Answering /\ ~Answering' /\ PairsAreHeld' /\ PushIsFresh'
    BY <2>1, <2>2, <2>3 DEF Answering, At, PairsAreHeld, PushIsFresh, Bound
  <2> QED
    BY <2>1, <2>2, <2>4, LoaderVars, RetakesStill, LoaderSides
<1>6. CASE Confirm
  BY <1>6, ConfirmSides
<1>7. CASE DropRejected
  BY <1>7 DEF DropRejected, Sides, PairsAreHeld
<1>8. CASE ListPending
  <2>1. /\ pc = "list" /\ pending' = Offerable /\ pc' = "push"
        /\ UNCHANGED <<router, set, stream, store, minted, receiver, pairs, calls>>
    BY <1>8 DEF ListPending
  <2>2. calls["load"] = None /\ calls'["user"] = None
    BY <2>1 DEF Sides, PushIsFresh, Quiet
  <2>3. ~Answering /\ ~Answering' /\ PairsAreHeld'
    BY <2>1, <2>2 DEF Answering, At, PairsAreHeld
  <2>4. UNCHANGED <<row, mapping, minted>>
    BY <2>1, LoaderVars
  <2>5. \A l \in Offerable : l <= minted /\ row[l] = None /\ mapping[l] = None
    BY <2>3 DEF Offerable, Sides, IdsAreKnown, Halves, AnswersFor, Bound
  <2>6. PushIsFresh'
    BY <2>1, <2>2, <2>4, <2>5 DEF PushIsFresh
  <2> QED
    BY <2>1, <2>2, <2>3, <2>6, LoaderVars, RetakesStill, LoaderSides
<1>9. CASE PushNext
  <2>1. /\ pc = "push" /\ pending # {} /\ calls["load"] = None /\ Start("load", "put", Min(pending))
        /\ UNCHANGED <<router, set, stream, store, minted, receiver, loader>>
    BY <1>9 DEF PushNext
  <2>2. Min(pending) \in pending
    BY <2>1, MinOf, Names DEF Types, LoaderOK
  <2>3. /\ calls'["load"].step = "read" /\ calls'["load"].local = Min(pending)
        /\ calls'["user"] = None
    BY <2>1 DEF Start, Types, CallsOK, Caller, Sides, Quiet
  <2>4. ~Answering /\ ~Answering' /\ UNCHANGED <<pc, pairs, pending, row, mapping, minted>>
    BY <2>1, <2>3, LoaderVars DEF Answering, At, loader
  <2>5. PairsAreHeld'
    BY <2>1, <2>4 DEF PairsAreHeld
  <2>6. PushIsFresh'
    <3>1. \A l \in pending : l <= minted /\ row[l] = None /\ mapping[l] = None
      BY <2>1, <2>4 DEF Sides, PushIsFresh, AnswersFor
    <3>2. calls'["load"].local \in pending'
      BY <2>2, <2>3, <2>4
    <3> QED
      BY <2>1, <2>4, <3>1, <3>2 DEF PushIsFresh
  <2> QED
    BY <2>1, <2>3, <2>4, <2>5, <2>6, LoaderVars, RetakesStill, LoaderSides
<1>10. CASE Complete
  <2>1. /\ pc = "push" /\ calls["load"] = None /\ pc' = "idle"
        /\ load' = IF load = "LOADING_TO_AGRIROUTER" THEN "COMPLETED" ELSE load
        /\ UNCHANGED <<objects, mapping, selected, resetSeq, set, stream, store, minted, receiver,
                       calls>>
    BY <1>10 DEF Complete
  <2>2. calls'["user"] = None
    BY <2>1 DEF Sides, Quiet
  <2>3. ~Answering /\ ~Answering' /\ PairsAreHeld' /\ PushIsFresh'
    BY <2>1 DEF Answering, At, PairsAreHeld, PushIsFresh
  <2>4. UNCHANGED <<history, wiped, live, record, row, binding>>
    BY <2>1 DEF objects, stream, store, tables, receiver
  <2>5. Retakes => Retakes'
    BY <2>1, Names DEF Retakes, LoadState
  <2> QED
    BY <2>1, <2>2, <2>3, <2>4, <2>5, LoaderSides
<1> QED
  BY <1>1, <1>2, <1>3, <1>4, <1>5, <1>6, <1>7, <1>8, <1>9, <1>10 DEF Load

----------------------------------------------------------------------------
(* Both sides have the same pairs *)

LEMMA InitSides == Init => Sides
<1> SUFFICES ASSUME Init PROVE Sides
  OBVIOUS
<1>1. /\ mapping = [l \in LocalId |-> None] /\ row = [l \in LocalId |-> None]
      /\ calls = [c \in Caller |-> None] /\ live = <<>> /\ pc = "idle" /\ pairs = {}
      /\ set.frames = <<>> /\ set.holds = {} /\ binding = None /\ wiped = {} /\ load = None
      /\ resetSeq = 0 /\ minted = Len(Held)
      /\ record = [l \in LocalId |->
                     IF l <= Len(Held) THEN [name |-> Held[l], archived |-> FALSE] ELSE None]
  BY DEF Init
<1>2. calls["load"] = None /\ calls["user"] = None /\ ~Answering
  BY <1>1 DEF Caller, Answering, At
<1>3. \A l \in LocalId : mapping[l] = None /\ ~Bound(l) /\ (record[l] # None => l <= minted)
  BY <1>1 DEF Bound
<1>4. Quiet /\ FramesAgree /\ EntriesAgree
  BY <1>1, <1>2 DEF Quiet, FramesAgree, EntriesAgree
<1>5. IdsAreKnown /\ RowsExist /\ Halves
  BY <1>3 DEF IdsAreKnown, RowsExist, Halves
<1>6. BindingIsHeld /\ PairsAreHeld /\ PushIsFresh /\ AnswerIsOwn /\ SetIsHeld
  BY <1>1, <1>2 DEF BindingIsHeld, PairsAreHeld, PushIsFresh, AnswerIsOwn, SetIsHeld
<1> QED
  BY <1>4, <1>5, <1>6 DEF Sides

\* What breaks, wipes or asks for something is counted.
LEMMA Counted ==
  ASSUME CountsOK, [Next]_vars
  PROVE  CountsOK' /\ (Undisturbed' => Undisturbed)
<1>1. CASE UNCHANGED vars
  BY <1>1 DEF vars, bounds, CountsOK, Undisturbed
<1>2. CASE SetWritten \/ Connect \/ Receive \/ Load \/ Answer \/ StoreCreated \/ EndDelete
           \/ (\E m \in Mover : Select(m) \/ Deselect(m) \/ Announce(m))
           \/ (\E c \in Caller : Send(c))
           \/ \E o \in Object, n \in Name, active \in BOOLEAN : OtherWrite(o, n, active)
  <2>1. UNCHANGED <<resets, faults, requests>>
    <3>1. CASE SetWritten \/ Connect \/ Answer \/ StoreCreated \/ EndDelete
      BY <3>1 DEF SetWritten, Connect, Answer, StoreCreated, EndDelete, bounds
    <3>2. CASE Receive
      BY <3>2 DEF Receive, ReceiveObject, ReceiveRoute, ReceiveReset, ReceiveCaughtUp, Bind,
                  Receiving, bounds
    <3>3. CASE Load
      BY <3>3 DEF Load, StartRun, ReadStatus, OpenSet, TakeFrame, SetEnds, ReadBindings, Confirm,
                  DropRejected, ListPending, PushNext, Complete, bounds
    <3>4. CASE \E m \in Mover : Select(m) \/ Deselect(m) \/ Announce(m)
      BY <3>4 DEF Select, Deselect, Announce, StartLoad, DropLoad, NumberMove, PublishMove, bounds
    <3>5. CASE \E c \in Caller : Send(c)
      BY <3>5 DEF Send, SendRead, SendRefused, SendCreates, SendKept, SendRevised, SendApply, bounds
    <3>6. CASE \E o \in Object, n \in Name, active \in BOOLEAN : OtherWrite(o, n, active)
      BY <3>6 DEF OtherWrite
    <3> QED
      BY <1>2, <3>1, <3>2, <3>3, <3>4, <3>5, <3>6
  <2> QED
    BY <1>2, <2>1 DEF CountsOK, Undisturbed
<1>3. CASE ResetTenant
  <2>1. resets' = resets + 1 /\ UNCHANGED <<faults, requests>>
    BY <1>3 DEF ResetTenant
  <2> QED
    BY <2>1 DEF CountsOK, Undisturbed
<1>4. CASE PressLoad \/ Replay \/ (\E n \in Name : BeginCreate(n))
           \/ (\E l \in LocalId : ArchiveLocally(l) \/ BeginDelete(l))
           \/ \E o \in Object : Request(o)
  <2>1. requests' = requests + 1 /\ UNCHANGED <<faults, resets>>
    BY <1>4 DEF PressLoad, Replay, BeginCreate, ArchiveLocally, BeginDelete, Request
  <2> QED
    BY <2>1 DEF CountsOK, Undisturbed
<1>5. CASE Faults
  <2>1. faults' = faults + 1 /\ UNCHANGED <<requests, resets>>
    BY <1>5 DEF Faults, Disconnect, DropSet, LoseConfirmation, Crash, LoseCall, Fault
  <2> QED
    BY <2>1 DEF CountsOK, Undisturbed
<1> QED
  BY <1>1, <1>2, <1>3, <1>4, <1>5 DEF Next, World, Person

LEMMA AnswerTold ==
  ASSUME Types, Answering
  PROVE  /\ Told(calls["load"].answer) /\ calls["load"].answer.object \in Object
         /\ calls["load"].local \in LocalId
BY CallOf, RevisionOf DEF Types, Answering, Applying, Caller, Told

----------------------------------------------------------------------------
(* Records stay *)

\* What has a pair, and what the push has listed, is a record that is there.
Stands ==
  /\ \A l \in LocalId : Bound(l) => record[l] # None
  /\ \A l \in pending : record[l] # None

\* No record goes away, and a pair is given to one that is there.
Stays ==
  /\ \A l \in LocalId : record[l] # None => record'[l] # None
  /\ \A l \in LocalId : Bound(l)' => Bound(l) \/ record'[l] # None

LEMMA UntouchedStays == ASSUME UNCHANGED tables PROVE Stays
BY DEF Stays, tables, Bound

LEMMA WrittenStays ==
  ASSUME Types, NEW l \in LocalId, NEW r \in Stored, NEW p,
         record' = [record EXCEPT ![l] = r], row' = [row EXCEPT ![l] = p]
  PROVE  Stays
<1>1. record \in [LocalId -> Stored \cup {None}] /\ row \in [LocalId -> Row \cup {None}]
  BY DEF Types, StoreOK
<1>2. record'[l] # None /\ \A k \in LocalId : k # l => record'[k] = record[k] /\ row'[k] = row[k]
  BY <1>1, Names
<1> QED
  BY <1>2 DEF Stays, Bound

LEMMA HeldStays ==
  ASSUME Types, NEW l \in LocalId, NEW f, Told(f), ApplyHeld(l, f)
  PROVE  Stays
<1>1. [name |-> f.name, archived |-> ~f.active] \in Stored
  BY DEF Told, Stored
<1> QED
  BY <1>1, UntouchedStays, WrittenStays DEF ApplyHeld, Write

LEMMA MatchedStays ==
  ASSUME Types, NEW l \in LocalId, record[l] # None, NEW f, Told(f), ApplyMatched(l, f)
  PROVE  Stays
<1>1. [name |-> f.name, archived |-> ~f.active] \in Stored
  BY DEF Told, Stored
<1>2. [record[l] EXCEPT !.archived = TRUE] \in Stored
  <2>1. record[l] \in Stored
    BY DEF Types, StoreOK
  <2> QED
    BY <2>1 DEF Stored
<1>3. record' = [record EXCEPT ![l].archived = TRUE]
        => record' = [record EXCEPT ![l] = [record[l] EXCEPT !.archived = TRUE]]
  OBVIOUS
<1> QED
  BY <1>1, <1>2, <1>3, WrittenStays DEF ApplyMatched, Write

LEMMA NewStays == ASSUME Types, NEW f, Told(f), ApplyNew(f) PROVE Stays
<1>1. [name |-> f.name, archived |-> ~f.active] \in Stored
  BY DEF Told, Stored
<1>2. CASE f.active
  <2>1. minted + 1 \in LocalId
    BY <1>2, MintedNext, TablesTyped DEF ApplyNew
  <2> QED
    BY <1>1, <1>2, <2>1, WrittenStays DEF ApplyNew, Write
<1>3. CASE ~f.active
  BY <1>3, UntouchedStays DEF ApplyNew
<1> QED
  BY <1>2, <1>3

LEMMA FoundIsLocal ==
  ASSUME NEW f, Told(f), RecordOf(f) # None
  PROVE  RecordOf(f) \in LocalId
BY DEF RecordOf, Holders, Told

LEMMA EntryStays == ASSUME Types, Sides, TakeFrame \/ Answer PROVE Stays
<1>1. set.frames # <<>>
  BY DEF TakeFrame, Answer, Types, LoaderOK
<1>2. ASSUME NEW f, f = Head(set.frames) PROVE Stays
  <2>1. Told(f)
    BY <1>1, <1>2, SetHeadOf, DeliveryTold DEF Types
  <2>2. CASE RecordOf(f) # None /\ ApplyHeld(RecordOf(f), f)
    BY <2>1, <2>2, FoundIsLocal, HeldStays
  <2>3. CASE Cardinality(Exact(f)) = 1 /\ \A l \in Exact(f) : ApplyMatched(l, f)
    <3>1. PICK l \in Exact(f) : ApplyMatched(l, f)
      BY <2>3, FS_EmptySet
    <3> QED
      BY <2>1, <3>1, MatchedStays DEF Exact
  <2>4. CASE \E l \in Plausible(f) : ApplyMatched(l, f)
    BY <2>1, <2>4, MatchedStays DEF Plausible
  <2>5. CASE ApplyNew(f)
    BY <2>1, <2>5, NewStays
  <2>6. CASE UNCHANGED tables
    BY <2>6, UntouchedStays
  <2> QED
    BY <1>2, <2>2, <2>3, <2>4, <2>5, <2>6 DEF TakeFrame, Answer
<1> QED
  BY <1>2

LEMMA ReceiveStays == ASSUME Types, Sides, Receive PROVE Stays
<1>1. ASSUME NEW f, f = Head(live), ReceiveObject PROVE Stays
  <2>1. live # <<>> /\ f.event = "object"
    BY <1>1 DEF ReceiveObject, Receiving
  <2>2. Told(f)
    BY <1>1, <2>1, HeadOf, FrameOf, DeliveryTold DEF Types
  <2>3. CASE RecordOf(f) # None /\ ApplyHeld(RecordOf(f), f)
    BY <2>2, <2>3, FoundIsLocal, HeldStays
  <2>4. CASE ApplyNew(f)
    BY <2>2, <2>4, NewStays
  <2> QED
    BY <1>1, <2>3, <2>4 DEF ReceiveObject
<1>2. ~ReceiveReset
  <2>1. ReceiveReset => live # <<>> /\ Head(live).event = "reset"
    BY DEF ReceiveReset, Receiving
  <2>2. live # <<>> => Head(live) = live[1] /\ 1 \in 1..Len(live)
    BY HeadOf DEF Types
  <2> QED
    BY <2>1, <2>2 DEF Sides, FramesAgree
<1>3. CASE ReceiveRoute \/ ReceiveCaughtUp \/ Bind
  <2>1. UNCHANGED tables
    BY <1>3 DEF ReceiveRoute, ReceiveCaughtUp, Bind, store
  <2> QED
    BY <2>1, UntouchedStays
<1> QED
  BY <1>1, <1>2, <1>3 DEF Receive

LEMMA SendsStay ==
  ASSUME Types, Sides, NEW c \in Caller, Send(c)
  PROVE  /\ Stays /\ \A l \in pending' : l \in pending
<1>1. CASE SendApply(c)
  <2>1. ApplyHeld(RecordOf(calls[c].answer), calls[c].answer) /\ pending' \subseteq pending
    BY <1>1 DEF SendApply
  <2>2. c = "load" /\ Answering
    BY <1>1, OnlyTheLoad DEF SendApply, Answering
  <2>3. ASSUME NEW f, f = calls["load"].answer PROVE Stays
    <3>1. Told(f)
      BY <2>2, <2>3, AnswerTold
    <3>2. RecordOf(f) \in LocalId
      <4>1. f.local = calls["load"].local /\ calls["load"].local \in LocalId
        BY <2>2, <2>3, AnswerIsNamed DEF Sides, AnswerIsOwn
      <4>2. RecordOf(f) # None
        BY <4>1, Names DEF RecordOf, Holders
      <4> QED
        BY <3>1, <4>2, FoundIsLocal
    <3> QED
      BY <2>1, <2>2, <2>3, <3>1, <3>2, HeldStays
  <2> QED
    BY <2>1, <2>3
<1>2. CASE SendRead(c) \/ SendRefused(c) \/ SendCreates(c) \/ SendKept(c) \/ SendRevised(c)
  <2>1. UNCHANGED tables
    BY <1>2 DEF SendRead, SendRefused, SendCreates, SendKept, SendRevised, store
  <2>2. pending' \subseteq pending
    BY <1>2 DEF SendRead, SendRefused, SendCreates, SendKept, SendRevised, Fail, loader
  <2> QED
    BY <2>1, <2>2, UntouchedStays
<1> QED
  BY <1>1, <1>2 DEF Send

----------------------------------------------------------------------------
(* What takes a half of a pair away, and what does not *)

\* A set agrirouter has sent is cut before all of it is taken, or a write's answer
\* is lost.
Loses ==
  \/ (DropSet \/ Crash) /\ set.frames # <<>> /\ load \notin {None, "LOADING_FROM_AGRIROUTER"}
  \/ (Crash \/ \E c \in Caller : LoseCall(c)) /\ Answering

\* The tenant is wiped, or the person works on records of their own.
Intervenes ==
  \/ ResetTenant
  \/ \E n \in Name : BeginCreate(n)
  \/ \E l \in LocalId : ArchiveLocally(l) \/ BeginDelete(l)

Rough == Loses \/ Intervenes \/ Refuses

\* Neither is the selection withdrawn under a confirmation.
Uneventful == Undisturbed /\ ~withdrawn

LEMMA UneventfulIsSmooth == ASSUME CountsOK, Uneventful' PROVE ~Rough
<1>1. Rough =>
        \/ faults' = faults + 1 \/ resets' = resets + 1 \/ requests' = requests + 1
        \/ withdrawn'
  BY DEF Rough, Loses, Intervenes, Refuses, DropSet, Crash, LoseCall, Fault, ResetTenant,
         BeginCreate, ArchiveLocally, BeginDelete, Confirm, LoseConfirmation
<1> QED
  BY <1>1 DEF CountsOK, Undisturbed, Uneventful

LEMMA Withdrawing ==
  ASSUME [Next]_vars
  PROVE  (withdrawn => withdrawn') /\ (withdrawn' => withdrawn \/ Refuses)
<1>1. CASE UNCHANGED vars
  BY <1>1 DEF vars, router, selection
<1>2. CASE World
  <2>1. CASE \E o \in Object, n \in Name, active \in BOOLEAN : OtherWrite(o, n, active)
    BY <2>1 DEF OtherWrite, selection
  <2>2. ASSUME NEW m \in Mover, Select(m) \/ Deselect(m) \/ Announce(m)
        PROVE  UNCHANGED withdrawn
    BY <2>2 DEF Select, Deselect, Announce, StartLoad, DropLoad, NumberMove, PublishMove
  <2>3. CASE ResetTenant
    BY <2>3 DEF ResetTenant
  <2> QED
    BY <1>2, <2>1, <2>2, <2>3 DEF World
<1>3. CASE SetWritten \/ Connect \/ Receive
  <2>1. CASE SetWritten \/ Connect
    BY <2>1 DEF SetWritten, Connect, router, selection
  <2>2. CASE ReceiveObject \/ ReceiveRoute \/ ReceiveReset \/ ReceiveCaughtUp
    <3>1. \E event : Receiving(event)
      BY <2>2 DEF ReceiveObject, ReceiveRoute, ReceiveReset, ReceiveCaughtUp
    <3> QED
      BY <3>1 DEF Receiving, router, selection
  <2>3. CASE Bind
    BY <2>3 DEF Bind, selection
  <2> QED
    BY <1>3, <2>1, <2>2, <2>3 DEF Receive
<1>4. CASE \E c \in Caller : Send(c)
  BY <1>4 DEF Send, SendRead, SendRefused, SendCreates, SendKept, SendRevised, SendApply, router,
              selection
<1>5. CASE Confirm \/ LoseConfirmation
  BY <1>5 DEF Confirm, LoseConfirmation, Refuses
<1>6. CASE Load /\ ~Confirm
  BY <1>6 DEF Load, StartRun, ReadStatus, OpenSet, TakeFrame, SetEnds, ReadBindings, DropRejected,
              ListPending, PushNext, Complete, router, selection
<1>7. CASE Person
  BY <1>7 DEF Person, Answer, StoreCreated, EndDelete, PressLoad, Replay, BeginCreate,
              ArchiveLocally, BeginDelete, Request, router, selection
<1>8. CASE Faults /\ ~LoseConfirmation
  BY <1>8 DEF Faults, Disconnect, DropSet, Crash, LoseCall, router, selection
<1> QED
  BY <1>1, <1>2, <1>3, <1>4, <1>5, <1>6, <1>7, <1>8 DEF Next

\* A process that starts again goes on counting from the records it has.
LEMMA RestartedIds ==
  ASSUME Types, Sides, Stands, ~Answering, Crash
  PROVE  IdsAreKnown'
<1>1. /\ minted' = Max({0} \cup {l \in LocalId : record[l] # None})
      /\ UNCHANGED <<mapping, record, row>>
  BY DEF Crash, router, store, tables
<1>2. {0} \cup {l \in LocalId : record[l] # None} \in SUBSET (0..MaxRecords)
  BY Sizes DEF LocalId
<1>3. \A l \in LocalId : record[l] # None => l <= minted'
  BY <1>1, <1>2, Sizes, MaxOf
<1>4. \A l \in LocalId : Bound(l) \/ mapping[l] # None => record[l] # None
  BY DEF Sides, Halves, AnswersFor, Stands
<1> QED
  BY <1>1, <1>3, <1>4 DEF IdsAreKnown, Bound

\* A set that is cut, and a process that stops.
LEMMA BrokenSides ==
  ASSUME Types, Sides, ~Answering, Closed,
         set.frames = <<>> \/ load \in {None, "LOADING_FROM_AGRIROUTER"},
         UNCHANGED <<router, store>>, UNCHANGED live \/ live' = <<>>,
         UNCHANGED binding \/ binding' = None, IdsAreKnown',
         pc' \in {"idle", "status"}, calls'["load"] = None, calls'["user"] = None
  PROVE  Sides'
<1>1. UNCHANGED <<history, wiped, mapping, selected, load, resetSeq, record, row>>
  BY DEF router, objects, selection, store, tables
<1>2. SamePairs /\ RowsKept /\ MappingKept /\ ExistingKept
  BY <1>1, RowsStill, SamePairsOf, MappingStill, ExistingStill
<1>3. /\ ~Answering' /\ \A l : ~AnswersFor(l) /\ ~AnswersFor(l)' /\ (Bound(l)' <=> Bound(l))
  BY <1>1 DEF AnswersFor, Answering, At, Bound
<1>4. set'.frames = <<>> /\ set'.holds = set.holds /\ set'.open = FALSE
  BY DEF Closed, Types, SetOK
<1>5. Quiet' /\ FramesAgree' /\ EntriesAgree'
  BY <1>1, <1>2, <1>4, FramesStill, EntriesStill DEF Sides, Quiet
<1>6. RowsExist' /\ Halves' /\ BindingIsHeld'
  BY <1>1, <1>2, <1>3, HalvesStill, BindingStill DEF Sides, RowsExist, ExistingKept
<1>7. PairsAreHeld' /\ PushIsFresh' /\ AnswerIsOwn'
  BY <1>3 DEF PairsAreHeld, PushIsFresh, AnswerIsOwn
<1>8. SetIsHeld'
  <2>1. \A o : Holders(o)' = Holders(o)
    BY <1>2, SamePairsOf
  <2>2. CASE load \in {None, "LOADING_FROM_AGRIROUTER"}
    BY <1>1, <1>4, <2>2 DEF SetIsHeld, Retakes
  <2>3. CASE load \notin {None, "LOADING_FROM_AGRIROUTER"}
    <3>1. set.frames = <<>> /\ Len(set.frames) = 0 /\ ~Retakes
      BY <2>3 DEF Retakes
    <3>2. \A o \in set.holds : Holders(o) # {}
      BY <3>1 DEF Sides, SetIsHeld
    <3> QED
      BY <1>4, <2>1, <3>2 DEF SetIsHeld
  <2> QED
    BY <2>2, <2>3
<1> QED
  BY <1>5, <1>6, <1>7, <1>8 DEF Sides

LEMMA RequestSides == ASSUME Types, Sides, NEW o \in Object, Request(o) PROVE Sides'
<1>1. /\ o \in Existing /\ Publish(Rendered(o, history[o], changed[o]))
      /\ UNCHANGED <<router, set, store, minted, receiver, loader, calls>>
  BY DEF Request
<1>2. UNCHANGED <<history, wiped, mapping, selected, load, resetSeq, tables, minted, pc, pairs,
                  pending, calls, binding>>
  BY <1>1 DEF router, objects, selection, store, receiver, loader
<1>3. Quiet' /\ ExistingKept
  BY <1>2, ExistingStill DEF Sides, Quiet
<1>4. ASSUME NEW f, f = Rendered(o, history[o], changed[o])
      PROVE  /\ FramesAgree'
             /\ Answering => \A i \in 1..Len(live') :
                  live'[i].event = "object" /\ live'[i].object = calls["load"].answer.object =>
                    live'[i].local = calls["load"].local
  <2>1. f.event = "object" /\ f.object = o /\ f.local = LocalName(o)
    BY <1>4 DEF Rendered
  <2>2. f.local # None => mapping'[f.local] = o
    BY <1>1, <1>2, <2>1, LocalNameOf
  <2>3. Agreed(f)'
    BY <1>1, <1>3, <2>1, <2>2 DEF Agreed, ExistingKept
  <2>4. Answering /\ f.object = calls["load"].answer.object => f.local = calls["load"].local
    BY <2>1, AnswerIsNamed
  <2> QED
    BY <1>1, <1>2, <1>3, <1>4, <2>1, <2>3, <2>4, PublishedAgrees
<1> QED
  BY <1>1, <1>2, <1>3, <1>4, RetakesStill, ElsewhereSides

\* Connections break, answers to a confirmation are lost, and the person asks.
LEMMA SmoothFaultSides ==
  ASSUME Types, IInv, Sides, Stands, Faults, ~Loses, ~Refuses
  PROVE  Sides'
<1>1. CASE Disconnect
  <2>1. /\ live' = <<>> /\ binding' = None
        /\ UNCHANGED <<router, set, store, minted, loader, calls>>
    BY <1>1 DEF Disconnect, Drop
  <2>2. UNCHANGED <<history, wiped, mapping, selected, load, resetSeq, tables, minted, pc, pairs,
                    pending, calls>>
    BY <2>1 DEF router, objects, selection, store, loader
  <2>3. Quiet' /\ ExistingKept /\ FramesAgree' /\ Len(live') = 0
    BY <2>1, <2>2, MappingStill, ExistingStill, FramesStill DEF Sides, Quiet
  <2> QED
    BY <2>1, <2>2, <2>3, RetakesStill, ElsewhereSides
<1>2. CASE DropSet
  <2>1. /\ pc = "take" /\ pc' = "status" /\ Closed
        /\ UNCHANGED <<router, stream, store, minted, receiver, calls>>
    BY <1>2 DEF DropSet
  <2>2. calls["load"] = None /\ calls["user"] = None
    BY <2>1 DEF Sides, PushIsFresh, Quiet
  <2>3. ~Answering
    BY <2>2 DEF Answering, At
  <2>4. UNCHANGED <<mapping, record, row, minted, live, binding>>
    BY <2>1, LoaderVars
  <2>5. IdsAreKnown'
    BY <2>4 DEF Sides, IdsAreKnown, Bound
  <2>6. set.frames = <<>> \/ load \in {None, "LOADING_FROM_AGRIROUTER"}
    BY <1>2 DEF Loses
  <2> QED
    BY <2>1, <2>2, <2>3, <2>4, <2>5, <2>6, BrokenSides
<1>3. CASE LoseConfirmation
  BY <1>3, ConfirmSides
<1>4. CASE Crash
  <2>1. ~Answering /\ (set.frames = <<>> \/ load \in {None, "LOADING_FROM_AGRIROUTER"})
    BY <1>4 DEF Loses
  <2>2. /\ Closed /\ live' = <<>> /\ binding' = None /\ pc' = "idle"
        /\ calls'["load"] = None /\ calls'["user"] = None /\ UNCHANGED <<router, store>>
    BY <1>4 DEF Crash, Drop, Caller
  <2>3. IdsAreKnown'
    BY <1>4, <2>1, RestartedIds
  <2> QED
    BY <2>1, <2>2, <2>3, BrokenSides
<1>5. ASSUME NEW c \in Caller, LoseCall(c) PROVE Sides'
  <2>1. calls[c] # None
    BY <1>5 DEF LoseCall, At
  <2>2. c = "load" /\ pc = "push"
    BY <2>1 DEF Caller, Sides, Quiet, PushIsFresh
  <2>3. ~Answering
    BY <1>5 DEF Loses
  <2>4. Fail("load") /\ UNCHANGED <<router, set, stream, store, minted, receiver>>
    BY <1>5, <2>2 DEF LoseCall
  <2> QED
    BY <2>2, <2>3, <2>4, FailSides
<1> QED
  BY <1>1, <1>2, <1>3, <1>4, <1>5 DEF Faults

LEMMA AskedSides ==
  ASSUME Types, Sides, PressLoad \/ Replay \/ \E o \in Object : Request(o)
  PROVE  Sides'
<1>1. CASE PressLoad \/ Replay
  <2>1. /\ UNCHANGED live \/ live' = <<>>
        /\ UNCHANGED binding \/ binding' = None
        /\ UNCHANGED <<router, set, store, minted, loader, calls>>
    BY <1>1 DEF PressLoad, Replay, Drop, stream, receiver
  <2>2. UNCHANGED <<history, wiped, mapping, selected, load, resetSeq, tables, minted, pc, pairs,
                    pending, calls>>
    BY <2>1 DEF router, objects, selection, store, loader
  <2>3. Quiet' /\ ExistingKept /\ FramesAgree'
    BY <2>1, <2>2, MappingStill, ExistingStill, FramesStill DEF Sides, Quiet
  <2>4. Answering => \A i \in 1..Len(live') :
          live'[i].event = "object" /\ live'[i].object = calls["load"].answer.object =>
            live'[i].local = calls["load"].local
    BY <2>1, LiveFewer DEF Sides, AnswerIsOwn
  <2> QED
    BY <2>1, <2>2, <2>3, <2>4, RetakesStill, ElsewhereSides
<1> QED
  BY <1>1, RequestSides

\* What a step that is not rough may be.
LEMMA SmoothNext ==
  ASSUME Sides, [Next]_vars, ~Rough
  PROVE  \/ UNCHANGED vars \/ SetWritten \/ Connect \/ Receive \/ Load \/ Answer
         \/ (\E m \in Mover : Select(m) \/ Deselect(m) \/ Announce(m))
         \/ (\E c \in Caller : Send(c)) \/ (Faults /\ ~Loses) \/ PressLoad \/ Replay
         \/ (\E o \in Object : Request(o))
         \/ \E o \in Object, n \in Name, active \in BOOLEAN : OtherWrite(o, n, active)
<1>1. ~StoreCreated /\ ~EndDelete
  BY DEF StoreCreated, EndDelete, At, Sides, Quiet
<1> QED
  BY <1>1 DEF Next, World, Person, Rough, Intervenes

LEMMA StillSides == ASSUME Types, Sides, UNCHANGED vars PROVE Sides'
<1>1. UNCHANGED <<history, wiped, mapping, selected, load, resetSeq, live, set, tables, minted,
                  binding, pc, pairs, pending, calls>>
  BY DEF vars, router, objects, selection, stream, store, process, receiver, loader
<1>2. Quiet' /\ FramesAgree' /\ ExistingKept
  BY <1>1, MappingStill, ExistingStill, FramesStill DEF Sides, Quiet
<1> QED
  BY <1>1, <1>2, RetakesStill, ElsewhereSides DEF Sides, AnswerIsOwn

LEMMA StepSides ==
  ASSUME Types, IInv, Sides, Stands, [Next]_vars, ~Rough
  PROVE  Sides'
<1>1. CASE UNCHANGED vars
  BY <1>1, StillSides
<1>2. CASE SetWritten
  <2>1. /\ set.open /\ set' = [set EXCEPT !.written = TRUE]
        /\ load' = IF load = None THEN None ELSE "RECONCILING"
        /\ UNCHANGED <<objects, mapping, selected, resetSeq, stream, store, process>>
    BY <1>2 DEF SetWritten
  <2>2. UNCHANGED <<history, wiped, live, tables, minted, binding, pc, pairs, pending, calls>>
    BY <2>1 DEF objects, stream, store, process, receiver, loader
  <2>3. set'.frames = set.frames /\ set'.holds = set.holds
    BY <2>1 DEF Types, SetOK
  <2>4. Quiet' /\ FramesAgree' /\ ExistingKept
    BY <2>1, <2>2, MappingStill, ExistingStill, FramesStill DEF Sides, Quiet
  <2>5. ~Retakes
    BY <2>1 DEF Retakes
  <2> QED
    BY <2>1, <2>2, <2>3, <2>4, <2>5, ElsewhereSides DEF Sides, AnswerIsOwn
<1>3. CASE Connect \/ Receive \/ Load \/ Answer
  BY <1>3, ConnectSides, ReceiveSides, LoadSides, AnswerSides DEF Rough
<1>4. CASE \E m \in Mover : Select(m) \/ Deselect(m) \/ Announce(m)
  BY <1>4, MovingSides
<1>5. CASE \E c \in Caller : Send(c)
  BY <1>5, SendSides
<1>6. CASE (Faults /\ ~Loses) \/ PressLoad \/ Replay \/ \E o \in Object : Request(o)
  BY <1>6, SmoothFaultSides, AskedSides DEF Rough
<1>7. CASE \E o \in Object, n \in Name, active \in BOOLEAN : OtherWrite(o, n, active)
  BY <1>7, OtherWriteSides
<1> QED
  BY <1>1, <1>2, <1>3, <1>4, <1>5, <1>6, <1>7, SmoothNext

LEMMA StandsOf ==
  ASSUME Types', Stands, Stays, \A l \in pending' : l \in pending \/ record[l] # None
  PROVE  Stands'
<1>1. pending' \subseteq LocalId
  BY DEF Types, LoaderOK
<1>2. \A l \in LocalId : l \in pending' => record'[l] # None
  BY DEF Stands, Stays
<1>3. \A l \in LocalId : Bound(l)' => record'[l] # None
  BY DEF Stands, Stays
<1> QED
  BY <1>1, <1>2, <1>3 DEF Stands

LEMMA StepStands ==
  ASSUME Types, Types', Sides, Stands, [Next]_vars, ~Rough
  PROVE  Stands'
<1>1. CASE UNCHANGED <<tables, pending>>
  BY <1>1, UntouchedStays, StandsOf
<1>2. CASE Receive \/ Answer \/ TakeFrame
  <2>1. UNCHANGED pending
    BY <1>2 DEF Receive, ReceiveObject, ReceiveRoute, ReceiveReset, ReceiveCaughtUp, Bind,
                Receiving, Answer, TakeFrame, loader
  <2> QED
    BY <1>2, <2>1, ReceiveStays, EntryStays, StandsOf
<1>3. CASE \E c \in Caller : Send(c)
  BY <1>3, SendsStay, StandsOf
<1>4. CASE Load /\ ~TakeFrame
  <2>1. ~DropRejected
    BY DEF DropRejected, Sides, PairsAreHeld
  <2>2. UNCHANGED tables
    BY <1>4, <2>1 DEF Load, StartRun, ReadStatus, OpenSet, SetEnds, ReadBindings, Confirm,
                      ListPending, PushNext, Complete, process, store
  <2>3. UNCHANGED pending \/ pending' = Offerable
    BY <1>4, <2>1 DEF Load, StartRun, ReadStatus, OpenSet, SetEnds, ReadBindings, Confirm,
                      ListPending, PushNext, Complete, process, loader
  <2> QED
    BY <2>2, <2>3, UntouchedStays, StandsOf DEF Offerable
<1>5. CASE Faults /\ ~Loses
  <2>1. UNCHANGED tables
    BY <1>5 DEF Faults, Disconnect, DropSet, LoseConfirmation, Crash, LoseCall, store
  <2>2. pending' \subseteq pending
    BY <1>5 DEF Faults, Disconnect, DropSet, LoseConfirmation, Crash, LoseCall, Fail, loader
  <2> QED
    BY <2>1, <2>2, UntouchedStays, StandsOf
<1>6. CASE \/ SetWritten \/ Connect \/ PressLoad \/ Replay
           \/ (\E m \in Mover : Select(m) \/ Deselect(m) \/ Announce(m))
           \/ (\E o \in Object : Request(o))
           \/ \E o \in Object, n \in Name, active \in BOOLEAN : OtherWrite(o, n, active)
  <2>1. UNCHANGED <<tables, pending>>
    BY <1>6 DEF SetWritten, Connect, Select, Deselect, Announce, StartLoad, DropLoad, NumberMove,
                PublishMove, PressLoad, Replay, Request, OtherWrite, process, store, loader
  <2> QED
    BY <2>1, <1>1
<1>7. UNCHANGED vars => UNCHANGED <<tables, pending>>
  BY DEF vars, store, process, loader
<1> QED
  BY <1>1, <1>2, <1>3, <1>4, <1>5, <1>6, <1>7, SmoothNext

Smooth == Sides /\ Stands

LEMMA InitSmooth == Init => Smooth
<1>1. Init => Stands
  BY DEF Init, Stands, Bound
<1> QED
  BY <1>1, InitSides DEF Smooth

LEMMA StepSmooth ==
  ASSUME Types, Types', IInv, Smooth, [Next]_vars, [~Rough]_vars
  PROVE  Smooth'
<1>1. CASE UNCHANGED vars
  <2>1. UNCHANGED <<tables, pending>>
    BY <1>1 DEF vars, store, process, loader
  <2> QED
    BY <1>1, <2>1, StillSides, UntouchedStays, StandsOf DEF Smooth
<1>2. CASE ~Rough
  BY <1>2, StepSides, StepStands DEF Smooth
<1> QED
  BY <1>1, <1>2

UneventfulInv == CountsOK /\ (Uneventful => Smooth)

LEMMA AlwaysAgreed == Spec => []UneventfulInv
<1>1. Init => UneventfulInv
  BY InitSmooth DEF Init, UneventfulInv, CountsOK
<1>2. UneventfulInv /\ Types /\ Types' /\ IInv /\ [Next]_vars => UneventfulInv'
  <2> SUFFICES ASSUME UneventfulInv, Types, Types', IInv, [Next]_vars PROVE UneventfulInv'
    OBVIOUS
  <2>1. CountsOK' /\ (Uneventful' => Uneventful)
    BY Counted, Withdrawing DEF UneventfulInv, Uneventful
  <2>2. Uneventful' => [~Rough]_vars
    BY UneventfulIsSmooth DEF UneventfulInv
  <2> QED
    BY <2>1, <2>2, StepSmooth DEF UneventfulInv
<1> QED
  BY <1>1, <1>2, AlwaysTyped, Invariance, PTL DEF Spec

LEMMA AlwaysSmooth == Spec /\ [][~Rough]_vars => []Smooth
<1>1. Types /\ Types' /\ IInv /\ Smooth /\ [Next]_vars /\ [~Rough]_vars => Smooth'
  BY StepSmooth
<1> QED
  BY <1>1, InitSmooth, AlwaysTyped, Invariance, PTL DEF Spec

LEMMA SidesAgree == Sides => BothSidesAgree
BY DEF Sides, Halves, AnswersFor, Answering, At, BothSidesAgree, AtRest, Caller

LEMMA ConfirmedIsHeld ==
  ASSUME Sides, Confirm, load' # load
  PROVE  \A o \in set.holds \ wiped : Holders(o) # {} \/ Current(o).ours
<1>1. Confirmable /\ pc = "confirm"
  BY DEF Confirm
<1>2. ~Retakes
  BY <1>1, Names DEF Confirmable, Retakes, LoadState
<1> QED
  BY <1>1, <1>2 DEF Sides, SetIsHeld

\* While nothing breaks, nobody wipes the tenant and the person does no more than
\* answer, what agrirouter says a local id names is, at rest, what the platform has it
\* for: loads, deliveries, other endpoints' writes and moves of the selection, however
\* their calls overlap, leave no half of a pair behind unless one took a selection away
\* under a confirmation (Loader.Run, Receiver.consume, store.bindLocked).
THEOREM PairsAgree == Spec => [](Undisturbed => BothSidesAgree)
<1>1. UneventfulInv => (Undisturbed => BothSidesAgree)
  BY SidesAgree DEF UneventfulInv, Smooth, Uneventful, BothSidesAgree
<1> QED
  BY <1>1, AlwaysAgreed, PTL

\* The same holds through broken connections, replays, lost confirmations, restarts,
\* sets that are cut, and whatever the person asks for again, as long as no answer
\* to a write is lost, no sent set is cut before all of it is taken, nobody wipes the
\* tenant, no confirmation finds the selection gone and its load still there, and the
\* person leaves their own records alone: apart from
\* what it creates itself, the platform stores a pair before it tells agrirouter, so
\* that an interruption leaves agrirouter with too few and never with one the
\* platform has not (Receiver.consume, Loader.bindings, Loader.push).
THEOREM PairsOutlastFaults == Spec /\ [][~Rough]_vars => []BothSidesAgree
<1>1. Smooth => BothSidesAgree
  BY SidesAgree DEF Smooth
<1> QED
  BY <1>1, AlwaysSmooth, PTL

\* Where nothing fails and no selection has been taken away under a confirmation, no
\* load is confirmed before what was active in the set it took is held, each object of
\* it (Loader.takeCanonicalSet, Loader.Run).
THEOREM ConfirmsTheWhole ==
  Spec => [][Uneventful /\ Confirm /\ load' # load =>
               \A o \in set.holds \ wiped : Holders(o) # {} \/ Current(o).ours]_vars
<1>1. UneventfulInv /\ [Next]_vars =>
        [Uneventful /\ Confirm /\ load' # load =>
           \A o \in set.holds \ wiped : Holders(o) # {} \/ Current(o).ours]_vars
  BY ConfirmedIsHeld DEF UneventfulInv, Smooth
<1> QED
  BY <1>1, AlwaysAgreed, PTL DEF Spec

\* So a participant confirms only whole sets through the same faults: a set that is
\* cut while agrirouter has not sent it all is asked for again from the beginning.
THEOREM ConfirmsWholeSets == Spec /\ [][~Rough]_vars => ConfirmsOnlyAWholeSet
<1>1. Smooth /\ [Next]_vars =>
        [Confirm /\ load' # load =>
           \A o \in set.holds \ wiped : Holders(o) # {} \/ Current(o).ours]_vars
  BY ConfirmedIsHeld DEF Smooth
<1> QED
  BY <1>1, AlwaysSmooth, PTL DEF Spec, ConfirmsOnlyAWholeSet

----------------------------------------------------------------------------
(* What a frame, an entry, an answer and a pair say *)

\* What is said of an object is a revision it has had.
HasBeen(f) ==
  /\ f.revision \in 1..Len(history[f.object])
  /\ f.active = history[f.object][f.revision].active

LiveSaid == \A i \in 1..Len(live) : live[i].event = "object" => HasBeen(live[i])
SetSaid == \A i \in 1..Len(set.frames) : HasBeen(set.frames[i])
AnswerSaid == Answering => HasBeen(calls["load"].answer)
RowsSaid == \A l \in LocalId : Bound(l) => row[l].revision <= Len(history[row[l].object])

\* What is there has been changed at some point.
Numbered == \A o \in Existing : changed[o] > 0

Said == LiveSaid /\ SetSaid /\ AnswerSaid /\ RowsSaid /\ Numbered

\* Histories only grow.
Grown ==
  \A o \in Object :
    /\ Len(history[o]) <= Len(history'[o])
    /\ \A i \in 1..Len(history[o]) : history'[o][i] = history[o][i]

\* A pair is written to a record that has none, or has one that says less.
WrittenAs(l, f) ==
  /\ Bound(l) => row[l].object = f.object /\ row[l].revision <= f.revision
  /\ row' = [row EXCEPT ![l] = Pair(f.object, f.revision)]

Delivered(f) ==
  \E l \in LocalId : Bound(l)' /\ row'[l].object = f.object /\ row'[l].revision >= f.revision

LEMMA HistoryOf ==
  ASSUME Types, NEW o \in Object
  PROVE  history[o] \in Seq(Revision) /\ Len(history[o]) \in Nat
BY DEF Types, RouterOK

LEMMA GrownStill == ASSUME Types, UNCHANGED history PROVE Grown
BY HistoryOf DEF Grown

LEMMA ReviseGrown ==
  ASSUME Types, NEW o \in Object, NEW rev \in Revision, Revise(o, rev)
  PROVE  /\ Grown /\ \A q \in Object : q # o => history'[q] = history[q]
         /\ history'[o] = Append(history[o], rev) /\ Len(history'[o]) = Len(history[o]) + 1
         /\ history'[o][Len(history[o]) + 1] = rev
         /\ \A i \in 1..Len(history[o]) : history'[o][i] = history[o][i]
<1>1. /\ history' = [history EXCEPT ![o] = Append(history[o], rev)]
      /\ history \in [Object -> Seq(Revision)]
  BY DEF Revise, Types, RouterOK
<1>2. /\ \A q \in Object : q # o => history'[q] = history[q]
      /\ history'[o] = Append(history[o], rev) /\ history[o] \in Seq(Revision)
  BY <1>1
<1>3. /\ Len(history'[o]) = Len(history[o]) + 1 /\ Len(history[o]) \in Nat
      /\ history'[o][Len(history[o]) + 1] = rev
      /\ \A i \in 1..Len(history[o]) : history'[o][i] = history[o][i]
  BY <1>2
<1>4. ASSUME NEW q \in Object
      PROVE  /\ Len(history[q]) <= Len(history'[q])
             /\ \A i \in 1..Len(history[q]) : history'[q][i] = history[q][i]
  <2>1. CASE q = o
    BY <1>3, <2>1
  <2>2. CASE q # o
    BY <1>2, <2>2, HistoryOf
  <2> QED
    BY <2>1, <2>2
<1> QED
  BY <1>2, <1>3, <1>4 DEF Grown

LEMMA HasBeenKept ==
  ASSUME Types, Grown, NEW f, HasBeen(f), f.object \in Object
  PROVE  HasBeen(f)'
<1>1. f.revision \in 1..Len(history[f.object]) /\ Len(history[f.object]) \in Nat
  BY HistoryOf DEF HasBeen
<1>2. Len(history[f.object]) <= Len(history'[f.object]) /\ Len(history'[f.object]) \in Nat
  BY DEF Grown
<1> QED
  BY <1>1, <1>2 DEF HasBeen, Grown

\* What an object is shown as is what it is.
LEMMA RenderedHasBeen ==
  ASSUME Types, NEW o \in Existing, NEW id
  PROVE  LET f == Rendered(o, history[o], id) IN
         HasBeen(f) /\ f.object = o /\ f.revision = Len(history[o]) /\ f.event = "object"
<1>1. o \in Object /\ history[o] # <<>>
  BY DEF Existing
<1>2. history[o] \in Seq(Revision) /\ Len(history[o]) \in Nat /\ Len(history[o]) > 0
  BY <1>1, HistoryOf, LastOf
<1> QED
  BY <1>2 DEF Rendered, HasBeen, Last

LEMMA LiveObjects ==
  ASSUME Types, NEW i \in 1..Len(live), live[i].event = "object"
  PROVE  live[i] \in Delivery /\ Told(live[i]) /\ live[i].object \in Object
<1>1. live[i] \in Frame
  BY DEF Types, StreamOK
<1> QED
  BY <1>1, FrameOf, DeliveryTold DEF Told

LEMMA SetObjects ==
  ASSUME Types, NEW i \in 1..Len(set.frames)
  PROVE  set.frames[i] \in Delivery /\ Told(set.frames[i]) /\ set.frames[i].object \in Object
<1>1. set.frames \in Seq(Delivery)
  BY DEF Types, SetOK
<1>2. set.frames[i] \in Delivery
  BY <1>1
<1> QED
  BY <1>2, DeliveryTold DEF Told

LEMMA LiveSaidStill ==
  ASSUME Types, LiveSaid, Grown,
         \A i \in 1..Len(live') : \E j \in 1..Len(live) : live'[i] = live[j]
  PROVE  LiveSaid'
<1>1. \A j \in 1..Len(live) : \A f : f = live[j] /\ f.event = "object" => HasBeen(f)'
  BY LiveObjects, HasBeenKept DEF LiveSaid
<1> QED
  BY <1>1 DEF LiveSaid

\* The entries after a step are entries before it.
LEMMA EntriesFewer ==
  ASSUME Types, \/ set'.frames = set.frames \/ set'.frames = <<>>
                \/ set.frames # <<>> /\ set'.frames = Tail(set.frames)
  PROVE  \A i \in 1..Len(set'.frames) : \E j \in 1..Len(set.frames) : set'.frames[i] = set.frames[j]
<1>1. set.frames \in Seq(Delivery)
  BY DEF Types, SetOK
<1>2. CASE set'.frames = set.frames
  BY <1>2
<1>3. CASE set'.frames = <<>>
  BY <1>3
<1>4. CASE set.frames # <<>> /\ set'.frames = Tail(set.frames)
  <2>1. /\ Len(Tail(set.frames)) = Len(set.frames) - 1 /\ Len(set.frames) \in Nat
        /\ \A i \in 1..Len(Tail(set.frames)) : Tail(set.frames)[i] = set.frames[i + 1]
    BY <1>1, <1>4, HeadTailProperties
  <2>2. \A i \in 1..Len(Tail(set.frames)) : i + 1 \in 1..Len(set.frames)
    BY <2>1
  <2> QED
    BY <1>4, <2>1, <2>2
<1> QED
  BY <1>2, <1>3, <1>4

LEMMA SetSaidStill ==
  ASSUME Types, SetSaid, Grown,
         \A i \in 1..Len(set'.frames) : \E j \in 1..Len(set.frames) : set'.frames[i] = set.frames[j]
  PROVE  SetSaid'
<1>1. \A j \in 1..Len(set.frames) : \A f : f = set.frames[j] => HasBeen(f)'
  BY SetObjects, HasBeenKept DEF SetSaid
<1> QED
  BY <1>1 DEF SetSaid

LEMMA AnswerSaidStill ==
  ASSUME Types, AnswerSaid, Grown, ~Answering' \/ UNCHANGED calls
  PROVE  AnswerSaid'
<1>1. CASE ~Answering'
  BY <1>1 DEF AnswerSaid
<1>2. CASE UNCHANGED calls
  <2>1. Answering' => Answering
    BY <1>2 DEF Answering, At
  <2>2. Answering => \A f : f = calls["load"].answer => HasBeen(f)'
    BY AnswerTold, HasBeenKept DEF AnswerSaid
  <2> QED
    BY <1>2, <2>1, <2>2 DEF AnswerSaid
<1> QED
  BY <1>1, <1>2

LEMMA RowOf ==
  ASSUME Types, NEW l \in LocalId, Bound(l)
  PROVE  row[l].object \in Object /\ row[l].revision \in Nat
BY TablesTyped, RevisionIsNumber DEF Bound

LEMMA RowsSaidStill ==
  ASSUME Types, RowsSaid, Grown, UNCHANGED row
  PROVE  RowsSaid'
<1>1. ASSUME NEW l \in LocalId, Bound(l)
      PROVE  row[l].revision <= Len(history'[row[l].object])
  <2>1. row[l].object \in Object /\ row[l].revision \in Nat
    BY <1>1, RowOf
  <2>2. /\ row[l].revision <= Len(history[row[l].object]) /\ Len(history[row[l].object]) \in Nat
        /\ Len(history[row[l].object]) <= Len(history'[row[l].object])
        /\ Len(history'[row[l].object]) \in Nat
    BY <1>1, <2>1, HistoryOf DEF RowsSaid, Grown
  <2> QED
    BY <2>1, <2>2
<1> QED
  BY <1>1 DEF RowsSaid, Bound

LEMMA WrittenOf ==
  ASSUME Types, NEW l \in LocalId, NEW f, Told(f), WrittenAs(l, f)
  PROVE  /\ Bound(l)' /\ row'[l].object = f.object /\ row'[l].revision = f.revision
         /\ \A k \in LocalId : k # l => row'[k] = row[k] /\ (Bound(k)' <=> Bound(k))
         /\ Delivered(f)
<1>1. row'[l] = Pair(f.object, f.revision) /\ \A k \in LocalId : k # l => row'[k] = row[k]
  BY DEF WrittenAs, Types, StoreOK
<1>2. Bound(l)' /\ row'[l].object = f.object /\ row'[l].revision = f.revision
  BY <1>1, PairOf, RevisionOf, Names DEF Told, Bound
<1> QED
  BY <1>1, <1>2 DEF Bound, Delivered, Told

LEMMA RowsSaidWritten ==
  ASSUME Types, RowsSaid, NEW l \in LocalId, NEW f, Told(f), HasBeen(f), WrittenAs(l, f),
         UNCHANGED history
  PROVE  RowsSaid'
<1>1. ASSUME NEW k \in LocalId, Bound(k)' PROVE row'[k].revision <= Len(history[row'[k].object])
  <2>1. CASE k = l
    BY <2>1, WrittenOf, HistoryOf DEF HasBeen, Told
  <2>2. CASE k # l
    BY <1>1, <2>2, WrittenOf DEF RowsSaid
  <2> QED
    BY <2>1, <2>2
<1> QED
  BY <1>1 DEF RowsSaid

LEMMA NumberedStill == ASSUME Numbered, UNCHANGED <<history, changed, wiped>> PROVE Numbered'
BY DEF Numbered, Existing

----------------------------------------------------------------------------
(* What is written where something is applied *)

\* One that some record is: written there, or held at a later revision already.
LEMMA RecordedWrites ==
  ASSUME Types, IInv, Sides, NEW f, Told(f), Agreed(f), RecordOf(f) # None,
         ApplyHeld(RecordOf(f), f)
  PROVE  /\ Delivered(f)
         /\ \/ UNCHANGED row
            \/ \E l \in LocalId : WrittenAs(l, f) /\ (Bound(l) \/ mapping[l] = f.object)
<1>1. PICK l \in LocalId : l = RecordOf(f)
  BY RecordOfTypes DEF Told
<1>2. \/ Bound(l) /\ row[l].object = f.object
      \/ row[l] = None /\ mapping[l] = f.object
  <2>1. CASE Holders(f.object) # {}
    <3>1. l \in Holders(f.object)
      BY <1>1, <2>1, ResolvesToTheHolder
    <3> QED
      BY <3>1 DEF Holders
  <2>2. CASE Holders(f.object) = {}
    <3>1. l = f.local /\ f.local # None
      BY <1>1, <2>2, Names DEF RecordOf
    <3>2. row[f.local] = None /\ mapping[f.local] = f.object
      BY <1>1, <2>2, <3>1, NamedIsHeld DEF Agreed
    <3> QED
      BY <3>1, <3>2
  <2> QED
    BY <2>1, <2>2
<1>3. Bound(l) => row[l].revision \in Nat
  BY RowOf
<1>4. f.revision \in Nat
  BY RevisionOf DEF Told
<1>5. CASE Superseded(l, f)
  <2>1. UNCHANGED row /\ Bound(l) /\ row[l].object = f.object /\ f.revision < row[l].revision
    BY <1>1, <1>2, <1>5 DEF ApplyHeld, tables, Superseded
  <2> QED
    BY <1>3, <1>4, <2>1 DEF Delivered, Bound
<1>6. CASE ~Superseded(l, f)
  <2>1. row' = [row EXCEPT ![l] = Pair(f.object, f.revision)]
    BY <1>1, <1>6 DEF ApplyHeld, Write
  <2>2. Bound(l) => row[l].revision <= f.revision
    BY <1>3, <1>4, <1>6 DEF Superseded, Bound
  <2>3. WrittenAs(l, f)
    BY <1>2, <2>1, <2>2 DEF WrittenAs, Bound
  <2> QED
    BY <1>2, <2>3, WrittenOf
<1> QED
  BY <1>5, <1>6

\* One recognised as a record without a pair.
LEMMA MatchedWrites ==
  ASSUME Types, NEW f, Told(f), NEW l \in LocalId, ~Bound(l), ApplyMatched(l, f)
  PROVE  WrittenAs(l, f) /\ Delivered(f)
<1>1. WrittenAs(l, f)
  BY DEF ApplyMatched, Write, WrittenAs
<1> QED
  BY <1>1, WrittenOf

\* One that is none becomes the next record, if it is active.
LEMMA NewWrites ==
  ASSUME Types, Sides, NEW f, Told(f), ApplyNew(f)
  PROVE  /\ f.active => /\ minted + 1 \in LocalId /\ ~Bound(minted + 1)
                        /\ WrittenAs(minted + 1, f) /\ Delivered(f)
         /\ ~f.active => UNCHANGED row
<1>1. CASE f.active
  <2>1. minted < MaxRecords /\ Write(minted + 1, f)
    BY <1>1 DEF ApplyNew
  <2>2. minted + 1 \in LocalId /\ minted \in Nat
    BY <2>1, TablesTyped, MintedNext DEF Types, ProcessOK
  <2>3. ~Bound(minted + 1)
    BY <2>2 DEF Sides, IdsAreKnown
  <2>4. WrittenAs(minted + 1, f)
    BY <2>1, <2>3 DEF Write, WrittenAs
  <2> QED
    BY <1>1, <2>2, <2>3, <2>4, WrittenOf
<1>2. CASE ~f.active
  BY <1>2 DEF ApplyNew, tables
<1> QED
  BY <1>1, <1>2

\* An entry of the set is written, unless a person has to be asked, or it is
\* inactive and nobody's.
EntryIsWritten(f) ==
  /\ UNCHANGED row \/ \E l \in LocalId : WrittenAs(l, f)
  /\ \/ set'.frames = Tail(set.frames) /\ (Delivered(f) \/ ~f.active)
     \/ UNCHANGED <<set, row>>

LEMMA EntryWrites ==
  ASSUME Types, IInv, Sides, TakeFrame \/ Answer, NEW f, f = Head(set.frames)
  PROVE  EntryIsWritten(f)
<1>1. set.frames # <<>>
  BY DEF TakeFrame, Answer, Types, LoaderOK
<1>2. Told(f) /\ Agreed(f)
  <2>1. f = set.frames[1] /\ 1 \in 1..Len(set.frames)
    <3>1. set.frames \in Seq(Delivery)
      BY DEF Types, SetOK
    <3> QED
      BY <1>1, <3>1, HeadTailProperties
  <2> QED
    BY <2>1, SetObjects DEF Sides, EntriesAgree
<1>3. Taken(f) => set'.frames = Tail(set.frames)
  BY DEF Taken, Types, SetOK
<1>4. CASE RecordOf(f) # None /\ ApplyHeld(RecordOf(f), f) /\ Taken(f)
  BY <1>2, <1>3, <1>4, RecordedWrites DEF EntryIsWritten
<1>5. ASSUME NEW l \in LocalId, ~Bound(l), ApplyMatched(l, f), Taken(f) PROVE  EntryIsWritten(f)
  BY <1>2, <1>3, <1>5, MatchedWrites DEF EntryIsWritten
<1>6. CASE ApplyNew(f) /\ Taken(f)
  BY <1>2, <1>3, <1>6, NewWrites DEF EntryIsWritten
<1>7. CASE UNCHANGED <<set, tables>>
  BY <1>7 DEF tables, EntryIsWritten
<1>8. CASE TakeFrame
  <2>1. CASE /\ Cardinality(Exact(f)) = 1 /\ \A l \in Exact(f) : ApplyMatched(l, f)
             /\ Taken(f)
    <3>1. PICK l \in Exact(f) : ApplyMatched(l, f)
      BY <2>1, FS_EmptySet
    <3> QED
      BY <1>5, <2>1, <3>1 DEF Exact
  <2> QED
    BY <1>4, <1>6, <1>7, <1>8, <2>1 DEF TakeFrame
<1>9. CASE Answer
  <2>1. ASSUME NEW l \in Plausible(f), ApplyMatched(l, f), Taken(f) PROVE  EntryIsWritten(f)
    BY <1>5, <2>1 DEF Plausible, Bound
  <2> QED
    BY <1>6, <1>9, <2>1 DEF Answer
<1> QED
  BY <1>8, <1>9

\* What a catch-up says is what it missed, all of it, as it is.
LEMMA CatchUpSays ==
  ASSUME Types, NEW from \in Nat, NEW order \in InOrder(Missed(from))
  PROVE  /\ \A i \in 1..Len(CatchUp(from, order)) :
              CatchUp(from, order)[i].event = "object" =>
                HasBeen(CatchUp(from, order)[i]) /\ selected
         /\ \A o \in Missed(from) : \E i \in 1..Len(CatchUp(from, order)) :
              /\ CatchUp(from, order)[i].event = "object"
              /\ CatchUp(from, order)[i].object = o
              /\ CatchUp(from, order)[i].revision = Len(history[o])
<1> DEFINE reset == IF resetSeq > from THEN <<ResetFrame(resetSeq)>> ELSE <<>>
           move == IF routeSeq > from /\ routeSeq > resetSeq
                   THEN <<RouteFrame(selected, routeSeq)>> ELSE <<>>
           heads == reset \o move
           rest == Frames(order) \o <<CaughtUp(seq)>>
           objs == Missed(from)
           Fine(f) == f.event = "object" => HasBeen(f) /\ selected
           Says(f, o) == f.event = "object" /\ f.object = o /\ f.revision = Len(history[o])
<1>1. resetSeq \in Nat /\ routeSeq \in Nat /\ seq \in Nat /\ selected \in BOOLEAN /\ RouterOK
  BY DEF Types, RouterOK
<1>2. /\ ResetFrame(resetSeq) \in Frame /\ RouteFrame(selected, routeSeq) \in Frame
      /\ CaughtUp(seq) \in Frame
  BY <1>1, FrameTypes
<1>3. objs \in SUBSET Existing
  BY DEF Missed
<1>4. Fine(ResetFrame(resetSeq)) /\ Fine(RouteFrame(selected, routeSeq)) /\ Fine(CaughtUp(seq))
  BY DEF ResetFrame, RouteFrame, CaughtUp
<1>5. /\ Frames(order) \in Seq(Frame) /\ Len(Frames(order)) \in Nat
      /\ \A i \in 1..Len(Frames(order)) : Fine(Frames(order)[i])
      /\ \A o \in objs : \E i \in 1..Len(Frames(order)) : Says(Frames(order)[i], o)
  <2>1. /\ Frames(order) \in Seq(Delivery) /\ Len(Frames(order)) = Cardinality(objs)
        /\ Cardinality(objs) \in Nat
        /\ \A i \in 1..Cardinality(objs) :
             /\ Frames(order)[i] = Rendered(order[i], history[order[i]], changed[order[i]])
             /\ order[i] \in objs
    BY <1>1, <1>3, FramesOf
  <2>2. \A o \in objs : \E i \in 1..Cardinality(objs) : order[i] = o
    BY <1>3, OrderOf DEF Existing
  <2>3. \A o \in objs : \A id :
          Fine(Rendered(o, history[o], id)) /\ Says(Rendered(o, history[o], id), o)
    BY <1>3, RenderedHasBeen DEF Missed
  <2>4. Frames(order) \in Seq(Frame)
    BY <2>1, FrameTypes
  <2> HIDE DEF objs, Fine, Says
  <2>5. ASSUME NEW i \in 1..Cardinality(objs)
        PROVE  Fine(Frames(order)[i]) /\ Says(Frames(order)[i], order[i])
    BY <2>1, <2>3
  <2> QED
    BY <2>1, <2>2, <2>4, <2>5
<1>6. reset \in Seq(Frame) /\ move \in Seq(Frame) /\ heads \in Seq(Frame) /\ rest \in Seq(Frame)
  <2>1. <<CaughtUp(seq)>> \in Seq(Frame)
    BY <1>2
  <2>2. reset \in Seq(Frame) /\ move \in Seq(Frame)
    BY <1>2
  <2> QED
    BY <1>5, <2>1, <2>2, ConcatOf
<1>7. /\ \A i \in 1..Len(rest) : Fine(rest[i])
      /\ \A o \in objs : \E i \in 1..Len(rest) : Says(rest[i], o)
  <2>1. <<CaughtUp(seq)>> \in Seq(Frame) /\ Len(<<CaughtUp(seq)>>) = 1
        /\ <<CaughtUp(seq)>>[1] = CaughtUp(seq)
    BY <1>2
  <2>2. /\ Len(rest) = Len(Frames(order)) + 1
        /\ \A i \in 1..Len(Frames(order)) : rest[i] = Frames(order)[i]
        /\ rest[Len(Frames(order)) + 1] = CaughtUp(seq)
    BY <1>5, <2>1, ConcatOf
  <2> HIDE DEF rest, objs, Fine, Says
  <2>3. \A i \in 1..Len(Frames(order)) : i \in 1..Len(rest)
    BY <1>5, <2>2
  <2>4. \A i \in 1..Len(rest) : i \in 1..Len(Frames(order)) \/ i = Len(Frames(order)) + 1
    BY <1>5, <2>2
  <2>5. \A i \in 1..Len(rest) : Fine(rest[i])
    BY <1>4, <1>5, <2>2, <2>4
  <2>6. \A o \in objs : \E i \in 1..Len(rest) : Says(rest[i], o)
    BY <1>5, <2>2, <2>3
  <2> QED
    BY <2>5, <2>6
<1>8. \A i \in 1..Len(heads) : Fine(heads[i])
  <2>1. /\ \A i \in 1..Len(reset) : Fine(reset[i])
        /\ \A i \in 1..Len(move) : Fine(move[i])
    <3> HIDE DEF Fine
    <3> QED
      BY <1>4
  <2>2. \A i \in 1..Len(heads) : i \in 1..Len(reset) \/ i > Len(reset)
    BY <1>6, ConcatOf
  <2>3. /\ \A i \in 1..Len(reset) : heads[i] = reset[i]
        /\ \A i \in 1..Len(heads) : i > Len(reset) =>
             i - Len(reset) \in 1..Len(move) /\ heads[i] = move[i - Len(reset)]
    <3> HIDE DEF reset, move
    <3> QED
      BY <1>6, ConcatOf
  <2> HIDE DEF heads, reset, move, Fine
  <2> QED
    BY <2>1, <2>2, <2>3
<1>9. CatchUp(from, order) = heads \o rest
  <2>1. CatchUp(from, order) = (heads \o Frames(order)) \o <<CaughtUp(seq)>>
    BY DEF CatchUp
  <2>2. <<CaughtUp(seq)>> \in Seq(Frame)
    BY <1>2
  <2>3. (heads \o Frames(order)) \o <<CaughtUp(seq)>>
          = heads \o (Frames(order) \o <<CaughtUp(seq)>>)
    <3> HIDE DEF heads
    <3> QED
      BY <1>5, <1>6, <2>2, ConcatAssociative
  <2> QED
    BY <2>1, <2>3
<1> HIDE DEF heads, rest, Fine, Says, objs
<1>10. /\ Len(heads) \in Nat /\ Len(rest) \in Nat /\ Len(heads \o rest) = Len(heads) + Len(rest)
       /\ \A i \in 1..Len(heads) : (heads \o rest)[i] = heads[i]
       /\ \A i \in 1..Len(heads \o rest) : i > Len(heads) =>
            i - Len(heads) \in 1..Len(rest) /\ (heads \o rest)[i] = rest[i - Len(heads)]
  BY <1>6, ConcatOf
<1>11. \A i \in 1..Len(heads \o rest) : Fine((heads \o rest)[i])
  <2>1. \A i \in 1..Len(heads \o rest) : i \in 1..Len(heads) \/ i > Len(heads)
    BY <1>10
  <2> QED
    BY <1>7, <1>8, <1>10, <2>1
<1>12. \A o \in objs : \E i \in 1..Len(heads \o rest) : Says((heads \o rest)[i], o)
  <2>1. \A i \in 1..Len(rest) :
          /\ Len(heads) + i \in 1..Len(heads \o rest)
          /\ (heads \o rest)[Len(heads) + i] = rest[i]
    <3>1. ASSUME NEW i \in 1..Len(rest) PROVE Len(heads) + i \in 1..Len(heads \o rest)
                                               /\ Len(heads) + i > Len(heads)
                                               /\ (Len(heads) + i) - Len(heads) = i
      BY <1>10
    <3> QED
      BY <1>10, <3>1
  <2> QED
    BY <1>7, <2>1
<1> QED
  BY <1>9, <1>11, <1>12 DEF Fine, Says, objs

----------------------------------------------------------------------------
(* What is said stays true *)

\* A step that changes no object.
LEMMA SaidStill ==
  ASSUME Types, Said, UNCHANGED <<history, changed, wiped>>,
         UNCHANGED row
         \/ \E l \in LocalId : \E f : Told(f) /\ HasBeen(f) /\ WrittenAs(l, f),
         \A i \in 1..Len(live') : \E j \in 1..Len(live) : live'[i] = live[j],
         \A i \in 1..Len(set'.frames) : \E j \in 1..Len(set.frames) : set'.frames[i] = set.frames[j],
         ~Answering' \/ UNCHANGED calls
  PROVE  Said'
<1>1. Grown
  BY GrownStill
<1>2. LiveSaid' /\ SetSaid' /\ AnswerSaid'
  BY <1>1, LiveSaidStill, SetSaidStill, AnswerSaidStill DEF Said
<1>3. RowsSaid'
  BY <1>1, RowsSaidStill, RowsSaidWritten DEF Said
<1> QED
  BY <1>2, <1>3, NumberedStill DEF Said

LEMMA SaidPublished ==
  ASSUME Types, LiveSaid, Grown, NEW f, Publish(f), f.event = "object" => HasBeen(f)'
  PROVE  LiveSaid'
<1>1. CASE ~connected
  BY <1>1, LiveSaidStill DEF Publish
<1>2. CASE connected
  <2>1. live' = Append(live, f) /\ live \in Seq(Frame)
    BY <1>2 DEF Publish, Types, StreamOK
  <2>2. /\ Len(live') = Len(live) + 1 /\ Len(live) \in Nat /\ live'[Len(live) + 1] = f
        /\ \A i \in 1..Len(live) : live'[i] = live[i]
    BY <2>1
  <2>3. \A j \in 1..Len(live) : \A g : g = live[j] /\ g.event = "object" => HasBeen(g)'
    BY LiveObjects, HasBeenKept DEF LiveSaid
  <2>4. ASSUME NEW i \in 1..Len(live'), NEW g, g = live'[i], g.event = "object"
        PROVE  HasBeen(g)'
    <3>1. CASE i \in 1..Len(live)
      BY <2>2, <2>3, <2>4, <3>1
    <3>2. CASE i = Len(live) + 1
      <4>1. g = f
        BY <2>2, <2>4, <3>2
      <4> QED
        BY <2>4, <4>1
    <3> QED
      BY <2>2, <3>1, <3>2
  <2> QED
    BY <2>4 DEF LiveSaid, HasBeen
<1> QED
  BY <1>1, <1>2

\* What an object has just become, it has been.
LEMMA RevisedHasBeen ==
  ASSUME Types, NEW o \in Object, NEW rev \in Revision, Revise(o, rev), NEW id,
         NEW f, f = Rendered(o, Append(history[o], rev), id)
  PROVE  /\ HasBeen(f)' /\ f.event = "object" /\ f.object = o /\ f.revision = Len(history'[o])
         /\ f.active = rev.active
<1>1. /\ history'[o] = Append(history[o], rev) /\ Len(history'[o]) = Len(history[o]) + 1
      /\ history'[o][Len(history[o]) + 1] = rev /\ Len(history[o]) \in Nat
  BY ReviseGrown, HistoryOf
<1>2. Last(Append(history[o], rev)) = rev
  BY <1>1 DEF Last
<1>3. /\ f.revision = Len(history'[o]) /\ f.active = rev.active
      /\ f.event = "object" /\ f.object = o
  BY <1>1, <1>2 DEF Rendered
<1>4. f.revision \in 1..Len(history'[o]) /\ history'[o][f.revision] = rev
  BY <1>1, <1>3
<1> QED
  BY <1>3, <1>4 DEF HasBeen

LEMMA NumberedRevised ==
  ASSUME Types, Numbered, NEW o \in Object, NEW rev \in Revision, Revise(o, rev)
  PROVE  Numbered'
<1>1. /\ changed' = [changed EXCEPT ![o] = seq + 1] /\ wiped' = wiped
      /\ changed \in [Object -> 0..seq] /\ seq \in Nat
  BY DEF Revise, Types, RouterOK
<1>2. ASSUME NEW q \in Existing' PROVE changed'[q] > 0
  <2>1. q \in Object
    BY <1>2 DEF Existing
  <2>2. CASE q = o
    BY <1>1, <2>1, <2>2
  <2>3. CASE q # o
    <3>1. q \in Existing
      BY <1>1, <1>2, <2>1, <2>3, ReviseGrown DEF Existing
    <3> QED
      BY <1>1, <2>1, <2>3, <3>1 DEF Numbered
  <2> QED
    BY <2>2, <2>3
<1> QED
  BY <1>2 DEF Numbered

LEMMA OtherWriteSaid ==
  ASSUME Types, Said, NEW o \in Object, NEW name \in Name, NEW active \in BOOLEAN,
         OtherWrite(o, name, active)
  PROVE  Said'
<1> DEFINE rev == [name |-> name, active |-> active, ours |-> FALSE]
<1>1. /\ rev \in Revision /\ Revise(o, rev) /\ UNCHANGED <<set, store, process>>
      /\ IF selected THEN Publish(Rendered(o, Append(history[o], rev), seq + 1))
                     ELSE UNCHANGED live
  BY DEF OtherWrite, Revision
<1> HIDE DEF rev
<1>2. Grown /\ Numbered'
  BY <1>1, ReviseGrown, NumberedRevised DEF Said
<1>3. UNCHANGED <<row, calls>>
  BY <1>1 DEF store, tables, process
<1>4. SetSaid' /\ AnswerSaid' /\ RowsSaid'
  BY <1>1, <1>2, <1>3, SetSaidStill, AnswerSaidStill, RowsSaidStill DEF Said
<1>5. LiveSaid'
  <2>1. CASE selected
    <3>1. ASSUME NEW f, f = Rendered(o, Append(history[o], rev), seq + 1)
          PROVE  f.event = "object" => HasBeen(f)'
      BY <1>1, <3>1, RevisedHasBeen
    <3> QED
      BY <1>1, <1>2, <2>1, <3>1, SaidPublished DEF Said
  <2>2. CASE ~selected
    BY <1>1, <1>2, <2>2, LiveSaidStill DEF Said
  <2> QED
    BY <2>1, <2>2
<1> QED
  BY <1>2, <1>4, <1>5 DEF Said

LEMMA MovingSaid ==
  ASSUME Types, Said, NEW m \in Mover, Select(m) \/ Deselect(m) \/ Announce(m)
  PROVE  Said'
<1>1. UNCHANGED <<history, changed, wiped, set, row, calls>>
  BY DEF Select, Deselect, Announce, StartLoad, DropLoad, NumberMove, PublishMove, objects, store,
         tables, process
<1>2. LiveSaid'
  <2>1. CASE PublishMove(m)
    <3>1. m \in Announcing /\ Publish(moving[m].frame)
      BY <2>1 DEF PublishMove, Announcing
    <3>2. moving[m].frame.event = "route"
      BY <3>1, PublishedFrame DEF Types, RouterOK
    <3> QED
      BY <1>1, <3>1, <3>2, GrownStill, SaidPublished DEF Said
  <2>2. CASE ~PublishMove(m)
    <3>1. UNCHANGED live
      BY <2>2 DEF Select, Deselect, Announce, StartLoad, DropLoad, NumberMove, stream
    <3> QED
      BY <1>1, <3>1, GrownStill, LiveSaidStill DEF Said
  <2> QED
    BY <2>1, <2>2
<1>3. SetSaid' /\ AnswerSaid' /\ RowsSaid' /\ Numbered'
  BY <1>1, GrownStill, SetSaidStill, AnswerSaidStill, RowsSaidStill, NumberedStill DEF Said
<1> QED
  BY <1>2, <1>3 DEF Said

LEMMA ConnectSaid == ASSUME Types, Said, Connect PROVE Said'
<1>1. UNCHANGED <<history, changed, wiped, set, row, calls>>
  BY DEF Connect, router, objects, store, tables
<1>2. PICK from \in Nat : \E order \in InOrder(Missed(from)) : live' = CatchUp(from, order)
  BY DEF Connect, Types, StoreOK
<1>3. LiveSaid'
  <2>1. \A f : HasBeen(f)' <=> HasBeen(f)
    BY <1>1 DEF HasBeen
  <2> QED
    BY <1>2, <2>1, CatchUpSays DEF LiveSaid
<1>4. SetSaid' /\ AnswerSaid' /\ RowsSaid' /\ Numbered'
  BY <1>1, GrownStill, SetSaidStill, AnswerSaidStill, RowsSaidStill, NumberedStill DEF Said
<1> QED
  BY <1>3, <1>4 DEF Said

\* What is sent of a set is every object that is there.
LEMMA SetOpened ==
  ASSUME Types, OpenSet
  PROVE  /\ SetSaid'
         /\ selected => \A o \in Existing : \E i \in 1..Len(set'.frames) :
              set'.frames[i].object = o /\ set'.frames[i].revision = Len(history[o])
         /\ set'.open /\ ~set'.written /\ pc = "take"
         /\ UNCHANGED <<router, stream, store, process>>
<1> DEFINE objs == IF selected THEN Existing ELSE {}
<1>1. PICK order \in InOrder(objs) :
        set' = [open |-> TRUE, written |-> FALSE, frames |-> Frames(order),
                holds |-> {o \in objs : Current(o).active}]
  BY DEF OpenSet
<1>2. objs \in SUBSET Existing /\ objs \in SUBSET Object
  BY DEF Existing
<1>3. pc = "take" /\ UNCHANGED <<router, stream, store, process>> /\ UNCHANGED history
  BY DEF OpenSet, router, objects
<1>4. selected => objs = Existing
  OBVIOUS
<1> HIDE DEF objs
<1>5. /\ Len(set'.frames) = Cardinality(objs)
      /\ \A i \in 1..Cardinality(objs) :
           /\ order[i] \in objs
           /\ set'.frames[i] = Rendered(order[i], history[order[i]], changed[order[i]])
      /\ \A o \in objs : \E i \in 1..Cardinality(objs) : order[i] = o
  BY <1>1, <1>2, FramesOf, OrderOf DEF Types
<1>6. ASSUME NEW i \in 1..Cardinality(objs), NEW f, f = set'.frames[i]
      PROVE  HasBeen(f) /\ f.object = order[i] /\ f.revision = Len(history[order[i]])
  <2>1. order[i] \in Existing /\ f = Rendered(order[i], history[order[i]], changed[order[i]])
    BY <1>2, <1>5, <1>6
  <2> QED
    BY <2>1, RenderedHasBeen
<1>7. SetSaid'
  BY <1>3, <1>5, <1>6 DEF SetSaid, HasBeen
<1>8. selected => \A o \in Existing : \E i \in 1..Len(set'.frames) :
        set'.frames[i].object = o /\ set'.frames[i].revision = Len(history[o])
  BY <1>4, <1>5, <1>6
<1> QED
  BY <1>1, <1>3, <1>7, <1>8

LEMMA SendCreatesSaid == ASSUME Types, Sides, Said, SendCreates("load") PROVE Said'
<1> DEFINE l == calls["load"].local
           o == Min(Unused)
           rev == [name |-> calls["load"].name, active |-> calls["load"].active, ours |-> TRUE]
<1>1. /\ Unused # {} /\ Revise(o, rev) /\ Answered("load", o, rev, 1)
      /\ UNCHANGED <<set, stream, store>>
  BY DEF SendCreates
<1>2. o \in Object /\ history[o] = <<>>
  BY <1>1, MinOf, Names DEF Unused
<1>3. rev \in Revision
  <2>1. calls["load"] \in Sending /\ calls["load"].name \in Name
    BY CallOf DEF SendCreates, Types, CallsOK, Caller
  <2> QED
    BY <2>1 DEF Revision, Sending
<1> HIDE DEF o, rev
<1>4. Grown /\ Numbered' /\ history'[o][1] = rev /\ Len(history'[o]) = 1
  <2>1. Len(history[o]) = 0 /\ o \in Object
    BY <1>2
  <2>2. Grown /\ Len(history'[o]) = Len(history[o]) + 1 /\ history'[o][Len(history[o]) + 1] = rev
    BY <1>1, <1>2, <1>3, ReviseGrown
  <2>3. Numbered'
    BY <1>1, <1>2, <1>3, NumberedRevised DEF Said
  <2> QED
    BY <2>1, <2>2, <2>3
<1>5. UNCHANGED <<live, row>>
  BY <1>1 DEF stream, store, tables
<1>6. LiveSaid' /\ SetSaid' /\ RowsSaid'
  BY <1>1, <1>4, <1>5, LiveSaidStill, SetSaidStill, RowsSaidStill DEF Said
<1>7. AnswerSaid'
  <2>1. calls'["load"].answer = [object |-> o, revision |-> 1, name |-> rev.name,
                                 active |-> rev.active, local |-> l]
    BY <1>1 DEF Answered, Types, CallsOK, Caller
  <2> QED
    BY <1>4, <2>1 DEF AnswerSaid, HasBeen
<1> QED
  BY <1>4, <1>6, <1>7 DEF Said

\* Sending, but for what creates and what is answered.
LEMMA SendsSaid ==
  ASSUME Types, IInv, Sides, Said, NEW c \in Caller, Send(c)
  PROVE  Said'
<1>1. c = "load" /\ calls["load"] # None
  BY OnlyTheLoad
<1>2. ~SendKept("load") /\ ~SendRevised("load")
  BY <1>1, SendAcceptedSides DEF SendKept, SendRevised
<1>3. CASE SendRead("load") \/ SendRefused("load")
  <2>1. UNCHANGED <<router, set, stream, store>>
    BY <1>3 DEF SendRead, SendRefused
  <2>2. UNCHANGED <<history, changed, wiped, live, set, row>>
    BY <2>1 DEF router, objects, stream, store, tables
  <2>3. ~Answering'
    <3>1. CASE Fail("load")
      BY <3>1 DEF Fail, Types, CallsOK, Caller, Answering, At
    <3>2. CASE ~Fail("load")
      BY <1>3, <3>2 DEF SendRead, SendRefused, Types, CallsOK, Caller, Answering, At
    <3> QED
      BY <3>1, <3>2
  <2> QED
    BY <2>2, <2>3, SaidStill
<1>4. CASE SendApply("load")
  <2>1. /\ Answering /\ ApplyHeld(RecordOf(calls["load"].answer), calls["load"].answer)
        /\ calls' = [calls EXCEPT !["load"] = None] /\ UNCHANGED <<router, set, stream>>
    BY <1>4 DEF SendApply, Answering
  <2>2. ASSUME NEW f, f = calls["load"].answer
        PROVE  /\ Told(f) /\ HasBeen(f)
               /\ UNCHANGED row \/ \E l \in LocalId : WrittenAs(l, f)
    <3>1. Told(f) /\ Agreed(f) /\ HasBeen(f) /\ f.local \in LocalId
      BY <2>1, <2>2, AnswerTold DEF Sides, AnswerIsOwn, Agreed, Said, AnswerSaid
    <3>2. RecordOf(f) # None
      BY <3>1, Names DEF RecordOf, Holders
    <3> QED
      BY <2>1, <2>2, <3>1, <3>2, RecordedWrites
  <2>3. UNCHANGED <<history, changed, wiped, live, set>>
    BY <2>1 DEF router, objects, stream
  <2>4. ~Answering'
    BY <2>1 DEF Types, CallsOK, Caller, Answering, At
  <2> QED
    BY <2>2, <2>3, <2>4, SaidStill
<1> QED
  BY <1>1, <1>2, <1>3, <1>4, SendCreatesSaid DEF Send

LEMMA ReceiveObjectOf ==
  ASSUME Types, IInv, Sides, Said, ReceiveObject
  PROVE  LET f == Head(live) IN
         /\ Told(f) /\ Agreed(f) /\ HasBeen(f) /\ f.event = "object"
         /\ \/ /\ UNCHANGED binding
               /\ Delivered(f)
               /\ \/ UNCHANGED row
                  \/ \E l \in LocalId : WrittenAs(l, f) /\ (Bound(l) \/ mapping[l] = f.object)
            \/ /\ f.active /\ minted + 1 \in LocalId /\ WrittenAs(minted + 1, f) /\ Delivered(f)
               /\ binding' = [local |-> minted + 1, object |-> f.object]
            \/ ~f.active /\ UNCHANGED row /\ binding' = None
         /\ binding = None /\ live # <<>> /\ live' = Tail(live) /\ position' = f.id
         /\ UNCHANGED <<router, set, connected, loader, calls>>
<1>1. /\ live # <<>> /\ Head(live).event = "object" /\ binding = None
      /\ live' = Tail(live) /\ position' = Head(live).id
      /\ UNCHANGED <<router, set, connected, loader, calls>>
  BY DEF ReceiveObject, Receiving
<1>2. Head(live) = live[1] /\ 1 \in 1..Len(live)
  BY <1>1, HeadOf DEF Types
<1>3. Told(Head(live)) /\ Agreed(Head(live)) /\ HasBeen(Head(live))
  BY <1>1, <1>2, LiveObjects DEF Sides, FramesAgree, Said, LiveSaid
<1>4. CASE RecordOf(Head(live)) # None
  <2>1. ApplyHeld(RecordOf(Head(live)), Head(live)) /\ UNCHANGED binding
    BY <1>4 DEF ReceiveObject
  <2> QED
    BY <1>1, <1>3, <1>4, <2>1, RecordedWrites
<1>5. CASE RecordOf(Head(live)) = None
  <2>1. /\ ApplyNew(Head(live))
        /\ binding' = IF Head(live).active
                      THEN [local |-> minted + 1, object |-> Head(live).object] ELSE None
    BY <1>5 DEF ReceiveObject
  <2> QED
    BY <1>1, <1>3, <2>1, NewWrites
<1> QED
  BY <1>4, <1>5

LEMMA ReceivesSaid == ASSUME Types, IInv, Sides, Said, Receive PROVE Said'
<1>1. CASE ReceiveObject
  <2>1. ASSUME NEW f, f = Head(live)
        PROVE  /\ UNCHANGED row
                  \/ \E l \in LocalId : Told(f) /\ HasBeen(f) /\ WrittenAs(l, f)
               /\ live # <<>> /\ live' = Tail(live) /\ UNCHANGED <<router, set, calls>>
    BY <1>1, <2>1, ReceiveObjectOf
  <2>2. UNCHANGED <<history, changed, wiped, set, calls>>
    BY <2>1 DEF router, objects
  <2>3. \A i \in 1..Len(live') : \E j \in 1..Len(live) : live'[i] = live[j]
    BY <2>1, LiveFewer
  <2> QED
    BY <2>1, <2>2, <2>3, SaidStill
<1>2. CASE ReceiveRoute \/ ReceiveCaughtUp
  <2>1. /\ live # <<>> /\ live' = Tail(live) /\ UNCHANGED <<router, set, calls, tables>>
    BY <1>2 DEF ReceiveRoute, ReceiveCaughtUp, Receiving
  <2>2. UNCHANGED <<history, changed, wiped, set, calls, row>>
    BY <2>1 DEF router, objects, tables
  <2> QED
    BY <2>1, <2>2, LiveFewer, SaidStill
<1>3. ~ReceiveReset
  <2>1. ReceiveReset => live # <<>> /\ Head(live).event = "reset"
    BY DEF ReceiveReset, Receiving
  <2>2. live # <<>> => Head(live) = live[1] /\ 1 \in 1..Len(live)
    BY HeadOf DEF Types
  <2> QED
    BY <2>1, <2>2 DEF Sides, FramesAgree
<1>4. CASE Bind
  <2>1. UNCHANGED <<objects, set, store, calls>> /\ (UNCHANGED live \/ live' = <<>>)
    BY <1>4 DEF Bind, Drop, stream
  <2>2. UNCHANGED <<history, changed, wiped, set, calls, row>>
    BY <2>1 DEF objects, store, tables
  <2> QED
    BY <2>1, <2>2, LiveFewer, SaidStill
<1> QED
  BY <1>1, <1>2, <1>3, <1>4 DEF Receive

\* The load, where it writes no pair.
LEMMA LoaderSaid ==
  ASSUME Types, Said, UNCHANGED <<objects, stream, row>>,
         \/ set'.frames = set.frames \/ set'.frames = <<>>,
         ~Answering' \/ UNCHANGED calls
  PROVE  Said'
<1>1. UNCHANGED <<history, changed, wiped, live, row>>
  BY DEF objects, stream
<1> QED
  BY <1>1, EntriesFewer, SaidStill

LEMMA EntrySaid == ASSUME Types, IInv, Sides, Said, TakeFrame \/ Answer PROVE Said'
<1>1. UNCHANGED <<router, stream, calls>>
  BY DEF TakeFrame, Answer
<1>2. UNCHANGED <<history, changed, wiped, live, calls>>
  BY <1>1 DEF router, objects, stream
<1>3. set.frames # <<>> /\ set.frames \in Seq(Delivery)
  BY DEF TakeFrame, Answer, Types, LoaderOK, SetOK
<1>4. ASSUME NEW f, f = Head(set.frames)
      PROVE  /\ Told(f) /\ HasBeen(f)
             /\ UNCHANGED row \/ \E l \in LocalId : WrittenAs(l, f)
             /\ set'.frames = Tail(set.frames) \/ set'.frames = set.frames
  <2>1. f = set.frames[1] /\ 1 \in 1..Len(set.frames)
    BY <1>3, <1>4, HeadTailProperties
  <2>2. Told(f) /\ HasBeen(f)
    BY <2>1, SetObjects DEF Said, SetSaid
  <2> QED
    BY <1>4, <2>2, EntryWrites DEF EntryIsWritten
<1> QED
  BY <1>2, <1>3, <1>4, EntriesFewer, SaidStill

LEMMA LoadSaid == ASSUME Types, IInv, Sides, Said, Load PROVE Said'
<1>1. CASE StartRun \/ ReadStatus \/ ReadBindings \/ ListPending
  <2>1. UNCHANGED <<router, set, stream, store, calls>>
    BY <1>1 DEF StartRun, ReadStatus, ReadBindings, ListPending
  <2> QED
    BY <2>1, LoaderSaid DEF router, store, tables
<1>2. CASE Complete \/ Confirm
  <2>1. UNCHANGED <<objects, set, stream, store, calls>>
    BY <1>2 DEF Complete, Confirm
  <2> QED
    BY <2>1, LoaderSaid DEF store, tables
<1>3. CASE PushNext
  <2>1. /\ UNCHANGED <<router, set, stream, store>>
        /\ Start("load", "put", Min(pending))
    BY <1>3 DEF PushNext
  <2>2. ~Answering'
    BY <2>1 DEF Start, Types, CallsOK, Caller, Answering, At
  <2> QED
    BY <2>1, <2>2, LoaderSaid DEF router, store, tables
<1>4. CASE SetEnds
  <2>1. UNCHANGED <<router, stream, store, calls>> /\ set'.frames = <<>>
    BY <1>4, ClosedOf DEF SetEnds, Types
  <2> QED
    BY <2>1, LoaderSaid DEF router, store, tables
<1>5. CASE OpenSet
  <2>1. SetSaid' /\ UNCHANGED <<router, stream, store, process>>
    BY <1>5, SetOpened
  <2>2. UNCHANGED <<history, changed, wiped, live, row, calls>>
    BY <2>1 DEF router, objects, stream, store, tables, process
  <2> QED
    BY <2>1, <2>2, GrownStill, LiveSaidStill, AnswerSaidStill, RowsSaidStill, NumberedStill
       DEF Said
<1>6. CASE TakeFrame
  BY <1>6, EntrySaid
<1>7. ~DropRejected
  BY DEF DropRejected, Sides, PairsAreHeld
<1> QED
  BY <1>1, <1>2, <1>3, <1>4, <1>5, <1>6, <1>7 DEF Load

LEMMA RequestSaid == ASSUME Types, Said, NEW o \in Object, Request(o) PROVE Said'
<1>1. /\ o \in Existing /\ Publish(Rendered(o, history[o], changed[o]))
      /\ UNCHANGED <<router, set, store, calls>>
  BY DEF Request
<1>2. UNCHANGED <<history, changed, wiped, row>>
  BY <1>1 DEF router, objects, store, tables
<1>3. Grown
  BY <1>2, GrownStill
<1>4. LiveSaid'
  <2>1. ASSUME NEW f, f = Rendered(o, history[o], changed[o]) PROVE LiveSaid'
    <3>1. HasBeen(f) /\ Publish(f)
      BY <1>1, <2>1, RenderedHasBeen
    <3>2. HasBeen(f)'
      BY <1>2, <3>1 DEF HasBeen
    <3> QED
      BY <1>3, <3>1, <3>2, SaidPublished DEF Said
  <2> QED
    BY <2>1
<1>5. SetSaid' /\ AnswerSaid' /\ RowsSaid' /\ Numbered'
  BY <1>1, <1>2, <1>3, SetSaidStill, AnswerSaidStill, RowsSaidStill, NumberedStill DEF Said
<1> QED
  BY <1>4, <1>5 DEF Said

\* What breaks makes what is on its way less.
LEMMA BrokenSaid ==
  ASSUME Types, Sides, Said, Faults \/ PressLoad \/ Replay
  PROVE  Said'
<1>1. UNCHANGED <<objects, row>>
  BY DEF Faults, Disconnect, DropSet, LoseConfirmation, Crash, LoseCall, PressLoad, Replay,
         router, store, tables
<1>2. UNCHANGED live \/ live' = <<>>
  BY DEF Faults, Disconnect, DropSet, LoseConfirmation, Crash, LoseCall, PressLoad, Replay, Drop,
         stream
<1>3. set'.frames = set.frames \/ set'.frames = <<>>
  BY ClosedOf
     DEF Faults, Disconnect, DropSet, LoseConfirmation, Crash, LoseCall, PressLoad, Replay, Types
<1>4. ~Answering' \/ UNCHANGED calls
  <2>1. CASE Disconnect \/ DropSet \/ LoseConfirmation \/ PressLoad \/ Replay
    BY <2>1 DEF Disconnect, DropSet, LoseConfirmation, PressLoad, Replay
  <2>2. CASE Crash
    BY <2>2 DEF Crash, Answering, At, Caller
  <2>3. ASSUME NEW c \in Caller, LoseCall(c) PROVE <1>4
    <3>1. calls' = [calls EXCEPT ![c] = None] /\ calls[c] # None
      BY <2>3 DEF LoseCall, Fail, At
    <3>2. c = "load"
      BY <3>1 DEF Sides, Quiet, Caller
    <3> QED
      BY <3>1, <3>2 DEF Answering, At, Types, CallsOK, Caller
  <2> QED
    BY <2>1, <2>2, <2>3 DEF Faults
<1>5. UNCHANGED <<history, changed, wiped>>
  BY <1>1 DEF objects
<1> QED
  BY <1>1, <1>2, <1>3, <1>4, <1>5, LiveFewer, EntriesFewer, SaidStill

LEMMA StepSaid ==
  ASSUME Types, IInv, Sides, Said, [Next]_vars, [~Rough]_vars
  PROVE  Said'
<1>1. CASE UNCHANGED vars
  <2>1. UNCHANGED <<objects, stream, row, set, calls>>
    BY <1>1 DEF vars, router, store, tables, process
  <2> QED
    BY <2>1, LoaderSaid
<1>2. CASE SetWritten
  <2>1. /\ set' = [set EXCEPT !.written = TRUE]
        /\ UNCHANGED <<objects, stream, store, process>>
    BY <1>2 DEF SetWritten
  <2>2. set'.frames = set.frames
    BY <2>1 DEF Types, SetOK
  <2> QED
    BY <2>1, <2>2, LoaderSaid DEF store, tables, process
<1>3. CASE Connect \/ Receive \/ Load \/ Answer
  BY <1>3, ConnectSaid, ReceivesSaid, LoadSaid, EntrySaid
<1>4. CASE \E m \in Mover : Select(m) \/ Deselect(m) \/ Announce(m)
  BY <1>4, MovingSaid
<1>5. CASE \E c \in Caller : Send(c)
  BY <1>5, SendsSaid
<1>6. CASE (Faults /\ ~Loses) \/ PressLoad \/ Replay \/ \E o \in Object : Request(o)
  BY <1>6, BrokenSaid, RequestSaid
<1>7. CASE \E o \in Object, n \in Name, active \in BOOLEAN : OtherWrite(o, n, active)
  BY <1>7, OtherWriteSaid
<1> QED
  BY <1>1, <1>2, <1>3, <1>4, <1>5, <1>6, <1>7, SmoothNext
LEMMA InitSaid == Init => Said
<1> SUFFICES ASSUME Init PROVE Said
  OBVIOUS
<1>1. /\ live = <<>> /\ set.frames = <<>> /\ calls = [c \in Caller |-> None]
      /\ row = [l \in LocalId |-> None]
      /\ history = [o \in Object |->
                      IF o <= Len(Shared)
                      THEN <<[name |-> Shared[o], active |-> TRUE, ours |-> FALSE]>> ELSE <<>>]
      /\ changed = [o \in Object |-> IF o <= Len(Shared) THEN o ELSE 0]
  BY DEF Init
<1>2. LiveSaid /\ SetSaid /\ AnswerSaid /\ RowsSaid
  BY <1>1 DEF LiveSaid, SetSaid, AnswerSaid, RowsSaid, Answering, At, Caller, Bound
<1>3. Numbered
  <2>1. \A o \in Object : o > 0
    BY Sizes DEF Object
  <2> QED
    BY <1>1, <2>1 DEF Numbered, Existing
<1> QED
  BY <1>2, <1>3 DEF Said

----------------------------------------------------------------------------
(* With one call that moves the selection there is one load: what its set  *)
(* does not bring, the stream does                                         *)

\* Of what the theorem speaks of: written last by somebody else, never inactive.
Alive(o) == ~Current(o).ours /\ \A i \in DOMAIN history[o] : history[o][i].active

Latest(f, o) == f.object = o /\ f.revision = Len(history[o])

Shown(o) == \E l \in Holders(o) : row[l].revision = Len(history[o])

\* It is on the stream, and whatever comes before it is older.
InStream(o) ==
  \E i \in 1..Len(live) :
    /\ live[i].event = "object" /\ Latest(live[i], o)
    /\ \A j \in 1..Len(live) : j < i => live[j].id < changed[o]

\* The position has not passed it: a connection that is cut is caught up with it.
Due(o) ==
  /\ changed[o] > routeSeq /\ changed[o] > position
  /\ connected => InStream(o)

\* The load has not got to the set, or has not begun.
SetToCome == load \in {None, "LOADING_FROM_AGRIROUTER"} /\ ~set.open
InSet(o) == \E i \in 1..Len(set.frames) : Latest(set.frames[i], o)
Coming(o) == Due(o) \/ SetToCome \/ InSet(o)

\* The endpoint is opted out, or the call that opts it in has not numbered that.
Unannounced == ~selected \/ \E m \in Mover : moving[m].at \in {"start", "number"}

\* Until then nobody has been told, and nothing runs.
Untold ==
  /\ routeSeq = 0 /\ route # TRUE /\ routed # TRUE
  /\ load \in {None, "LOADING_FROM_AGRIROUTER"} /\ pc = "idle" /\ ~set.open
  /\ \A i \in 1..Len(live) : live[i].event # "route"

\* How far the one call has got.
Opening ==
  /\ moves = 0 => ~selected /\ NothingMoves
  /\ \A m, k \in Mover : moving[m] # Idle /\ moving[k] # Idle => m = k
  /\ ~selected => load = None /\ \A m \in Mover : moving[m].at \in {"idle", "drop"}
  /\ selected => \A m \in Mover : moving[m].at \notin {"withdraw", "drop"}
  /\ Unannounced => Untold

\* Before it there is nothing to load and nothing is delivered.
NotYet ==
  ~selected =>
    /\ \A l \in LocalId : ~Bound(l)
    /\ \A i \in 1..Len(live) : live[i].event # "object"

\* The set is taken in the state that asks for it, and once.
Phase ==
  /\ set.open => pc \in {"take", "ask"}
  /\ ~set.open => set.frames = <<>>
  /\ pc = "ask" => set.open
  /\ pc \in {"take", "ask"} =>
       load = IF set.open /\ set.written THEN "RECONCILING" ELSE "LOADING_FROM_AGRIROUTER"

\* Without a connection there is nothing to take, and no pair to bind.
Cut == ~connected => live = <<>> /\ binding = None

Reached == selected => \A o \in Existing : Alive(o) => Shown(o) \/ Coming(o)

\* A pair the platform has is at agrirouter, or is about to be bound there: by
\* the receive loop, or with those the load confirms.
PairOfRow(l) == [local |-> l, object |-> row[l].object]
NamedOrComing(l) ==
  \/ mapping[l] = row[l].object
  \/ binding = PairOfRow(l)
  \/ load = "LOADING_FROM_AGRIROUTER"
  \/ load = "RECONCILING" /\ (pc = "confirm" => PairOfRow(l) \in pairs)
Named == \A l \in LocalId : Bound(l) => NamedOrComing(l)

FirstLoad == NotYet /\ Phase /\ Cut /\ Reached /\ Named

LEMMA FirstFacts ==
  ASSUME Opening, FirstLoad
  PROVE  /\ load # None => selected
         /\ set.open \/ pc # "idle" => selected /\ ~Unannounced
         /\ (\E l \in LocalId : Bound(l)) => selected
BY DEF Opening, Unannounced, Untold, FirstLoad, NotYet

\* What is shown stays shown: pairs are written with what is said of an object.
LEMMA ShownStill ==
  ASSUME Types, UNCHANGED history, NEW o, Shown(o),
         UNCHANGED row
         \/ \E l \in LocalId : \E f : Told(f) /\ HasBeen(f) /\ WrittenAs(l, f)
  PROVE  Shown(o)'
<1>1. PICK k \in LocalId : Bound(k) /\ row[k].object = o /\ row[k].revision = Len(history[o])
  BY DEF Shown, Holders
<1>2. CASE UNCHANGED row
  BY <1>1, <1>2 DEF Shown, Holders, Bound
<1>3. ASSUME NEW l \in LocalId, NEW f, Told(f), HasBeen(f), WrittenAs(l, f)
      PROVE  Bound(k)' /\ row'[k].object = o /\ row'[k].revision = Len(history[o])
  <2>1. CASE k # l
    BY <1>1, <1>3, <2>1, WrittenOf
  <2>2. CASE k = l
    <3>1. f.object = o /\ Len(history[o]) <= f.revision
      BY <1>1, <1>3, <2>2 DEF WrittenAs
    <3>2. Bound(k)' /\ row'[k].object = f.object /\ row'[k].revision = f.revision
      BY <1>3, <2>2, WrittenOf
    <3>3. f.revision \in 1..Len(history[o]) /\ Len(history[o]) \in Nat
      BY <1>3, <3>1, HistoryOf DEF HasBeen, Told
    <3> QED
      BY <3>1, <3>2, <3>3
  <2> QED
    BY <2>1, <2>2
<1>4. CASE Bound(k)' /\ row'[k].object = o /\ row'[k].revision = Len(history[o])
  BY <1>4 DEF Shown, Holders
<1> QED
  BY <1>2, <1>3, <1>4

LEMMA DeliveredShown ==
  ASSUME Types, Types', RowsSaid', UNCHANGED history, NEW o \in Object,
         NEW f, Told(f), Latest(f, o), Delivered(f)
  PROVE  Shown(o)'
<1>1. PICK l \in LocalId : Bound(l)' /\ row'[l].object = o /\ row'[l].revision >= Len(history[o])
  BY DEF Delivered, Latest
<1>2. row'[l].revision <= Len(history[o])
  BY <1>1 DEF RowsSaid
<1>3. row'[l].revision \in Nat /\ Len(history[o]) \in Nat
  <2>1. TablesOK'
    BY TablesTyped DEF Types, TablesOK, StoreOK, ProcessOK
  <2> QED
    BY <1>1, <2>1, HistoryOf, RevisionIsNumber DEF Bound, TablesOK, Row
<1> QED
  BY <1>1, <1>2, <1>3 DEF Shown, Holders

LEMMA LatestIsActive ==
  ASSUME Types, NEW o \in Object, NEW f, HasBeen(f), Latest(f, o), Alive(o)
  PROVE  f.active
<1>1. f.revision \in DOMAIN history[o] /\ f.active = history[o][f.revision].active
  BY HistoryOf DEF HasBeen, Latest
<1> QED
  BY <1>1 DEF Alive

\* A frame that is taken is the first one, the others are still to come, and the
\* position is still short of them.
LEMMA DueRest ==
  ASSUME Types, UNCHANGED <<history, changed, routeSeq, connected>>, connected, live # <<>>,
         live' = Tail(live), position' = Head(live).id, NEW o, Due(o)
  PROVE  Due(o)' \/ (Head(live).event = "object" /\ Latest(Head(live), o))
<1>1. /\ Head(live) = live[1] /\ Len(Tail(live)) = Len(live) - 1 /\ Len(live) \in Nat
      /\ Len(live) > 0
      /\ \A i \in 1..Len(Tail(live)) : i + 1 \in 1..Len(live) /\ Tail(live)[i] = live[i + 1]
  BY HeadOf DEF Types
<1>2. PICK i \in 1..Len(live) :
        /\ live[i].event = "object" /\ Latest(live[i], o)
        /\ \A j \in 1..Len(live) : j < i => live[j].id < changed[o]
  BY DEF Due, InStream
<1>3. CASE i = 1
  BY <1>1, <1>2, <1>3
<1>4. CASE i # 1
  <2>1. /\ i - 1 \in 1..Len(Tail(live)) /\ (i - 1) + 1 = i /\ 1 \in 1..Len(live) /\ 1 < i
        /\ \A j \in 1..Len(Tail(live)) : j < i - 1 => j + 1 < i
    BY <1>1, <1>4
  <2>2. live'[i - 1] = live[i] /\ i - 1 \in 1..Len(live') /\ changed'[o] > position'
    BY <1>1, <1>2, <2>1
  <2>3. \A j \in 1..Len(live') : j < i - 1 => live'[j].id < changed[o]
    BY <1>1, <1>2, <2>1
  <2>4. ASSUME NEW n, n = i - 1
        PROVE  /\ n \in 1..Len(live') /\ live'[n] = live[i]
               /\ \A j \in 1..Len(live') : j < n => live'[j].id < changed[o]
    BY <2>2, <2>3, <2>4
  <2>5. InStream(o)'
    BY <1>2, <2>4 DEF InStream, Latest
  <2> QED
    BY <2>2, <2>5 DEF Due
<1> QED
  BY <1>3, <1>4

LEMMA SetRest ==
  ASSUME Types, UNCHANGED history, set.frames # <<>>, set'.frames = Tail(set.frames),
         NEW o, InSet(o)
  PROVE  InSet(o)' \/ Latest(Head(set.frames), o)
<1>1. set.frames \in Seq(Delivery)
  BY DEF Types, SetOK
<1>2. /\ Head(set.frames) = set.frames[1] /\ Len(Tail(set.frames)) = Len(set.frames) - 1
      /\ Len(set.frames) \in Nat
      /\ \A i \in 1..Len(Tail(set.frames)) : Tail(set.frames)[i] = set.frames[i + 1]
  BY <1>1, HeadTailProperties
<1>3. PICK i \in 1..Len(set.frames) : Latest(set.frames[i], o)
  BY DEF InSet
<1>4. CASE i = 1
  BY <1>2, <1>3, <1>4
<1>5. CASE i # 1
  <2>1. i - 1 \in 1..Len(Tail(set.frames)) /\ (i - 1) + 1 = i
    BY <1>2, <1>5
  <2>2. ASSUME NEW j, j = i - 1
        PROVE  j \in 1..Len(set'.frames) /\ set'.frames[j] = set.frames[i]
    BY <1>2, <2>1, <2>2
  <2> QED
    BY <1>3, <2>2 DEF InSet, Latest
<1> QED
  BY <1>4, <1>5

LEMMA DueStays ==
  ASSUME UNCHANGED <<history, changed, routeSeq, connected, live, position>>, NEW o, Due(o)
  PROVE  Due(o)'
BY DEF Due, InStream, Latest

LEMMA SetStays ==
  ASSUME UNCHANGED history, set'.frames = set.frames, NEW o, InSet(o)
  PROVE  InSet(o)'
BY DEF InSet, Latest

\* What is published comes after whatever is on the stream.
LEMMA AppendedOf ==
  ASSUME Types, NEW f, Publish(f)
  PROVE  /\ Len(live) \in Nat /\ Len(live) <= Len(live')
         /\ \A i \in 1..Len(live) : live'[i] = live[i]
         /\ \A i \in 1..Len(live') : live'[i] = f \/ \E j \in 1..Len(live) : live'[i] = live[j]
<1>1. live \in Seq(Frame)
  BY DEF Types, StreamOK
<1>2. CASE connected
  <2>1. live' = Append(live, f)
    BY <1>2 DEF Publish
  <2>2. /\ Len(Append(live, f)) = Len(live) + 1 /\ Len(live) \in Nat
        /\ Append(live, f)[Len(live) + 1] = f
        /\ \A i \in 1..Len(live) : Append(live, f)[i] = live[i]
    BY <1>1
  <2> QED
    BY <2>1, <2>2
<1>3. CASE ~connected
  BY <1>1, <1>3 DEF Publish
<1> QED
  BY <1>2, <1>3

LEMMA DueAppended ==
  ASSUME Types, UNCHANGED <<history, changed, routeSeq, connected, position>>,
         NEW f, Publish(f), NEW o, Due(o)
  PROVE  Due(o)'
<1>1. /\ Len(live) \in Nat /\ Len(live) <= Len(live')
      /\ \A i \in 1..Len(live) : live'[i] = live[i]
  BY AppendedOf
<1>2. ASSUME connected PROVE InStream(o)'
  <2>1. PICK i \in 1..Len(live) :
          /\ live[i].event = "object" /\ Latest(live[i], o)
          /\ \A j \in 1..Len(live) : j < i => live[j].id < changed[o]
    BY <1>2 DEF Due, InStream
  <2>2. /\ i \in 1..Len(live') /\ live'[i] = live[i]
        /\ \A j \in 1..Len(live') : j < i => j \in 1..Len(live) /\ live'[j] = live[j]
    BY <1>1
  <2> QED
    BY <2>1, <2>2 DEF InStream, Latest
<1> QED
  BY <1>2 DEF Due

\* Where no object changes, each one is shown or coming as before.
LEMMA ReachedStill ==
  ASSUME Reached, UNCHANGED <<history, wiped, selected>>,
         \A o \in Existing : selected /\ Alive(o) =>
           /\ Shown(o) => Shown(o)'
           /\ Coming(o) => Shown(o)' \/ Coming(o)'
  PROVE  Reached'
<1>1. Existing' = Existing /\ \A o : Alive(o)' <=> Alive(o)
  BY DEF Existing, Alive, Current
<1> QED
  BY <1>1 DEF Reached

\* Another endpoint's write is newer than whatever is on the stream, if there is
\* one, and than the position.
LEMMA OtherWriteReached ==
  ASSUME Types, Said, Reached, NEW o \in Object, NEW rev \in Revision, Revise(o, rev),
         UNCHANGED <<wiped, selected, routeSeq, load, set, connected, row, position>>,
         IF selected THEN Publish(Rendered(o, Append(history[o], rev), seq + 1))
                     ELSE UNCHANGED live
  PROVE  Reached'
<1>1. /\ \A q \in Object : q # o => history'[q] = history[q]
      /\ live \in Seq(Frame) /\ Len(live) \in Nat
  BY ReviseGrown DEF Types, StreamOK
<1>2. /\ changed'[o] = seq + 1 /\ \A q \in Object : q # o => changed'[q] = changed[q]
      /\ seq + 1 > routeSeq /\ seq + 1 > position
      /\ \A i \in 1..Len(live) : live[i].id < seq + 1
  <2>1. changed' = [changed EXCEPT ![o] = seq + 1]
    BY DEF Revise
  <2>2. /\ seq \in Nat /\ routeSeq \in 0..seq /\ position \in 0..seq
        /\ \A i \in 1..Len(live) : live[i].id <= seq /\ live[i].id \in Nat
    BY DEF Types, RouterOK, StoreOK, StreamOK, Frame, RouteFrames, Delivery
  <2>3. seq + 1 > routeSeq /\ seq + 1 > position /\ \A i \in 1..Len(live) : live[i].id < seq + 1
    BY <2>2
  <2> QED
    BY <2>1, <2>3 DEF Types, RouterOK
<1>3. ASSUME selected, connected, NEW f, f = Rendered(o, Append(history[o], rev), seq + 1)
      PROVE  /\ Len(live') = Len(live) + 1 /\ live'[Len(live) + 1] = f
             /\ \A i \in 1..Len(live) : live'[i] = live[i]
             /\ f.event = "object" /\ f.object = o /\ f.revision = Len(history'[o])
  <2>1. live' = Append(live, f)
    BY <1>3 DEF Publish
  <2> QED
    BY <1>1, <1>3, <2>1, RevisedHasBeen
<1>4. ASSUME NEW q \in Existing', selected, Alive(q)' PROVE Shown(q)' \/ Coming(q)'
  <2>1. q \in Object
    BY <1>4 DEF Existing
  <2>2. CASE q = o
    <3>1. ASSUME connected, NEW f, f = Rendered(o, Append(history[o], rev), seq + 1),
                 NEW n, n = Len(live) + 1
          PROVE  /\ n \in 1..Len(live') /\ live'[n] = f /\ f.event = "object" /\ Latest(f, o)'
                 /\ \A j \in 1..Len(live') : j < n => live'[j].id < changed'[o]
      <4>1. /\ n \in 1..Len(live') /\ live'[n] = f /\ f.event = "object" /\ Latest(f, o)'
        BY <1>1, <1>3, <1>4, <3>1 DEF Latest
      <4>2. \A j \in 1..Len(live') : j < n => j \in 1..Len(live) /\ live'[j] = live[j]
        BY <1>1, <1>3, <1>4, <3>1
      <4> QED
        BY <1>2, <4>1, <4>2
    <3>2. connected => InStream(o)'
      BY <3>1 DEF InStream
    <3> QED
      BY <1>2, <2>2, <3>2 DEF Coming, Due
  <2>3. CASE q # o
    <3>1. history'[q] = history[q] /\ changed'[q] = changed[q] /\ q \in Existing /\ Alive(q)
      BY <1>1, <1>2, <1>4, <2>1, <2>3 DEF Existing, Alive, Current
    <3>2. CASE Shown(q)
      BY <3>1, <3>2 DEF Shown, Holders, Bound
    <3>3. CASE SetToCome \/ InSet(q)
      BY <3>1, <3>3 DEF Coming, SetToCome, InSet, Latest
    <3>4. CASE Due(q)
      <4>1. ASSUME connected PROVE InStream(q)'
        <5>1. PICK i \in 1..Len(live) :
                /\ live[i].event = "object" /\ Latest(live[i], q)
                /\ \A j \in 1..Len(live) : j < i => live[j].id < changed[q]
          BY <3>4, <4>1 DEF Due, InStream
        <5>2. /\ i \in 1..Len(live') /\ live'[i] = live[i]
              /\ \A j \in 1..Len(live') : j < i => j \in 1..Len(live) /\ live'[j] = live[j]
          BY <1>1, <1>3, <1>4, <4>1
        <5> QED
          BY <3>1, <5>1, <5>2 DEF InStream, Latest
      <4> QED
        BY <3>1, <3>4, <4>1 DEF Coming, Due
    <3> QED
      BY <1>4, <3>1, <3>2, <3>3, <3>4 DEF Reached, Coming
  <2> QED
    BY <2>2, <2>3
<1> QED
  BY <1>4 DEF Reached

LEMMA OtherWriteFirst ==
  ASSUME Types, Sides, Said, Opening, FirstLoad,
         NEW o \in Object, NEW name \in Name, NEW active \in BOOLEAN, OtherWrite(o, name, active)
  PROVE  FirstLoad'
<1> DEFINE rev == [name |-> name, active |-> active, ours |-> FALSE]
<1>1. /\ rev \in Revision /\ Revise(o, rev)
      /\ UNCHANGED <<mapping, selection, set, connected, store, process>>
      /\ IF selected THEN Publish(Rendered(o, Append(history[o], rev), seq + 1))
                     ELSE UNCHANGED live
  BY DEF OtherWrite, Revision
<1> HIDE DEF rev
<1>2. UNCHANGED <<selected, routeSeq, load, position, row, binding, pc, pairs, wiped>>
  BY <1>1 DEF selection, store, tables, process, receiver, loader, Revise
<1>3. Reached'
  BY <1>1, <1>2, OtherWriteReached DEF FirstLoad
<1>4. NotYet'
  BY <1>1, <1>2 DEF FirstLoad, NotYet, Bound
<1>5. Phase' /\ Named'
  BY <1>1, <1>2 DEF FirstLoad, Phase, Named, NamedOrComing, PairOfRow, Bound
<1>6. Cut'
  BY <1>1, <1>2 DEF FirstLoad, Cut, Publish
<1> QED
  BY <1>3, <1>4, <1>5, <1>6 DEF FirstLoad

\* The call that opts the endpoint in starts the load, whose set is to come. What
\* changes before that is numbered is older than the frame, but is in the set.
LEMMA MovingFirst ==
  ASSUME Types, Sides, Opening, FirstLoad, moves' <= 1, moves \in Nat,
         NEW m \in Mover, Select(m) \/ Deselect(m) \/ Announce(m)
  PROVE  FirstLoad'
<1>1. UNCHANGED <<history, changed, wiped, mapping, set, connected, position, row, binding, pc,
                  pairs>>
  BY DEF Select, Deselect, Announce, StartLoad, DropLoad, NumberMove, PublishMove, objects, stream,
         store, tables, process, receiver, loader
<1>2. CASE Select(m)
  <2>1. ~selected /\ selected' /\ UNCHANGED <<load, live, routeSeq>>
    BY <1>2 DEF Select, stream
  <2>2. load = None /\ ~set.open
    BY <2>1 DEF Opening, Unannounced, Untold
  <2>3. Reached'
    BY <1>1, <2>1, <2>2 DEF Reached, Coming, SetToCome
  <2> QED
    BY <1>1, <2>1, <2>3
       DEF FirstLoad, NotYet, Phase, Cut, Named, NamedOrComing, PairOfRow, Bound
<1>3. CASE Deselect(m)
  <2>1. moves = 0
    BY <1>3 DEF Deselect, Moves
  <2>2. ~selected /\ ~selected' /\ UNCHANGED <<load, live>>
    BY <1>3, <2>1 DEF Deselect, Opening, stream
  <2> QED
    BY <1>1, <2>2
       DEF FirstLoad, NotYet, Phase, Cut, Reached, Named, NamedOrComing, PairOfRow, Bound
<1>4. CASE StartLoad(m)
  <2>1. /\ load' = "LOADING_FROM_AGRIROUTER" /\ Unannounced
        /\ UNCHANGED <<live, routeSeq, selected>>
    BY <1>4 DEF StartLoad, Unannounced, stream
  <2>2. pc = "idle" /\ ~set.open
    BY <2>1 DEF Opening, Untold
  <2>3. Reached'
    BY <1>1, <2>1, <2>2 DEF Reached, Coming, SetToCome
  <2> QED
    BY <1>1, <2>1, <2>2, <2>3 DEF FirstLoad, NotYet, Phase, Cut, Named, NamedOrComing, Bound
<1>5. CASE DropLoad(m)
  <2>1. ~selected /\ ~selected' /\ UNCHANGED live /\ load = None /\ load' = None
    BY <1>5 DEF DropLoad, Opening, stream
  <2> QED
    BY <1>1, <2>1
       DEF FirstLoad, NotYet, Phase, Cut, Reached, Named, NamedOrComing, PairOfRow, Bound
<1>6. CASE NumberMove(m)
  <2>1. Unannounced /\ UNCHANGED <<live, selected, load>>
    BY <1>6 DEF NumberMove, Unannounced, stream
  <2>2. load \in {None, "LOADING_FROM_AGRIROUTER"} /\ ~set.open
    BY <2>1 DEF Opening, Untold
  <2>3. Reached'
    BY <1>1, <2>1, <2>2 DEF Reached, Coming, SetToCome
  <2> QED
    BY <1>1, <2>1, <2>3
       DEF FirstLoad, NotYet, Phase, Cut, Named, NamedOrComing, PairOfRow, Bound
<1>7. CASE PublishMove(m)
  <2>1. m \in Announcing /\ Publish(moving[m].frame) /\ UNCHANGED <<selected, load, routeSeq>>
    BY <1>7 DEF PublishMove, Announcing
  <2>2. moving[m].frame.event # "object"
    BY <2>1, PublishedFrame DEF Types, RouterOK
  <2>3. PICK f : f = moving[m].frame
    OBVIOUS
  <2>4. Publish(f) /\ f.event # "object"
    BY <2>1, <2>2, <2>3
  <2>5. Reached'
    <3>1. ASSUME NEW o \in Existing
          PROVE  (Shown(o) => Shown(o)') /\ (Coming(o) => Coming(o)')
      BY <1>1, <2>1, <2>4, ShownStill, SetStays, DueAppended DEF Coming, SetToCome
    <3> QED
      BY <1>1, <2>1, <3>1, ReachedStill DEF FirstLoad
  <2>6. NotYet'
    <3>1. \A i \in 1..Len(live') : live'[i].event = "object" => \E j \in 1..Len(live) : live[j] = live'[i]
      BY <2>4, AppendedOf
    <3> QED
      BY <1>1, <2>1, <3>1 DEF FirstLoad, NotYet, Bound
  <2> QED
    BY <1>1, <2>1, <2>4, <2>5, <2>6
       DEF FirstLoad, Phase, Cut, Named, NamedOrComing, PairOfRow, Bound, Publish
<1> QED
  BY <1>2, <1>3, <1>4, <1>5, <1>6, <1>7 DEF Announce

LEMMA SetWrittenFirst ==
  ASSUME Types, Sides, Opening, FirstLoad, SetWritten
  PROVE  FirstLoad'
<1>1. /\ set.open /\ ~set.written /\ set' = [set EXCEPT !.written = TRUE]
      /\ load' = IF load = None THEN None ELSE "RECONCILING"
      /\ UNCHANGED <<objects, mapping, selected, routeSeq, stream, store, process>>
  BY DEF SetWritten, bounds
<1>2. UNCHANGED <<history, changed, wiped, connected, live, position, row, binding, pc, pairs>>
  BY <1>1 DEF objects, stream, store, tables, process, receiver, loader
<1>3. set'.open /\ set'.written /\ set'.frames = set.frames
  BY <1>1 DEF Types, SetOK
<1>4. selected /\ pc \in {"take", "ask"} /\ load' = "RECONCILING"
  BY <1>1, FirstFacts, Names DEF FirstLoad, Phase, LoadState
<1>5. NotYet' /\ Phase' /\ Cut' /\ Named'
  BY <1>1, <1>2, <1>3, <1>4 DEF FirstLoad, NotYet, Phase, Cut, Named, NamedOrComing
<1>6. Reached'
  <2>1. ASSUME NEW o \in Existing
        PROVE  (Shown(o) => Shown(o)') /\ (Coming(o) => Coming(o)')
    BY <1>1, <1>2, <1>3, ShownStill, DueStays, SetStays DEF Coming, SetToCome
  <2> QED
    BY <1>1, <1>2, <2>1, ReachedStill DEF FirstLoad
<1> QED
  BY <1>5, <1>6 DEF FirstLoad

\* A catch-up is in the order of the changes: what comes before an object changed
\* since the selection moved is older.
LEMMA CatchUpInOrder ==
  ASSUME Types, resetSeq = 0, NEW from \in Nat, NEW order \in InOrder(Missed(from)),
         NEW o \in Missed(from), changed[o] > routeSeq
  PROVE  \E i \in 1..Len(CatchUp(from, order)) :
           /\ CatchUp(from, order)[i].event = "object" /\ Latest(CatchUp(from, order)[i], o)
           /\ \A j \in 1..Len(CatchUp(from, order)) : j < i => CatchUp(from, order)[j].id < changed[o]
<1> DEFINE move == IF routeSeq > from /\ routeSeq > resetSeq
                   THEN <<RouteFrame(selected, routeSeq)>> ELSE <<>>
           all == (move \o Frames(order)) \o <<CaughtUp(seq)>>
<1>1. routeSeq \in Nat /\ seq \in Nat /\ selected \in BOOLEAN /\ RouterOK
  BY DEF Types, RouterOK
<1>2. RouteFrame(selected, routeSeq) \in Frame /\ <<CaughtUp(seq)>> \in Seq(Frame)
  BY <1>1, FrameTypes
<1>3. move \in Seq(Frame) /\ \A i \in 1..Len(move) : move[i].id = routeSeq
  BY <1>2 DEF RouteFrame
<1>4. CatchUp(from, order) = all
  <2>1. ~(resetSeq > from) /\ <<>> \o move = move
    BY <1>3
  <2> QED
    BY <2>1 DEF CatchUp
<1>5. Missed(from) \in SUBSET Existing
  BY DEF Missed
<1>6. /\ Frames(order) \in Seq(Frame) /\ Len(Frames(order)) = Cardinality(Missed(from))
      /\ \A i \in 1..Len(Frames(order)) :
           Frames(order)[i] = Rendered(order[i], history[order[i]], changed[order[i]])
  BY <1>1, <1>5, FramesOf, FrameTypes
<1>7. PICK n \in 1..Len(Frames(order)) : order[n] = o
  BY <1>5, <1>6, OrderOf DEF Existing
<1>8. \A j \in 1..Len(Frames(order)) : j < n => changed[order[j]] < changed[o]
  BY <1>6, <1>7 DEF InOrder
<1>9. /\ Frames(order)[n].event = "object" /\ Latest(Frames(order)[n], o)
      /\ \A j \in 1..Len(Frames(order)) : j < n => Frames(order)[j].id < changed[o]
  BY <1>6, <1>7, <1>8 DEF Rendered, Latest
<1> HIDE DEF move
<1>10. ASSUME NEW frames, frames = Frames(order), NEW first, first = move \o frames
       PROVE  /\ first \in Seq(Frame) /\ Len(first) = Len(move) + Len(frames)
              /\ Len(move) \in Nat /\ Len(frames) \in Nat
              /\ \A i \in 1..Len(move) : first[i] = move[i]
              /\ \A i \in 1..Len(first) : i > Len(move) =>
                   i - Len(move) \in 1..Len(frames) /\ first[i] = frames[i - Len(move)]
  BY <1>3, <1>6, <1>10, ConcatOf
<1>11. ASSUME NEW frames, frames = Frames(order), NEW first, first = move \o frames,
              NEW i, i = Len(move) + n
       PROVE  /\ i \in 1..Len(first) /\ first[i] = frames[n] /\ first \in Seq(Frame)
              /\ \A j \in 1..Len(first) : j < i => first[j].id < changed[o]
  <2>1. /\ i \in 1..Len(first) /\ i > Len(move) /\ i - Len(move) = n
    BY <1>7, <1>10, <1>11
  <2>2. ASSUME NEW j \in 1..Len(first), j < i PROVE first[j].id < changed[o]
    <3>1. CASE j <= Len(move)
      BY <1>3, <1>10, <1>11, <2>2, <3>1
    <3>2. CASE j > Len(move)
      <4>1. /\ j - Len(move) \in 1..Len(frames) /\ j - Len(move) < n
            /\ first[j] = frames[j - Len(move)]
        BY <1>10, <1>11, <2>2, <3>2
      <4> QED
        BY <1>9, <1>11, <4>1
    <3> QED
      BY <1>10, <1>11, <3>1, <3>2
  <2>3. first \in Seq(Frame) /\ first[i] = frames[i - Len(move)]
    <3>1. /\ first \in Seq(Frame)
          /\ \A k \in 1..Len(first) : k > Len(move) => first[k] = frames[k - Len(move)]
      BY <1>3, <1>6, <1>11, ConcatOf
    <3> QED
      BY <2>1, <3>1
  <2>4. first[i] = frames[n]
    BY <2>1, <2>3
  <2> QED
    BY <2>1, <2>2, <2>3, <2>4
<1>12. ASSUME NEW frames, frames = Frames(order), NEW first, first = move \o frames,
              NEW i, i = Len(move) + n
       PROVE  /\ i \in 1..Len(all) /\ all[i] = frames[n]
              /\ \A j \in 1..Len(all) : j < i => all[j].id < changed[o]
  <2>1. /\ all = first \o <<CaughtUp(seq)>>
        /\ i \in 1..Len(first) /\ first[i] = frames[n] /\ first \in Seq(Frame)
        /\ \A j \in 1..Len(first) : j < i => first[j].id < changed[o]
    BY <1>11, <1>12
  <2>2. /\ Len(first) \in Nat /\ Len(all) >= Len(first)
        /\ \A j \in 1..Len(first) : all[j] = first[j]
    BY <1>2, <2>1, ConcatOf
  <2> HIDE DEF all
  <2>3. /\ i \in 1..Len(all)
        /\ \A j \in 1..Len(all) : j < i => j \in 1..Len(first)
    BY <2>1, <2>2
  <2> QED
    BY <2>1, <2>2, <2>3
<1> QED
  BY <1>4, <1>9, <1>12

\* A connection brings whatever the position has not passed.
LEMMA ConnectFirst ==
  ASSUME Types, Sides, Said, Opening, FirstLoad, Connect
  PROVE  FirstLoad'
<1>1. /\ ~connected /\ connected' = TRUE
      /\ UNCHANGED <<router, set, store, binding, loader>>
  BY DEF Connect, bounds
<1>2. UNCHANGED <<history, changed, wiped, mapping, selected, routeSeq, load, position, row,
                  pc, pairs>>
  BY <1>1 DEF router, objects, selection, store, tables, loader
<1>3. PICK from \in {0, position} :
        \E order \in InOrder(Missed(from)) : live' = CatchUp(from, order)
  BY DEF Connect
<1>4. PICK order \in InOrder(Missed(from)) : live' = CatchUp(from, order)
  BY <1>3
<1>5. from \in Nat /\ from <= position /\ position \in Nat
  BY DEF Types, StoreOK, RouterOK
<1>6. \A i \in 1..Len(live') : live'[i].event = "object" => selected
  BY <1>4, <1>5, CatchUpSays
<1>7. ASSUME NEW o \in Existing, selected, Alive(o), Due(o) PROVE Due(o)'
  <2>1. o \in Missed(from)
    <3>1. ~Last(history[o]).ours
      BY <1>7 DEF Alive, Current
    <3>2. changed[o] > position /\ changed[o] \in Nat
      BY <1>7 DEF Due, Existing, Types, RouterOK
    <3>3. changed[o] > from
      BY <1>5, <3>2
    <3> QED
      BY <1>7, <3>1, <3>3 DEF Missed
  <2>2. changed[o] > routeSeq /\ resetSeq = 0
    BY <1>7 DEF Due, Sides, Quiet
  <2>3. \E i \in 1..Len(live') :
          /\ live'[i].event = "object" /\ Latest(live'[i], o)
          /\ \A j \in 1..Len(live') : j < i => live'[j].id < changed[o]
    BY <1>4, <1>5, <2>1, <2>2, CatchUpInOrder
  <2>4. InStream(o)'
    BY <1>2, <2>3 DEF InStream, Latest
  <2> QED
    BY <1>2, <1>7, <2>4 DEF Due
<1>8. Reached'
  <2>1. ASSUME NEW o \in Existing, selected, Alive(o)
        PROVE  (Shown(o) => Shown(o)') /\ (Coming(o) => Coming(o)')
    <3>1. Shown(o) => Shown(o)'
      BY <1>2, ShownStill
    <3>2. SetToCome \/ InSet(o) => Coming(o)'
      BY <1>1, <1>2, SetStays DEF Coming, SetToCome
    <3> QED
      BY <1>7, <2>1, <3>1, <3>2 DEF Coming
  <2> QED
    BY <1>2, <2>1, ReachedStill DEF FirstLoad
<1>9. NotYet'
  BY <1>1, <1>2, <1>6 DEF FirstLoad, NotYet, Bound
<1>10. Phase' /\ Cut' /\ Named'
  BY <1>1, <1>2 DEF FirstLoad, Phase, Cut, Named, NamedOrComing, PairOfRow, Bound
<1> QED
  BY <1>8, <1>9, <1>10 DEF FirstLoad

\* What is applied is shown from then on, if it is the object as it stands.
LEMMA AppliedShows ==
  ASSUME Types, Types', RowsSaid', UNCHANGED history, NEW o \in Object, Alive(o),
         NEW f, Told(f), HasBeen(f), Latest(f, o), Delivered(f) \/ ~f.active
  PROVE  Shown(o)'
BY LatestIsActive, DeliveredShown

\* A pair written where there was one, or where agrirouter names the record so, is
\* named as before.
LEMMA WrittenNamed ==
  ASSUME Types, Named, UNCHANGED <<mapping, load, binding, pc, pairs>>,
         NEW k \in LocalId, NEW f, Told(f), WrittenAs(k, f), Bound(k) \/ mapping[k] = f.object,
         NEW l \in LocalId, Bound(l)'
  PROVE  NamedOrComing(l)'
<1>1. /\ row'[k].object = f.object
      /\ \A j \in LocalId : j # k => row'[j] = row[j] /\ (Bound(j)' <=> Bound(j))
  BY WrittenOf
<1>2. Bound(k) => row[k].object = f.object
  BY DEF WrittenAs
<1>3. CASE Bound(l)
  <2>1. row'[l].object = row[l].object
    BY <1>1, <1>2, <1>3
  <2> QED
    BY <1>3, <2>1 DEF Named, NamedOrComing, PairOfRow
<1>4. CASE ~Bound(l)
  <2>1. l = k /\ mapping[k] = f.object
    BY <1>1, <1>4
  <2> QED
    BY <1>1, <2>1 DEF NamedOrComing
<1> QED
  BY <1>3, <1>4

LEMMA ReceiveObjectFirst ==
  ASSUME Types, Types', IInv, Sides, Said, Said', Opening, FirstLoad,
         ReceiveObject
  PROVE  FirstLoad'
<1>1. /\ binding = None /\ live # <<>> /\ live' = Tail(live) /\ Head(live).event = "object"
      /\ position' = Head(live).id
      /\ UNCHANGED <<router, set, connected, loader>>
  BY DEF ReceiveObject, Receiving, bounds
<1>2. UNCHANGED <<history, changed, wiped, mapping, selected, routeSeq, load, pc, pairs>>
  BY <1>1 DEF router, objects, selection, loader
<1>3. connected
  BY <1>1 DEF FirstLoad, Cut
<1>4. selected
  <2>1. Head(live) = live[1] /\ 1 \in 1..Len(live)
    BY <1>1, HeadOf DEF Types
  <2> QED
    BY <1>1, <2>1 DEF FirstLoad, NotYet
<1>5. ASSUME NEW f, f = Head(live)
      PROVE  /\ Told(f) /\ HasBeen(f) /\ (Delivered(f) \/ ~f.active)
             /\ UNCHANGED row \/ \E l \in LocalId : Told(f) /\ HasBeen(f) /\ WrittenAs(l, f)
  BY <1>5, ReceiveObjectOf
<1>6. Reached'
  <2>1. ASSUME NEW o \in Existing, Alive(o)
        PROVE  /\ Shown(o) => Shown(o)'
               /\ Coming(o) => Shown(o)' \/ Coming(o)'
    <3>1. Shown(o) => Shown(o)'
      BY <1>2, <1>5, ShownStill
    <3>2. o \in Object
      BY DEF Existing
    <3>3. CASE Due(o)
      <4>1. ASSUME NEW f, f = Head(live), Latest(f, o) PROVE Shown(o)'
        <5>1. Told(f) /\ HasBeen(f) /\ (Delivered(f) \/ ~f.active)
          BY <1>5, <4>1
        <5>2. RowsSaid'
          BY DEF Said
        <5> QED
          BY <1>2, <2>1, <3>2, <4>1, <5>1, <5>2, AppliedShows
      <4>2. Due(o)' \/ Latest(Head(live), o)
        BY <1>1, <1>2, <1>3, <3>3, DueRest
      <4> QED
        BY <3>1, <4>1, <4>2 DEF Coming
    <3>4. CASE SetToCome \/ InSet(o)
      BY <1>1, <1>2, <3>1, <3>4, SetStays DEF Coming, SetToCome
    <3> QED
      BY <3>1, <3>3, <3>4 DEF Coming
  <2> QED
    BY <1>2, <2>1, ReachedStill DEF FirstLoad
<1>7. Named'
  <2>1. ASSUME NEW f, f = Head(live), NEW l \in LocalId, Bound(l)' PROVE NamedOrComing(l)'
    <3>1. CASE UNCHANGED <<row, binding>> \/ (UNCHANGED row /\ binding' = None)
      BY <1>1, <1>2, <2>1, <3>1 DEF FirstLoad, Named, NamedOrComing, PairOfRow, Bound
    <3>2. ASSUME NEW k \in LocalId, WrittenAs(k, f), UNCHANGED binding,
                 Bound(k) \/ mapping[k] = f.object
          PROVE  NamedOrComing(l)'
      <4>1. Told(f)
        BY <1>5, <2>1
      <4> QED
        BY <1>2, <2>1, <3>2, <4>1, WrittenNamed DEF FirstLoad
    <3>3. CASE /\ minted + 1 \in LocalId /\ WrittenAs(minted + 1, f)
               /\ binding' = [local |-> minted + 1, object |-> f.object]
      <4>1. PICK k \in LocalId : k = minted + 1
        BY <3>3
      <4>2. /\ row'[k].object = f.object
            /\ \A j \in LocalId : j # k => row'[j] = row[j] /\ (Bound(j)' <=> Bound(j))
        <5>1. Told(f) /\ WrittenAs(k, f)
          BY <1>5, <2>1, <3>3, <4>1
        <5> QED
          BY <5>1, WrittenOf
      <4>3. CASE l = k
        BY <3>3, <4>1, <4>2, <4>3 DEF NamedOrComing, PairOfRow
      <4>4. CASE l # k
        <5>1. Bound(l) /\ row'[l] = row[l]
          BY <2>1, <4>2, <4>4
        <5>2. binding # PairOfRow(l)
          <6>1. Bound(l) => PairOfRow(l) \in Half
            BY RowOf DEF PairOfRow, Half
          <6> QED
            BY <1>1, <5>1, <6>1, ParticipantAssumption
        <5> QED
          BY <1>2, <5>1, <5>2 DEF FirstLoad, Named, NamedOrComing, PairOfRow
      <4> QED
        BY <4>3, <4>4
    <3> QED
      BY <2>1, <3>1, <3>2, <3>3, ReceiveObjectOf
  <2> QED
    BY <2>1 DEF Named
<1>8. NotYet' /\ Phase' /\ Cut'
  BY <1>1, <1>2, <1>3, <1>4 DEF FirstLoad, NotYet, Phase, Cut
<1> QED
  BY <1>6, <1>7, <1>8 DEF FirstLoad

LEMMA ReceiveOtherFirst ==
  ASSUME Types, Sides, Opening, FirstLoad,
         ReceiveRoute \/ ReceiveCaughtUp
  PROVE  FirstLoad'
<1>1. /\ live # <<>> /\ live' = Tail(live) /\ Head(live).event # "object"
      /\ position' = Head(live).id
      /\ UNCHANGED <<router, set, connected, loader, moves, tables, binding>>
  BY DEF ReceiveRoute, ReceiveCaughtUp, Receiving, bounds
<1>2. UNCHANGED <<history, changed, wiped, mapping, selected, routeSeq, load, pc, pairs, row>>
  BY <1>1 DEF router, objects, selection, loader, tables
<1>3. connected
  BY <1>1 DEF FirstLoad, Cut
<1>4. Reached'
  <2>1. ASSUME NEW o \in Existing
        PROVE  (Shown(o) => Shown(o)') /\ (Coming(o) => Coming(o)')
    BY <1>1, <1>2, <1>3, ShownStill, DueRest, SetStays DEF Coming, SetToCome
  <2> QED
    BY <1>2, <2>1, ReachedStill DEF FirstLoad
<1>5. NotYet'
  BY <1>1, <1>2, LiveFewer DEF FirstLoad, NotYet, Bound
<1>6. Phase' /\ Cut' /\ Named'
  BY <1>1, <1>2, <1>3 DEF FirstLoad, Phase, Cut, Named, NamedOrComing, PairOfRow, Bound
<1> QED
  BY <1>4, <1>5, <1>6 DEF FirstLoad

\* A pair the platform has is one agrirouter takes.
LEMMA HeldIsBindable ==
  ASSUME Types, IInv, Sides, selected, NEW l \in LocalId, Bound(l)
  PROVE  Bindable(l, row[l].object)
<1>1. row[l].object \in Existing /\ l \in Holders(row[l].object)
  BY DEF Sides, RowsExist, Holders
<1>2. ASSUME NEW k \in LocalId, AnswersFor(k)
      PROVE  /\ Holders(mapping[k]) \subseteq {k}
             /\ Bound(k) => row[k].object = mapping[k]
  BY <1>2 DEF AnswersFor, Sides, AnswerIsOwn, Bound
<1>3. mapping[l] \in {None, row[l].object}
  BY <1>2 DEF Sides, Halves
<1>4. ASSUME NEW k \in LocalId, mapping[k] = row[l].object PROVE k = l
  <2>1. mapping[k] # None
    BY <1>1, <1>4, Names DEF Existing
  <2>2. CASE Bound(k) /\ row[k].object = mapping[k]
    BY <1>4, <2>2 DEF IInv, OneRecordPerObject
  <2>3. CASE AnswersFor(k)
    BY <1>1, <1>2, <1>4, <2>3
  <2> QED
    BY <2>1, <2>2, <2>3 DEF Sides, Halves
<1>5. LocalName(row[l].object) \in {None, l}
  BY <1>4, LocalNameOf
<1> QED
  BY <1>1, <1>3, <1>5 DEF Bindable

LEMMA BindFirst ==
  ASSUME Types, IInv, Sides, Opening, FirstLoad, Bind
  PROVE  FirstLoad'
<1>1. /\ binding # None /\ binding \in Half /\ Bound(binding.local)
      /\ row[binding.local].object = binding.object
  BY DEF Bind, Types, ProcessOK, Sides, BindingIsHeld
<1>2. binding.local \in LocalId /\ binding = [local |-> binding.local, object |-> binding.object]
  BY <1>1 DEF Half
<1>3. Bindable(binding.local, binding.object)
  BY <1>1, <1>2, FirstFacts, HeldIsBindable
<1>4. /\ binding' = None /\ mapping' = [mapping EXCEPT ![binding.local] = binding.object]
      /\ UNCHANGED <<objects, selection, set, stream, store, loader>>
  BY <1>3 DEF Bind, bounds
<1>5. UNCHANGED <<history, changed, wiped, selected, routeSeq, load, connected, live, position, row,
                  pc, pairs>>
  BY <1>4 DEF objects, selection, stream, store, tables, loader
<1>6. \A l \in LocalId : mapping'[l] = IF l = binding.local THEN binding.object ELSE mapping[l]
  BY <1>2, <1>4 DEF Types, RouterOK
<1>7. Named'
  <2>1. ASSUME NEW l \in LocalId, Bound(l)' PROVE NamedOrComing(l)'
    <3>1. Bound(l)
      BY <1>5, <2>1 DEF Bound
    <3>2. CASE l = binding.local
      BY <1>1, <1>5, <1>6, <3>2 DEF NamedOrComing
    <3>3. CASE l # binding.local
      <4>1. binding # PairOfRow(l) /\ mapping'[l] = mapping[l]
        BY <1>6, <3>3 DEF PairOfRow
      <4> QED
        BY <1>5, <3>1, <4>1 DEF FirstLoad, Named, NamedOrComing, PairOfRow
    <3> QED
      BY <3>2, <3>3
  <2> QED
    BY <2>1 DEF Named
<1>8. Reached'
  <2>1. ASSUME NEW o \in Existing
        PROVE  (Shown(o) => Shown(o)') /\ (Coming(o) => Coming(o)')
    BY <1>4, <1>5, ShownStill, DueStays, SetStays DEF Coming, SetToCome
  <2> QED
    BY <1>5, <2>1, ReachedStill DEF FirstLoad
<1>9. NotYet' /\ Phase' /\ Cut'
  BY <1>4, <1>5 DEF FirstLoad, NotYet, Phase, Cut, Bound
<1> QED
  BY <1>7, <1>8, <1>9 DEF FirstLoad

LEMMA ReceiveFirst ==
  ASSUME Types, Types', IInv, Sides, Said, Said', Opening, FirstLoad,
         Receive
  PROVE  FirstLoad'
<1>1. ~ReceiveReset
  <2>1. ReceiveReset => live # <<>> /\ Head(live).event = "reset"
    BY DEF ReceiveReset, Receiving
  <2>2. live # <<>> => Head(live) = live[1] /\ 1 \in 1..Len(live)
    BY HeadOf DEF Types
  <2> QED
    BY <2>1, <2>2 DEF Sides, FramesAgree
<1> QED
  BY <1>1, ReceiveObjectFirst, ReceiveOtherFirst, BindFirst DEF Receive

\* A step of the load that only moves it on, and not to the set nor to a
\* confirmation.
LEMMA LoaderFirst ==
  ASSUME Types, FirstLoad,
         UNCHANGED <<history, changed, wiped, mapping, selected, routeSeq, connected, live, position,
                     row, binding, set>>,
         load' = load \/ (load = "LOADING_TO_AGRIROUTER" /\ load' = "COMPLETED"),
         pc \notin {"take", "ask"}, pc' \notin {"take", "ask", "confirm"}
  PROVE  FirstLoad'
<1>1. NotYet' /\ Cut'
  BY DEF FirstLoad, NotYet, Cut, Bound
<1>2. Phase'
  BY Names DEF FirstLoad, Phase, LoadState
<1>3. Named'
  BY DEF FirstLoad, Named, NamedOrComing, PairOfRow, Bound
<1>4. Reached'
  <2>1. ASSUME NEW o \in Existing
        PROVE  (Shown(o) => Shown(o)') /\ (Coming(o) => Coming(o)')
    BY ShownStill, DueStays, SetStays, Names DEF Coming, SetToCome, LoadState
  <2> QED
    BY <2>1, ReachedStill DEF FirstLoad
<1> QED
  BY <1>1, <1>2, <1>3, <1>4 DEF FirstLoad

\* What the push creates was written by the endpoint itself.
LEMMA SendCreatesFirst ==
  ASSUME Types, Sides, Opening, FirstLoad, SendCreates("load")
  PROVE  FirstLoad'
<1> DEFINE o == Min(Unused)
           rev == [name |-> calls["load"].name, active |-> calls["load"].active, ours |-> TRUE]
           l == calls["load"].local
<1>1. /\ Unused # {} /\ Revise(o, rev) /\ mapping' = [mapping EXCEPT ![l] = o]
      /\ mapping[l] = None
      /\ UNCHANGED <<selection, set, stream, store, binding, loader>>
  BY DEF SendCreates, receiver, bounds
<1>2. o \in Object /\ history[o] = <<>>
  BY <1>1, MinOf, Names DEF Unused
<1>3. rev \in Revision
  <2>1. calls["load"] \in Sending /\ calls["load"].name \in Name
    BY CallOf DEF SendCreates, Types, CallsOK, Caller
  <2> QED
    BY <2>1 DEF Revision, Sending
<1>4. UNCHANGED <<wiped, selected, routeSeq, load, connected, live, position, row, pc, pairs>>
  BY <1>1 DEF Revise, selection, stream, store, tables, loader
<1>5. ~Bound(l) /\ \A k \in LocalId : k # l => mapping'[k] = mapping[k]
  <2>1. calls["load"] # None /\ ~Answering
    BY DEF SendCreates, Answering, At
  <2>2. row[l] = None
    BY <2>1 DEF Sides, PushIsFresh, AnswersFor
  <2> QED
    BY <1>1, <2>2 DEF Bound, Types, RouterOK
<1>6. rev.ours
  OBVIOUS
<1> HIDE DEF o, rev, l
<1>7. /\ \A q \in Object : q # o => history'[q] = history[q] /\ changed'[q] = changed[q]
      /\ Last(history'[o]) = rev
  <2>1. /\ history'[o] = Append(history[o], rev) /\ Len(history'[o]) = Len(history[o]) + 1
        /\ history'[o][Len(history[o]) + 1] = rev
        /\ \A q \in Object : q # o => history'[q] = history[q]
    BY <1>1, <1>2, <1>3, ReviseGrown
  <2>2. changed' = [changed EXCEPT ![o] = seq + 1]
    BY <1>1 DEF Revise
  <2> QED
    BY <2>1, <2>2 DEF Last, Types, RouterOK
<1>8. ASSUME NEW q \in Existing', selected, Alive(q)' PROVE Shown(q)' \/ Coming(q)'
  <2>1. q # o /\ q \in Object
    BY <1>6, <1>7, <1>8 DEF Alive, Current, Existing
  <2>2. history'[q] = history[q] /\ changed'[q] = changed[q] /\ q \in Existing /\ Alive(q)
    BY <1>4, <1>7, <1>8, <2>1 DEF Existing, Alive, Current
  <2>3. Shown(q) \/ Coming(q)
    BY <1>8, <2>2 DEF FirstLoad, Reached
  <2>4. Shown(q) => Shown(q)'
    BY <1>4, <2>2 DEF Shown, Holders, Bound
  <2>5. Coming(q) => Coming(q)'
    BY <1>1, <1>4, <2>2 DEF Coming, Due, InStream, SetToCome, InSet, Latest
  <2> QED
    BY <2>3, <2>4, <2>5
<1>9. Reached'
  BY <1>4, <1>8 DEF Reached
<1>10. Named'
  BY <1>1, <1>4, <1>5 DEF FirstLoad, Named, NamedOrComing, PairOfRow, Bound
<1>11. NotYet' /\ Phase' /\ Cut'
  BY <1>1, <1>4 DEF FirstLoad, NotYet, Phase, Cut, Bound
<1> QED
  BY <1>9, <1>10, <1>11 DEF FirstLoad

\* The answer to what it sent is that of a record agrirouter has a name for.
LEMMA SendApplyFirst ==
  ASSUME Types, IInv, Sides, Said, Opening, FirstLoad,
         SendApply("load")
  PROVE  FirstLoad'
<1>1. /\ Answering /\ ApplyHeld(RecordOf(calls["load"].answer), calls["load"].answer)
      /\ UNCHANGED <<router, set, stream, position, binding, pc, pairs>>
  BY DEF SendApply, Answering, receiver, bounds
<1>2. UNCHANGED <<history, changed, wiped, mapping, selected, routeSeq, load, connected, live>>
  BY <1>1 DEF router, objects, selection, stream
<1>3. selected
  <2>1. pc = "push"
    BY <1>1 DEF Sides, PushIsFresh, Answering, At
  <2> QED
    BY <2>1, FirstFacts
<1>4. ASSUME NEW f, f = calls["load"].answer
      PROVE  /\ Told(f) /\ HasBeen(f)
             /\ \/ UNCHANGED row
                \/ \E l \in LocalId : WrittenAs(l, f) /\ (Bound(l) \/ mapping[l] = f.object)
  <2>1. Told(f) /\ Agreed(f) /\ HasBeen(f) /\ f.local \in LocalId
    BY <1>1, <1>4, AnswerTold DEF Sides, AnswerIsOwn, Agreed, Said, AnswerSaid
  <2>2. RecordOf(f) # None
    BY <2>1, Names DEF RecordOf, Holders
  <2> QED
    BY <1>1, <1>4, <2>1, <2>2, RecordedWrites
<1>5. Reached'
  <2>1. ASSUME NEW o \in Existing
        PROVE  (Shown(o) => Shown(o)') /\ (Coming(o) => Coming(o)')
    BY <1>1, <1>2, <1>4, ShownStill, DueStays, SetStays DEF Coming, SetToCome
  <2> QED
    BY <1>2, <2>1, ReachedStill DEF FirstLoad
<1>6. Named'
  <2>1. ASSUME NEW f, f = calls["load"].answer, NEW l \in LocalId, Bound(l)'
        PROVE  NamedOrComing(l)'
    <3>1. CASE UNCHANGED row
      BY <1>1, <1>2, <2>1, <3>1 DEF FirstLoad, Named, NamedOrComing, PairOfRow, Bound
    <3>2. ASSUME NEW k \in LocalId, WrittenAs(k, f), Bound(k) \/ mapping[k] = f.object
          PROVE  NamedOrComing(l)'
      BY <1>1, <1>2, <1>4, <2>1, <3>2, WrittenNamed DEF FirstLoad
    <3> QED
      BY <1>4, <2>1, <3>1, <3>2
  <2> QED
    BY <2>1 DEF Named
<1>7. NotYet' /\ Phase' /\ Cut'
  BY <1>1, <1>2, <1>3 DEF FirstLoad, NotYet, Phase, Cut
<1> QED
  BY <1>5, <1>6, <1>7 DEF FirstLoad

LEMMA SendFirst ==
  ASSUME Types, IInv, Sides, Said, Opening, FirstLoad,
         NEW c \in Caller, Send(c)
  PROVE  FirstLoad'
<1>1. c = "load" /\ calls["load"] # None /\ pc = "push"
  BY OnlyTheLoad
<1>2. ~SendKept("load") /\ ~SendRevised("load")
  BY <1>1, SendAcceptedSides DEF SendKept, SendRevised
<1>3. CASE SendRead("load") \/ SendRefused("load")
  <2>1. /\ UNCHANGED <<router, set, stream, store, binding>>
        /\ Fail("load") \/ UNCHANGED pc
    BY <1>3 DEF SendRead, SendRefused, receiver, bounds
  <2>2. pc' \in {"idle", "push"}
    BY <1>1, <2>1 DEF Fail
  <2>3. UNCHANGED <<history, changed, wiped, mapping, selected, routeSeq, load, connected, live,
                    position, row>>
    BY <2>1 DEF router, objects, selection, stream, store, tables
  <2> QED
    BY <1>1, <2>1, <2>2, <2>3, LoaderFirst
<1> QED
  BY <1>1, <1>2, <1>3, SendCreatesFirst, SendApplyFirst DEF Send

\* Opening the set, it brings everything there is.
LEMMA OpenSetFirst ==
  ASSUME Types, Sides, Opening, FirstLoad, OpenSet
  PROVE  FirstLoad'
<1>1. /\ pc = "take" /\ ~set.open /\ set'.open /\ ~set'.written
      /\ UNCHANGED <<router, stream, store, process>>
      /\ selected => \A o \in Existing : \E i \in 1..Len(set'.frames) :
           set'.frames[i].object = o /\ set'.frames[i].revision = Len(history[o])
  BY SetOpened DEF OpenSet
<1>2. UNCHANGED <<history, changed, wiped, mapping, selected, routeSeq, load, connected, live,
                  position, row, binding, pc, pairs>>
  BY <1>1 DEF router, objects, selection, stream, store, tables, process, receiver, loader
<1>3. selected => \A o \in Existing' : InSet(o)'
  BY <1>1, <1>2 DEF InSet, Latest, Existing
<1>4. Reached'
  BY <1>2, <1>3 DEF Reached, Coming
<1>5. NotYet' /\ Phase' /\ Cut' /\ Named'
  BY <1>1, <1>2 DEF FirstLoad, NotYet, Phase, Cut, Named, NamedOrComing, PairOfRow, Bound
<1> QED
  BY <1>4, <1>5 DEF FirstLoad

\* An entry is shown once it is taken, if it is the object as it stands.
LEMMA EntryFirst ==
  ASSUME Types, Types', IInv, Sides, Said, Said', Opening, FirstLoad,
         TakeFrame \/ Answer
  PROVE  FirstLoad'
<1>1. /\ pc \in {"take", "ask"} /\ pc' \in {"take", "ask"} /\ set.frames # <<>>
      /\ UNCHANGED <<router, stream, position, binding, pairs>>
      /\ Taken(Head(set.frames)) \/ UNCHANGED set
  BY DEF TakeFrame, Answer, receiver, bounds, Types, LoaderOK
<1>2. UNCHANGED <<history, changed, wiped, mapping, selected, routeSeq, load, connected, live>>
  BY <1>1 DEF router, objects, selection, stream
<1>3. set.open /\ set'.open /\ set'.written = set.written
  <2>1. set.open
    BY DEF TakeFrame, Answer, FirstLoad, Phase
  <2> QED
    BY <1>1, <2>1 DEF Taken, Types, SetOK
<1>4. selected
  BY <1>3, FirstFacts
<1>5. ASSUME NEW f, f = Head(set.frames)
      PROVE  /\ Told(f) /\ HasBeen(f)
             /\ UNCHANGED row \/ \E l \in LocalId : WrittenAs(l, f)
             /\ \/ set'.frames = Tail(set.frames) /\ (Delivered(f) \/ ~f.active)
                \/ UNCHANGED <<set, row>>
  <2>1. f = set.frames[1] /\ 1 \in 1..Len(set.frames)
    BY <1>1, <1>5, HeadTailProperties DEF Types, SetOK
  <2>2. Told(f) /\ HasBeen(f)
    BY <2>1, SetObjects DEF Said, SetSaid
  <2> QED
    BY <1>5, <2>2, EntryWrites DEF EntryIsWritten
<1>6. Reached'
  <2>1. ASSUME NEW o \in Existing, Alive(o), NEW f, f = Head(set.frames)
        PROVE  /\ Shown(o) => Shown(o)'
               /\ Coming(o) => Shown(o)' \/ Coming(o)'
    <3>1. Shown(o) => Shown(o)'
      BY <1>2, <1>5, <2>1, ShownStill
    <3>2. o \in Object
      BY DEF Existing
    <3>3. Coming(o) => Due(o) \/ InSet(o)
      BY <1>3 DEF Coming, SetToCome
    <3>4. Due(o) => Coming(o)'
      BY <1>1, <1>2, DueStays DEF Coming
    <3>5. InSet(o) => Shown(o)' \/ Coming(o)'
      <4>1. CASE UNCHANGED set
        BY <1>2, <4>1, SetStays DEF Coming
      <4>2. CASE set'.frames = Tail(set.frames) /\ (Delivered(f) \/ ~f.active)
        <5>1. InSet(o) => InSet(o)' \/ Latest(f, o)
          BY <1>1, <1>2, <2>1, <4>2, SetRest
        <5>2. Latest(f, o) => Shown(o)'
          <6>1. RowsSaid'
            BY DEF Said
          <6>2. Told(f) /\ HasBeen(f)
            BY <1>5, <2>1
          <6> QED
            BY <1>2, <2>1, <3>2, <4>2, <6>1, <6>2, AppliedShows
        <5> QED
          BY <5>1, <5>2 DEF Coming
      <4> QED
        BY <1>5, <2>1, <4>1, <4>2
    <3> QED
      BY <3>1, <3>3, <3>4, <3>5
  <2> QED
    BY <1>2, <2>1, ReachedStill DEF FirstLoad
<1>7. Phase'
  BY <1>1, <1>2, <1>3 DEF FirstLoad, Phase
<1>8. Named'
  BY <1>1, <1>2, <1>3, <1>7 DEF Phase, Named, NamedOrComing
<1>9. NotYet' /\ Cut'
  BY <1>1, <1>2, <1>4 DEF FirstLoad, NotYet, Cut
<1> QED
  BY <1>6, <1>7, <1>8, <1>9 DEF FirstLoad

\* A set ends when all of it is taken; one that is cut before agrirouter has sent it
\* is asked for again.
LEMMA SetEndsFirst ==
  ASSUME Types, FirstLoad, SetEnds \/ (DropSet /\ ~Loses)
  PROVE  FirstLoad'
<1>1. /\ pc = "take" /\ pc' = "status" /\ set.open
      /\ UNCHANGED <<router, stream, store, binding, pairs>>
  BY DEF SetEnds, SetOver, DropSet, receiver, bounds
<1>2. ~set'.open /\ set'.frames = <<>>
  BY DEF SetEnds, DropSet, Closed, Types, SetOK
<1>3. UNCHANGED <<history, changed, wiped, mapping, selected, routeSeq, load, connected, live,
                  position, row>>
  BY <1>1 DEF router, objects, selection, stream, store, tables
<1>4. load \in {"LOADING_FROM_AGRIROUTER", "RECONCILING"}
  BY <1>1 DEF FirstLoad, Phase
<1>5. set.frames = <<>> \/ load = "LOADING_FROM_AGRIROUTER"
  BY <1>1, <1>4, Names DEF SetEnds, SetOver, Loses, LoadState
<1>6. NotYet' /\ Phase' /\ Cut' /\ Named'
  BY <1>1, <1>2, <1>3, <1>4
     DEF FirstLoad, NotYet, Phase, Cut, Named, NamedOrComing, Bound
<1>7. Reached'
  <2>1. ASSUME NEW o \in Existing
        PROVE  (Shown(o) => Shown(o)') /\ (Coming(o) => Coming(o)')
    <3>1. (Shown(o) => Shown(o)') /\ (Due(o) => Due(o)')
      BY <1>1, <1>3, ShownStill, DueStays
    <3>2. SetToCome \/ InSet(o) => SetToCome'
      BY <1>1, <1>2, <1>3, <1>5 DEF SetToCome, InSet
    <3> QED
      BY <3>1, <3>2 DEF Coming
  <2> QED
    BY <1>3, <2>1, ReachedStill DEF FirstLoad
<1> QED
  BY <1>6, <1>7 DEF FirstLoad

LEMMA ReadBindingsFirst == ASSUME Types, FirstLoad, ReadBindings PROVE FirstLoad'
<1>1. /\ pc = "bind" /\ pc' = "confirm"
      /\ pairs' = {[local |-> l, object |-> row[l].object] : l \in {l \in LocalId : Bound(l)}}
      /\ UNCHANGED <<router, set, stream, store, binding>>
  BY DEF ReadBindings, receiver, bounds
<1>2. UNCHANGED <<history, changed, wiped, mapping, selected, routeSeq, load, connected, live,
                  position, row>>
  BY <1>1 DEF router, objects, selection, stream, store, tables
<1>3. NotYet' /\ Phase' /\ Cut'
  BY <1>1, <1>2 DEF FirstLoad, NotYet, Phase, Cut, Bound
<1>4. Named'
  <2>1. \A l \in LocalId : Bound(l) => PairOfRow(l)' \in pairs'
    BY <1>1, <1>2 DEF PairOfRow
  <2>2. \A l \in LocalId : Bound(l)' => Bound(l)
    BY <1>2 DEF Bound
  <2> QED
    BY <1>1, <1>2, <2>1, <2>2 DEF FirstLoad, Named, NamedOrComing, PairOfRow
<1>5. Reached'
  <2>1. ASSUME NEW o \in Existing
        PROVE  (Shown(o) => Shown(o)') /\ (Coming(o) => Coming(o)')
    BY <1>1, <1>2, ShownStill, DueStays, SetStays DEF Coming, SetToCome
  <2> QED
    BY <1>2, <2>1, ReachedStill DEF FirstLoad
<1> QED
  BY <1>3, <1>4, <1>5 DEF FirstLoad

\* What is confirmed is recorded, each pair, whether or not the answer arrives.
LEMMA ConfirmFirst ==
  ASSUME Types, IInv, Sides, Opening, FirstLoad,
         Confirm \/ LoseConfirmation
  PROVE  FirstLoad'
<1>1. /\ pc = "confirm"
      /\ UNCHANGED <<objects, selected, routeSeq, set, stream, store, binding>>
  BY DEF Confirm, LoseConfirmation, receiver, bounds
<1>2. UNCHANGED <<history, changed, wiped, connected, live, position, row>>
  BY <1>1 DEF objects, stream, store, tables
<1>3. selected
  BY <1>1, FirstFacts
<1>4. CASE ~Confirmable
  <2>1. pc' = "idle" /\ UNCHANGED <<load, mapping>>
    BY <1>4 DEF Confirm, LoseConfirmation
  <2> QED
    BY <1>1, <1>2, <1>3, <2>1, LoaderFirst
<1>5. CASE Confirmable
  <2>1. \A p \in pairs : p.local \in LocalId /\ Bound(p.local) /\ row[p.local].object = p.object
    BY <1>1 DEF Types, LoaderOK, Half, Sides, PairsAreHeld
  <2>2. Recorded = pairs
    BY <1>3, <2>1, HeldIsBindable DEF Recorded
  <2>3. /\ load' = "LOADING_TO_AGRIROUTER" /\ pc' \in {"list", "idle"}
        /\ mapping' = [l \in LocalId |->
                         IF \E p \in pairs : p.local = l
                         THEN (CHOOSE p \in pairs : p.local = l).object ELSE mapping[l]]
    BY <1>5, <2>2 DEF Confirm, LoseConfirmation, ConfirmedAtAgrirouter
  <2>4. \A l \in LocalId :
          /\ (\E p \in pairs : p.local = l) => mapping'[l] = row[l].object
          /\ ~(\E p \in pairs : p.local = l) => mapping'[l] = mapping[l]
    BY <2>1, <2>3
  <2>5. load \in {"RECONCILING", "LOADING_TO_AGRIROUTER"}
    BY <1>5 DEF Confirmable
  <2>6. Named'
    <3>1. ASSUME NEW l \in LocalId, Bound(l)' PROVE NamedOrComing(l)'
      <4>1. Bound(l)
        BY <1>2, <3>1 DEF Bound
      <4>2. mapping[l] = row[l].object \/ binding = PairOfRow(l) \/ PairOfRow(l) \in pairs
        BY <1>1, <2>5, <4>1 DEF FirstLoad, Named, NamedOrComing
      <4>3. PairOfRow(l).local = l
        BY DEF PairOfRow
      <4> QED
        BY <1>1, <1>2, <2>4, <4>2, <4>3 DEF NamedOrComing, PairOfRow
    <3> QED
      BY <3>1 DEF Named
  <2>7. NotYet' /\ Phase' /\ Cut'
    BY <1>1, <1>2, <1>3, <2>3 DEF FirstLoad, NotYet, Phase, Cut
  <2>8. Reached'
    <3>1. ASSUME NEW o \in Existing
          PROVE  (Shown(o) => Shown(o)') /\ (Coming(o) => Coming(o)')
      BY <1>1, <1>2, <2>5, ShownStill, DueStays, SetStays, Names DEF Coming, SetToCome, LoadState
    <3> QED
      BY <1>1, <1>2, <3>1, ReachedStill DEF FirstLoad
  <2> QED
    BY <2>6, <2>7, <2>8 DEF FirstLoad
<1> QED
  BY <1>4, <1>5

LEMMA LoadFirst ==
  ASSUME Types, Types', IInv, Sides, Said, Said', Opening, FirstLoad,
         Load
  PROVE  FirstLoad'
<1>1. CASE StartRun \/ ListPending \/ PushNext
  <2>1. /\ pc \in {"idle", "list", "push"} /\ pc' \in {"idle", "status", "push"}
        /\ UNCHANGED <<router, set, stream, store, binding>>
    BY <1>1 DEF StartRun, ListPending, PushNext, receiver, loader, bounds
  <2>2. UNCHANGED <<history, changed, wiped, mapping, selected, routeSeq, load, connected, live,
                    position, row>>
    BY <2>1 DEF router, objects, selection, stream, store, tables
  <2> QED
    BY <2>1, <2>2, LoaderFirst
<1>2. CASE Complete
  <2>1. /\ pc = "push" /\ pc' = "idle"
        /\ load' = load \/ (load = "LOADING_TO_AGRIROUTER" /\ load' = "COMPLETED")
        /\ UNCHANGED <<objects, mapping, selected, routeSeq, set, stream, store, binding>>
    BY <1>2 DEF Complete, receiver, bounds
  <2>2. UNCHANGED <<history, changed, wiped, connected, live, position, row>>
    BY <2>1 DEF objects, stream, store, tables
  <2> QED
    BY <2>1, <2>2, LoaderFirst
<1>3. CASE ReadStatus
  <2>1. /\ pc = "status" /\ UNCHANGED <<router, set, stream, store, binding, pairs>>
    BY <1>3 DEF ReadStatus, receiver, bounds
  <2>2. UNCHANGED <<history, changed, wiped, mapping, selected, routeSeq, load, connected, live,
                    position, row>>
    BY <2>1 DEF router, objects, selection, stream, store, tables
  <2>3. CASE pc' # "take"
    <3>1. pc' \in {"idle", "bind"}
      BY <1>3, <2>3, Names DEF ReadStatus, LoadState
    <3> QED
      BY <2>1, <2>2, <3>1, LoaderFirst
  <2>4. CASE pc' = "take"
    <3>1. load = "LOADING_FROM_AGRIROUTER" /\ load # None
      BY <1>3, <2>4, Names DEF ReadStatus, LoadState
    <3>2. ~set.open /\ selected
      BY <2>1, <3>1, FirstFacts DEF FirstLoad, Phase
    <3>3. NotYet' /\ Phase' /\ Cut' /\ Named'
      BY <2>1, <2>2, <2>4, <3>1, <3>2 DEF FirstLoad, NotYet, Phase, Cut, Named, NamedOrComing
    <3>4. Reached'
      BY <2>1, <2>2, <3>1, <3>2 DEF Reached, Coming, SetToCome
    <3> QED
      BY <3>3, <3>4 DEF FirstLoad
  <2> QED
    BY <2>3, <2>4
<1>4. ~DropRejected
  BY DEF DropRejected, Sides, PairsAreHeld
<1> QED
  BY <1>1, <1>2, <1>3, <1>4, OpenSetFirst, EntryFirst, SetEndsFirst, ReadBindingsFirst,
     ConfirmFirst DEF Load

\* What somebody asks for again is on the stream once more.
LEMMA RequestFirst ==
  ASSUME Types, Sides, Opening, FirstLoad, NEW o \in Object, Request(o)
  PROVE  FirstLoad'
<1>1. /\ selected /\ Publish(Rendered(o, history[o], changed[o]))
      /\ UNCHANGED <<router, set, connected, store, receiver, loader>>
  BY DEF Request
<1>2. UNCHANGED <<history, changed, wiped, mapping, selected, routeSeq, load, position, row, binding,
                  pc, pairs>>
  BY <1>1 DEF router, objects, selection, store, tables, receiver, loader
<1>3. NotYet'
  BY <1>1, <1>2 DEF NotYet
<1>4. Phase' /\ Cut' /\ Named'
  BY <1>1, <1>2
     DEF FirstLoad, Phase, Cut, Named, NamedOrComing, PairOfRow, Bound, Publish
<1>5. Reached'
  <2>1. ASSUME NEW q \in Existing, NEW f, f = Rendered(o, history[o], changed[o])
        PROVE  (Shown(q) => Shown(q)') /\ (Coming(q) => Coming(q)')
    BY <1>1, <1>2, <2>1, ShownStill, SetStays, DueAppended DEF Coming, SetToCome
  <2> QED
    BY <1>2, <2>1, ReachedStill DEF FirstLoad
<1> QED
  BY <1>3, <1>4, <1>5 DEF FirstLoad

\* Nothing that matters to the load changes.
LEMMA FirstStill ==
  ASSUME Types, FirstLoad,
         UNCHANGED <<history, changed, wiped, mapping, selected, routeSeq, load, connected, live,
                     position, row, binding, set, pc, pairs>>
  PROVE  FirstLoad'
<1>1. Reached'
  <2>1. ASSUME NEW o \in Existing
        PROVE  (Shown(o) => Shown(o)') /\ (Coming(o) => Coming(o)')
    BY ShownStill, DueStays, SetStays DEF Coming, SetToCome
  <2> QED
    BY <2>1, ReachedStill DEF FirstLoad
<1>2. NotYet' /\ Phase' /\ Cut' /\ Named'
  BY DEF FirstLoad, NotYet, Phase, Cut, Named, NamedOrComing, PairOfRow, Bound
<1> QED
  BY <1>1, <1>2 DEF FirstLoad

\* A connection given up, by itself or with the process, between the commit of a
\* record it created and its binding: nothing asks for the pair again.
Severs == (Disconnect \/ Replay \/ Crash) /\ binding # None

\* A connection that breaks, or a process that stops, at any other point.
LEMMA CutFirst ==
  ASSUME Types, Sides, Opening, FirstLoad,
         Disconnect \/ Replay \/ Crash, ~Severs, ~Loses
  PROVE  FirstLoad'
<1>1. /\ ~connected' /\ live' = <<>> /\ binding' = None /\ binding = None
      /\ UNCHANGED <<router, store>>
  BY DEF Disconnect, Replay, Crash, Drop, Severs
<1>2. UNCHANGED <<history, changed, wiped, mapping, selected, routeSeq, load, position, row>>
  BY <1>1 DEF router, objects, selection, store, tables
<1>3. \/ UNCHANGED <<set, pc, pairs>>
      \/ /\ Crash /\ pc' = "idle" /\ ~set'.open /\ set'.frames = <<>>
  BY DEF Disconnect, Replay, Crash, Closed, loader, Types, SetOK
<1>4. NotYet' /\ Cut'
  BY <1>1, <1>2, <1>3 DEF FirstLoad, NotYet, Cut, Bound
<1>5. Phase' /\ Named'
  BY <1>1, <1>2, <1>3 DEF FirstLoad, Phase, Named, NamedOrComing, PairOfRow, Bound
<1>6. Reached'
  <2>1. ASSUME NEW o \in Existing, selected
        PROVE  (Shown(o) => Shown(o)') /\ (Coming(o) => Coming(o)')
    <3>1. Shown(o) => Shown(o)'
      BY <1>2, ShownStill
    <3>2. Due(o) => Due(o)'
      BY <1>1, <1>2 DEF Due
    <3>3. CASE UNCHANGED <<set, pc, pairs>>
      BY <1>2, <3>1, <3>2, <3>3, SetStays DEF Coming, SetToCome
    <3>4. CASE Crash /\ ~set'.open /\ set'.frames = <<>>
      <4>1. set.frames # <<>> => load \in {None, "LOADING_FROM_AGRIROUTER"}
        BY <3>4 DEF Loses
      <4>2. InSet(o) => set.frames # <<>>
        BY DEF InSet
      <4>3. SetToCome \/ InSet(o) => SetToCome'
        BY <1>2, <3>4, <4>1, <4>2 DEF SetToCome
      <4> QED
        BY <3>1, <3>2, <4>3 DEF Coming
    <3> QED
      BY <1>3, <3>3, <3>4
  <2> QED
    BY <1>2, <2>1, ReachedStill DEF FirstLoad
<1> QED
  BY <1>4, <1>5, <1>6 DEF FirstLoad

LEMMA FaultsFirst ==
  ASSUME Types, IInv, Sides, Opening, FirstLoad,
         Faults \/ PressLoad \/ Replay, ~Loses, ~Severs
  PROVE  FirstLoad'
<1>1. CASE PressLoad
  <2>1. UNCHANGED <<history, changed, wiped, mapping, selected, routeSeq, load, connected, live,
                    position, row, binding, set, pc, pairs>>
    BY <1>1 DEF PressLoad, router, objects, selection, stream, store, tables, receiver, loader
  <2> QED
    BY <2>1, FirstStill
<1>2. ASSUME NEW c \in Caller, LoseCall(c) PROVE FirstLoad'
  <2>1. /\ Fail(c) /\ calls[c] # None
        /\ UNCHANGED <<router, set, stream, store, binding>>
    BY <1>2 DEF LoseCall, At, receiver
  <2>2. c = "load" /\ pc = "push"
    BY <2>1 DEF Sides, Quiet, PushIsFresh, Caller
  <2>3. UNCHANGED <<history, changed, wiped, mapping, selected, routeSeq, load, connected, live,
                    position, row>>
    BY <2>1 DEF router, objects, selection, stream, store, tables
  <2>4. pc' = "idle"
    BY <2>1, <2>2 DEF Fail
  <2> QED
    BY <2>1, <2>2, <2>3, <2>4, LoaderFirst
<1> QED
  BY <1>1, <1>2, CutFirst, SetEndsFirst, ConfirmFirst DEF Faults

LEMMA InitFirst == Init => moves \in Nat /\ Opening /\ FirstLoad
<1> SUFFICES ASSUME Init PROVE moves \in Nat /\ Opening /\ FirstLoad
  OBVIOUS
<1>1. /\ moves = 0 /\ ~selected /\ \A m \in Mover : moving[m] = Idle
      /\ routeSeq = 0 /\ route = None /\ routed = None /\ load = None /\ pc = "idle"
      /\ ~set.open /\ set.frames = <<>> /\ ~connected /\ live = <<>> /\ binding = None
      /\ \A l \in LocalId : row[l] = None
  BY DEF Init
<1>2. route # TRUE /\ routed # TRUE
  BY <1>1, Names
<1>3. \A i \in 1..Len(live) : FALSE
  BY <1>1
<1>4. Opening
  <2>1. \A m \in Mover : moving[m].at = "idle"
    BY <1>1 DEF Idle
  <2>2. Untold
    BY <1>1, <1>2, <1>3 DEF Untold
  <2>3. NothingMoves
    BY <1>1 DEF NothingMoves
  <2> QED
    BY <1>1, <2>1, <2>2, <2>3 DEF Opening
<1>5. FirstLoad
  BY <1>1, <1>3 DEF FirstLoad, NotYet, Phase, Cut, Reached, Named, Bound
<1> QED
  BY <1>1, <1>4, <1>5

\* Only the calls that move it, and a reset, touch the selection.
LEMMA NobodyMoves ==
  ASSUME [Next]_vars, ~ResetTenant, \A m \in Mover : ~Select(m) /\ ~Deselect(m) /\ ~Announce(m)
  PROVE  UNCHANGED <<moves, selected, moving, routeSeq>>
<1>1. CASE UNCHANGED vars
  BY <1>1 DEF vars, router, selection, bounds
<1>2. CASE SetWritten \/ Connect \/ Answer \/ StoreCreated \/ EndDelete
  BY <1>2 DEF SetWritten, Connect, Answer, StoreCreated, EndDelete, router, selection, bounds
<1>3. CASE Receive
  BY <1>3 DEF Receive, ReceiveObject, ReceiveRoute, ReceiveReset, ReceiveCaughtUp, Bind,
              Receiving, router, selection, bounds
<1>4. CASE Load
  BY <1>4 DEF Load, StartRun, ReadStatus, OpenSet, TakeFrame, SetEnds, ReadBindings, Confirm,
              DropRejected, ListPending, PushNext, Complete, router, selection, bounds
<1>5. CASE \E c \in Caller : Send(c)
  BY <1>5 DEF Send, SendRead, SendRefused, SendCreates, SendKept, SendRevised, SendApply, router,
              selection, bounds
<1>6. CASE \E o \in Object, n \in Name, active \in BOOLEAN : OtherWrite(o, n, active)
  BY <1>6 DEF OtherWrite, selection
<1>7. CASE PressLoad \/ Replay \/ (\E n \in Name : BeginCreate(n))
           \/ (\E l \in LocalId : ArchiveLocally(l) \/ BeginDelete(l))
           \/ \E o \in Object : Request(o)
  BY <1>7 DEF PressLoad, Replay, BeginCreate, ArchiveLocally, BeginDelete, Request, router, selection
<1>8. CASE Faults
  BY <1>8 DEF Faults, Disconnect, DropSet, LoseConfirmation, Crash, LoseCall, router, selection
<1> QED
  BY <1>1, <1>2, <1>3, <1>4, <1>5, <1>6, <1>7, <1>8 DEF Next, World, Person

\* Nobody is told of a selection before its call has numbered it.
LEMMA UntoldStill ==
  ASSUME Types, Sides, Opening, Unannounced, [Next]_vars, ~Rough,
         \A m \in Mover : ~Select(m) /\ ~Deselect(m) /\ ~Announce(m)
  PROVE  /\ UNCHANGED load /\ route' # TRUE /\ routed' # TRUE /\ pc' = "idle" /\ ~set'.open
         /\ \A i \in 1..Len(live') : live'[i].event # "route"
<1>1. Untold /\ resetSeq = 0 /\ calls["load"] = None /\ RouterOK
  <2>1. Untold
    BY DEF Opening
  <2> QED
    BY <2>1 DEF Untold, Sides, Quiet, PushIsFresh, Types
<1>2. /\ pc = "idle" /\ ~set.open /\ route # TRUE /\ routed # TRUE /\ routeSeq = 0
      /\ \A i \in 1..Len(live) : live[i].event # "route"
  BY <1>1 DEF Untold
<1>3. CASE UNCHANGED vars
  BY <1>2, <1>3 DEF vars, router, selection, stream, store, process, loader
<1>4. CASE Connect
  <2>1. UNCHANGED <<load, route, routed, pc, set>>
    BY <1>4 DEF Connect, router, selection, store, loader
  <2>2. PICK from \in Nat : \E order \in InOrder(Missed(from)) : live' = CatchUp(from, order)
    BY <1>4 DEF Connect, Types, StoreOK
  <2>3. PICK order \in InOrder(Missed(from)) : live' = CatchUp(from, order)
    BY <2>2
  <2>4. \A i \in 1..Len(CatchUp(from, order)) :
          LET f == CatchUp(from, order)[i] IN
          /\ f.event # "reset" /\ (f.event = "route" => routeSeq > 0)
          /\ f.event = "object" => f.object \in Existing /\ f.local = LocalName(f.object)
    BY <1>1, CaughtUpOf
  <2>5. \A i \in 1..Len(live') : live'[i].event = "route" => routeSeq > 0
    BY <2>3, <2>4
  <2>6. ~(routeSeq > 0)
    BY <1>2
  <2> QED
    BY <1>2, <2>1, <2>5, <2>6
<1>5. CASE Receive
  <2>1. ~ReceiveRoute /\ ~ReceiveReset
    <3>1. live # <<>> => Head(live) = live[1] /\ 1 \in 1..Len(live)
      BY HeadOf DEF Types
    <3> QED
      BY <1>2, <3>1 DEF ReceiveRoute, ReceiveReset, Receiving, Sides, FramesAgree
  <2>2. UNCHANGED <<load, route, routed, pc, set>>
    BY <1>5, <2>1 DEF Receive, ReceiveObject, ReceiveCaughtUp, Bind, Receiving, router, selection,
                      store, loader
  <2>3. UNCHANGED live \/ live' = <<>> \/ (live # <<>> /\ live' = Tail(live))
    BY <1>5, <2>1 DEF Receive, ReceiveObject, ReceiveCaughtUp, Bind, Receiving, Drop, stream
  <2> QED
    BY <1>2, <2>2, <2>3, LiveFewer
<1>6. CASE Load
  <2>1. StartRun
    BY <1>2, <1>6 DEF Load, ReadStatus, OpenSet, TakeFrame, SetEnds, ReadBindings, Confirm,
                      DropRejected, ListPending, PushNext, Complete
  <2> QED
    BY <1>2, <2>1 DEF StartRun, router, selection, stream, store
<1>7. CASE (\E o \in Object : Request(o))
           \/ \E o \in Object, n \in Name, active \in BOOLEAN : OtherWrite(o, n, active)
  <2>1. UNCHANGED <<load, route, routed, pc, set>>
    BY <1>7 DEF Request, OtherWrite, router, selection, store, process, loader
  <2>2. ASSUME NEW o, NEW revisions, NEW id, Publish(Rendered(o, revisions, id))
        PROVE  \A i \in 1..Len(live') : live'[i].event # "route"
    <3>1. Rendered(o, revisions, id).event # "route"
      BY DEF Rendered
    <3> QED
      BY <1>2, <2>2, <3>1, AppendedOf
  <2>3. ASSUME NEW o \in Object, Request(o) PROVE \A i \in 1..Len(live') : live'[i].event # "route"
    BY <2>2, <2>3 DEF Request
  <2>4. ASSUME NEW o \in Object, NEW n \in Name, NEW active \in BOOLEAN, OtherWrite(o, n, active)
        PROVE  \A i \in 1..Len(live') : live'[i].event # "route"
    <3>1. CASE selected
      BY <2>2, <2>4, <3>1 DEF OtherWrite
    <3>2. CASE ~selected
      BY <1>2, <2>4, <3>2 DEF OtherWrite
    <3> QED
      BY <3>1, <3>2
  <2> QED
    BY <1>2, <1>7, <2>1, <2>3, <2>4
<1>8. CASE PressLoad \/ Replay
  <2>1. UNCHANGED <<load, route, routed, pc, set>> /\ (UNCHANGED live \/ live' = <<>>)
    BY <1>8 DEF PressLoad, Replay, Drop, router, selection, stream, store, loader
  <2> QED
    BY <1>2, <2>1, LiveFewer
<1>9. CASE Faults
  <2>1. Disconnect \/ Crash
    BY <1>1, <1>2, <1>9 DEF Faults, DropSet, LoseConfirmation, LoseCall, At, Caller, Sides, Quiet
  <2>2. UNCHANGED <<load, route>> /\ live' = <<>> /\ pc' = "idle" /\ routed' # TRUE
    BY <1>2, <2>1, Names DEF Disconnect, Crash, Drop, router, selection, store, loader
  <2>3. ~set'.open
    BY <1>2, <2>1 DEF Disconnect, Crash, Closed, Types, SetOK
  <2> QED
    BY <1>2, <2>2, <2>3, LiveFewer
<1>10. ~SetWritten /\ ~Answer /\ ~\E c \in Caller : Send(c)
  BY <1>2, OnlyTheLoad DEF SetWritten, Answer
<1> QED
  BY <1>3, <1>4, <1>5, <1>6, <1>7, <1>8, <1>9, <1>10, SmoothNext

\* The calls themselves, as long as there is one.
LEMMA MovingOpening ==
  ASSUME Types, Opening, moves \in Nat, moves' <= 1,
         NEW m \in Mover, Select(m) \/ Deselect(m) \/ Announce(m)
  PROVE  Opening'
<1>1. /\ MovingOK /\ moving \in [Mover -> Moving]
      /\ UNCHANGED <<route, routed, pc, set>>
  BY DEF Types, RouterOK, MovingOK, Select, Deselect, Announce, StartLoad, DropLoad, NumberMove,
         PublishMove, store, process, loader
<1>2. Unannounced /\ UNCHANGED <<routeSeq, live>> /\ load' \in {None, "LOADING_FROM_AGRIROUTER"}
        => Untold'
  BY <1>1 DEF Opening, Untold
<1>3. CASE Select(m)
  <2>1. moves = 0 /\ moves' = 1
    BY <1>3 DEF Select, Moves
  <2>2. ~selected /\ selected' /\ NothingMoves /\ UNCHANGED <<routeSeq, load, live>> /\ load = None
    BY <1>3, <2>1 DEF Select, Opening, stream
  <2>3. moving'[m].at = "start" /\ \A k \in Mover : k # m => moving'[k] = Idle
    BY <1>1, <1>3, <2>2 DEF Select, Goes, NothingMoves
  <2>4. Untold'
    BY <1>2, <2>2 DEF Unannounced
  <2> QED
    BY <2>1, <2>2, <2>3, <2>4 DEF Opening, Idle
<1>4. CASE Deselect(m)
  <2>1. moves = 0 /\ moves' = 1
    BY <1>4 DEF Deselect, Moves
  <2>2. ~selected /\ ~selected' /\ NothingMoves /\ UNCHANGED <<routeSeq, load, live>> /\ load = None
    BY <1>4, <2>1 DEF Deselect, Opening, stream
  <2>3. moving'[m].at = "drop" /\ \A k \in Mover : k # m => moving'[k] = Idle
    BY <1>1, <1>4, <2>2 DEF Deselect, Goes, NothingMoves
  <2>4. Untold'
    BY <1>2, <2>2 DEF Unannounced
  <2> QED
    BY <2>1, <2>2, <2>3, <2>4 DEF Opening, Idle
<1>5. CASE Announce(m)
  <2>1. moving[m].at # "idle"
    BY <1>5 DEF Announce, StartLoad, DropLoad, NumberMove, PublishMove
  <2>2. \A k \in Mover : k # m => moving[k] = Idle
    BY <2>1 DEF Opening, Idle
  <2>3. moves # 0 /\ UNCHANGED <<moves, selected>>
    BY <1>5, <2>1 DEF Opening, NothingMoves, Idle, Announce, StartLoad, DropLoad, NumberMove,
                      PublishMove, bounds
  <2>4. CASE StartLoad(m)
    <3>1. /\ moving[m].at = "start" /\ load' = "LOADING_FROM_AGRIROUTER"
          /\ UNCHANGED <<routeSeq, live>>
      BY <2>4 DEF StartLoad, stream
    <3>2. selected /\ Unannounced
      BY <3>1 DEF Opening, Unannounced
    <3>3. moving'[m].at = "number" /\ \A k \in Mover : k # m => moving'[k] = Idle
      BY <1>1, <2>2, <2>4 DEF StartLoad, Goes
    <3>4. Untold'
      BY <1>2, <3>1, <3>2
    <3> QED
      BY <2>3, <3>2, <3>3, <3>4 DEF Opening, Idle
  <2>5. CASE DropLoad(m)
    <3>1. moving[m].at \in {"withdraw", "drop"} /\ load' = None /\ UNCHANGED <<routeSeq, live>>
      BY <2>5 DEF DropLoad, stream
    <3>2. ~selected /\ Unannounced /\ moving[m].at = "drop"
      BY <3>1 DEF Opening, Unannounced
    <3>3. moving'[m].at = "idle" /\ \A k \in Mover : k # m => moving'[k] = Idle
      BY <1>1, <2>2, <2>5, <3>2 DEF DropLoad, Goes
    <3>4. Untold'
      BY <1>2, <3>1, <3>2
    <3> QED
      BY <2>3, <3>1, <3>2, <3>3, <3>4 DEF Opening, Idle
  <2>6. CASE NumberMove(m) \/ PublishMove(m)
    <3>1. moving[m].at \in {"number", "publish"} /\ UNCHANGED load
      BY <2>6 DEF NumberMove, PublishMove
    <3>2. selected
      BY <3>1 DEF Opening
    <3>3. /\ moving'[m].at \in {"idle", "publish"}
          /\ \A k \in Mover : k # m => moving'[k] = Idle
      BY <1>1, <2>2, <2>6 DEF NumberMove, PublishMove, Goes
    <3>4. ~Unannounced'
      BY <2>3, <3>2, <3>3 DEF Unannounced, Idle
    <3> QED
      BY <2>3, <3>2, <3>3, <3>4 DEF Opening, Idle
  <2> QED
    BY <1>5, <2>4, <2>5, <2>6 DEF Announce
<1> QED
  BY <1>3, <1>4, <1>5

LEMMA StepOpening ==
  ASSUME Types, Sides, moves \in Nat, moves <= 1 => Opening, [Next]_vars, [~Rough]_vars, moves' <= 1
  PROVE  Opening'
<1>1. CASE \E m \in Mover : Select(m) \/ Deselect(m) \/ Announce(m)
  <2>1. PICK m \in Mover : Select(m) \/ Deselect(m) \/ Announce(m)
    BY <1>1
  <2>2. moves <= moves'
    BY <2>1 DEF Select, Deselect, Moves, Announce, StartLoad, DropLoad, NumberMove, PublishMove,
                bounds
  <2>3. moves <= 1
    BY <2>2, <2>1 DEF Select, Deselect, Moves, Announce, StartLoad, DropLoad, NumberMove,
                      PublishMove, bounds
  <2> QED
    BY <2>1, <2>3, MovingOpening
<1>2. CASE ~\E m \in Mover : Select(m) \/ Deselect(m) \/ Announce(m)
  <2>1. ~Rough \/ UNCHANGED vars
    OBVIOUS
  <2>2. UNCHANGED <<moves, selected, moving, routeSeq>>
    <3>1. ~Rough => ~ResetTenant
      BY DEF Rough, Intervenes
    <3>2. CASE UNCHANGED vars
      BY <3>2 DEF vars, router, selection, bounds
    <3> QED
      BY <1>2, <2>1, <3>1, <3>2, NobodyMoves
  <2>3. Opening /\ (Unannounced' <=> Unannounced)
    BY <2>2 DEF Unannounced
  <2>4. Unannounced => UNCHANGED load /\ Untold'
    <3>1. CASE ~Rough
      BY <1>2, <2>2, <2>3, <3>1, UntoldStill DEF Opening, Untold
    <3>2. CASE UNCHANGED vars
      BY <2>3, <3>2 DEF Opening, Untold, vars, router, selection, stream, store, process, loader
    <3> QED
      BY <2>1, <3>1, <3>2
  <2> QED
    BY <2>2, <2>3, <2>4 DEF Opening, NothingMoves, Unannounced
<1> QED
  BY <1>1, <1>2

LEMMA StepFirst ==
  ASSUME Types, Types', IInv, Sides, Said, Said', moves \in Nat,
         moves <= 1 => Opening /\ FirstLoad, [Next]_vars, [~Rough /\ ~Severs]_vars, moves' <= 1
  PROVE  FirstLoad'
<1>1. CASE \E m \in Mover : Select(m) \/ Deselect(m) \/ Announce(m)
  <2>1. PICK m \in Mover : Select(m) \/ Deselect(m) \/ Announce(m)
    BY <1>1
  <2>2. moves' = moves + 1 \/ moves' = moves
    BY <2>1 DEF Select, Deselect, Moves, Announce, StartLoad, DropLoad, NumberMove, PublishMove,
                bounds
  <2> QED
    BY <2>1, <2>2, MovingFirst
<1>2. CASE ~\E m \in Mover : Select(m) \/ Deselect(m) \/ Announce(m)
  <2>1. (~Rough /\ ~Severs) \/ UNCHANGED vars
    OBVIOUS
  <2>2. UNCHANGED moves
    <3>1. ~Rough => ~ResetTenant
      BY DEF Rough, Intervenes
    <3>2. CASE UNCHANGED vars
      BY <3>2 DEF vars, bounds
    <3> QED
      BY <1>2, <2>1, <3>1, <3>2, NobodyMoves
  <2>3. Opening /\ FirstLoad
    BY <2>2
  <2>4. CASE UNCHANGED vars
    <3>1. UNCHANGED <<history, changed, wiped, mapping, selected, routeSeq, load, connected, live,
                      position, row, binding, set, pc, pairs>>
      BY <2>4 DEF vars, router, objects, selection, stream, store, tables, process, receiver,
                  loader
    <3> QED
      BY <2>3, <3>1, FirstStill
  <2>5. CASE SetWritten \/ Connect
    BY <2>3, <2>5, SetWrittenFirst, ConnectFirst
  <2>6. CASE Receive
    BY <2>3, <2>6, ReceiveFirst
  <2>7. CASE Load \/ Answer
    BY <2>3, <2>7, LoadFirst, EntryFirst
  <2>8. CASE \E c \in Caller : Send(c)
    BY <2>3, <2>8, SendFirst
  <2>9. CASE (\E o \in Object, n \in Name, active \in BOOLEAN : OtherWrite(o, n, active))
             \/ \E o \in Object : Request(o)
    BY <2>3, <2>9, OtherWriteFirst, RequestFirst
  <2>10. CASE ((Faults /\ ~Loses) \/ PressLoad \/ Replay) /\ ~Rough /\ ~Severs
    BY <2>3, <2>10, FaultsFirst DEF Rough
  <2> QED
    BY <1>2, <2>1, <2>4, <2>5, <2>6, <2>7, <2>8, <2>9, <2>10, SmoothNext
<1> QED
  BY <1>1, <1>2

\* Everything agrirouter has is with the platform, or on its way there.
Delivering == moves \in Nat /\ Said /\ (moves <= 1 => Opening /\ FirstLoad)

LEMMA MovesCounted == ASSUME moves \in Nat, [Next]_vars PROVE moves' \in Nat /\ moves <= moves'
<1>1. \A m \in Mover : Select(m) \/ Deselect(m) => moves' = moves + 1
  BY DEF Select, Deselect, Moves
<1>2. \A m \in Mover : Announce(m) => moves' = moves
  BY DEF Announce, StartLoad, DropLoad, NumberMove, PublishMove, bounds
<1>3. ResetTenant => moves' = moves
  BY DEF ResetTenant
<1> QED
  BY <1>1, <1>2, <1>3, NobodyMoves

LEMMA StepDelivering ==
  ASSUME Types, Types', IInv, Smooth, Delivering, [Next]_vars, [~Rough /\ ~Severs]_vars
  PROVE  Delivering'
<1>1. [~Rough]_vars /\ Sides
  BY DEF Smooth
<1>2. moves' \in Nat
  BY MovesCounted DEF Delivering
<1>3. Said'
  BY <1>1, StepSaid DEF Delivering
<1>4. moves' <= 1 => Opening' /\ FirstLoad'
  BY <1>1, <1>3, StepOpening, StepFirst DEF Delivering
<1> QED
  BY <1>2, <1>3, <1>4 DEF Delivering

\* While it is alone, the call withdraws nothing: a confirmation finds it numbered.
LEMMA NothingWithdrawn ==
  ASSUME Opening, FirstLoad, ~withdrawn, [Next]_vars
  PROVE  ~Refuses
BY FirstFacts DEF Refuses, Confirm, LoseConfirmation

LEMMA UneventfulIsWhole == ASSUME CountsOK, Uneventful' PROVE [~Rough /\ ~Severs]_vars
<1>1. Severs => faults' = faults + 1 \/ requests' = requests + 1
  BY DEF Severs, Disconnect, Crash, Fault, Replay
<1>2. ~Severs
  BY <1>1 DEF CountsOK, Undisturbed, Uneventful
<1> QED
  BY <1>2, UneventfulIsSmooth

HeldInv ==
  /\ moves \in Nat /\ (Uneventful => Delivering)
  /\ Undisturbed /\ moves <= 1 => ~withdrawn

LEMMA AlwaysHeld == Spec => []HeldInv
<1>1. Init => HeldInv
  BY InitSaid, InitFirst DEF HeldInv, Delivering, Init
<1>2. HeldInv /\ UneventfulInv /\ Types /\ Types' /\ IInv /\ [Next]_vars => HeldInv'
  <2> SUFFICES ASSUME HeldInv, UneventfulInv, Types, Types', IInv, [Next]_vars PROVE HeldInv'
    OBVIOUS
  <2>1. moves' \in Nat /\ moves <= moves'
    BY MovesCounted DEF HeldInv
  <2>2. CountsOK /\ (Undisturbed' => Undisturbed) /\ (Uneventful' => Uneventful)
    BY Counted, Withdrawing DEF UneventfulInv, Uneventful
  <2>3. ASSUME Uneventful' PROVE Delivering'
    <3>1. [~Rough /\ ~Severs]_vars
      BY <2>2, <2>3, UneventfulIsWhole
    <3> QED
      BY <2>2, <2>3, <3>1, StepDelivering DEF HeldInv, UneventfulInv
  <2>4. ASSUME Undisturbed', moves' <= 1 PROVE ~withdrawn'
    <3>1. Undisturbed /\ moves <= 1
      BY <2>1, <2>2, <2>4 DEF HeldInv
    <3>2. ~withdrawn /\ Opening /\ FirstLoad
      BY <3>1 DEF HeldInv, Uneventful, Delivering
    <3> QED
      BY <3>2, NothingWithdrawn, Withdrawing
  <2> QED
    BY <2>1, <2>3, <2>4 DEF HeldInv
<1> QED
  BY <1>1, <1>2, AlwaysTyped, Invariance, AlwaysAgreed, PTL DEF Spec

LEMMA AlwaysDelivering == Spec /\ [][~Rough /\ ~Severs]_vars => []Delivering
<1>1. Types /\ Types' /\ IInv /\ Smooth /\ Delivering /\ [Next]_vars /\ [~Rough /\ ~Severs]_vars
        => Delivering'
  BY StepDelivering
<1>2. Init => Delivering
  BY InitSaid, InitFirst DEF Delivering
<1>3. [~Rough /\ ~Severs]_vars => [~Rough]_vars
  OBVIOUS
<1> QED
  BY <1>1, <1>2, <1>3, AlwaysTyped, Invariance, AlwaysSmooth, PTL DEF Spec

LEMMA DeliveredIsHeld ==
  ASSUME Types, Smooth, Delivering, moves <= 1
  PROVE  HoldsWhatIsThere
<1> SUFFICES ASSUME AtRest, load = "COMPLETED", NEW o \in Existing, Alive(o)
             PROVE  \E l \in Holders(o) : row[l].revision = Len(history[o]) /\ mapping[l] = o
  BY DEF HoldsWhatIsThere, Alive
<1>1. Opening /\ FirstLoad /\ load # None
  BY Names DEF Delivering, LoadState
<1>2. selected
  BY <1>1, FirstFacts
<1>3. set.frames = <<>>
  BY <1>1 DEF FirstLoad, Phase, AtRest
<1>4. ~Coming(o)
  BY <1>1, <1>3 DEF FirstLoad, Phase, Coming, Due, InStream, SetToCome, InSet, AtRest
<1>5. PICK l \in LocalId : Bound(l) /\ row[l].object = o /\ row[l].revision = Len(history[o])
  BY <1>1, <1>2, <1>4 DEF FirstLoad, Reached, Shown, Holders
<1>6. binding # PairOfRow(l)
  <2>1. PairOfRow(l) \in Half
    BY <1>5, RowOf DEF PairOfRow, Half
  <2> QED
    BY <2>1, ParticipantAssumption DEF AtRest
<1>7. mapping[l] = o
  BY <1>1, <1>5, <1>6 DEF FirstLoad, Named, NamedOrComing
<1> QED
  BY <1>5, <1>7 DEF Holders

\* While nothing breaks, nobody wipes the tenant and the person does no more than
\* answer, a participant for which one call has moved the selection holds, at rest
\* after a completed load, every object as it stands, under the name agrirouter has for
\* it, however the regions of that call, the set, the stream, other endpoints' writes
\* and the person's answers interleave: a change that falls between the opting in and
\* its number comes with the set. The set and the stream together lose nothing
\* (Loader.takeCanonicalSet, Router.beginInitialLoad, Router.catchUp, Receiver.consume).
THEOREM HoldsAfterOneLoad == Spec => []((Undisturbed /\ moves <= 1) => HoldsWhatIsThere)
<1>1. HeldInv /\ UneventfulInv /\ Types => ((Undisturbed /\ moves <= 1) => HoldsWhatIsThere)
  BY DeliveredIsHeld DEF HeldInv, UneventfulInv, Uneventful
<1> QED
  BY <1>1, AlwaysHeld, AlwaysAgreed, AlwaysTyped, PTL

\* The same holds through broken and replayed connections, restarts, sets cut before
\* agrirouter has sent them, lost confirmations and whatever is asked for again, as
\* long as no step is rough and no connection is given up with a pair to bind: the
\* position never passes what is not applied, and a catch-up is in the order of the
\* changes (Receiver.consume, Router.catchUp).
THEOREM HoldsThroughFaults ==
  Spec /\ [][~Rough /\ ~Severs]_vars => [](moves <= 1 => HoldsWhatIsThere)
<1>1. Types /\ Smooth /\ Delivering => (moves <= 1 => HoldsWhatIsThere)
  BY DeliveredIsHeld
<1>2. [~Rough /\ ~Severs]_vars => [~Rough]_vars
  OBVIOUS
<1> QED
  BY <1>1, <1>2, AlwaysDelivering, AlwaysSmooth, AlwaysTyped, PTL

=============================================================================
