------------------------------ MODULE Siblings ------------------------------
(***************************************************************************)
(* One application with several endpoints in one agrirouter tenant and one *)
(* store behind them: each endpoint has pairs of its own, all of them name *)
(* the same records, one stream carries every endpoint's frames, and each  *)
(* endpoint's user sends and corrects while the stream is applied.         *)
(*                                                                         *)
(* A database transaction is one step and a call to agrirouter another.    *)
(* Content is the number of the edit it came from, so what was written     *)
(* over what can be told. The endpoints stay opted into the one entity     *)
(* type there is; activity, deletion and the initial load are              *)
(* Participant's.                                                          *)
(***************************************************************************)
EXTENDS Integers, Sequences, FiniteSets, SequencesExt, FiniteSetsExt

CONSTANTS
  Endpoints,       \* the application's endpoints, in the order agrirouter fans out
  Shared,          \* number of objects agrirouter holds to begin with
  MaxObjects,      \* bound: canonical objects there can be
  MaxRecords,      \* bound: local identifiers there can be
  MaxRevision,     \* bound: revisions of an object
  MaxOthers,       \* bound: writes of other participants
  MaxAdded,        \* bound: records users add
  MaxEdits,        \* bound: edits of records
  MaxSends,        \* bound: records users send
  MaxCorrections,  \* bound: corrections users make
  MaxFaults,       \* bound: broken connections and restarts
  None, Other

Endpoint == {Endpoints[i] : i \in DOMAIN Endpoints}
Object == 1..MaxObjects
LocalId == 1..MaxRecords

Pair == [object : Object, revision : 0..MaxRevision]
Owed == [to : Endpoint, local : LocalId, object : Object]
Sending ==
  [step : {"read", "sibling", "bind", "pair", "put"}, local : LocalId,
   content : Nat \cup {None}, object : Object \cup {None}, base : 0..MaxRevision]
Answered ==
  [step : {"apply"},
   frame : [to : Endpoint, object : Object, revision : 1..MaxRevision, content : Nat,
            local : LocalId]]

ASSUME SiblingsAssumption ==
  /\ Endpoints \in Seq(Endpoint) /\ Len(Endpoints) = Cardinality(Endpoint)
  /\ Other \notin Endpoint
  /\ {Shared, MaxObjects, MaxRecords, MaxRevision, MaxOthers, MaxAdded, MaxEdits, MaxSends,
      MaxCorrections, MaxFaults} \subseteq Nat
  /\ Shared <= MaxObjects /\ MaxRevision > 0
  /\ None \notin Nat /\ None \notin Pair /\ None \notin Owed /\ None \notin Sending
  /\ None \notin Answered

VARIABLES
  \* agrirouter
  history,    \* revisions of each object: content and the endpoint it came from
  changed,    \* number of each object's latest change
  seq,        \* number of the latest change
  mapping,    \* the object each endpoint's local id names, or None
  \* the stream
  connected, live,
  \* the store
  content,    \* each record's content, or None
  row,        \* each endpoint's pair for each record, or None
  position,   \* where the stream resumes
  \* the process
  minted,     \* the local id given out last
  binding,    \* the pair the receive loop is about to bind, or None
  calls,      \* what each endpoint's user is doing one step at a time, or None
  \* bounds
  edited,     \* number of the latest edit, whoever made it
  others, added, edits, sends, corrections, faults

objects == <<history, changed, seq>>
router == <<objects, mapping>>
stream == <<connected, live>>
store == <<content, row, position>>
process == <<minted, binding, calls>>
bounds == <<edited, others, added, edits, sends, corrections, faults>>
vars == <<router, stream, store, process, bounds>>

----------------------------------------------------------------------------
(* agrirouter *)

Existing == {o \in Object : history[o] # <<>>}
Unused == Object \ Existing
Current(o) == Last(history[o])

LocalName(e, o) ==
  LET names == {l \in LocalId : mapping[e][l] = o} IN
  IF names = {} THEN None ELSE CHOOSE l \in names : TRUE

\* An object as endpoint e is shown it.
Frame(e, o, revisions, id) ==
  [event |-> "object", to |-> e, object |-> o, revision |-> Len(revisions),
   content |-> Last(revisions).content, local |-> LocalName(e, o), id |-> id]

\* Who is told of an object: the endpoints but the origin of its revision.
Told(o, by) == {o} \X {i \in DOMAIN Endpoints : Endpoints[i] # by}

\* Objects in the order of their latest change, each to one endpoint after
\* the other, which is one way only.
InOrder(told) ==
  {order \in Bijection(1..Cardinality(told), told) :
     \A i, j \in 1..Cardinality(told) : i < j =>
       \/ changed[order[i][1]] < changed[order[j][1]]
       \/ order[i][1] = order[j][1] /\ order[i][2] < order[j][2]}

\* One frame for each endpoint told of o, all at the object's position.
FannedOut(order, revisions, id) ==
  [i \in DOMAIN order |-> Frame(Endpoints[order[i][2]], order[i][1], revisions, id)]

Publish(frames) == live' = IF connected THEN live \o frames ELSE live

\* Variant the runs must reject: the frame's position is already the next one.
CaughtUpAhead(id) == [event |-> "caughtUp", id |-> id + 1]

CaughtUp(id) == [event |-> "caughtUp", id |-> id]

Missed(from) == UNION {Told(o, Current(o).by) : o \in {o \in Existing : changed[o] > from}}

\* What a connection is sent first, in this order.
CatchUp(order) ==
  [i \in DOMAIN order |->
     LET o == order[i][1] IN Frame(Endpoints[order[i][2]], o, history[o], changed[o])]
  \o <<CaughtUp(seq)>>

\* A new revision of o is recorded and announced.
Revise(o, rev) ==
  /\ Len(history[o]) < MaxRevision
  /\ history' = [history EXCEPT ![o] = Append(@, rev)]
  /\ changed' = [changed EXCEPT ![o] = seq + 1]
  /\ seq' = seq + 1
  /\ \E order \in InOrder(Told(o, rev.by)) :
       Publish(FannedOut(order, Append(history[o], rev), seq + 1))

Edit == edited' = edited + 1

\* Another participant changes an object or creates one.
OtherWrite(o) ==
  /\ others < MaxOthers
  /\ others' = others + 1
  /\ o \in Existing \/ (Unused # {} /\ o = Min(Unused))
  /\ Edit
  /\ Revise(o, [content |-> edited + 1, by |-> Other])
  /\ UNCHANGED <<mapping, connected, store, process, added, edits, sends, corrections, faults>>

Bindable(e, l, o) == mapping[e][l] \in {None, o} /\ LocalName(e, o) \in {None, l}

----------------------------------------------------------------------------
(* The store *)

Bound(e, l) == row[e][l] # None
Holders(e, o) == {l \in LocalId : Bound(e, l) /\ row[e][l].object = o}

\* Variant the runs must reject: only the endpoint's own pairs are looked at.
NoSiblings(e, o) == {}

\* Records another of the endpoints has bound to o.
SiblingHolders(e, o) == UNION {Holders(d, o) : d \in Endpoint \ {e}}

\* Which record a delivered object is: by the endpoint's own pair, else by the
\* local id in the frame, else by a sibling's pair.
RecordOf(f) ==
  LET own == Holders(f.to, f.object)
      siblings == SiblingHolders(f.to, f.object)
  IN IF own # {} THEN CHOOSE l \in own : TRUE
     ELSE IF f.local # None THEN f.local
     ELSE IF siblings # {} THEN CHOOSE l \in siblings : TRUE
     ELSE None

\* Variant the runs must reject: a pair taken over from a sibling stays local.
NeverJoined(f) == FALSE

Joined(f) == Holders(f.to, f.object) = {} /\ f.local = None /\ RecordOf(f) # None

Superseded(l, f) == Bound(f.to, l) /\ f.revision < row[f.to][l].revision

Write(l, f) ==
  /\ content' = [content EXCEPT ![l] = f.content]
  /\ row' = [row EXCEPT ![f.to][l] = [object |-> f.object, revision |-> f.revision]]

\* Variant the runs must reject: an older revision is applied too.
AppliedOver(f) ==
  IF RecordOf(f) # None
  THEN Write(RecordOf(f), f) /\ UNCHANGED minted
  ELSE /\ minted < MaxRecords
       /\ minted' = minted + 1
       /\ Write(minted + 1, f)

Apply(f) ==
  IF RecordOf(f) # None
  THEN /\ IF Superseded(RecordOf(f), f) THEN UNCHANGED <<content, row>> ELSE Write(RecordOf(f), f)
       /\ UNCHANGED minted
  ELSE /\ minted < MaxRecords
       /\ minted' = minted + 1
       /\ Write(minted + 1, f)

----------------------------------------------------------------------------
(* The receive loop *)

Drop == connected' = FALSE /\ live' = <<>>

Connect ==
  /\ ~connected
  /\ connected' = TRUE
  /\ \E order \in InOrder(Missed(position)) : live' = CatchUp(order)
  /\ UNCHANGED <<router, store, process, bounds>>

Receiving(event) ==
  /\ binding = None
  /\ live # <<>> /\ Head(live).event = event
  /\ live' = Tail(live)
  /\ position' = Head(live).id
  /\ UNCHANGED <<router, connected, calls, bounds>>

ReceiveObject ==
  /\ Receiving("object")
  /\ LET f == Head(live)
         l == RecordOf(f)
     IN
     /\ Apply(f)
     /\ binding' =
          CASE l = None -> [to |-> f.to, local |-> minted + 1, object |-> f.object]
            [] Joined(f) /\ ~Superseded(l, f) -> [to |-> f.to, local |-> l, object |-> f.object]
            [] OTHER -> None

ReceiveCaughtUp ==
  /\ Receiving("caughtUp")
  /\ UNCHANGED <<content, row, minted, binding>>

Bind ==
  /\ binding # None
  /\ binding' = None
  /\ IF Bindable(binding.to, binding.local, binding.object)
     THEN /\ mapping' = [mapping EXCEPT ![binding.to][binding.local] = binding.object]
          /\ UNCHANGED stream
     ELSE Drop /\ UNCHANGED mapping
  /\ UNCHANGED <<objects, store, minted, calls, bounds>>

----------------------------------------------------------------------------
(* Sending *)

Step(e, k) == calls' = [calls EXCEPT ![e] = k]
End(e) == Step(e, None)
At(e, step) == calls[e] # None /\ calls[e].step = step
Reached(k, step) == [k EXCEPT !.step = step]

BeginSend(e, l) ==
  /\ calls[e] = None /\ content[l] # None
  /\ sends < MaxSends
  /\ sends' = sends + 1
  /\ Step(e, [step |-> "read", local |-> l, content |-> None, object |-> None, base |-> 0])
  /\ UNCHANGED <<router, stream, store, minted, binding, edited, others, added, edits,
                 corrections, faults>>

\* The record is read once, with the endpoint's own pair.
SendRead(e) ==
  /\ At(e, "read")
  /\ LET l == calls[e].local
         k == [calls[e] EXCEPT !.content = content[l]]
     IN Step(e, IF Bound(e, l)
                THEN [k EXCEPT !.step = "put", !.object = row[e][l].object,
                               !.base = row[e][l].revision]
                ELSE Reached(k, "sibling"))
  /\ UNCHANGED <<router, stream, store, minted, binding, bounds>>

\* Variant the runs must reject: a record the endpoint has not bound is sent as it is.
SiblingIgnored(e) ==
  /\ At(e, "sibling")
  /\ Step(e, Reached(calls[e], "put"))
  /\ UNCHANGED <<router, stream, store, minted, binding, bounds>>

\* A record the endpoint has not bound may be an object through a sibling.
SiblingRead(e) ==
  /\ At(e, "sibling")
  /\ LET l == calls[e].local
         bound == {d \in Endpoint \ {e} : Bound(d, l)}
     IN Step(e, IF bound = {}
                THEN Reached(calls[e], "put")
                ELSE LET pair == row[CHOOSE d \in bound : TRUE][l] IN
                     [calls[e] EXCEPT !.step = "bind", !.object = pair.object,
                                      !.base = pair.revision])
  /\ UNCHANGED <<router, stream, store, minted, binding, bounds>>

SiblingBind(e) ==
  /\ At(e, "bind")
  /\ LET k == calls[e] IN
     IF Bindable(e, k.local, k.object)
     THEN /\ mapping' = [mapping EXCEPT ![e][k.local] = k.object]
          /\ Step(e, Reached(k, "pair"))
     ELSE End(e) /\ UNCHANGED mapping
  /\ UNCHANGED <<objects, stream, store, minted, binding, bounds>>

\* The unique index refuses a second record for one object.
SiblingStore(e) ==
  /\ At(e, "pair")
  /\ LET k == calls[e] IN
     IF Holders(e, k.object) \subseteq {k.local}
     THEN /\ row' = [row EXCEPT ![e][k.local] = [object |-> k.object, revision |-> k.base]]
          /\ Step(e, Reached(k, "put"))
     ELSE End(e) /\ UNCHANGED row
  /\ UNCHANGED <<router, stream, content, position, minted, binding, bounds>>

\* The object the write resolves to at agrirouter, which is not asked which
\* object it was meant for.
Target(e) == mapping[e][calls[e].local]

Differs(k, o) == k.content # Current(o).content

\* What the object held at the base decides who changed it.
Conflicts(k, o) ==
  LET at == history[o][k.base].content IN
  k.content # at /\ Current(o).content # at

KeptByMerge(k, o) == k.content = history[o][k.base].content

PutRefused(e) ==
  LET k == calls[e]
      o == Target(e)
  IN \/ o = None /\ k.base # 0
     \/ /\ o # None /\ Differs(k, o)
        /\ k.base \in 1..Len(history[o]) => Conflicts(k, o)

SendRefused(e) ==
  /\ At(e, "put") /\ PutRefused(e)
  /\ End(e)
  /\ UNCHANGED <<router, stream, store, minted, binding, bounds>>

Answer(e, o, revision, c) ==
  Step(e, [step |-> "apply",
           frame |-> [to |-> e, object |-> o, revision |-> revision, content |-> c,
                      local |-> calls[e].local]])

SendCreates(e) ==
  /\ At(e, "put") /\ ~PutRefused(e) /\ Target(e) = None
  /\ Unused # {}
  /\ LET o == Min(Unused) IN
     /\ Revise(o, [content |-> calls[e].content, by |-> e])
     /\ mapping' = [mapping EXCEPT ![e][calls[e].local] = o]
     /\ Answer(e, o, 1, calls[e].content)
  /\ UNCHANGED <<connected, store, minted, binding, bounds>>

Accepted(e) == At(e, "put") /\ ~PutRefused(e) /\ Target(e) # None

Keeps(e) == Differs(calls[e], Target(e)) => KeptByMerge(calls[e], Target(e))

SendKept(e) ==
  /\ Accepted(e) /\ Keeps(e)
  /\ Answer(e, Target(e), Len(history[Target(e)]), Current(Target(e)).content)
  /\ UNCHANGED <<router, stream, store, minted, binding, bounds>>

SendRevises(e) ==
  /\ Accepted(e) /\ ~Keeps(e)
  /\ Revise(Target(e), [content |-> calls[e].content, by |-> e])
  /\ Answer(e, Target(e), Len(history[Target(e)]) + 1, calls[e].content)
  /\ UNCHANGED <<mapping, connected, store, minted, binding, bounds>>

SendApply(e) ==
  /\ At(e, "apply")
  /\ Apply(calls[e].frame)
  /\ End(e)
  /\ UNCHANGED <<router, stream, position, binding, bounds>>

----------------------------------------------------------------------------
(* Correcting *)

\* The objects a user says their records are: entries is a function from local
\* ids to objects, or None for a record that matched nothing.
Entries ==
  UNION {[ids -> Existing \cup {None}] : ids \in SUBSET LocalId \ {{}}}

BeginCorrection(e, entries) ==
  /\ calls[e] = None
  /\ \A l \in DOMAIN entries : content[l] # None
  /\ corrections < MaxCorrections
  /\ corrections' = corrections + 1
  /\ Step(e, [step |-> "correct", entries |-> entries])
  /\ UNCHANGED <<router, stream, store, minted, binding, edited, others, added, edits, sends,
                 faults>>

\* An object named twice, or held by an id that is not listed, is refused.
CorrectionRefused(e, entries) ==
  \/ \E l, k \in DOMAIN entries : l # k /\ entries[l] = entries[k] /\ entries[l] # None
  \/ \E l \in DOMAIN entries :
       entries[l] # None /\ LocalName(e, entries[l]) \notin DOMAIN entries \cup {None}

CorrectAtAgrirouter(e) ==
  /\ At(e, "correct")
  /\ LET k == calls[e] IN
     IF CorrectionRefused(e, k.entries)
     THEN End(e) /\ UNCHANGED mapping
     ELSE /\ mapping' = [mapping EXCEPT ![e] =
                           [l \in LocalId |->
                              IF l \in DOMAIN k.entries THEN k.entries[l] ELSE @[l]]]
          /\ Step(e, Reached(k, "rewrite"))
  /\ UNCHANGED <<objects, stream, store, minted, binding, bounds>>

\* Variant the runs must reject: a row keeps the revision of the object it named.
CorrectLocallyKeepingRevision(e) ==
  /\ At(e, "rewrite")
  /\ LET entries == calls[e].entries IN
     /\ row' = [row EXCEPT ![e] =
                  [l \in LocalId |->
                     IF l \notin DOMAIN entries THEN @[l]
                     ELSE IF entries[l] = None THEN None
                     ELSE [object |-> entries[l],
                           revision |-> IF Bound(e, l) THEN row[e][l].revision ELSE 0]]]
     /\ Step(e, [step |-> "request",
                 objects |-> {entries[l] : l \in DOMAIN entries} \ {None}])
  /\ UNCHANGED <<router, stream, content, position, minted, binding, bounds>>

\* Every listed row is dropped before any is written; the unique index may
\* still refuse one.
CorrectLocally(e) ==
  /\ At(e, "rewrite")
  /\ LET entries == calls[e].entries
         rewritten == [l \in LocalId |->
           IF l \notin DOMAIN entries THEN row[e][l]
           ELSE IF entries[l] = None THEN None
           ELSE [object |-> entries[l], revision |-> 0]]
     IN
     IF \E l \in LocalId, k \in DOMAIN entries :
          l # k /\ rewritten[l] # None /\ rewritten[k] # None
          /\ rewritten[l].object = rewritten[k].object
     THEN End(e) /\ UNCHANGED row
     ELSE /\ row' = [row EXCEPT ![e] = rewritten]
          /\ Step(e, [step |-> "request",
                      objects |-> {entries[l] : l \in DOMAIN entries} \ {None}])
  /\ UNCHANGED <<router, stream, content, position, minted, binding, bounds>>

\* The objects now bound are asked for, and come on the stream whoever wrote them.
CorrectRequests(e) ==
  /\ At(e, "request")
  /\ LET asked == calls[e].objects IN
     IF asked = {}
     THEN End(e) /\ UNCHANGED live
     ELSE /\ Publish(<<Frame(e, Min(asked), history[Min(asked)], changed[Min(asked)])>>)
          /\ Step(e, [calls[e] EXCEPT !.objects = @ \ {Min(asked)}])
  /\ UNCHANGED <<router, connected, store, minted, binding, bounds>>

----------------------------------------------------------------------------
(* Users, and faults *)

AddRecord ==
  /\ added < MaxAdded /\ minted < MaxRecords
  /\ added' = added + 1
  /\ minted' = minted + 1
  /\ Edit
  /\ content' = [content EXCEPT ![minted + 1] = edited + 1]
  /\ UNCHANGED <<router, stream, row, position, binding, calls, others, edits, sends,
                 corrections, faults>>

EditRecord(l) ==
  /\ edits < MaxEdits /\ content[l] # None
  /\ edits' = edits + 1
  /\ Edit
  /\ content' = [content EXCEPT ![l] = edited + 1]
  /\ UNCHANGED <<router, stream, row, position, process, others, added, sends, corrections,
                 faults>>

Fault == faults < MaxFaults /\ faults' = faults + 1

Disconnect ==
  /\ connected /\ Fault
  /\ Drop
  /\ binding' = None
  /\ UNCHANGED <<router, store, minted, calls, edited, others, added, edits, sends, corrections>>

Crash ==
  /\ Fault
  /\ Drop
  /\ binding' = None
  /\ calls' = [e \in Endpoint |-> None]
  /\ UNCHANGED <<router, store, minted, edited, others, added, edits, sends, corrections>>

----------------------------------------------------------------------------

Init ==
  /\ history = [o \in Object |->
                  IF o <= Shared THEN <<[content |-> o, by |-> Other]>> ELSE <<>>]
  /\ changed = [o \in Object |-> IF o <= Shared THEN o ELSE 0]
  /\ seq = Shared
  /\ mapping = [e \in Endpoint |-> [l \in LocalId |-> None]]
  /\ connected = FALSE /\ live = <<>>
  /\ content = [l \in LocalId |-> None]
  /\ row = [e \in Endpoint |-> [l \in LocalId |-> None]]
  /\ position = 0 /\ minted = 0 /\ binding = None
  /\ calls = [e \in Endpoint |-> None]
  /\ edited = Shared
  /\ others = 0 /\ added = 0 /\ edits = 0 /\ sends = 0 /\ corrections = 0 /\ faults = 0

Receive == ReceiveObject \/ ReceiveCaughtUp \/ Bind

Send(e) ==
  \/ SendRead(e) \/ SiblingRead(e) \/ SiblingBind(e) \/ SiblingStore(e)
  \/ SendRefused(e) \/ SendCreates(e) \/ SendKept(e) \/ SendRevises(e) \/ SendApply(e)

Correct(e) == CorrectAtAgrirouter(e) \/ CorrectLocally(e) \/ CorrectRequests(e)

User(e) ==
  \/ \E l \in LocalId : BeginSend(e, l)
  \/ \E entries \in Entries : BeginCorrection(e, entries)

Next ==
  \/ \E o \in Object : OtherWrite(o)
  \/ Connect \/ Receive
  \/ \E e \in Endpoint : Send(e) \/ Correct(e) \/ User(e)
  \/ AddRecord \/ (\E l \in LocalId : EditRecord(l))
  \/ Disconnect \/ Crash

Spec == Init /\ [][Next]_vars

----------------------------------------------------------------------------
(* Properties *)

TypeOK ==
  /\ mapping \in [Endpoint -> [LocalId -> Object \cup {None}]]
  /\ row \in [Endpoint -> [LocalId -> Pair \cup {None}]]
  /\ content \in [LocalId -> 1..edited \cup {None}]
  /\ position \in 0..seq /\ minted \in 0..MaxRecords

\* A record never becomes a second object: the endpoints that know it by one
\* local id mean one object by it.
MintsNoSecond ==
  \A e, d \in Endpoint, l \in LocalId :
    mapping[e][l] # None /\ mapping[d][l] # None => mapping[e][l] = mapping[d][l]

\* An object never becomes a second record: the store has it under one local id,
\* whichever endpoints hold it and whichever was told first.
OneRecordPerObject ==
  \A o \in Object : Cardinality(UNION {Holders(e, o) : e \in Endpoint}) <= 1

\* What a write resolves to at agrirouter is what the platform meant: a call
\* made with a pair's revision lands on that pair's object.
LandsWhereMeant ==
  [][\A e \in Endpoint : SendRevises(e) => Target(e) = calls[e].object]_vars

\* Nothing is under way, and nothing broke on the way here: what a break can
\* lose is SafeToResume's and LiveStream's CaughtUpIsBound's.
AtRest ==
  /\ connected /\ live = <<>> /\ binding = None
  /\ \A e \in Endpoint : calls[e] = None
  /\ faults = 0

\* At rest the platform and agrirouter have the same pairs, endpoint by endpoint.
BothSidesAgree ==
  AtRest => \A e \in Endpoint, l \in LocalId :
    mapping[e][l] = IF Bound(e, l) THEN row[e][l].object ELSE None

\* At rest every record shows its object as it stands, through each of its
\* pairs, unless a user has edited it since.
ShowsWhatStands ==
  AtRest => \A e \in Endpoint, l \in LocalId :
    Bound(e, l) =>
      \/ content[l] = Current(row[e][l].object).content
      \/ \A i \in DOMAIN history[row[e][l].object] :
           history[row[e][l].object][i].content # content[l]

\* At rest no record is left with the pair a correction gave it and without its
\* object's content: the answer to the correction's requests has come.
CorrectedIsFetched ==
  AtRest => \A e \in Endpoint, l \in LocalId : Bound(e, l) => row[e][l].revision > 0

\* The revision a pair is at never goes back but by a correction: what a user
\* has been shown stays the base of what the user sends.
RevisionsNeverGoBack ==
  [][\A e \in Endpoint, l \in LocalId :
       Bound(e, l) /\ row'[e][l] # None /\ row'[e][l].object = row[e][l].object =>
         row'[e][l].revision >= row[e][l].revision \/ CorrectLocally(e)]_vars

\* The revision a pair is at is one its object has had: what agrirouter merges
\* from is never another object's count.
BasesExist ==
  \A e \in Endpoint, l \in LocalId :
    Bound(e, l) => row[e][l].revision <= Len(history[row[e][l].object])

\* No revision brings back what an earlier one held: a platform that writes
\* what it shows does not undo somebody's change.
NothingIsReverted ==
  [][\A o \in Object :
       Len(history'[o]) > Len(history[o]) =>
         \A i \in DOMAIN history[o] :
           history[o][i].content # Last(history'[o]).content]_vars

\* What the position has passed has reached every endpoint it was for, or is
\* on its way.
SafeToResume ==
  \A e \in Endpoint, o \in Existing :
    changed[o] <= position /\ Current(o).by # e =>
      \/ \E l \in Holders(e, o) : row[e][l].revision = Len(history[o])
      \/ \E i \in DOMAIN live : live[i].event = "object" /\ live[i].to = e /\ live[i].object = o

=============================================================================
