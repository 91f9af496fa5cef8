----------------------------- MODULE Participant -----------------------------
(***************************************************************************)
(* One participant (a refclient process and its store) with one endpoint,  *)
(* and agrirouter as that endpoint meets it, over one entity type without  *)
(* references: the receive loop, the initial load and the person at the    *)
(* screens, which share one database, while other endpoints write, the     *)
(* user moves the selection or wipes the tenant, connections break and the *)
(* process restarts.                                                       *)
(*                                                                         *)
(* A database transaction is one step, a call to agrirouter is another;    *)
(* between them anything else may happen. The exception is the transaction *)
(* that applies an object a person has to recognise: it stays open until   *)
(* they answer, and the store has one connection that writes.              *)
(*                                                                         *)
(* A call that moves the selection works in locked regions of its own: one *)
(* moves it, one starts or drops the load, one numbers the move and renders*)
(* its frame, and the frame is handed over after that. Calls may overlap.  *)
(*                                                                         *)
(* Content is a name, which is also what records are recognised by. A      *)
(* delivery queue has room here, and a connection is served the moment it  *)
(* is made: LiveStream opens those up.                                     *)
(***************************************************************************)
EXTENDS Integers, Sequences, FiniteSets, SequencesExt, FiniteSetsExt

CONSTANTS
  Name,
  Alike,         \* pairs of names that resemble each other
  Shared,        \* names of the objects agrirouter holds to begin with
  Held,          \* names of the records the platform holds to begin with
  Mover,         \* concurrent calls that move the selection
  Attempts,      \* takes of the set before a load is given up
  MaxObjects,    \* bound: canonical objects there can be
  MaxRecords,    \* bound: local identifiers there can be
  MaxRevision,   \* bound: revisions of an object
  MaxOthers,     \* bound: writes of other endpoints
  MaxMoves,      \* bound: calls that move the selection, or repeat it
  MaxResets,     \* bound: resets of the tenant
  MaxFaults,     \* bound: restarts, broken connections and lost answers
  MaxRequests,   \* bound: what the person does at the screens
  None

Object == 1..MaxObjects
LocalId == 1..MaxRecords

LoadState ==
  {"LOADING_FROM_AGRIROUTER", "RECONCILING", "LOADING_TO_AGRIROUTER", "COMPLETED"}

Revision == [name : Name, active : BOOLEAN, ours : BOOLEAN]
RouteFrames == [event : {"route"}, selected : BOOLEAN, id : Nat]
Delivery ==
  [event : {"object"}, object : Object, revision : 1..MaxRevision, name : Name,
   active : BOOLEAN, local : LocalId \cup {None}, id : Nat]
Frame ==
  Delivery \cup RouteFrames \cup [event : {"reset", "caughtUp"}, id : Nat]

Moving ==
  [at : {"idle", "start", "withdraw", "drop", "number"}, frame : {None}]
  \cup [at : {"publish"}, frame : RouteFrames]

Stored == [name : Name, archived : BOOLEAN]
Row == [object : Object \cup {None}, revision : 0..MaxRevision, unbound : BOOLEAN]
Half == [local : LocalId, object : Object]

Reading == [kind : {"put", "deactivate"}, step : {"read"}, local : LocalId]
Sending ==
  [kind : {"put", "deactivate"}, step : {"send"}, local : LocalId,
   name : Name \cup {None}, active : BOOLEAN, base : 0..MaxRevision]
Applying ==
  [kind : {"put", "deactivate"}, step : {"apply"}, local : LocalId,
   answer : [object : Object, revision : 1..MaxRevision, name : Name, active : BOOLEAN,
             local : LocalId]]
Creating == [kind : {"put"}, step : {"store"}, name : Name, send : BOOLEAN]
Deleting == [kind : {"delete"}, step : {"drop"}, local : LocalId, bound : BOOLEAN]
Call == Reading \cup Sending \cup Applying \cup Creating \cup Deleting

ASSUME ParticipantAssumption ==
  /\ Alike \subseteq Name \X Name
  /\ Shared \in Seq(Name) /\ Held \in Seq(Name)
  /\ {Attempts, MaxObjects, MaxRecords, MaxRevision, MaxOthers, MaxMoves, MaxResets,
      MaxFaults, MaxRequests} \subseteq Nat
  /\ Len(Shared) <= MaxObjects /\ Len(Held) <= MaxRecords /\ MaxRevision > 0
  /\ None \notin Name \cup Nat \cup BOOLEAN \cup LoadState \cup Row \cup Stored \cup Call \cup Half

VARIABLES
  \* agrirouter
  history,     \* revisions of each object, in order
  changed,     \* number of each object's latest change
  wiped,       \* objects a reset removed
  mapping,     \* the object the endpoint's local id names, or None
  selected,    \* the endpoint is opted into the type
  routeSeq,    \* number of the selection's latest move, 0 for none
  resetSeq,    \* number of the latest reset announced, 0 for none
  seq,         \* number of the latest change
  load,        \* the initial-load state, None for none
  moving,      \* where each call that moves the selection is, and its frame
  overtaken,   \* for the properties: a number was taken between that of the
               \* latest move and the handing over of its frame
  withdrawn,   \* for the properties: a load was confirmed when its selection
               \* had gone
  \* between the two
  set,         \* the initial-load stream
  connected,   \* the live stream is open
  live,        \* frames it still has to yield
  \* the platform's database
  record,      \* each local id's record, or None
  row,         \* each local id's pair, or None
  route,       \* the selection as recorded, None before any
  position,    \* where the live stream resumes, 0 for its beginning
  \* the process
  minted,      \* the local id given out last
  routed,      \* the selection as last signalled, None before any
  wanted,      \* a load is signalled
  replay,      \* the next connection starts from the beginning
  binding,     \* the pair the receive loop is about to bind, or None
  pc,          \* where the load is
  takes,       \* takes of the set so far in this run
  pairs,       \* pairs it confirms, then those that were rejected
  pending,     \* records it still has to offer
  calls,       \* what the load and the person are doing one step at a time, or None
  \* bounds
  others, moves, resets, faults, requests

objects == <<history, changed, wiped, seq, overtaken>>
selection == <<selected, routeSeq, load, moving, withdrawn>>
router == <<objects, mapping, selection, resetSeq>>
stream == <<connected, live>>
tables == <<record, row>>
store == <<tables, route, position>>
receiver == <<replay, binding>>
loader == <<pc, takes, pairs, pending>>
process == <<minted, routed, wanted, receiver, loader, calls>>
bounds == <<others, moves, resets, faults, requests>>
vars == <<router, set, stream, store, process, bounds>>

----------------------------------------------------------------------------
(* Frames *)

LocalName(o) ==
  LET names == {l \in LocalId : mapping[l] = o} IN
  IF names = {} THEN None ELSE CHOOSE l \in names : TRUE

\* An object as the endpoint is shown it.
Rendered(o, revisions, id) ==
  [event |-> "object", object |-> o, revision |-> Len(revisions),
   name |-> Last(revisions).name, active |-> Last(revisions).active,
   local |-> LocalName(o), id |-> id]

RouteFrame(sel, id) == [event |-> "route", selected |-> sel, id |-> id]
ResetFrame(id) == [event |-> "reset", id |-> id]

\* Variant the runs must reject: the position a change to come will have.
CaughtUpAhead(id) == [event |-> "caughtUp", id |-> id + 1]

CaughtUp(id) == [event |-> "caughtUp", id |-> id]

\* What is published reaches whoever is connected.
Publish(f) == live' = IF connected THEN Append(live, f) ELSE live

Existing == {o \in Object : history[o] # <<>> /\ o \notin wiped}

\* Objects in the order of their latest change, which is one way only: no two
\* have changed at once.
InOrder(objs) ==
  {order \in Bijection(1..Cardinality(objs), objs) :
     \A i, j \in 1..Cardinality(objs) : i < j => changed[order[i]] < changed[order[j]]}

Frames(order) ==
  [i \in DOMAIN order |-> Rendered(order[i], history[order[i]], changed[order[i]])]

\* Objects to be sent again to who has read so far. What the endpoint wrote
\* last itself is withheld.
Missed(from) ==
  {o \in Existing : selected /\ changed[o] > from /\ ~Last(history[o]).ours}

\* Variant the runs must reject: the move right after the position is passed over.
CatchUpPastMove(from, order) ==
  (IF resetSeq > from THEN <<ResetFrame(resetSeq)>> ELSE <<>>)
  \o (IF routeSeq > from + 1 /\ routeSeq > resetSeq
      THEN <<RouteFrame(selected, routeSeq)>> ELSE <<>>)
  \o Frames(order) \o <<CaughtUp(seq)>>

\* What a connection from a position is sent first, the objects in this order.
CatchUp(from, order) ==
  (IF resetSeq > from THEN <<ResetFrame(resetSeq)>> ELSE <<>>)
  \o (IF routeSeq > from /\ routeSeq > resetSeq
      THEN <<RouteFrame(selected, routeSeq)>> ELSE <<>>)
  \o Frames(order) \o <<CaughtUp(seq)>>

----------------------------------------------------------------------------
(* agrirouter *)

Current(o) == Last(history[o])

Announcing == {m \in Mover : moving[m].at = "publish"}

Overtake == overtaken' = (overtaken \/ Announcing # {})

Revise(o, rev) ==
  /\ Len(history[o]) < MaxRevision
  /\ history' = [history EXCEPT ![o] = Append(@, rev)]
  /\ changed' = [changed EXCEPT ![o] = seq + 1]
  /\ seq' = seq + 1
  /\ Overtake
  /\ UNCHANGED wiped

Unused == {o \in Object : history[o] = <<>> /\ o \notin wiped}

\* Another endpoint creates an object or changes one.
OtherWrite(o, name, active) ==
  /\ others < MaxOthers
  /\ others' = others + 1
  /\ \/ o \in Existing /\ (Current(o).name # name \/ Current(o).active # active)
     \/ Unused # {} /\ o = Min(Unused) /\ active
  /\ LET rev == [name |-> name, active |-> active, ours |-> FALSE] IN
     /\ Revise(o, rev)
     /\ IF selected THEN Publish(Rendered(o, Append(history[o], rev), seq + 1))
                    ELSE UNCHANGED live
  /\ UNCHANGED <<mapping, selection, resetSeq, set, connected, store, process, moves,
                 resets, faults, requests>>

Idle == [at |-> "idle", frame |-> None]

Goes(m, at) == moving' = [moving EXCEPT ![m] = [at |-> at, frame |-> None]]

Moves == moves < MaxMoves /\ moves' = moves + 1

\* The user opts the endpoint in.
Select(m) ==
  /\ moving[m] = Idle /\ ~selected /\ Moves
  /\ selected' = TRUE
  /\ Goes(m, "start")
  /\ UNCHANGED <<objects, mapping, routeSeq, load, withdrawn, resetSeq, set, stream, store,
                 process, others, resets, faults, requests>>

\* Opts it out, or repeats that it is out, which is not announced.
Deselect(m) ==
  /\ moving[m] = Idle /\ Moves
  /\ selected' = FALSE
  /\ Goes(m, IF selected THEN "withdraw" ELSE "drop")
  /\ UNCHANGED <<objects, mapping, routeSeq, load, withdrawn, resetSeq, set, stream, store,
                 process, others, resets, faults, requests>>

StartLoad(m) ==
  /\ moving[m].at = "start"
  /\ load' = "LOADING_FROM_AGRIROUTER"
  /\ Goes(m, "number")
  /\ UNCHANGED <<objects, mapping, selected, routeSeq, withdrawn, resetSeq, set, stream, store,
                 process, bounds>>

DropLoad(m) ==
  /\ moving[m].at \in {"withdraw", "drop"}
  /\ load' = None
  /\ Goes(m, IF moving[m].at = "withdraw" THEN "number" ELSE "idle")
  /\ UNCHANGED <<objects, mapping, selected, routeSeq, withdrawn, resetSeq, set, stream, store,
                 process, bounds>>

\* The frame states the selection as it is by now.
NumberMove(m) ==
  /\ moving[m].at = "number"
  /\ seq' = seq + 1
  /\ routeSeq' = seq + 1
  /\ overtaken' = (Announcing # {})
  /\ moving' =
       [moving EXCEPT ![m] = [at |-> "publish", frame |-> RouteFrame(selected, seq + 1)]]
  /\ UNCHANGED <<history, changed, wiped, mapping, selected, load, withdrawn, resetSeq, set,
                 stream, store, process, bounds>>

PublishMove(m) ==
  /\ moving[m].at = "publish"
  /\ Publish(moving[m].frame)
  /\ Goes(m, "idle")
  /\ UNCHANGED <<objects, mapping, selected, routeSeq, load, withdrawn, resetSeq, set,
                 connected, store, process, bounds>>

\* Only a participant that has taken part is told.
ResetTenant ==
  /\ resets < MaxResets
  /\ resets' = resets + 1
  /\ wiped' = wiped \cup Existing
  /\ history' = [o \in Object |-> <<>>]
  /\ changed' = [o \in Object |-> 0]
  /\ mapping' = [l \in LocalId |-> None]
  /\ selected' = FALSE
  /\ load' = None
  /\ seq' = seq + 1
  /\ Overtake
  /\ IF routeSeq > 0
     THEN resetSeq' = seq + 1 /\ Publish(ResetFrame(seq + 1))
     ELSE UNCHANGED <<resetSeq, live>>
  /\ UNCHANGED <<routeSeq, moving, withdrawn, set, connected, store, process, others, moves,
                 faults, requests>>

\* The last frame of the set is written, which is not to say it is received.
SetWritten ==
  /\ set.open /\ ~set.written
  /\ set' = [set EXCEPT !.written = TRUE]
  /\ load' = IF load = None THEN None ELSE "RECONCILING"
  /\ UNCHANGED <<objects, mapping, selected, routeSeq, moving, withdrawn, resetSeq, stream,
                 store, process, bounds>>

\* Whether agrirouter records that l names o.
Bindable(l, o) ==
  /\ o \in Existing /\ selected
  /\ mapping[l] \in {None, o}
  /\ LocalName(o) \in {None, l}

----------------------------------------------------------------------------
(* The platform's tables *)

\* A load waiting for a person keeps the only connection that writes.
WriterFree == pc # "ask"

Bound(l) == row[l] # None /\ row[l].object # None
Marked(l) == row[l] # None /\ row[l].unbound

Holders(o) == {l \in LocalId : Bound(l) /\ row[l].object = o}

\* Variant the runs must reject: the local id in the frame decides.
AsDelivered(f) == f.local

\* Which record a delivered object is: the platform's own pair decides, and
\* the local id in the frame where it has none.
RecordOf(f) ==
  IF Holders(f.object) = {} THEN f.local ELSE CHOOSE l \in Holders(f.object) : TRUE

Pair(o, revision) == [object |-> o, revision |-> revision, unbound |-> FALSE]
Refused == [object |-> None, revision |-> 0, unbound |-> TRUE]

Write(l, f) ==
  /\ record' = [record EXCEPT ![l] = [name |-> f.name, archived |-> ~f.active]]
  /\ row' = [row EXCEPT ![l] = Pair(f.object, f.revision)]

\* Variant the runs must reject: an older revision is applied too.
NeverSuperseded(l, f) == FALSE

\* Variant the runs must reject: a record without a pair is held to be newer.
SupersededByNothing(l, f) == row[l] = None \/ f.revision < row[l].revision

Superseded(l, f) == row[l] # None /\ f.revision < row[l].revision

ApplyHeld(l, f) ==
  /\ IF Superseded(l, f) THEN UNCHANGED tables ELSE Write(l, f)
  /\ UNCHANGED minted

\* An object the platform holds no pair for, recognised as record l.
ApplyMatched(l, f) ==
  /\ IF f.active
     THEN Write(l, f)
     ELSE /\ record' = [record EXCEPT ![l].archived = TRUE]
          /\ row' = [row EXCEPT ![l] = Pair(f.object, f.revision)]
  /\ UNCHANGED minted

\* One it does not recognise is created, unless it is inactive.
ApplyNew(f) ==
  IF f.active
  THEN /\ minted < MaxRecords
       /\ minted' = minted + 1
       /\ Write(minted + 1, f)
  ELSE UNCHANGED <<tables, minted>>

----------------------------------------------------------------------------
(* The receive loop *)

Drop == connected' = FALSE /\ live' = <<>>

Connect ==
  /\ ~connected
  /\ replay \/ WriterFree
  /\ connected' = TRUE
  /\ LET from == IF replay THEN 0 ELSE position IN
     \E order \in InOrder(Missed(from)) : live' = CatchUp(from, order)
  /\ replay' = FALSE
  /\ UNCHANGED <<router, set, store, minted, routed, wanted, binding, loader, calls,
                 bounds>>

Receiving(event) ==
  /\ live # <<>> /\ Head(live).event = event
  /\ binding = None /\ WriterFree
  /\ live' = Tail(live)
  /\ position' = Head(live).id
  /\ UNCHANGED <<router, set, connected, replay, loader, calls, bounds>>

\* Nothing is recognised on the live stream.
ReceiveObject ==
  /\ Receiving("object")
  /\ LET f == Head(live) IN
     IF RecordOf(f) # None
     THEN ApplyHeld(RecordOf(f), f) /\ UNCHANGED binding
     ELSE /\ ApplyNew(f)
          /\ binding' = IF f.active THEN [local |-> minted + 1, object |-> f.object] ELSE None
  /\ UNCHANGED <<route, routed, wanted>>

\* Variant the runs must reject: a signal while a run is on its way is dropped.
RoutedAtRest(sel) ==
  /\ route' = sel
  /\ routed' = sel
  /\ wanted' = (wanted \/ pc = "idle")

\* The selection is signalled from inside the transaction that records it.
Routed(sel) ==
  /\ route' = sel
  /\ routed' = sel
  /\ wanted' = TRUE

ReceiveRoute ==
  /\ Receiving("route")
  /\ Routed(Head(live).selected)
  /\ UNCHANGED <<tables, minted, binding>>

ReceiveReset ==
  /\ Receiving("reset")
  /\ row' = [l \in LocalId |-> None]
  /\ Routed(FALSE)
  /\ UNCHANGED <<record, minted, binding>>

ReceiveCaughtUp ==
  /\ Receiving("caughtUp")
  /\ UNCHANGED <<tables, route, minted, routed, wanted, binding>>

\* Variant the runs must reject: a refused pair stays owed.
BindUntilAccepted ==
  /\ binding # None
  /\ IF Bindable(binding.local, binding.object)
     THEN /\ binding' = None
          /\ mapping' = [mapping EXCEPT ![binding.local] = binding.object]
     ELSE UNCHANGED <<binding, mapping>>
  /\ UNCHANGED <<objects, selection, resetSeq, set, stream, store, minted, routed, wanted,
                 replay, loader, calls, bounds>>

\* A created record is bound by a call made after the transaction; where
\* agrirouter refuses, the connection is given up.
Bind ==
  /\ binding # None
  /\ binding' = None
  /\ IF Bindable(binding.local, binding.object)
     THEN mapping' = [mapping EXCEPT ![binding.local] = binding.object] /\ UNCHANGED stream
     ELSE Drop /\ UNCHANGED mapping
  /\ UNCHANGED <<objects, selection, resetSeq, set, store, minted, routed, wanted, replay,
                 loader, calls, bounds>>

----------------------------------------------------------------------------
(* Sending: by the load, and by the person at the screens *)

Caller == {"load", "user"}

Start(c, kind, l) ==
  calls' = [calls EXCEPT ![c] = [kind |-> kind, step |-> "read", local |-> l]]

\* A call that fails ends what made it.
Fail(c) ==
  /\ calls' = [calls EXCEPT ![c] = None]
  /\ pc' = IF c = "load" THEN "idle" ELSE pc
  /\ pending' = IF c = "load" THEN {} ELSE pending

At(c, step) == calls[c] # None /\ calls[c].step = step

\* The record and its pair, read in a transaction of their own.
SendRead(c) ==
  /\ At(c, "read") /\ WriterFree
  /\ LET k == calls[c]
         l == k.local
         bad == IF k.kind = "put" THEN record[l] = None \/ Marked(l) ELSE ~Bound(l)
     IN
     IF bad
     THEN Fail(c)
     ELSE /\ calls' =
               [calls EXCEPT ![c] =
                  [kind |-> k.kind, step |-> "send", local |-> l,
                   name |-> IF record[l] = None THEN None ELSE record[l].name,
                   active |-> record[l] # None /\ ~record[l].archived,
                   base |-> IF Bound(l) THEN row[l].revision ELSE 0]]
          /\ UNCHANGED <<pc, pending>>
  /\ UNCHANGED <<router, set, stream, store, minted, routed, wanted, receiver, takes, pairs,
                 bounds>>

\* Only the endpoint that wrote is answered, with the object as it now is.
Answered(c, o, rev, revision) ==
  calls' = [calls EXCEPT ![c] =
              [kind |-> @.kind, step |-> "apply", local |-> @.local,
               answer |-> [object |-> o, revision |-> revision, name |-> rev.name,
                           active |-> rev.active, local |-> @.local]]]

NameAt(o, revision) == history[o][revision].name

\* What a write asks of the object it names.
Differs(k, o) == k.name # Current(o).name \/ k.active # Current(o).active

Conflicts(k, o) ==
  LET at == NameAt(o, k.base) IN
  k.name # at /\ Current(o).name # at /\ k.name # Current(o).name

PutRefused(k) ==
  LET o == mapping[k.local] IN
  \/ ~selected
  \/ o = None /\ k.base # 0
  \/ /\ o # None /\ Differs(k, o)
     /\ k.base \in 1..Len(history[o]) => Conflicts(k, o)

Merged(k, o) ==
  [name |-> IF k.name = NameAt(o, k.base) THEN Current(o).name ELSE k.name,
   active |-> k.active, ours |-> TRUE]

DeactivateRefused(k) ==
  LET o == mapping[k.local] IN
  \/ ~selected
  \/ o = None
  \/ o # None /\ Current(o).active /\ k.base # Len(history[o])

Deactivated(o) == [name |-> Current(o).name, active |-> FALSE, ours |-> TRUE]

SendRefused(c) ==
  /\ At(c, "send")
  /\ IF calls[c].kind = "put" THEN PutRefused(calls[c]) ELSE DeactivateRefused(calls[c])
  /\ Fail(c)
  /\ UNCHANGED <<router, set, stream, store, minted, routed, wanted, receiver, takes, pairs,
                 bounds>>

\* Only a put of a local id agrirouter does not know creates.
SendCreates(c) ==
  /\ At(c, "send") /\ calls[c].kind = "put" /\ ~PutRefused(calls[c])
  /\ mapping[calls[c].local] = None
  /\ Unused # {}
  /\ LET o == Min(Unused)
         rev == [name |-> calls[c].name, active |-> calls[c].active, ours |-> TRUE]
     IN
     /\ Revise(o, rev)
     /\ mapping' = [mapping EXCEPT ![calls[c].local] = o]
     /\ Answered(c, o, rev, 1)
  /\ UNCHANGED <<selection, resetSeq, set, stream, store, minted, routed, wanted, receiver,
                 loader, bounds>>

Intended(k, o) == IF k.kind = "put" THEN Merged(k, o) ELSE Deactivated(o)

Keeps(k, o) ==
  IF k.kind = "put"
  THEN Differs(k, o) =>
         Merged(k, o).name = Current(o).name /\ k.active = Current(o).active
  ELSE ~Current(o).active

Accepted(c) ==
  /\ At(c, "send")
  /\ IF calls[c].kind = "put" THEN ~PutRefused(calls[c]) ELSE ~DeactivateRefused(calls[c])
  /\ mapping[calls[c].local] # None

\* A write that changes nothing, or asks for what another one has already done.
SendKept(c) ==
  /\ Accepted(c)
  /\ LET o == mapping[calls[c].local] IN
     /\ Keeps(calls[c], o)
     /\ Answered(c, o, Current(o), Len(history[o]))
  /\ UNCHANGED <<router, set, stream, store, minted, routed, wanted, receiver, loader, bounds>>

SendRevised(c) ==
  /\ Accepted(c)
  /\ LET o == mapping[calls[c].local]
         rev == Intended(calls[c], o)
     IN
     /\ ~Keeps(calls[c], o)
     /\ Revise(o, rev)
     /\ Answered(c, o, rev, Len(history[o]) + 1)
  /\ UNCHANGED <<mapping, selection, resetSeq, set, stream, store, minted, routed, wanted,
                 receiver, loader, bounds>>

\* The answer is applied as a delivery is.
SendApply(c) ==
  /\ At(c, "apply") /\ WriterFree
  /\ ApplyHeld(RecordOf(calls[c].answer), calls[c].answer)
  /\ calls' = [calls EXCEPT ![c] = None]
  /\ pending' = IF c = "load" THEN pending \ {calls[c].local} ELSE pending
  /\ UNCHANGED <<router, set, stream, route, position, routed, wanted, receiver, pc, takes,
                 pairs, bounds>>

----------------------------------------------------------------------------
(* The initial load *)

\* The selection last signalled decides, the recorded one where none was.
StartRun ==
  /\ wanted /\ pc = "idle"
  /\ wanted' = FALSE
  /\ takes' = 0
  /\ pc' = IF (IF routed # None THEN routed ELSE route) = TRUE THEN "status" ELSE "idle"
  /\ UNCHANGED <<router, set, stream, store, minted, routed, receiver, pairs, pending, calls,
                 bounds>>

\* Where agrirouter says the load is decides what comes next. A stream opened is
\* sent every object there is, and states nothing of which load it is for.
ReadStatus ==
  /\ pc = "status"
  /\ IF load = "LOADING_FROM_AGRIROUTER"
     THEN IF takes < Attempts
          THEN /\ pc' = "take"
               /\ takes' = takes + 1
          ELSE /\ pc' = "idle"
               /\ UNCHANGED takes
     ELSE /\ pc' = IF load \in {None, "COMPLETED"} THEN "idle" ELSE "bind"
          /\ UNCHANGED takes
  /\ UNCHANGED <<router, set, stream, store, minted, routed, wanted, receiver, pairs, pending,
                 calls, bounds>>

OpenSet ==
  /\ pc = "take" /\ ~set.open
  /\ LET objs == IF selected THEN Existing ELSE {} IN
     \E order \in InOrder(objs) :
       set' = [open |-> TRUE, written |-> FALSE, frames |-> Frames(order),
               holds |-> {o \in objs : Current(o).active}]
  /\ UNCHANGED <<router, stream, store, process, bounds>>

\* Records that could be the object: none bound through the endpoint, and for a
\* question none refused either.
Exact(f) == {l \in LocalId : record[l] # None /\ ~Bound(l) /\ record[l].name = f.name}

Plausible(f) ==
  {l \in LocalId :
     /\ record[l] # None /\ row[l] = None
     /\ record[l].name = f.name \/ <<f.name, record[l].name>> \in Alike}

Taken(f) == set' = [set EXCEPT !.frames = Tail(@)]

TakeFrame ==
  /\ pc = "take" /\ set.open /\ set.frames # <<>>
  /\ LET f == Head(set.frames) IN
     \/ /\ RecordOf(f) # None
        /\ ApplyHeld(RecordOf(f), f)
        /\ Taken(f) /\ UNCHANGED pc
     \/ /\ RecordOf(f) = None /\ Cardinality(Exact(f)) = 1
        /\ \A l \in Exact(f) : ApplyMatched(l, f)
        /\ Taken(f) /\ UNCHANGED pc
     \/ /\ RecordOf(f) = None /\ Cardinality(Exact(f)) # 1 /\ Plausible(f) = {}
        /\ ApplyNew(f)
        /\ Taken(f) /\ UNCHANGED pc
     \/ /\ RecordOf(f) = None /\ Cardinality(Exact(f)) # 1 /\ Plausible(f) # {}
        /\ pc' = "ask"
        /\ UNCHANGED <<set, tables, minted>>
  /\ UNCHANGED <<router, stream, route, position, routed, wanted, receiver, takes, pairs,
                 pending, calls, bounds>>

\* The person says which record it is, or that it is none of them.
Answer ==
  /\ pc = "ask"
  /\ LET f == Head(set.frames) IN
     /\ \/ \E l \in Plausible(f) : ApplyMatched(l, f)
        \/ ApplyNew(f)
     /\ Taken(f)
  /\ pc' = "take"
  /\ UNCHANGED <<router, stream, route, position, routed, wanted, receiver, takes, pairs,
                 pending, calls, bounds>>

Closed == set' = [set EXCEPT !.open = FALSE, !.written = FALSE, !.frames = <<>>]

\* Variant the runs must reject: a set is over once it has been written.
EndsWhenWritten == set.open /\ set.written

SetOver == set.open /\ set.written /\ set.frames = <<>>

SetEnds ==
  /\ pc = "take" /\ SetOver
  /\ Closed
  /\ pc' = "status"
  /\ UNCHANGED <<router, stream, store, minted, routed, wanted, receiver, takes, pairs,
                 pending, calls, bounds>>

ReadBindings ==
  /\ pc = "bind"
  /\ pairs' = {[local |-> l, object |-> row[l].object] : l \in {l \in LocalId : Bound(l)}}
  /\ pc' = "confirm"
  /\ UNCHANGED <<router, set, stream, store, minted, routed, wanted, receiver, takes, pending,
                 calls, bounds>>

\* Each pair is recorded or refused by itself; what is answered is what was refused.
Recorded == {p \in pairs : Bindable(p.local, p.object)}

Confirmable == load \in {"RECONCILING", "LOADING_TO_AGRIROUTER"}

\* Variant the runs must reject: the load moves on and no pair is recorded.
ConfirmedWithoutPairs ==
  /\ load' = "LOADING_TO_AGRIROUTER"
  /\ UNCHANGED mapping

ConfirmedAtAgrirouter ==
  /\ load' = "LOADING_TO_AGRIROUTER"
  /\ mapping' = [l \in LocalId |->
                   IF \E p \in Recorded : p.local = l
                   THEN (CHOOSE p \in Recorded : p.local = l).object ELSE mapping[l]]

Confirm ==
  /\ pc = "confirm"
  /\ IF Confirmable
     THEN /\ ConfirmedAtAgrirouter
          /\ withdrawn' = (withdrawn \/ ~selected)
          /\ pairs' = pairs \ Recorded
          /\ pc' = IF pairs = Recorded THEN "list" ELSE "drop"
     ELSE /\ pc' = "idle"
          /\ UNCHANGED <<load, withdrawn, mapping, pairs>>
  /\ UNCHANGED <<objects, selected, routeSeq, moving, resetSeq, set, stream, store, minted,
                 routed, wanted, receiver, takes, pending, calls, bounds>>

\* The platform gives up its half of the pairs refused, all of them or none.
DropRejected ==
  /\ pc = "drop"
  /\ IF \A p \in pairs : Bound(p.local) /\ row[p.local].object = p.object
     THEN /\ row' = [l \in LocalId |->
                       IF \E p \in pairs : p.local = l THEN Refused ELSE row[l]]
          /\ pc' = "list"
     ELSE /\ pc' = "idle"
          /\ UNCHANGED row
  /\ UNCHANGED <<router, set, stream, record, route, position, minted, routed, wanted,
                 receiver, takes, pairs, pending, calls, bounds>>

Offerable ==
  {l \in LocalId :
     /\ record[l] # None /\ ~record[l].archived
     /\ row[l] = None
     /\ \A p \in pairs : p.local # l}

ListPending ==
  /\ pc = "list"
  /\ pending' = Offerable
  /\ pc' = "push"
  /\ UNCHANGED <<router, set, stream, store, minted, routed, wanted, receiver, takes, pairs,
                 calls, bounds>>

PushNext ==
  /\ pc = "push" /\ pending # {} /\ calls["load"] = None
  /\ Start("load", "put", Min(pending))
  /\ UNCHANGED <<router, set, stream, store, minted, routed, wanted, receiver, loader, bounds>>

Complete ==
  /\ pc = "push" /\ pending = {} /\ calls["load"] = None
  /\ pc' = "idle"
  /\ load' = IF load = "LOADING_TO_AGRIROUTER" THEN "COMPLETED" ELSE load
  /\ UNCHANGED <<objects, mapping, selected, routeSeq, moving, withdrawn, resetSeq, set,
                 stream, store, minted, routed, wanted, receiver, takes, pairs, pending, calls,
                 bounds>>

----------------------------------------------------------------------------
(* The person *)

Free == calls["user"] = None /\ requests < MaxRequests

\* Whether a new record will be sent is read before it is stored.
BeginCreate(n) ==
  /\ Free
  /\ requests' = requests + 1
  /\ calls' = [calls EXCEPT !["user"] =
                  [kind |-> "put", step |-> "store", name |-> n, send |-> route = TRUE]]
  /\ UNCHANGED <<router, set, stream, store, minted, routed, wanted, receiver, loader, others,
                 moves, resets, faults>>

StoreCreated ==
  /\ At("user", "store") /\ WriterFree
  /\ minted < MaxRecords
  /\ minted' = minted + 1
  /\ record' = [record EXCEPT ![minted + 1] = [name |-> calls["user"].name, archived |-> FALSE]]
  /\ IF calls["user"].send
     THEN Start("user", "put", minted + 1)
     ELSE calls' = [calls EXCEPT !["user"] = None]
  /\ UNCHANGED <<router, set, stream, row, route, position, routed, wanted, receiver, loader,
                 bounds>>

ArchiveLocally(l) ==
  /\ Free /\ WriterFree
  /\ record[l] # None
  /\ requests' = requests + 1
  /\ record' = [record EXCEPT ![l].archived = TRUE]
  /\ Start("user", "deactivate", l)
  /\ UNCHANGED <<router, set, stream, row, route, position, minted, routed, wanted, receiver,
                 loader, others, moves, resets, faults>>

\* A bound record of a type that is exchanged is not deleted.
BeginDelete(l) ==
  /\ Free
  /\ record[l] # None
  /\ ~(Bound(l) /\ route = TRUE)
  /\ requests' = requests + 1
  /\ calls' = [calls EXCEPT !["user"] =
                  [kind |-> "delete", step |-> "drop", local |-> l, bound |-> Bound(l)]]
  /\ UNCHANGED <<router, set, stream, store, minted, routed, wanted, receiver, loader, others,
                 moves, resets, faults>>

\* The pair of a bound record stays.
EndDelete ==
  /\ At("user", "drop") /\ WriterFree
  /\ LET k == calls["user"] IN
     /\ record' = [record EXCEPT ![k.local] = None]
     /\ row' = IF k.bound THEN row ELSE [row EXCEPT ![k.local] = None]
  /\ calls' = [calls EXCEPT !["user"] = None]
  /\ UNCHANGED <<router, set, stream, route, position, minted, routed, wanted, receiver,
                 loader, bounds>>

\* What is asked for comes on the live stream, whoever wrote it.
Request(o) ==
  /\ requests < MaxRequests
  /\ requests' = requests + 1
  /\ o \in Existing /\ selected
  /\ Publish(Rendered(o, history[o], changed[o]))
  /\ wanted' = TRUE
  /\ UNCHANGED <<router, set, connected, store, minted, routed, receiver, loader, calls, others,
                 moves, resets, faults>>

PressLoad ==
  /\ requests < MaxRequests
  /\ requests' = requests + 1
  /\ wanted' = TRUE
  /\ UNCHANGED <<router, set, stream, store, minted, routed, receiver, loader, calls, others,
                 moves, resets, faults>>

Replay ==
  /\ requests < MaxRequests
  /\ requests' = requests + 1
  /\ replay' = TRUE
  /\ Drop /\ binding' = None
  /\ UNCHANGED <<router, set, store, minted, routed, wanted, loader, calls, others, moves,
                 resets,
                 faults>>

----------------------------------------------------------------------------
(* Faults *)

Fault == faults < MaxFaults /\ faults' = faults + 1

Disconnect ==
  /\ connected /\ Fault
  /\ Drop /\ binding' = None
  /\ UNCHANGED <<router, set, store, minted, routed, wanted, replay, loader, calls, others, moves,
                 resets, requests>>

\* The stream of a set is cut; what was on its way is lost, and what agrirouter
\* has written it has written.
DropSet ==
  /\ pc = "take" /\ set.open /\ Fault
  /\ Closed
  /\ pc' = "status"
  /\ UNCHANGED <<router, stream, store, minted, routed, wanted, receiver, takes, pairs,
                 pending, calls, others, moves, resets, requests>>

\* A call that fails on the way there, or on the way back.
LoseCall(c) ==
  /\ At(c, "send") \/ At(c, "apply")
  /\ Fault
  /\ Fail(c)
  /\ UNCHANGED <<router, set, stream, store, minted, routed, wanted, receiver, takes, pairs,
                 others, moves, resets, requests>>

LoseConfirmation ==
  /\ pc = "confirm" /\ Confirmable /\ Fault
  /\ ConfirmedAtAgrirouter
  /\ withdrawn' = (withdrawn \/ ~selected)
  /\ pc' = "idle"
  /\ UNCHANGED <<objects, selected, routeSeq, moving, resetSeq, set, stream, store, minted,
                 routed, wanted, receiver, takes, pairs, pending, calls, others, moves, resets,
                 requests>>

\* The process stops and starts again with what the store holds: the last local
\* id is the highest of a record still there, and a load may be owed.
Crash ==
  /\ Fault
  /\ Drop /\ binding' = None /\ replay' = FALSE
  /\ Closed
  /\ pc' = "idle" /\ takes' = 0 /\ pairs' = {} /\ pending' = {}
  /\ calls' = [c \in Caller |-> None]
  /\ minted' = Max({0} \cup {l \in LocalId : record[l] # None})
  /\ routed' = None /\ wanted' = TRUE
  /\ UNCHANGED <<router, store, others, moves, resets, requests>>

----------------------------------------------------------------------------

Init ==
  /\ history = [o \in Object |->
                  IF o <= Len(Shared)
                  THEN <<[name |-> Shared[o], active |-> TRUE, ours |-> FALSE]>> ELSE <<>>]
  /\ changed = [o \in Object |-> IF o <= Len(Shared) THEN o ELSE 0]
  /\ wiped = {}
  /\ mapping = [l \in LocalId |-> None]
  /\ selected = FALSE /\ routeSeq = 0 /\ resetSeq = 0 /\ seq = Len(Shared)
  /\ load = None /\ moving = [m \in Mover |-> Idle]
  /\ overtaken = FALSE /\ withdrawn = FALSE
  /\ set = [open |-> FALSE, written |-> FALSE, frames |-> <<>>, holds |-> {}]
  /\ connected = FALSE /\ live = <<>>
  /\ record = [l \in LocalId |->
                 IF l <= Len(Held) THEN [name |-> Held[l], archived |-> FALSE] ELSE None]
  /\ row = [l \in LocalId |-> None]
  /\ route = None /\ position = 0
  /\ minted = Len(Held) /\ routed = None /\ wanted = TRUE
  /\ replay = FALSE /\ binding = None
  /\ pc = "idle" /\ takes = 0 /\ pairs = {} /\ pending = {}
  /\ calls = [c \in Caller |-> None]
  /\ others = 0 /\ moves = 0 /\ resets = 0 /\ faults = 0 /\ requests = 0

Receive == ReceiveObject \/ ReceiveRoute \/ ReceiveReset \/ ReceiveCaughtUp \/ Bind

Send(c) ==
  SendRead(c) \/ SendRefused(c) \/ SendCreates(c) \/ SendKept(c) \/ SendRevised(c) \/ SendApply(c)

Load ==
  \/ StartRun \/ ReadStatus \/ OpenSet \/ TakeFrame \/ SetEnds \/ ReadBindings \/ Confirm
  \/ DropRejected \/ ListPending \/ PushNext \/ Complete

\* What a call that moves the selection still has to do.
Announce(m) == StartLoad(m) \/ DropLoad(m) \/ NumberMove(m) \/ PublishMove(m)

World ==
  \/ \E o \in Object, n \in Name, active \in BOOLEAN : OtherWrite(o, n, active)
  \/ \E m \in Mover : Select(m) \/ Deselect(m) \/ Announce(m)
  \/ ResetTenant

Person ==
  \/ Answer \/ StoreCreated \/ EndDelete \/ PressLoad \/ Replay
  \/ \E n \in Name : BeginCreate(n)
  \/ \E l \in LocalId : ArchiveLocally(l) \/ BeginDelete(l)
  \/ \E o \in Object : Request(o)

Faults ==
  \/ Disconnect \/ DropSet \/ LoseConfirmation \/ Crash
  \/ \E c \in Caller : LoseCall(c)

Next ==
  \/ World \/ SetWritten \/ Connect \/ Receive \/ (\E c \in Caller : Send(c)) \/ Load
  \/ Person \/ Faults

Spec == Init /\ [][Next]_vars

\* The process and agrirouter go on; people and the network owe nothing.
FairSpec ==
  /\ Spec
  /\ WF_vars(SetWritten) /\ WF_vars(Connect) /\ WF_vars(Receive) /\ WF_vars(Load)
  /\ \A c \in Caller : WF_vars(Send(c))
  /\ \A m \in Mover : WF_vars(Announce(m))

----------------------------------------------------------------------------
(* Properties *)

Pcs == {"idle", "status", "take", "ask", "bind", "confirm", "drop", "list", "push"}

TypeOK ==
  /\ seq \in Nat /\ history \in [Object -> Seq(Revision)] /\ changed \in [Object -> 0..seq]
  /\ wiped \subseteq Object /\ mapping \in [LocalId -> Object \cup {None}]
  /\ {routeSeq, resetSeq, position} \subseteq 0..seq
  /\ load \in LoadState \cup {None} /\ moving \in [Mover -> Moving]
  /\ set \in [open : BOOLEAN, written : BOOLEAN, frames : Seq(Delivery),
              holds : SUBSET Object]
  /\ live \in Seq(Frame)
  /\ {selected, connected, wanted, replay, overtaken, withdrawn} \subseteq BOOLEAN
  /\ {route, routed} \subseteq BOOLEAN \cup {None}
  /\ record \in [LocalId -> Stored \cup {None}] /\ row \in [LocalId -> Row \cup {None}]
  /\ minted \in 0..MaxRecords /\ binding \in Half \cup {None}
  /\ takes \in 0..Attempts /\ pc \in Pcs
  /\ pairs \subseteq Half /\ pending \subseteq LocalId
  /\ calls \in [Caller -> Call \cup {None}]

\* The platform never holds one object under two of its identifiers, whichever
\* of the stream, the set, an answer or a person brought it: the unique index
\* of the sync table never refuses a write, which would end the connection at
\* the same frame time after time.
OneRecordPerObject ==
  \A l, k \in LocalId : Bound(l) /\ Bound(k) /\ row[l].object = row[k].object => l = k

\* However the set, the live stream, answers and a replay from the beginning
\* overlap, the revision held for an object never goes back.
RevisionsNeverGoBack ==
  [][\A l \in LocalId :
       Bound(l) /\ Bound(l)' /\ row'[l].object = row[l].object =>
         row'[l].revision >= row[l].revision]_vars

NothingMoves == \A m \in Mover : moving[m] = Idle

\* With no call left to announce a move and nothing left to receive, the selection
\* recorded is the one agrirouter has, across overlapping calls, resets, broken
\* connections, restarts and replays: unless the latest announcement was overtaken
\* by another number before its frame was handed over (Router.publishSelection).
KnowsTheSelection ==
  NothingMoves /\ ~overtaken /\ connected /\ live = <<>> => (route = TRUE) = selected

\* A load that is confirmed holds everything active that the set it took held:
\* what the endpoint goes on to offer is not in it.
ConfirmsOnlyAWholeSet ==
  [][Confirm /\ load' # load =>
       \A o \in set.holds \ wiped : Holders(o) # {} \/ Current(o).ours]_vars

AtRest ==
  /\ NothingMoves
  /\ pc = "idle" /\ ~wanted
  /\ connected /\ live = <<>> /\ binding = None
  /\ \A c \in Caller : calls[c] = None

\* At rest, what agrirouter says a local id names is what the platform has it
\* for: no half of a pair is left behind. A confirmation that finds the endpoint
\* opted out and its load not dropped yet is refused pair by pair, and there the
\* platform gives up pairs that agrirouter keeps.
BothSidesAgree ==
  AtRest /\ ~withdrawn => \A l \in LocalId : mapping[l] # None => Bound(l) /\ row[l].object = mapping[l]

\* At rest after a completed load, every object is held as it stands, under the
\* name agrirouter has for it. Left out are what the endpoint wrote last itself,
\* and what was ever inactive: see DeadStaysArchived.
HoldsWhatIsThere ==
  AtRest /\ load = "COMPLETED" =>
    \A o \in Existing :
      ~Current(o).ours /\ (\A i \in DOMAIN history[o] : history[o][i].active) =>
        \E l \in Holders(o) : row[l].revision = Len(history[o]) /\ mapping[l] = o

\* Frames that have arrived are applied, however long a load takes: the stream
\* belongs to every endpoint of the application.
StreamIsNotStalled == (live # <<>>) ~> (live = <<>>)

\* The stream stands still for a person to answer and for nothing else.
OnlyAQuestionStallsTheStream == (live # <<>>) ~> (live = <<>> \/ pc = "ask")

\* A load an opted-in endpoint owes is brought to its end, whenever its signal
\* came: at rest, while an earlier run was on its way, or twice. It may wait for a
\* person.
OwedLoadCompletes == []<>(~selected \/ load \in {None, "COMPLETED"} \/ pc = "ask")

\* A reset drops the pairs of objects that are gone and no others.
ResetDropsOnlyTheWiped ==
  [][ReceiveReset => \A l \in LocalId : Bound(l) => row[l].object \in wiped]_vars

\* A restarted process gives no identifier out again: a new record starts
\* without a pair.
IdsAreNotReissued == [][StoreCreated => row[minted + 1] = None]_vars

\* What somebody deactivated is not shown as current by a platform that has
\* received the deactivation.
DeadStaysArchived ==
  AtRest /\ load = "COMPLETED" =>
    \A l \in LocalId :
      Bound(l) /\ row[l].object \in Existing /\ ~Current(row[l].object).active =>
        record[l] = None \/ record[l].archived

\* No record is created at agrirouter a second time: what a user's create sends
\* is not yet the platform's copy of an object.
CreatesOnlyTheUnbound == [][SendCreates("user") => ~Bound(calls["user"].local)]_vars

\* Once a reset has been carried out no pair names what it removed.
ResetIsFinal ==
  \A l \in LocalId : Bound(l) => row[l].object \notin wiped \/ position < resetSeq

\* A pair is given up on a reset or because agrirouter refused it, and otherwise
\* outlives the record.
PairsOutliveRecords ==
  [][\A l \in LocalId : Bound(l) /\ ~Bound(l)' => ReceiveReset \/ DropRejected]_vars

=============================================================================
