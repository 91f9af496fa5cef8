---------------------------- MODULE LiveStream -----------------------------
(***************************************************************************)
(* One endpoint of one application on agrirouter's live stream: how changes*)
(* reach it, what it keeps of them, and where it resumes.                  *)
(*                                                                         *)
(* On agrirouter's side (testrouter), every change to an object takes a    *)
(* number and is handed to the hub in the same locked region. A move of the*)
(* selection is made under the lock, takes its number and renders its frame*)
(* under the lock taken anew, and hands the frame over after letting go, so*)
(* that concurrent moves may be numbered in one order and handed over in   *)
(* another, and changes come in between.                                   *)
(* The hub queues frames per connection. A connection subscribes, then     *)
(* reads its catch-up from the store, sends that, and then the queue.      *)
(*                                                                         *)
(* On the participant's side (the platform's Receiver and Applier), a      *)
(* frame is applied and its position kept in one transaction; binding an   *)
(* object it had not held is a call made after that. Write responses are   *)
(* applied on their own, in any order relative to frames.                  *)
(*                                                                         *)
(* The endpoint is opted into every object here throughout; `selection`    *)
(* counts the moves of the rest of its selection. How a write merges is    *)
(* SSOT's Put.                                                             *)
(***************************************************************************)
EXTENDS Integers, Sequences, FiniteSets, Functions

CONSTANTS
  Object,
  TierOf,       \* delivery tier: referenced objects come in a lower one
  Capacity,     \* frames a connection's queue holds
  Mover,        \* concurrent calls that move the selection
  MaxSeq,       \* bound: the number from which on nobody writes
  MaxMoves,     \* bound: moves of the selection
  MaxBreaks     \* bound: lost connections and crashes

CONSTANT None

ASSUME LiveAssumption ==
  /\ TierOf \in [Object -> Nat]
  /\ Capacity \in Nat /\ MaxSeq \in Nat /\ MaxMoves \in Nat /\ MaxBreaks \in Nat
  /\ IsFiniteSet(Object) /\ None \notin Object

VARIABLES
  revision,     \* of each canonical object, 0 before it exists
  position,     \* number of each object's latest change
  own,          \* the endpoint wrote the object's current revision
  named,        \* agrirouter holds the endpoint's local id for the object
  seq,          \* number of the latest change
  selection,    \* the selection, as the number of its moves
  selectionSeq, \* number of its latest announced move
  moving,       \* where each call that moves it is, and the frame it rendered
  conn,         \* "down", "subscribed" or "up"
  catchUp,      \* catch-up frames still to be received
  live,         \* frames the hub queued on the connection
  resume,       \* the position the participant stored
  applied,      \* the revision it holds of each object, 0 for none
  heard,        \* the selection it recorded
  binding,      \* object applied and about to be bound, or None
  responses,    \* write responses not applied yet
  breaks,       \* bound: connections lost so far
  overtaken     \* for the properties: what took a number between that of a move
                \* and the handing over of its frame

store == <<revision, position, own, named, seq, overtaken>>
router == <<store, selection, selectionSeq, moving>>
wire == <<conn, catchUp, live>>
client == <<resume, applied, heard, binding, responses>>
vars == <<router, wire, client, breaks>>

----------------------------------------------------------------------------
(* The hub *)

EntityFrame(o, rev, id) ==
  [event |-> "entity", object |-> o, revision |-> rev, named |-> named[o], id |-> id]

RouteFrame(sel, id) == [event |-> "route", selection |-> sel, id |-> id]

\* Variant the runs must reject: the position after the catch-up.
CaughtUpAhead(id) == [event |-> "caughtUp", id |-> id + 1]

CaughtUp(id) == [event |-> "caughtUp", id |-> id]

Listening == conn # "down"

\* A frame that finds the queue full is dropped; the connection stays.
Deliver(f) ==
  live' = IF Listening /\ Len(live) < Capacity THEN Append(live, f) ELSE live

----------------------------------------------------------------------------
(* Changes *)

Announcing == {m \in Mover : moving[m].at = "publish"}

Overtake(by) == overtaken' = IF Announcing = {} THEN overtaken ELSE overtaken \cup {by}

Change(o, byUs) ==
  /\ seq < MaxSeq
  /\ seq' = seq + 1
  /\ Overtake("write")
  /\ revision' = [revision EXCEPT ![o] = @ + 1]
  /\ position' = [position EXCEPT ![o] = seq + 1]
  /\ own' = [own EXCEPT ![o] = byUs]

\* Another endpoint's write.
OtherWrite(o) ==
  /\ Change(o, FALSE)
  /\ Deliver(EntityFrame(o, revision[o] + 1, seq + 1))
  /\ UNCHANGED <<named, selection, selectionSeq, moving, conn, catchUp, client, breaks>>

\* The endpoint's own: creating an object names it, and an object it received
\* has to be bound before agrirouter resolves a write to it. It is not
\* delivered back; the response brings the revision.
OwnWrite(o) ==
  /\ revision[o] = 0 \/ (named[o] /\ applied[o] > 0)
  /\ Change(o, TRUE)
  /\ named' = [named EXCEPT ![o] = TRUE]
  /\ responses' = responses \cup {[object |-> o, revision |-> revision[o] + 1]}
  /\ UNCHANGED <<selection, selectionSeq, moving, wire, resume, applied, heard, binding,
                 breaks>>

Idle == [at |-> "idle", frame |-> None]

\* A call that moves the selection, up to its first unlock.
MoveSelection(m) ==
  /\ moving[m] = Idle
  /\ selection < MaxMoves
  /\ selection' = selection + 1
  /\ moving' = [moving EXCEPT ![m] = [at |-> "number", frame |-> None]]
  /\ UNCHANGED <<store, selectionSeq, wire, client, breaks>>

\* Variant the runs must reject: the number is not kept for catch-up.
NumberMoveUnrecorded(m) ==
  /\ moving[m].at = "number"
  /\ seq' = seq + 1
  /\ Overtake("move")
  /\ moving' = [moving EXCEPT ![m] = [at |-> "publish", frame |-> RouteFrame(selection, seq + 1)]]
  /\ UNCHANGED <<revision, position, own, named, selection, selectionSeq, wire, client,
                 breaks>>

\* The frame states the selection as it now stands, which another call may have
\* moved again.
NumberMove(m) ==
  /\ moving[m].at = "number"
  /\ seq' = seq + 1
  /\ selectionSeq' = seq + 1
  /\ Overtake("move")
  /\ moving' = [moving EXCEPT ![m] = [at |-> "publish", frame |-> RouteFrame(selection, seq + 1)]]
  /\ UNCHANGED <<revision, position, own, named, selection, wire, client, breaks>>

PublishMove(m) ==
  /\ moving[m].at = "publish"
  /\ Deliver(moving[m].frame)
  /\ moving' = [moving EXCEPT ![m] = Idle]
  /\ UNCHANGED <<store, selection, selectionSeq, conn, catchUp, client, breaks>>

----------------------------------------------------------------------------
(* Connecting *)

Subscribe ==
  /\ conn = "down"
  /\ conn' = "subscribed"
  /\ UNCHANGED <<router, catchUp, live, client, breaks>>

\* Delivery order: a referenced object precedes those that reference it, and
\* within a tier the order is that of the changes.
Before(o, q) ==
  TierOf[o] < TierOf[q] \/ (TierOf[o] = TierOf[q] /\ position[o] <= position[q])

\* Variant the runs must reject: one change above the position is passed over.
ChangedSinceNext(from) == {o \in Object : position[o] > from + 1 /\ ~own[o]}

\* Origin suppression applies: an object the endpoint wrote last is withheld.
ChangedSince(from) == {o \in Object : position[o] > from /\ ~own[o]}

\* The objects one after the other in that order, which is one way only: two
\* that have changed have changed at different positions.
InOrder(objs) ==
  {ordered \in Bijection(1..Cardinality(objs), objs) :
     \A i, j \in 1..Cardinality(objs) : i < j => Before(ordered[i], ordered[j])}

Frames(ordered) ==
  [i \in DOMAIN ordered |->
     EntityFrame(ordered[i], revision[ordered[i]], position[ordered[i]])]

\* catchUp, in one locked region after the subscription.
CatchUp ==
  /\ conn = "subscribed"
  /\ conn' = "up"
  /\ \E ordered \in InOrder(ChangedSince(resume)) :
       catchUp' =
         (IF selectionSeq > resume THEN <<RouteFrame(selection, selectionSeq)>> ELSE <<>>)
         \o Frames(ordered)
         \o <<CaughtUp(seq)>>
  /\ UNCHANGED <<router, live, client, breaks>>

----------------------------------------------------------------------------
(* The participant *)

\* Variant the runs must reject: the last one to arrive wins.
NewestOnArrival(o, rev) == rev

\* Applying is guarded by revision.
Newest(o, rev) == IF rev < applied[o] THEN applied[o] ELSE rev

\* What applying a frame does, its position included, in one transaction. An
\* object neither held nor named in the frame is created, and must be bound.
Apply(f) ==
  /\ resume' = f.id
  /\ heard' = IF f.event = "route" THEN f.selection ELSE heard
  /\ IF f.event = "entity"
     THEN /\ applied' = [applied EXCEPT ![f.object] = Newest(f.object, f.revision)]
          /\ binding' = IF applied[f.object] = 0 /\ ~f.named THEN f.object ELSE None
     ELSE UNCHANGED <<applied, binding>>

Receive ==
  /\ conn = "up"
  /\ binding = None
  /\ IF catchUp # <<>>
     THEN Apply(Head(catchUp)) /\ catchUp' = Tail(catchUp) /\ UNCHANGED live
     ELSE live # <<>> /\ Apply(Head(live)) /\ live' = Tail(live) /\ UNCHANGED catchUp
  /\ UNCHANGED <<router, conn, responses, breaks>>

Bind ==
  /\ binding # None
  /\ named' = [named EXCEPT ![binding] = TRUE]
  /\ binding' = None
  /\ UNCHANGED <<revision, position, own, seq, overtaken, selection, selectionSeq, moving,
                 wire, resume, applied, heard, responses, breaks>>

\* A response is applied as a frame is, but moves no position.
ApplyResponse(r) ==
  /\ applied' = [applied EXCEPT ![r.object] = Newest(r.object, r.revision)]
  /\ responses' = responses \ {r}
  /\ UNCHANGED <<router, wire, resume, heard, binding, breaks>>

Break ==
  /\ breaks < MaxBreaks
  /\ breaks' = breaks + 1
  /\ conn' = "down" /\ catchUp' = <<>> /\ live' = <<>>
  /\ binding' = None
  /\ UNCHANGED <<router, resume, applied, heard>>

\* The connection is lost, or the call that binds fails, which ends it too.
Disconnect == conn # "down" /\ Break /\ UNCHANGED responses

\* A restart keeps what was committed and forgets the calls in flight.
Crash == Break /\ responses' = {}

----------------------------------------------------------------------------

Init ==
  /\ revision = [o \in Object |-> 0]
  /\ position = [o \in Object |-> 0]
  /\ own = [o \in Object |-> FALSE]
  /\ named = [o \in Object |-> FALSE]
  /\ seq = 0
  /\ selection = 0
  /\ selectionSeq = 0
  /\ moving = [m \in Mover |-> Idle]
  /\ conn = "down"
  /\ catchUp = <<>>
  /\ live = <<>>
  /\ resume = 0
  /\ applied = [o \in Object |-> 0]
  /\ heard = 0
  /\ binding = None
  /\ responses = {}
  /\ breaks = 0
  /\ overtaken = {}

Next ==
  \/ \E o \in Object : OtherWrite(o) \/ OwnWrite(o)
  \/ \E m \in Mover : MoveSelection(m) \/ NumberMove(m) \/ PublishMove(m)
  \/ Subscribe
  \/ CatchUp
  \/ Receive
  \/ Bind
  \/ \E r \in responses : ApplyResponse(r)
  \/ Disconnect
  \/ Crash

Spec == Init /\ [][Next]_vars

\* A participant reconnects, agrirouter serves the connection, and what was
\* sent is applied; a move that began is announced. Nobody is obliged to write,
\* and writes may never be answered.
Fairness ==
  /\ WF_vars(Subscribe) /\ WF_vars(CatchUp) /\ WF_vars(Receive) /\ WF_vars(Bind)
  /\ \A m \in Mover : WF_vars(NumberMove(m)) /\ WF_vars(PublishMove(m))

FairSpec == Spec /\ Fairness

----------------------------------------------------------------------------
(* Properties *)

RouteFrames == [event : {"route"}, selection : 0..MaxMoves, id : Nat]

StreamFrame ==
  [event : {"entity"}, object : Object, revision : Nat, named : BOOLEAN, id : Nat]
  \cup RouteFrames
  \cup [event : {"caughtUp"}, id : Nat]

Call ==
  [at : {"idle", "number"}, frame : {None}] \cup [at : {"publish"}, frame : RouteFrames]

TypeOK ==
  /\ revision \in [Object -> Nat] /\ position \in [Object -> 0..seq]
  /\ own \in [Object -> BOOLEAN] /\ named \in [Object -> BOOLEAN]
  /\ seq \in Nat
  /\ selection \in 0..MaxMoves /\ selectionSeq \in 0..seq
  /\ moving \in [Mover -> Call]
  /\ conn \in {"down", "subscribed", "up"}
  /\ catchUp \in Seq(StreamFrame) /\ live \in Seq(StreamFrame) /\ Len(live) <= Capacity
  /\ resume \in 0..seq
  /\ \A o \in Object : applied[o] \in 0..revision[o]
  /\ heard \in 0..MaxMoves
  /\ binding \in Object \cup {None}
  /\ responses \subseteq [object : Object, revision : Nat]
  /\ breaks \in 0..MaxBreaks
  /\ overtaken \subseteq {"write", "move"}

\* Whatever position the participant stored is safe to resume from: what
\* agrirouter would not send again for it, the participant holds. An object it
\* wrote last itself is never sent and is not covered. Nor is one that changed
\* before the latest move: catch-up begins with the frame of that move.
SafeToResume ==
  \A o \in Object :
    selectionSeq < position[o] /\ position[o] <= resume /\ ~own[o] => applied[o] = revision[o]

\* Whichever of a write response and a frame comes first, and however often a
\* frame is delivered, the platform never goes back to an older revision.
RevisionsNeverGoBack ==
  [][\A o \in Object : applied'[o] >= applied[o]]_vars

\* A connection that breaks after the first frame of catch-up, the latest move's,
\* passes over what changed before that move.
PassedOver(o) == breaks > 0 /\ position[o] < selectionSeq

\* Wherever the connection breaks, in catch-up or in the queue, once it stays up
\* the participant ends up with every object as it stands, but for what it wrote
\* last itself and what a move passed over.
Convergence ==
  <>[](\A o \in Object : own[o] \/ PassedOver(o) \/ applied[o] = revision[o])

\* An announcement may be lost if another move was numbered before it was handed
\* over, or, where the connection breaks, any change was.
MayHaveMissed == "move" \in overtaken \/ (overtaken # {} /\ breaks > 0)

\* However moves are announced before, while or after a participant connects, it
\* ends up with the selection as it stands, unless an announcement was overtaken
\* between its number and its handing over (Router.publishSelection).
SelectionConverges == <>[](heard = selection \/ MayHaveMissed)

\* A move made, or announced, while nobody is connected is not lost: where the
\* participant is to resume from, catch-up restates it or it has been recorded.
RouteSafeToResume ==
  conn = "down" /\ (\A m \in Mover : moving[m] = Idle) /\ selectionSeq <= resume
    => heard = selection

\* A record applied but not bound is bound by the next attempt: a participant
\* that has caught up and owes no call has bound everything it holds.
CaughtUpIsBound ==
  conn = "up" /\ catchUp = <<>> /\ binding = None =>
    \A o \in Object : applied[o] > 0 => named[o]
=============================================================================
