# Verification of the master-data synchronization reference implementation

This directory holds TLA+ specifications of the reference implementation of the
agrirouter master-data protocol: `testrouter`, the implementation of agrirouter
that participants are tested against, and the reference client that implements
a participant. Every definition is translated from the Go source;
`PROJECT.json` names, for each, the lines it stands for. Paths below are
relative to `src/reference-client/internal/` unless they start with `src/`.

## 1. The system

Several farm-management systems (*participants*) exchange parties, farms,
fields, field boundaries and customers through agrirouter, which keeps one
*canonical* copy of each object. A participant takes part through *endpoints*,
each in one *tenant*. For every endpoint agrirouter maps the participant's own
identifiers (*local ids*) to its own. A user *selects* per endpoint which entity
types it exchanges.

### Components

| Component | State | Operations | Where |
|---|---|---|---|
| Single source of truth | canonical objects with revision, per-attribute history, position; `local`, `canonical`, `localEntries`; endpoints; `seq` | put, deactivate, bind, bulk bindings, correct, request, remove endpoint, reset tenant | `testrouter/ssot.go`, `identity.go`, `references.go`, `mergepatch.go`, `assigned.go`, `reset.go` |
| Selection and initial load | declaration, selection, load state, `awaitingUser`, the mark of a completed load, number of the last move | select, declare, start/drop load, publish the move, send the set, advance, raise | `testrouter/router.go`, `initialload.go`, `streams.go` |
| Event streams | per connection a queue of 256 frames; nothing else: catch-up is computed from the store | subscribe, catch up, publish, unsubscribe | `testrouter/streams.go` |
| Receiver and Applier | stored position, per record its pair and revision, recorded selection | consume, apply, bind, apply a write's response, send, correct | `platform/sync/receive.go`, `inbound.go`, `outbound.go` |
| Loader and recognition | the take in progress, blocked objects, rejected pairs | take the set, ask a person, confirm, push, complete | `platform/sync/initialload.go`, `recognise.go`, `src/reference-client/cmd/refclient/decisions.go` |
| Platform store | SQLite: records, sync table, selection, position; one writing connection | transactions | `platform/store` |
| Instance | the loops and the channel that says a load is owed | receive loop, load loop, local edits | `src/reference-client/cmd/refclient/instance.go` |
| `agmasync` | none | typed client, `DependencyClosure` | `src/agmasync` |

Interaction: a participant calls the router over HTTP; a handler first looks the
acting endpoint up under the store's mutex (`actingEndpoint`) and then performs
the operation under the same mutex taken anew. An accepted change hands a frame
per entitled endpoint to the hub while still holding the mutex; a move of the
selection hands its frame over after letting go. The hub queues frames per
connection; the connection's goroutine writes its catch-up first and the queue
after. The participant applies a frame and stores the frame's position in one
transaction, and makes the calls that follow (bind) after it.

### What is hard

- Two endpoints write one object from different revisions: three-way merge.
- One mapping kept in three maps, edited by six operations.
- Operations that take the mutex several times: removal of an endpoint behind a
  request's back, selections interleaving with resets and one another, streams
  that finish after the load they were opened for has gone.
- Positions: what a frame's position promises, against catch-up's order, the
  hub's full queue, and selection frames handed over after the lock under which
  they were numbered, so that other numbers may go out before them.
- A participant that stops between two of its steps.
- One database behind a receive loop, a load that may wait for a person, and
  the user's own edits, which call agrirouter between two transactions.
- Several endpoints of one application over one set of records: one change
  arrives once per endpoint, a record may be known through a sibling only.
- A send states every column the platform has, whoever changed it last.

The full list, at its lines, is `hazards` in `PROJECT.json`.

### What makes each component correct

- Store: the mapping is a one-to-one correspondence per endpoint and type within
  the tenant; no concurrent change is lost; a revision for every change and for
  nothing else; history reconstructs content; parents resolve to organizations.
- Selection and load: the selection stays declared and dependency-closed; only
  a stream ends a load's first state; a completed load waits for nobody; every
  participant can learn the selection as it stands.
- Streams, receiver: the stored position is safe to resume from; revisions never
  go back; a participant that stays connected converges.
- Loader: a confirmed load took its whole set; an owed load is brought to its
  end; at rest both sides have the same pairs.
- Applier and store: one record per object and one object per record, also
  through siblings; a write's base is a revision its object has had.
- Codec: the tables show what the object held; a send changes only what the
  user edited.

## 2. Modules

| Module | Models | Checked by |
|---|---|---|
| `SSOT` | the store | `MCMerge` `MCMapping` `MCParty` |
| `Correspondence` | the abstract promise of the identifier mapping | `KeepsCorrespondence` in `MCMapping`, proved in `SSOT_refinement` |
| `InitialLoad` | one endpoint's selection and load at agrirouter | `MCLoad` |
| `LiveStream` | one endpoint on the live stream: delivery in full, the receiver in outline | `MCLive` |
| `Participant` | one participant in full with one endpoint, agrirouter as it meets it | `MCParticipant` `MCReconcile` `MCOwed` |
| `Siblings` | several endpoints of one application over one store | `MCSiblings` `MCCorrections` `MCFanOut` |
| `PlatformRecord` | one object, its tables and the codec between them | `MCCodec` |
| `MCSSOT`, `MCInitialLoad`, `MCLiveStream`, `MCParticipant`, `MCSiblings` | constants for TLC | |
| `SSOT_proofs`, `SSOT_refinement`, `InitialLoad_proofs`, `LiveStream_proofs`, `Participant_proofs`, `Siblings_proofs`, `PlatformRecord_proofs` | theorems | |

The modules overlap where they compose. `SSOT` and `InitialLoad` are agrirouter
region by region. `LiveStream` opens up delivery: the queue, the regions of a
move, catch-up beside the live frames. `Participant` and `Siblings` take agrirouter
call by call, since their subject is what happens between a participant's calls,
and keep of its merge what decides whether a write is refused, kept or revises;
only the calls that move the selection are taken region by region in `Participant`
too, because the participant's own calls come between them.
`PlatformRecord` has the merge attribute by attribute again, for one writer's
patches as the codec makes them.

### SSOT

Every operation is one locked region, hence one action: `Put` (`store.put`),
`Deactivate`, `Request`, `Bind`, `ApplyBindings` (the pairs a confirmation
carries), `Correct`, `RemoveEndpoint`, `ResetTenant`, and `SelectTypes` for what
the selection means to the store. `Put` has three disjuncts: the local id is
unknown and a create follows; it is known and the write makes a revision; it is
known and the write changes nothing or is refused - which still records what the
write says of its local entry, as the code does before its checks. A request
that is refused and changes nothing is a stuttering step.

`late` is the look-up: an endpoint that was removed with a request already past
`actingEndpoint` is in it until that request has run. `Acting` is the guard of
every request. The selection used by such a request is the removed endpoint's,
as the code keeps the pointer.

Attribute values are opaque, except a party's details: their party type and
parent organization, which `resolveRefs`, `checkKindChange` and `mergePatch` look
into. Details replace whole when the party type changes and merge otherwise. An
attribute's history is the set of its changes with their revisions; `ValueAt` is
`valueAt`. `published` is what the last operation handed to the hub, `accepted`
the base of the last accepted update; both exist for the properties to read.

References in other slots are left out: their one condition, that the target
exists in the tenant, is the parent's without the organization check.

### InitialLoad

One action per locked region. A selecting call goes through `Select`, then
`DropLoad` or `StartLoad` if the selection emptied or widened, then `NumberMove`
and `Publish`; `calls` holds where each of the concurrent calls is and the frame
it rendered. `Declare` narrows. `ResetTenant` is one region, its frame included.
A stream is opened (`OpenStream`), may be cut, sends everything and checks that
there is a load (`SetSent`), and then advances it (`SetLoadState`), two regions in
the code. `Advance` and `RaiseAwaitingUser` are the endpoint's. `heard` is the last
selection or reset frame on a connection that stays up; `AfterCatchUp` is what a
participant would hold that reconnects from that frame, computed as `catchUp`
does.

### LiveStream

Router side: `OtherWrite` and `OwnWrite` number a change and hand it to the hub
in one step. A move takes three, of several calls at a time: `MoveSelection` is what a
call does before it lets go of the lock, `NumberMove` what `publishSelection` does
under it, `PublishMove` what it does after, so that two calls may publish against the
order of their numbers. `overtaken` remembers, for the properties, whether a move
or a write was numbered while another frame had its number and was not handed over.
`Deliver` appends to the queue unless it is full.
`Subscribe` and `CatchUp` are separate, as in `liveStream`; catch-up is the
selection if it moved, then the objects by delivery tier and position, without
those the endpoint wrote last, then `CAUGHT_UP`. Participant side: `Receive` applies
one frame and stores its position in one step; `Bind` follows for an object it did
not hold; `ApplyResponse` applies a write's answer whenever it comes. `Disconnect`
and `Crash` lose the connection, the queue, a pending bind, and (a crash) the
answers. Merging is SSOT's, so a write only counts a revision here.

### Participant

A database transaction is one step and a call to agrirouter another; anything may
happen in between. The load is a program counter `pc` (`idle`, `status`, `take`,
`ask`, `bind`, `confirm`, `drop`, `list`, `push`), a send by the load or by the user a
record in `calls` whose `step` says what is next. `set` is the stream of the initial
set, `live` the live stream, `replay` that the next connection is to start from the
beginning, `pending` the records the load has listed for pushing.
`row` is the sync table, `record` the records' names, `minted` the last local id.

The store opens one connection that writes (`store.go:63`). While the load waits
for a person (`pc = "ask"`) it is inside a transaction, so every other action that
writes has `WriterFree` as its guard.

`SendRefused`, `SendCreates`, `SendKept` and `SendRevised` are the ways a write can end
at agrirouter; `SendApply` is its answer applied as a delivery is. `Conflicts` and
`Merged` are the three-way merge over the two attributes there are, a name and
activity. The initial load confirms the pairs it made, is told which were refused,
drops those, lists what is left and pushes it. `Faults` are a broken live stream, a
set cut short, a call lost on its way there or back, and a restart, which keeps
the tables and loses everything else.

Content is a name, because recognition goes by names: `Exact` finds records of the
same name, `Plausible` those a person is asked about, where similarity is the
constant `Alike`. There is one entity type; the order of types within a load is the
closure of `InitialLoad`.

A call that moves the selection (`moving[m]`) goes through the regions of
`selectTypes`: `Select` or `Deselect` move it, `StartLoad` or `DropLoad` follow in
regions of their own, `NumberMove` numbers the move and renders its frame from the
selection as it is by then, and `PublishMove` hands that frame over. Calls overlap
each other, a reset, other endpoints' writes and the participant's own calls.
`overtaken` and `withdrawn` record, for the properties, what such an overlap can cost.

Where the code sorts, a step takes any sequence of what is sent that is in order
(`InOrder`), as in `LiveStream`: a set and a catch-up by position, and in `Siblings` one
change to its endpoints in the order they have. It is what the proofs use.

### Siblings

`Endpoints` is a sequence, for the order in which a change goes to them. Each has
its own pairs (`row[e]`) and its own side of the mapping (`mapping[e]`), all share
`content`, one stream, one position. `FannedOut` is one frame per endpoint but the
origin, all under the object's position. `RecordOf` resolves a frame by the
endpoint's own pair, then by the local id in it, then by a sibling's pair. A send
of a record the endpoint has not bound looks for a sibling's pair (`SiblingRead`),
binds at agrirouter (`SiblingBind`) and stores (`SiblingStore`) in three steps. A
correction goes to agrirouter, then to the table, then asks for the objects now
bound. Content is the number of the edit that made it, so it can be told whose
change a write lost.

`AtRest` is: nothing under way and every frame applied; and here, not in
`Participant`, nothing broken on the way there. What a break can lose is the subject
of `LiveStream` and of `MCFanOut`; counting it again here would hide everything else.

### PlatformRecord

One object with one attribute of each kind the codec or the merge treats
differently: a required one (`name`), a plain one, a reference, an attribute the
platform has no column for, a nested object (contact information, or what a
boundary carries), and a party's details. `Row` is what a delivery stores, `ToEntity`
what a send states: every attribute there is a column for, `Null` where the column
is empty, the required one and an unresolved reference left out. `MoveSelection`
moves the referenced type in or out, which decides whether its column is written.
A send is one step here: `NothingIsReverted` of `Siblings` is about what comes
between. The parent organization is a value like any other (`SSOT` has its
checks); an area's unit and its conversion are left out.

## 3. Runs

### Passing

- `MCMerge`: two endpoints, one object, two attributes, two values, every patch
  over them with removals, every base, three revisions. Three revisions give
  a base, a change by somebody else and the write that meets it; two values
  tell a conflict from agreement.
- `MCMapping`: two endpoints, two local ids, two objects, every bulk request and
  every correction over them, one removal, one reset, three numbered changes.
  Swaps need two ids on each side and no more. Checks the refinement of
  `Correspondence`.
- `MCParty`: two tenants, parties only, all patches of details: nothing is named
  as a parent across a tenant boundary, a reset included.
- `MCLoad`: two callers and two streams, two types one of which requires the
  other, three numbers. Two concurrent calls are what a lost or overtaken
  announcement needs, and a reset takes the third number.
- `MCLive`: two objects of one tier, three changes, two calls that move the selection,
  region by region, a break, a queue of five that never fills, under fairness. 1.4
  million states. Two calls are what it takes to hand frames over against the order
  of their numbers; the break is what turns an overtaken frame into one that is passed
  for good, and what lets a stored position pass objects of a catch-up that began with
  the selection. `MayHaveMissed` and `PassedOver` name these cases and no others. Without
  moves (`MaxMoves = 0`) two breaks and four changes can be run as well.
- `MCParticipant`: two objects, three records, two calls that move the selection and one
  each of another's write, a fault, a reset and a user's request, two attempts at a
  call. `Eventful`, the run's constraint, follows three of these events together, and a
  second move only where the user asks for nothing. 0.9 million states. One record was
  there before the load, under the name of one object: that is recognition, a create
  and a delivery that meet. A third record is needed for a user to create one beside
  both. The number that overtakes an announcement may be the other call's, the reset's
  or the write's.
- `MCReconcile`: two objects that have records of the same names, room for three more
  of each, two calls that move the selection, another's write, no fault: a load over
  records somebody already had. 2.6 million states. The user makes no request, since
  what a create beside a load does is `MCTwice`; nothing breaks, since a set that is
  cut after it was sent is lost: with `MaxFaults = 1` this run's
  `ConfirmsOnlyAWholeSet` fails. Nobody is asked a question either, the names being
  distinct: that is `MCOwed`.
- `MCOwed`: under fairness, records that resemble what the set brings, so that a person
  is asked and may never answer, and three moves of the selection by one call at a
  time, the third opting in again: a load is signalled while an earlier one runs or
  waits for the answer. 76 thousand states. `OwedLoadCompletes` is about a signal that
  comes at any moment; `OnlyAQuestionStallsTheStream` about the receive loop, which
  waits for the load in that one place.
- `MCSiblings`: two endpoints, one object both know and one that arrives, two
  records, two sends, an edit, a fault. 1.6 million states.
- `MCCorrections`: two endpoints, two objects and records, a correction (every list
  of entries, swaps included) beside a send, a new record, another's write and a
  fault. 1.7 million states.
- `MCCodec`: a party, a field and a boundary, two values and targets, three
  revisions, one edit and one move.

### Where the code and its documents part

One run ends in a violation; `findings` in `PROJECT.json` quotes what it contradicts.

- `MCFanOut`, `SafeToResume`: a change goes to the endpoints of an application as one
  frame each under one position, so a break after the first resumes past the rest.

The configurations below show others. They are kept to be run by hand (`tlc -config
<configuration>.cfg <module>`); each stops at a violation of the one property it
names, whose comment in the module says what is expected, and why it is. Two rows
change a bound of a run instead.

| Configuration, property | What happens | Where |
|---|---|---|
| of `MCSSOT` | | |
| `MCDeactivation`, `DeactivationConflicts` | an edit from before a deactivation is merged over it | `ssot.go:266` |
| `MCLateWrite`, `MappingDiesWithEndpoint` | a request in flight re-creates a removed endpoint's pair | `router.go:88` |
| `MCPartyKind`, `ParentsAreOrganizations` | an organization becomes a person that names itself | `references.go:58` |
| of `MCInitialLoad` | | |
| `MCLoadSet`, `AdvancesOnlyWithTheSet` | RECONCILING without the new type's set | `streams.go:361` |
| `MCLoadDropped`, `LoadOnlyWhileOptedIn` | a load without a selection | `router.go:366` |
| `MCLoadBack`, `NothingBringsALoadBack` | a load discarded between a stream's check and its step comes back | `streams.go:361` |
| of `MCLiveStream` | | |
| `MCTiers`, `SafeToResume` | a position within catch-up skips objects still to come | `streams.go:265` |
| `MCLive` with `Capacity = 1`, `MaxBreaks = 0`, `SafeToResume` | a dropped frame is passed by the next one's position | `streams.go:159` |
| `MCRoute`, `RouteSafeToResume` | a move is numbered, a later change is delivered and its position stored, the connection breaks before the move's frame is handed over, and catch-up never restates it | `testrouter/initialload.go:90` |
| `MCUnbound`, `CaughtUpIsBound` | an object held but never bound | `receive.go:277` |
| of `MCParticipant` | | |
| `MCReconcile` with `MaxFaults = 1`, `ConfirmsOnlyAWholeSet` | a set that was cut is taken for a whole one: agrirouter has written it, the load goes on | `platform/sync/initialload.go:171` |
| `MCStalled`, `StreamIsNotStalled` | a load that waits for a person holds the one connection that writes, and the live stream waits with it, for as long as the person takes | `store.go:63` |
| `MCTwice`, `CreatesOnlyTheUnbound` | the load pushes what the user's own call is creating | `outbound.go:36` |
| `MCReset`, `ResetDropsOnlyTheWiped` | a reset's frame drops pairs made after the reset | `receive.go:343` |
| `MCStale`, `ResetIsFinal` | an answer from before a reset brings a wiped object's pair back | `outbound.go:105` |
| `MCRevived`, `DeadStaysArchived` | an object deactivated before it was known is shown as current later | `inbound.go:326` |
| `MCReissued`, `IdsAreNotReissued` | a restart gives a deleted record's id out again, with its pair | `instance.go:754` |
| `MCDeleteRace`, `PairsOutliveRecords` | a delivery during a deletion leaves the two sides apart | `instance.go:604` |
| of `MCSiblings` | | |
| `MCMintsTwice`, `MintsNoSecond` | two endpoints send one new record and make two objects | `outbound.go:199` |
| `MCSecondRecord`, `OneRecordPerObject` | the same object delivered to one endpoint while the other creates it becomes a second record | `inbound.go:209` |
| `MCReverted`, `NothingIsReverted` | a write states what the other endpoint's frame has not yet brought, and undoes it | `inbound.go:221` |
| `MCCorrected`, `BothSidesAgree` | after a correction a row and the mapping differ | `outbound.go:140` |
| `MCMisdirected`, `LandsWhereMeant` | a send read before a correction lands on another object | `outbound.go:143` |
| `MCUnfetched`, `CorrectedIsFetched` | a re-pointed record never gets its object's content | `outbound.go:182` |
| `MCBaseBack`, `RevisionsNeverGoBack` | a sibling's binding stores a revision older than one applied meanwhile | `outbound.go:226` |
| of `PlatformRecord` | | |
| `MCStaleReference`, `OnlyEditsAreSent` | a reference kept while its type was out of the selection goes out when it is back in | `outbound.go:48`, `inbound.go:384` |
| `MCUnshown`, `ReferenceShown` | a reference whose target came later is never filled in | `entities.go:454` |

(`outbound.go`, `inbound.go` and `receive.go` are in `platform/sync`, `store.go` and
`entities.go` in `platform/store`, `instance.go` in `src/reference-client/cmd/refclient`,
the rest in `testrouter`.)

So a property may be checked in one run and violated in another. Which bound
separates the two is part of what the project says:

- `SafeToResume` and `Convergence` are checked for one tier and a queue that does not
  fill. `MCTiers` and a `Capacity` of 1 each remove one of these, and `SafeToResume`
  fails. With both it is proved (`ResumesSafely`). Both properties except what changed
  before the latest move: catch-up begins with the selection, under that move's number,
  which may be above the objects', and a break right after it passes them.
- `SelectionConverges` and `KnowsTheSelection` hold of every announcement that was not
  overtaken. Without that exemption both are false: two calls that hand over against
  the order of their numbers leave a connected participant with the older selection,
  and a later change and a break pass the frame for good, which is `MCRoute`.
- `OneRecordPerObject` holds for one endpoint, always; for two, when no record is
  created while its object is delivered to the sibling. Both are proved.
- `RevisionsNeverGoBack` holds for one endpoint; for two, a sibling's binding can
  take a revision back (`MCBaseBack`), and what still holds is `BasesExist`.
- `MintsNoSecond`, `BothSidesAgree` and `ShowsWhatStands` hold for several endpoints
  that create no record and correct none, whatever else happens (all are proved). For one
  endpoint, `BothSidesAgree` holds as long as no answer to a write is lost, no set
  agrirouter has sent is cut, no tenant is reset and the user changes no record of
  their own (proved): `MCTwice`, `MCReset` and `MCDeleteRace` show what each costs. Nor
  may a load be confirmed between a deselection and the dropping of that load
  (`router.go:350-361`): it is then refused pair by pair, the platform gives up its
  half of each, and agrirouter, whose mapping survives opting out, keeps the other.
  `BothSidesAgree` exempts what follows (`withdrawn`); `MCReconcile` reaches it.
- `ConfirmsOnlyAWholeSet` holds under the same conditions (proved). Only the set
  that was sent and not received is lost, see `MCReconcile` with a fault: one that is
  cut earlier is asked for again.
- `HoldsWhatIsThere` also needs that no connection is given up between the commit of
  a record and its binding (`MCUnbound` shows the gap). It is proved for one call that
  moves the selection, and TLC finds it of two that overlap (`MCReconcile`). It is
  false of three: a set opened while the endpoint is opted out is empty, and one
  that ends late ends the next load, as `MCLoadSet` shows at agrirouter's side.
- `OwedLoadCompletes` holds while calls that move the selection do not overlap and no
  tenant is reset: a load started by one call after another call, or a reset, has
  emptied the selection is owed to nobody (`MCLoadDropped`). A record deleted
  while a load offers it ends that load's run as well.
- The live stream stands still for a question (`MCStalled`) and for nothing else
  (`MCOwed`).
- `OnlyEditsAreSent` holds while the selection moves at most once.

### Bounds

Every `Max...` constant, `Removable`, `Resettable`, `Attempts` and `Capacity` are guards in the
actions. `MaxRevision`, `MaxSeq`, `MaxObjects`, `MaxRecords` cap counters; `MaxOthers`, `MaxMoves`,
`MaxResets`, `MaxFaults`, `MaxRequests`, `MaxEdits`, `MaxSends`, `MaxAdded`, `MaxCorrections` and
`MaxBreaks` cap how often the world does something. `Capacity` stands for the hub's
256: five is as many frames as are ever queued, one makes it fill. `Attempts` is how
often a load takes the set before it gives up: three by default in the code, two
where nothing is gained by a third. Deadlock is not checked where a model
stops at its bounds: the system itself is idle when nobody asks anything of it.

Symmetry is over identifiers and values that are only compared, and over
endpoints, callers or streams that are not told apart; the runs that check
liveness use none.

### Fairness

`FairSpec` of `LiveStream` assumes that the participant reconnects and applies
what it is sent (`instance.receive` loops, with a bounded wait, until the process
ends), that agrirouter serves the connection (`liveStream`'s goroutine), and that
a call which moved the selection finishes. Nobody is assumed to write, to
select, or to receive an answer. Breaks are finitely many.

`FairSpec` of `Participant` assumes weak fairness of agrirouter writing a set it has
opened (`SetWritten`), of reconnecting and receiving (`Connect`, `Receive`), of the load
loop, of each send that has begun, and of a call that has moved the selection going
on to its end (`Announce`). Each is a goroutine or a handler that goes on whenever it
can. A person's answer, the user's requests, other endpoints and faults are
under no fairness: `OwedLoadCompletes` therefore lets a load wait for a person.

## 4. Proofs

`SSOT_proofs` proves, for any finite or infinite sets of endpoints, tenants,
types, ids and patches:

- `TypeCorrect`: the type invariant, from the assumptions on the constants:
  patches are well-formed and the marks for "nothing" differ from the
  values. It is proved together with the next one: an update is to the object
  a local id resolves to, which is live because of the mapping.
- `MappingIsOneToOne`: `[]MappingInverse`. Its two halves need each other: what
  `local` holds resolves back through `canonical` and the reverse, and each
  write to one is guarded by a look-up in the other. `IInv`, `TypeOK` with the
  pair, is inductive; live objects' type and tenant never change, which is
  what carries pairs over writes, and a reset takes objects and pairs at once.
- `RevisionsAreChanges` and `NothingIsLost`: action properties, from the type
  invariant and lemmas about `PatchAttribute` and `Revised`. The lost-update
  theorem is the argument of the merge: an attribute is in `Changed` only if the
  write intends something other than the base's value, and `Conflicts` then lets
  it through only where the current value still is the base's, or already is
  what is written.
- `HistoryIsWhole`: `[]HistoryReconstructs`, what the merge reads its bases from. The
  strengthening `Recorded` says that no entry of an attribute's history is above
  the revision, that no two have one revision, and that each is a change from the
  one before; then adding an entry at the new revision keeps `ValueAt` at every
  earlier one.
- `EntriesUnderOwnName`: a local entry is shown only beside the id it was sent
  under. Needs the mapping's invariant for the operations that move an id.
- `ChangesAreAnnounced`: a change goes to exactly the entitled endpoints but its
  origin, an action property, operation by operation.
- `ParentsStay`: `[]ParentsResolve`. `ParentOK` says it of each attribute; a write
  checks its target, a merge keeps one that was checked, and a reset wipes a
  tenant whole, with the named and the naming.
- `ParentsStayOrganizations`: `[]ParentsOfOthersAreOrganizations`, from the former and
  `DetailsOfParties`: `checkKindChange` looks for those who name a party among parties
  only, which is enough because only parties have details.

`SSOT_refinement` proves `MappingKeepsPromise`, that the store implements
`Correspondence`. From `IInv`, before and after, each action maps to one of the
promise's: `PutCreate`, `Bind` and `ApplyBindings` to `Learn`, `Correct` to
`Repoint`, `RemoveEndpoint` to `Drop`, `ResetTenant` to `Clear`; the rest leave
`Pairs` and `Gone` alone, an update because the object it revises stays live.

`InitialLoad_proofs` proves, for any transitive dependency relation, any number
of concurrent calls and streams:

- `TypeCorrect`, `SelectionStaysResolvable`, `CompletionIsClean`, `CompletionIsMarked`.
- `SelectionIsNeverLost`: with no call in flight, catching up from the last
  frame heard yields the current selection. Its inductive invariant, `LoadInv`,
  says it of more states and more frames (`Restated`): once every move is
  numbered, catching up from the last frame heard, or from any frame still in
  flight, leads to the selection as it stands. Frames may then be published in any
  order. It adds what a call at each of its points holds (`CallsWellFormed`)
  and that a frame in flight has a number already given out (`FramesAnnounced`).
- `OnlyStreamsEndLoading` and `FlagStands`, action properties.

`LiveStream_proofs` proves, for any objects and numbers of breaks:

- `TypeCorrect` and `NothingGoesBack`, without further assumptions. The invariant adds
  that no frame on its way and no answer is ahead of what agrirouter has (`Sound`).
- `ResumesSafely`: `[]SafeToResume`, assuming one tier and a queue with room for every
  change (`MaxSeq <= Capacity`), for any number of calls that move the selection.
  `SafeToResume` speaks of the position stored; its strengthening `SafeInv` says the
  same of every position on its way. Once the frames up to one have been applied,
  nothing at or below its position is missing (`CatchUpIsSafe`, `LiveIsSafe`), and all
  of them together leave nothing missing (`AllOnTheWay`). A change appends its frame
  above all the others; a catch-up is in the order of positions, which differ
  (`PositionsDiffer`), so no object comes after one above it. A move's frame passes no
  position the latest move does not (`MovesAreNumbered`), in whatever order the calls
  hand theirs over, and what changed before that is excepted. `QueueFits` counts: a
  frame queued, or about to be, has a number of its own. Both assumptions are needed:
  see `MCTiers` and a `Capacity` of 1 in section 3.

`Participant_proofs` proves, for any names and similarity, any numbers of objects,
records, moves, resets, faults and answers:

- `ObjectsStayApart`: `[]OneRecordPerObject`, the platform's unique index never
  refuses a pair. The strengthening `AskedAboutUnheld` is about the load's
  question: while a person thinks, nobody holds the object they are asked about,
  because the open transaction keeps every other writer out (`WriterFree`).
- `TypeCorrect`, from `Types`: `TypeOK` with what a call, a frame and the load hold at
  each of their points. A frame or an answer only ever says what its object has
  been.
- `RevisionsStay`: `RevisionsNeverGoBack`, an action property. `NoneGoesBack` is
  shown of each action: `apply` compares before it writes, and whoever writes
  without comparing writes the pair of an object that was not held.
- `SelectionIsKnown`: `[]KnowsTheSelection`. `FollowsMoves` is the strengthening. Unless
  overtaken, a frame waiting to be handed over is the latest there is
  (`FrameIsLatest`) and, once no call owes a number, states the selection as it stands
  (`FrameIsRight`). Then either all that is on its way is older than that frame
  (`Behind`), or the last move or reset among the frames to come leaves the selection
  as agrirouter has it, and with none to come the one recorded is it already
  (`InSight`). A connection may be lost at any point, because a stored position past the
  latest move says that it was applied. That is untrue of a frame that was overtaken,
  which is the exemption of the property and its only one.

What is proved next does not hold of every behaviour, and two kinds of hypotheses
say of which ones. `Undisturbed` is the plain one: nothing failed, no tenant was reset
and the user asked for nothing; another endpoint writes and deactivates, the user
selects types and answers the load's questions as they like. The sharper one allows
every step that is not `Rough`:

- a step that loses something (`Loses`): the answer of a write (`LoseCall`, or `Crash`
  with one on its way), or the rest of a set that agrirouter has sent and left
  (`DropSet` or `Crash`, the load in `RECONCILING`);
- a step that works on what the pairs are of (`Intervenes`): a reset of the tenant, or
  the user creating, archiving or deleting a record at the platform;
- a confirmation that finds the endpoint opted out and its load not dropped yet
  (`Refuses`): agrirouter refuses every pair, and the platform gives up its halves.

What remains are broken and replayed connections, restarts, sets cut before they are
sent, requests that fail before they arrive, lost confirmations, frames that are asked
for again and loads that are started again, at any time and in any number.

- `PairsAgree`: `[](Undisturbed => BothSidesAgree)`, and `PairsOutlastFaults`:
  `BothSidesAgree` of every behaviour without a rough step;
- `ConfirmsTheWhole`, where nothing fails and no selection was gone under a
  confirmation (`Uneventful`), and `ConfirmsWholeSets`: `ConfirmsOnlyAWholeSet` of every
  behaviour without a rough step.

All rest on `Smooth`. Its first part, `Sides`, follows every pair from where it is made
to where both sides have it. agrirouter has a local id for what the platform has it for, or an
answer that says so is on its way (`Halves`); a push offers only records with
neither half of a pair (`PushIsFresh`); what it created is nobody else's, and the
stream knows its name (`AnswerIsOwn`); every pair the load confirms is accepted, so
that it never comes to drop one (`PairsAreHeld`); and an active object of the set is
held or still to be taken, unless the set is to be asked for again (`SetIsHeld`,
`Retakes`). Each action then either leaves every pair
as it is or gives one record the pair of an object nothing held (`Gains`). A fault
takes away what is on its way and leaves both tables, so it can only take from a pair
where an answer is all that says it. The second part, `Stands`, is for restarts: whatever has a
pair or is to be pushed is a record that is there, so that a process that counts on
from the highest id it finds gives none of those ids out again.

- `HoldsAfterOneLoad`: `[]((Undisturbed /\ moves <= 1) => HoldsWhatIsThere)`: after
  the load of the one call that moved the selection the platform holds whatever is
  active at agrirouter, or is about to be told of it;
- `HoldsThroughFaults`: `[](moves <= 1 => HoldsWhatIsThere)` of every behaviour
  without a rough step and without one that `Severs`: a connection given up, by itself
  or with the process, while a pair waits to be bound.

The invariant, `Delivering`, adds two things to `Smooth`. `Said`: whatever is on its
way, a row of the set, an item of the stream, an answer, says something its object
has been (`HasBeen`), and no pair is ahead of its object. What is delivered twice, or
late, can then only say too little of an object, never something it was not. `Opening`
and `FirstLoad`: until the call has numbered its move nobody has been told and nothing
runs (`Unannounced`, `Untold`), and before it has moved the selection nothing was
delivered (`NotYet`); from then on the load is in the phases of one
load (`Phase`); nothing is left of a connection that is gone (`Cut`); and each active
object is held, or still to come (`Reached`, from `Shown` and `Coming`): with a set
that has not been opened, in what is left of the set, or due from the stream;
while each pair is at agrirouter or about to be bound by the receive loop or the
confirmation (`Named`). `Due` is what makes a resumed stream safe: the stored position
has not passed the object's change, and on an open stream its frame is still to come
with nothing newer before it. A frame asked for again may take the position back but
never past it, and a new connection sends what was missed in the order of the changes
(`CatchUpInOrder`), the move of the selection before all of it: what changed before
that move is in the set, because the set is asked for only once the move is announced.
The hypotheses are sharp but for the number of moves: with a rough step or with one
that severs TLC finds the property false, and with three moves; with two it holds
in `MCReconcile` and is not proved.

`Siblings_proofs` proves, for any sequence of endpoints and any numbers of objects
and records:

- `TypeCorrect` and `BasesAreRevisions` (`[]BasesExist`), without further
  assumptions. `CallOK` and `Faithful` say of each call at each of its steps, and of
  each frame, that what it carries its object once was; `Grown`, that histories
  only grow, carries that over every step.
- `NoSecondObject`, `NoSecondRecord` and `PairsAgree`: `MintsNoSecond`,
  `OneRecordPerObject` and `BothSidesAgree` as long as no user added a record or
  corrected one (`Unassisted`), through breaks and any order of delivery.
  `PairsInv` is the argument: all endpoints' pairs together are one-to-one
  (`OneToOne`), every record came from an object some endpoint has it for
  (`RecordsAreKnown`), and what agrirouter has, a frame names or a call carries
  agrees with them. A send then never reaches `SendCreates`. For `PairsAgree`,
  `HalvesOnTheWay` adds that while nothing broke a half is missing only at the
  other end of the outstanding binding or of a call between `SiblingBind` and
  `SiblingStore`.
- `ContentStands`: `ShowsWhatStands`, as long as no user added a record or corrected
  one. `ContentOnTheWay` is the argument, while nothing broke. Where a record does
  not show its object as it stands, the latest revision is due to some endpoint, in
  the stream or as an answer (`ShownOrDue`). Whatever older is under way to an
  endpoint is followed there by the latest one, or overtaken by the endpoint's pair
  (`OldIsFollowed`), and the stream keeps each object's revisions in order
  (`InTurn`). A pair taken over from a sibling may set an endpoint's revision back,
  so that what was overtaken is not any more; then what is in the stream of that
  object includes its latest revision (`JoinsInTime`).

`PlatformRecord_proofs` proves, for any values, targets and numbers of revisions and
edits:

- `TypeCorrect`.
- `ShowsTheObject`: `[]ShowsWhatItModels`.
- `OnlyEditsGoOut`: `Spec => OnlyEditsAreSent`, assuming `MaxMoves <= 1`. The invariant
  says, attribute by attribute (`NameKept`, `PlainKept`, `PartsKept`, `DetailsKept`, `RefKept`), that an
  unedited column is what the content at the known revision has for it; a patch
  made of such columns then changes nothing when merged from that revision. The
  assumption is sharp: `MCStaleReference` breaks it with two moves.

Model-checked only:

- liveness (`Convergence`, `SelectionConverges`, `OnlyAQuestionStallsTheStream`,
  `OwedLoadCompletes`), which is beyond the prover;
- `HoldsWhatIsThere` where two calls move the selection (`MCReconcile`).

The theorems assume of the constants what the modules name: that `None`, and the
marks like it, are none of the values they stand beside, that the bounds are
natural numbers, and that an object may have a revision at all
(`MaxRevision > 0`). TLC evaluates each of these on the runs of its module.

## 5. Not modelled, and why

- The generated client and server, the handlers' decoding, encoding and error
  mapping, heartbeats: transport without state.
- `PutEndpoint`, onboarding and consent: which endpoints there are is fixed by
  constants; an endpoint may be removed but none is created. (Two concurrent first
  declarations are listed under `hazards`.)
- The screens, OAuth, forms and configuration: pages over the operations that are
  modelled.
- The schema adaptation tool: run once, no state.
- `agmactl`, the scenarios: drivers. What a platform's own user does in them, adding
  and editing records, is modelled.
- SQL text and migrations: a transaction is modelled by what it does.
- A record's membership in several tenants, units of area, and the several entity
  types of one load on the participant's side.
- Frames that do not decode, and the grouping of a catch-up's frames into one
  transaction, which changes only how much a crash repeats.
- References in other slots than the parent organization at agrirouter: their one
  condition, that the target exists in the tenant, is the parent's without the
  organization check.
- Time (`changed_at`, `previousLoadCompletedAt` as a date) is kept as the facts it
  stands for. Endpoints removed and onboarded again get new ids in the code, so
  an id is never reused.

## 6. What could follow

1. What of `Participant`'s agreement is left after a lost answer, a reset or a change
   by the user, stated of the records they did not touch, and a proof of it.
2. Onboarding: `PutEndpoint`'s two regions beside removal, with `Endpoint` a variable.
3. Several entity types in `Participant`: references between what a set brings, the
   order of types, and widening while a load runs on both sides at once.
4. `Siblings` with activity and the load of a new endpoint beside an established
   one.
