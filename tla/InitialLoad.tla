---------------------------- MODULE InitialLoad ----------------------------
(***************************************************************************)
(* One endpoint's selection and the initial load that follows from it, as  *)
(* testrouter runs them.                                                   *)
(*                                                                         *)
(* A call that moves the selection takes the store's mutex several times:  *)
(* to move the selection, to drop or to start the load, and to number the  *)
(* move; it hands the frame it rendered to the hub after letting go. Calls *)
(* of users and of the participant run concurrently, as do the goroutines  *)
(* that send the canonical set, so each locked region is an action.        *)
(*                                                                         *)
(* The selection's effect on the store is SSOT's SelectTypes, and the      *)
(* bindings a confirmation carries are SSOT's ApplyBindings.               *)
(***************************************************************************)
EXTENDS Integers

CONSTANTS
  EntityType,
  Requires,     \* the types whose objects a type's objects must reference
  Caller,       \* concurrent calls that move the selection
  Stream,       \* concurrent initial-load streams
  MaxSeq        \* bound: numbered changes

CONSTANTS None, Closed

ASSUME LoadAssumption ==
  /\ Requires \in [EntityType -> SUBSET EntityType]
  /\ \A t \in EntityType : \A u \in Requires[t] : Requires[u] \subseteq Requires[t]
  /\ MaxSeq \in Nat

VARIABLES
  declared,     \* types the participant says it can exchange
  toggles,      \* types the user selected
  load,         \* the load's state and awaitingUser, or None
  previous,     \* previousLoadCompletedAt is set
  seq,          \* number of the latest change
  selectionSeq, \* number of the selection's latest move
  reset,        \* number of the latest reset announced to this application
  calls,        \* where each selection call is, and the frame it carries
  streams,      \* the set each open stream sends, and whether all of it went
  heard         \* the last frame on the participant's live stream

vars == <<declared, toggles, load, previous, seq, selectionSeq, reset, calls,
          streams, heard>>

LoadingFrom == "LOADING_FROM_AGRIROUTER"
Reconciling == "RECONCILING"
LoadingTo == "LOADING_TO_AGRIROUTER"
Completed == "COMPLETED"

LoadState == {LoadingFrom, Reconciling, LoadingTo, Completed}
Load == [state : LoadState, awaitingUser : BOOLEAN]

DependencyClosure(types) == types \cup UNION {Requires[t] : t \in types}

IsClosed(types) == DependencyClosure(types) = types

----------------------------------------------------------------------------
(* Moving the selection *)

Frame == [seq : 0..MaxSeq, types : SUBSET EntityType]

\* The marks for "nothing" are none of the values they stand in for.
ASSUME MarksAssumption ==
  /\ None \notin Load \cup Frame
  /\ Closed \notin [types : SUBSET EntityType, sent : BOOLEAN]

Idle == [at |-> "idle", moved |-> FALSE, frame |-> None]

At(c, pc) == calls[c].at = pc

Enter(c, pc, moved) ==
  calls' = [calls EXCEPT ![c] = [at |-> pc, moved |-> moved, frame |-> None]]

\* selectTypes up to its first unlock. The user states the whole selection.
Select(c, types) ==
  LET closure == DependencyClosure(types) IN
  /\ At(c, "idle")
  /\ closure \subseteq declared
  /\ toggles' = closure
  /\ \/ closure = {} /\ Enter(c, "drop", toggles # {})
     \/ closure \ toggles # {} /\ Enter(c, "start", TRUE)
     \/ closure # {} /\ closure \subseteq toggles /\ closure # toggles
        /\ Enter(c, "number", TRUE)
  /\ UNCHANGED <<declared, load, previous, seq, selectionSeq, reset, streams, heard>>

\* Variant the runs must reject: any declaration is taken.
DeclareUnclosed(c, types) ==
  /\ At(c, "idle")
  /\ declared' = types
  /\ toggles' = toggles \cap types
  /\ IF toggles \subseteq types THEN UNCHANGED calls
     ELSE Enter(c, IF toggles' = {} THEN "drop" ELSE "number", TRUE)
  /\ UNCHANGED <<load, previous, seq, selectionSeq, reset, streams, heard>>

\* declare up to its first unlock: withdrawing a type deselects it.
Declare(c, types) ==
  /\ At(c, "idle")
  /\ IsClosed(types)
  /\ declared' = types
  /\ toggles' = toggles \cap types
  /\ IF toggles \subseteq types THEN UNCHANGED calls
     ELSE Enter(c, IF toggles' = {} THEN "drop" ELSE "number", TRUE)
  /\ UNCHANGED <<load, previous, seq, selectionSeq, reset, streams, heard>>

\* The last type was deselected: the load goes, announced or not.
DropLoad(c) ==
  /\ At(c, "drop")
  /\ load' = None
  /\ calls' = [calls EXCEPT ![c] = IF @.moved THEN [@ EXCEPT !.at = "number"] ELSE Idle]
  /\ UNCHANGED <<declared, toggles, previous, seq, selectionSeq, reset, streams, heard>>

StartLoad(c) ==
  /\ At(c, "start")
  /\ load' = [state |-> LoadingFrom, awaitingUser |-> FALSE]
  /\ calls' = [calls EXCEPT ![c].at = "number"]
  /\ UNCHANGED <<declared, toggles, previous, seq, selectionSeq, reset, streams, heard>>

\* Variant the runs must reject: the number a move takes is not used up.
NumberMoveUncounted(c) ==
  /\ At(c, "number")
  /\ seq < MaxSeq
  /\ selectionSeq' = seq + 1
  /\ calls' = [calls EXCEPT ![c] = [@ EXCEPT !.at = "publish",
                                             !.frame = [seq |-> seq + 1, types |-> toggles]]]
  /\ UNCHANGED <<declared, toggles, load, previous, seq, reset, streams, heard>>

\* publishSelection under the mutex: the frame states the selection as it now
\* stands, which another call may have moved again.
NumberMove(c) ==
  /\ At(c, "number")
  /\ seq < MaxSeq
  /\ seq' = seq + 1
  /\ selectionSeq' = seq + 1
  /\ calls' = [calls EXCEPT ![c] = [@ EXCEPT !.at = "publish",
                                             !.frame = [seq |-> seq + 1, types |-> toggles]]]
  /\ UNCHANGED <<declared, toggles, load, previous, reset, streams, heard>>

\* publishSelection after letting go of the mutex.
Publish(c) ==
  /\ At(c, "publish")
  /\ heard' = calls[c].frame
  /\ calls' = [calls EXCEPT ![c] = Idle]
  /\ UNCHANGED <<declared, toggles, load, previous, seq, selectionSeq, reset, streams>>

\* The user's reset is one locked region, its frame included. An application
\* whose selection was never announced has no part in it.
ResetTenant ==
  /\ seq < MaxSeq
  /\ toggles' = {}
  /\ load' = None
  /\ previous' = FALSE
  /\ seq' = seq + 1
  /\ IF selectionSeq > 0
     THEN /\ reset' = seq + 1
          /\ heard' = [seq |-> seq + 1, types |-> {}]
     ELSE UNCHANGED <<reset, heard>>
  /\ UNCHANGED <<declared, selectionSeq, calls, streams>>

----------------------------------------------------------------------------
(* Sending the canonical set *)

\* The set is what the endpoint is opted into when the stream opens; no state
\* is asked for.
OpenStream(s) ==
  /\ streams[s] = Closed
  /\ streams' = [streams EXCEPT ![s] = [types |-> toggles, sent |-> FALSE]]
  /\ UNCHANGED <<declared, toggles, load, previous, seq, selectionSeq, reset, calls, heard>>

\* The connection ends before the whole set went out.
CutStream(s) ==
  /\ streams[s] # Closed /\ ~streams[s].sent
  /\ streams' = [streams EXCEPT ![s] = Closed]
  /\ UNCHANGED <<declared, toggles, load, previous, seq, selectionSeq, reset, calls, heard>>

\* Everything went out; the endpoint still has a load, or there is nothing to
\* advance.
SetSent(s) ==
  /\ streams[s] # Closed /\ ~streams[s].sent
  /\ streams' = [streams EXCEPT ![s] =
                   IF load # None THEN [@ EXCEPT !.sent = TRUE] ELSE Closed]
  /\ UNCHANGED <<declared, toggles, load, previous, seq, selectionSeq, reset, calls, heard>>

\* Variant the runs must reject: the step to RECONCILING lowers the flag.
SetLoadStateLowering(s) ==
  /\ streams[s] # Closed /\ streams[s].sent
  /\ load' = [state |-> Reconciling, awaitingUser |-> FALSE]
  /\ streams' = [streams EXCEPT ![s] = Closed]
  /\ UNCHANGED <<declared, toggles, previous, seq, selectionSeq, reset, calls, heard>>

\* setLoadState, under the mutex taken anew.
SetLoadState(s) ==
  /\ streams[s] # Closed /\ streams[s].sent
  /\ load' = [state |-> Reconciling,
              awaitingUser |-> load # None /\ load.awaitingUser]
  /\ streams' = [streams EXCEPT ![s] = Closed]
  /\ UNCHANGED <<declared, toggles, previous, seq, selectionSeq, reset, calls, heard>>

----------------------------------------------------------------------------
(* What the endpoint drives *)

\* Variant the runs must reject: confirming a set still being sent.
LegalWhileSending(current, target) ==
  \/ target = current
  \/ current \in {LoadingFrom, Reconciling} /\ target = LoadingTo
  \/ current = LoadingTo /\ target = Completed

Legal(current, target) ==
  \/ target = current
  \/ current = Reconciling /\ target = LoadingTo
  \/ current = LoadingTo /\ target = Completed

\* Variants the runs must reject: the completion leaves the flag standing, or
\* leaves nothing behind.
AdvanceKeepingFlag(target) ==
  /\ load # None
  /\ target # LoadingFrom
  /\ Legal(load.state, target)
  /\ load' = [load EXCEPT !.state = target]
  /\ previous' = (previous \/ target = Completed)
  /\ UNCHANGED <<declared, toggles, seq, selectionSeq, reset, calls, streams, heard>>

AdvanceForgetting(target) ==
  /\ load # None
  /\ target # LoadingFrom
  /\ Legal(load.state, target)
  /\ load' = [state |-> target,
              awaitingUser |-> target = load.state /\ load.awaitingUser]
  /\ UNCHANGED <<declared, toggles, previous, seq, selectionSeq, reset, calls,
                 streams, heard>>

Advance(target) ==
  /\ load # None
  /\ target # LoadingFrom
  /\ Legal(load.state, target)
  /\ load' = [state |-> target,
              awaitingUser |-> target = load.state /\ load.awaitingUser]
  /\ previous' = (previous \/ target = Completed)
  /\ UNCHANGED <<declared, toggles, seq, selectionSeq, reset, calls, streams, heard>>

RaiseAwaitingUser ==
  /\ load # None
  /\ load.state # Completed
  /\ load' = [load EXCEPT !.awaitingUser = TRUE]
  /\ UNCHANGED <<declared, toggles, previous, seq, selectionSeq, reset, calls,
                 streams, heard>>

----------------------------------------------------------------------------

\* The endpoint before its first declaration.
Init ==
  /\ declared = {}
  /\ toggles = {}
  /\ load = None
  /\ previous = FALSE
  /\ seq = 0
  /\ selectionSeq = 0
  /\ reset = 0
  /\ calls = [c \in Caller |-> Idle]
  /\ streams = [s \in Stream |-> Closed]
  /\ heard = [seq |-> 0, types |-> {}]

Next ==
  \/ \E c \in Caller :
       \/ \E types \in SUBSET EntityType : Select(c, types) \/ Declare(c, types)
       \/ DropLoad(c)
       \/ StartLoad(c)
       \/ NumberMove(c)
       \/ Publish(c)
  \/ ResetTenant
  \/ \E s \in Stream : OpenStream(s) \/ CutStream(s) \/ SetSent(s) \/ SetLoadState(s)
  \/ \E target \in LoadState : Advance(target)
  \/ RaiseAwaitingUser

Spec == Init /\ [][Next]_vars

----------------------------------------------------------------------------
(* Safety *)

Call == [at : {"idle", "drop", "start", "number", "publish"}, moved : BOOLEAN,
         frame : Frame \cup {None}]

TypeOK ==
  /\ declared \in SUBSET EntityType
  /\ toggles \in SUBSET EntityType
  /\ load \in Load \cup {None}
  /\ previous \in BOOLEAN
  /\ seq \in 0..MaxSeq
  /\ selectionSeq \in 0..seq
  /\ reset \in 0..seq
  /\ calls \in [Caller -> Call]
  /\ streams \in [Stream -> [types : SUBSET EntityType, sent : BOOLEAN] \cup {Closed}]
  /\ heard \in Frame

\* However declarations, selections and resets interleave, the selection stays
\* within the declaration and closed over dependencies, so every required
\* reference on the objects delivered can be resolved by their receiver.
SelectionResolvable ==
  /\ toggles \subseteq declared
  /\ IsClosed(toggles)

\* A completed load waits on nobody: a report of user attention that races the
\* completion is either cleared by it or refused.
CompletedWaitsForNobody ==
  load # None /\ load.state = Completed => ~load.awaitingUser

\* A completed load has left its mark, which is what makes the next set a
\* repeat: a reset takes both and nothing else takes the mark.
CompletedIsRemembered ==
  load # None /\ load.state = Completed => previous

FinishesLoading ==
  load # None /\ load.state = LoadingFrom /\ load' # None /\ load'.state # LoadingFrom

FinishedByAStream ==
  /\ load'.state = Reconciling
  /\ \E s \in Stream : streams[s] # Closed /\ streams[s].sent /\ streams'[s] = Closed

\* A load still being sent to the endpoint is moved on by a stream that sent
\* its whole set, never by the endpoint itself.
OnlySendingEndsLoading == [][FinishesLoading => FinishedByAStream]_vars

LowersFlag == load # None /\ load' # None /\ load.awaitingUser /\ ~load'.awaitingUser

Progress ==
  \/ load'.state = LoadingFrom
  \/ load'.state \in {LoadingTo, Completed} /\ load'.state # load.state

\* A raised flag is lowered by the endpoint's own confirmation or completion,
\* or by the load starting over. The step to RECONCILING does not lower it.
FlagStandsUntilProgress == [][LowersFlag => Progress]_vars

Quiet == \A c \in Caller : calls[c] = Idle

\* The selection a participant holds once it caught up from the position of a
\* frame: catch-up restates the reset if it is above that position, then the
\* selection if its move is above both.
AfterCatchUp(f) ==
  IF selectionSeq > f.seq /\ selectionSeq > reset THEN toggles
  ELSE IF reset > f.seq THEN {}
  ELSE f.types

\* Once no call is in flight, a participant that resumes from the last frame
\* it heard learns the selection as it stands, in whatever order the frames of
\* concurrent moves and resets reached it.
ResumeLearnsTheSelection == Quiet => AfterCatchUp(heard) = toggles

----------------------------------------------------------------------------
(* What comments and the specification claim, and the code does not keep *)

\* An endpoint has an initial-load state only while it is opted into at least
\* one entity type.
LoadOnlyWhileOptedIn == Quiet /\ load # None => toggles # {}

\* A stream that finishes after the load was discarded does not bring back a
\* state the endpoint no longer has.
NothingBringsALoadBack ==
  [][load = None /\ load' # None => load'.state = LoadingFrom]_vars

\* The endpoint advances to RECONCILING only after everything was sent: what
\* the stream carried covers the selection.
AdvancesOnlyWithTheSet ==
  [][\A s \in Stream :
       streams[s] # Closed /\ streams[s].sent /\ streams'[s] = Closed /\ Quiet
         => toggles \subseteq streams[s].types]_vars

=============================================================================
