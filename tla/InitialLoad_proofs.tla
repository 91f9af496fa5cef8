------------------------- MODULE InitialLoad_proofs -------------------------
(***************************************************************************)
(* Theorems about InitialLoad and their proofs.                            *)
(*                                                                         *)
(* That a resumed participant learns the selection needs the frames still  *)
(* in flight: a frame that was rendered before a later move must be one a  *)
(* catch-up from it would correct.                                         *)
(***************************************************************************)
EXTENDS InitialLoad, TLAPS

\* A call moved the selection and has not numbered the move yet.
Unnumbered == \E c \in Caller : calls[c].moved /\ calls[c].frame = None

InFlight == {calls[c].frame : c \in {d \in Caller : calls[d].frame # None}}

\* A call carries a frame exactly when it is about to publish it.
CallsWellFormed ==
  \A c \in Caller :
    /\ calls[c].frame # None <=> calls[c].at = "publish"
    /\ calls[c].at \in {"start", "number"} => calls[c].moved
    /\ calls[c].at = "idle" => ~calls[c].moved

\* Frames carry numbers of announced moves; before the first there are none,
\* and no reset was announced either.
FramesAnnounced ==
  /\ \A f \in InFlight : 0 < f.seq /\ f.seq <= selectionSeq
  /\ heard.seq <= seq
  /\ selectionSeq = 0 => reset = 0 /\ heard = [seq |-> 0, types |-> {}]

\* With every move numbered, catching up from the last frame heard or from any
\* frame still in flight leads to the selection as it stands.
Restated ==
  ~Unnumbered => \A f \in InFlight \cup {heard} : AfterCatchUp(f) = toggles

LoadInv ==
  /\ TypeOK
  /\ SelectionResolvable
  /\ CompletedWaitsForNobody
  /\ CompletedIsRemembered
  /\ CallsWellFormed
  /\ FramesAnnounced
  /\ Restated

----------------------------------------------------------------------------
(* Dependency closure *)

\* Closing a set closes it: what a required type requires is required already.
LEMMA ClosureIsClosed ==
  ASSUME NEW types \in SUBSET EntityType
  PROVE  /\ DependencyClosure(types) \in SUBSET EntityType
         /\ IsClosed(DependencyClosure(types))
<1>1. DependencyClosure(types) \in SUBSET EntityType
  BY LoadAssumption DEF DependencyClosure
<1>2. \A t \in DependencyClosure(types) : Requires[t] \subseteq DependencyClosure(types)
  BY LoadAssumption DEF DependencyClosure
<1> QED
  BY <1>1, <1>2 DEF IsClosed, DependencyClosure

\* Withdrawing down to a closed declaration leaves a closed selection closed.
LEMMA IntersectionIsClosed ==
  ASSUME NEW S \in SUBSET EntityType, NEW T \in SUBSET EntityType,
         IsClosed(S), IsClosed(T)
  PROVE  IsClosed(S \cap T)
BY LoadAssumption DEF IsClosed, DependencyClosure

----------------------------------------------------------------------------
(* The inductive invariant *)

LEMMA InitInv == Init => LoadInv
<1> SUFFICES ASSUME Init PROVE LoadInv
  OBVIOUS
<1>1. TypeOK
  <2>1. Idle \in Call
    BY DEF Idle, Call
  <2>2. heard \in Frame
    BY LoadAssumption DEF Init, Frame
  <2>3. seq \in 0..MaxSeq /\ selectionSeq \in 0..seq /\ reset \in 0..seq
    BY LoadAssumption DEF Init
  <2> QED
    BY <2>1, <2>2, <2>3 DEF Init, TypeOK
<1>2. SelectionResolvable
  BY DEF Init, SelectionResolvable, IsClosed, DependencyClosure
<1>3. \A c \in Caller : calls[c] = Idle
  BY DEF Init
<1>4. CallsWellFormed
  BY <1>3 DEF CallsWellFormed, Idle
<1>5. InFlight = {}
  BY <1>3 DEF InFlight, Idle
<1>6. FramesAnnounced /\ Restated
  BY <1>5 DEF Init, FramesAnnounced, Restated, AfterCatchUp
<1> QED
  BY <1>1, <1>2, <1>4, <1>6
     DEF Init, LoadInv, CompletedWaitsForNobody, CompletedIsRemembered

PC == {"idle", "drop", "start", "number", "publish"}

LEMMA EnterType ==
  ASSUME calls \in [Caller -> Call], NEW c \in Caller, NEW pc \in PC,
         NEW moved \in BOOLEAN, Enter(c, pc, moved)
  PROVE  calls' \in [Caller -> Call]
<1>1. [at |-> pc, moved |-> moved, frame |-> None] \in Call
  BY DEF PC, Call
<1> QED
  BY <1>1 DEF Enter

\* Types are kept by every step.
LEMMA TypeStep == TypeOK /\ CallsWellFormed /\ FramesAnnounced /\ [Next]_vars => TypeOK'
<1> SUFFICES ASSUME TypeOK, CallsWellFormed, FramesAnnounced, [Next]_vars PROVE TypeOK'
  OBVIOUS
<1> USE LoadAssumption, MarksAssumption DEF TypeOK, Load, LoadState, Call, Idle, At
<1>1. ASSUME NEW c \in Caller, NEW types \in SUBSET EntityType, Select(c, types)
      PROVE  TypeOK'
  <2>1. DependencyClosure(types) \in SUBSET EntityType
    BY ClosureIsClosed
  <2>2. toggles' \in SUBSET EntityType
    BY <1>1, <2>1 DEF Select
  <2>3. \E pc \in PC, moved \in BOOLEAN : Enter(c, pc, moved)
    BY <1>1 DEF Select, PC
  <2> QED
    BY <1>1, <2>2, <2>3, EnterType DEF Select
<1>2. ASSUME NEW c \in Caller, NEW types \in SUBSET EntityType, Declare(c, types)
      PROVE  TypeOK'
  <2>1. declared' \in SUBSET EntityType /\ toggles' \in SUBSET EntityType
    BY <1>2 DEF Declare
  <2>2. calls' = calls \/ \E pc \in PC, moved \in BOOLEAN : Enter(c, pc, moved)
    BY <1>2 DEF Declare, PC
  <2> QED
    BY <1>2, <2>1, <2>2, EnterType DEF Declare
<1>3. ASSUME NEW c \in Caller, DropLoad(c) PROVE TypeOK'
  BY <1>3 DEF DropLoad
<1>4. ASSUME NEW c \in Caller, StartLoad(c) PROVE TypeOK'
  BY <1>4 DEF StartLoad
<1>5. ASSUME NEW c \in Caller, NumberMove(c) PROVE TypeOK'
  <2>1. seq + 1 \in 0..MaxSeq /\ seq \in 0..MaxSeq /\ seq <= seq + 1
    BY <1>5 DEF NumberMove
  <2>2. [seq |-> seq + 1, types |-> toggles] \in Frame
    BY <2>1 DEF Frame
  <2>3. calls' \in [Caller -> Call]
    BY <1>5, <2>2 DEF NumberMove
  <2>4. seq' \in 0..MaxSeq /\ selectionSeq' \in 0..seq' /\ reset' \in 0..seq'
    BY <1>5, <2>1 DEF NumberMove
  <2> QED
    BY <1>5, <2>3, <2>4 DEF NumberMove
<1>6. ASSUME NEW c \in Caller, Publish(c) PROVE TypeOK'
  BY <1>6 DEF Publish, CallsWellFormed
<1>7. CASE ResetTenant
  <2>1. seq + 1 \in 0..MaxSeq /\ seq \in 0..MaxSeq /\ seq <= seq + 1
    BY <1>7 DEF ResetTenant
  <2>2. [seq |-> seq + 1, types |-> {}] \in Frame
    BY <2>1 DEF Frame
  <2>3. seq' \in 0..MaxSeq /\ selectionSeq' \in 0..seq' /\ reset' \in 0..seq'
    BY <1>7, <2>1 DEF ResetTenant
  <2>4. heard' \in Frame
    BY <1>7, <2>2 DEF ResetTenant
  <2> QED
    BY <1>7, <2>3, <2>4 DEF ResetTenant
<1>8. ASSUME NEW s \in Stream, OpenStream(s) \/ CutStream(s) \/ SetSent(s) \/ SetLoadState(s)
      PROVE  TypeOK'
  <2>1. CASE OpenStream(s)
    BY <2>1 DEF OpenStream
  <2>2. CASE CutStream(s)
    BY <2>2 DEF CutStream
  <2>3. CASE SetSent(s)
    BY <2>3 DEF SetSent
  <2>4. CASE SetLoadState(s)
    <3>1. load' \in Load
      BY <2>4 DEF SetLoadState, LoadingFrom, Reconciling, LoadingTo, Completed
    <3> QED
      BY <2>4, <3>1 DEF SetLoadState
  <2> QED
    BY <1>8, <2>1, <2>2, <2>3, <2>4
<1>9. ASSUME NEW target \in LoadState, Advance(target) PROVE TypeOK'
  BY <1>9 DEF Advance
<1>10. CASE RaiseAwaitingUser
  BY <1>10 DEF RaiseAwaitingUser
<1>11. CASE UNCHANGED vars
  BY <1>11 DEF vars
<1> QED
  BY <1>1, <1>2, <1>3, <1>4, <1>5, <1>6, <1>7, <1>8, <1>9, <1>10, <1>11 DEF Next

\* The selection stays within the declaration and closed.
LEMMA SelectionStep ==
  TypeOK /\ SelectionResolvable /\ [Next]_vars => SelectionResolvable'
<1> SUFFICES ASSUME TypeOK, SelectionResolvable, [Next]_vars PROVE SelectionResolvable'
  OBVIOUS
<1>1. ASSUME NEW c \in Caller, NEW types \in SUBSET EntityType, Select(c, types)
      PROVE  SelectionResolvable'
  BY <1>1, ClosureIsClosed DEF Select, SelectionResolvable, IsClosed, DependencyClosure
<1>2. ASSUME NEW c \in Caller, NEW types \in SUBSET EntityType, Declare(c, types)
      PROVE  SelectionResolvable'
  <2>1. IsClosed(toggles \cap types)
    BY <1>2, IntersectionIsClosed DEF Declare, SelectionResolvable, TypeOK
  <2> QED
    BY <1>2, <2>1 DEF Declare, SelectionResolvable, IsClosed, DependencyClosure
<1>3. CASE ResetTenant
  BY <1>3 DEF ResetTenant, SelectionResolvable, IsClosed, DependencyClosure
<1>4. CASE UNCHANGED <<declared, toggles>>
  BY <1>4 DEF SelectionResolvable, IsClosed, DependencyClosure
<1> QED
  BY <1>1, <1>2, <1>3, <1>4
     DEF Next, vars, DropLoad, StartLoad, NumberMove, Publish, OpenStream, CutStream,
         SetSent, SetLoadState, Advance, RaiseAwaitingUser

\* A completed load carries no flag and has left its mark.
LEMMA CompletedStep ==
  TypeOK /\ CompletedWaitsForNobody /\ CompletedIsRemembered /\ [Next]_vars
    => CompletedWaitsForNobody' /\ CompletedIsRemembered'
<1> SUFFICES ASSUME TypeOK, CompletedWaitsForNobody, CompletedIsRemembered, [Next]_vars
             PROVE  CompletedWaitsForNobody' /\ CompletedIsRemembered'
  OBVIOUS
<1> USE DEF CompletedWaitsForNobody, CompletedIsRemembered
<1>1. ASSUME NEW target \in LoadState, Advance(target)
      PROVE  CompletedWaitsForNobody' /\ CompletedIsRemembered'
  BY <1>1 DEF Advance, Legal, LoadingFrom, Reconciling, LoadingTo, Completed
<1>2. CASE RaiseAwaitingUser
  BY <1>2 DEF RaiseAwaitingUser, TypeOK, Load
<1>3. ASSUME NEW c \in Caller, StartLoad(c)
      PROVE  CompletedWaitsForNobody' /\ CompletedIsRemembered'
  BY <1>3 DEF StartLoad, LoadingFrom, Completed
<1>4. ASSUME NEW s \in Stream, SetLoadState(s)
      PROVE  CompletedWaitsForNobody' /\ CompletedIsRemembered'
  BY <1>4 DEF SetLoadState, Reconciling, Completed
<1>5. CASE load' = None
  BY <1>5
<1>6. CASE UNCHANGED <<load, previous>>
  BY <1>6
<1> QED
  BY <1>1, <1>2, <1>3, <1>4, <1>5, <1>6
     DEF Next, vars, Select, Declare, DropLoad, NumberMove, Publish, ResetTenant,
         OpenStream, CutStream, SetSent

\* What a call that only moves to another place leaves of the announcements: the
\* frames in flight stay, and a move it makes is still to be numbered.
LEMMA NothingAnnounced ==
  ASSUME LoadInv, TypeOK', NEW c \in Caller, NEW new \in Call,
         calls' = [calls EXCEPT ![c] = new],
         calls[c].frame = None, new.frame = None,
         UNCHANGED <<seq, selectionSeq, reset, heard>>,
         new.at # "publish",
         new.at \in {"start", "number"} => new.moved,
         new.at = "idle" => ~new.moved,
         new.moved \/ (toggles' = toggles /\ ~calls[c].moved)
  PROVE  CallsWellFormed' /\ FramesAnnounced' /\ Restated'
<1>1. \A d \in Caller : calls'[d] = IF d = c THEN new ELSE calls[d]
  BY DEF LoadInv, TypeOK
<1>2. CallsWellFormed'
  BY <1>1 DEF LoadInv, CallsWellFormed
<1>3. InFlight' = InFlight
  BY <1>1 DEF InFlight
<1>4. FramesAnnounced'
  BY <1>3 DEF LoadInv, FramesAnnounced
<1>5. ASSUME new.moved PROVE Restated'
  <2>1. calls'[c].moved /\ calls'[c].frame = None
    BY <1>1, <1>5
  <2>2. Unnumbered'
    BY <2>1 DEF Unnumbered
  <2> QED
    BY <2>2 DEF Restated
<1>6. ASSUME ~new.moved PROVE Restated'
  <2>1. Unnumbered <=> Unnumbered'
    BY <1>1, <1>6 DEF Unnumbered
  <2>2. UNCHANGED <<toggles, selectionSeq, reset, heard>>
    BY <1>6
  <2> QED
    BY <1>3, <2>1, <2>2 DEF LoadInv, Restated, AfterCatchUp
<1> QED
  BY <1>2, <1>4, <1>5, <1>6

\* Announcements are kept in order by every step: the frames in flight are
\* either overtaken by the move that is numbered, in which case catch-up
\* corrects them, or state the selection.
LEMMA AnnouncementStep ==
  LoadInv /\ TypeOK' /\ [Next]_vars => CallsWellFormed' /\ FramesAnnounced' /\ Restated'
<1> SUFFICES ASSUME LoadInv, TypeOK', [Next]_vars
             PROVE  CallsWellFormed' /\ FramesAnnounced' /\ Restated'
  OBVIOUS
<1> DEFINE Goal == CallsWellFormed /\ FramesAnnounced /\ Restated
<1>t. TypeOK /\ CallsWellFormed /\ FramesAnnounced /\ Restated
  BY DEF LoadInv
<1>1. ASSUME NEW c \in Caller, NEW types \in SUBSET EntityType, Select(c, types)
      PROVE  Goal'
  <2>1. PICK pc \in {"drop", "start", "number"}, moved \in BOOLEAN :
          /\ Enter(c, pc, moved)
          /\ pc # "drop" => moved
          /\ moved \/ toggles' = toggles
    BY <1>1, <1>t DEF Select, TypeOK
  <2> DEFINE new == [at |-> pc, moved |-> moved, frame |-> None]
  <2>2. new \in Call
    BY <2>1 DEF Call
  <2>3. calls[c].at = "idle" /\ calls[c].frame = None /\ ~calls[c].moved
    BY <1>1, <1>t DEF Select, At, CallsWellFormed
  <2> QED
    BY <1>1, <2>1, <2>2, <2>3, NothingAnnounced DEF Select, Enter
<1>2. ASSUME NEW c \in Caller, NEW types \in SUBSET EntityType, Declare(c, types)
      PROVE  Goal'
  <2>1. calls[c].at = "idle" /\ calls[c].frame = None /\ ~calls[c].moved
    BY <1>2, <1>t DEF Declare, At, CallsWellFormed
  <2>2. CASE toggles \subseteq types
    <3>1. UNCHANGED <<toggles, seq, selectionSeq, reset, calls, heard>>
      BY <1>2, <2>2 DEF Declare
    <3> QED
      BY <1>t, <3>1 DEF CallsWellFormed, FramesAnnounced, Restated, InFlight,
                        Unnumbered, AfterCatchUp
  <2>3. CASE ~(toggles \subseteq types)
    <3> DEFINE pc == IF toggles' = {} THEN "drop" ELSE "number"
               new == [at |-> pc, moved |-> TRUE, frame |-> None]
    <3>1. new \in Call /\ new.at \in {"drop", "number"} /\ new.moved /\ new.frame = None
      BY DEF Call
    <3>2. calls' = [calls EXCEPT ![c] = new]
      BY <1>2, <2>3 DEF Declare, Enter
    <3> HIDE DEF new
    <3> QED
      BY <1>2, <2>1, <3>1, <3>2, NothingAnnounced DEF Declare
  <2> QED
    BY <2>2, <2>3
<1>3. ASSUME NEW c \in Caller, DropLoad(c) PROVE Goal'
  <2> DEFINE new == IF calls[c].moved THEN [calls[c] EXCEPT !.at = "number"] ELSE Idle
  <2>1. calls[c] \in Call /\ calls[c].at = "drop" /\ calls[c].frame = None
    BY <1>3, <1>t DEF DropLoad, At, TypeOK, CallsWellFormed
  <2>2. /\ new \in Call /\ new.frame = None /\ new.at \in {"number", "idle"}
        /\ new.at = "number" <=> new.moved
        /\ new.moved <=> calls[c].moved
    BY <2>1 DEF Idle, Call
  <2>3. calls' = [calls EXCEPT ![c] = new]
    BY <1>3 DEF DropLoad
  <2> HIDE DEF new
  <2> QED
    BY <1>3, <2>1, <2>2, <2>3, NothingAnnounced DEF DropLoad
<1>4. ASSUME NEW c \in Caller, StartLoad(c) PROVE Goal'
  <2> DEFINE new == [calls[c] EXCEPT !.at = "number"]
  <2>1. calls[c] \in Call /\ calls[c].at = "start" /\ calls[c].frame = None /\ calls[c].moved
    BY <1>4, <1>t DEF StartLoad, At, TypeOK, CallsWellFormed
  <2>2. new \in Call /\ new.frame = None /\ new.at = "number" /\ new.moved
    BY <2>1 DEF Call
  <2>3. calls' = [calls EXCEPT ![c] = new]
    BY <1>4 DEF StartLoad
  <2> HIDE DEF new
  <2> QED
    BY <1>4, <2>1, <2>2, <2>3, NothingAnnounced DEF StartLoad
<1>5. ASSUME NEW c \in Caller, NumberMove(c) PROVE Goal'
  <2> DEFINE frame == [seq |-> seq + 1, types |-> toggles]
  <2>1. \A d \in Caller : calls'[d] = IF d = c
                                      THEN [calls[c] EXCEPT !.at = "publish", !.frame = frame]
                                      ELSE calls[d]
    BY <1>5, <1>t DEF NumberMove, TypeOK
  <2>2. /\ seq \in Nat /\ selectionSeq \in Nat /\ reset \in Nat
        /\ selectionSeq <= seq /\ reset <= seq
        /\ selectionSeq' = seq + 1
        /\ UNCHANGED <<toggles, reset, heard>>
    BY <1>5, <1>t, LoadAssumption DEF NumberMove, TypeOK
  <2>3. calls'[c].at = "publish" /\ calls'[c].frame = frame /\ calls'[c].moved = calls[c].moved
    BY <2>1, <1>t DEF TypeOK, Call
  <2>4. frame # None /\ frame.seq = seq + 1 /\ frame.types = toggles
    <3>1. frame \in Frame
      BY <1>5, <1>t DEF NumberMove, Frame, TypeOK
    <3> QED
      BY <3>1, MarksAssumption
  <2>5. InFlight' \subseteq InFlight \cup {frame}
    BY <2>1, <2>3 DEF InFlight
  <2>6. \A f \in InFlight : f.seq \in Nat /\ 0 < f.seq /\ f.seq <= selectionSeq
    BY <1>t DEF FramesAnnounced, InFlight, TypeOK, Call, Frame
  <2>7. heard.seq \in Nat /\ heard.seq <= seq
    BY <1>t DEF TypeOK, Frame, FramesAnnounced
  <2>8. CallsWellFormed'
    BY <2>1, <2>3, <2>4, <1>t DEF CallsWellFormed
  <2>9. FramesAnnounced'
    BY <1>5, <2>2, <2>4, <2>5, <2>6, <2>7 DEF NumberMove, FramesAnnounced
  <2>10. ASSUME NEW f \in InFlight' \cup {heard'} PROVE AfterCatchUp(f)' = toggles'
    BY <2>2, <2>4, <2>5, <2>6, <2>7 DEF AfterCatchUp
  <2> QED
    BY <2>8, <2>9, <2>10 DEF Restated
<1>6. ASSUME NEW c \in Caller, Publish(c) PROVE Goal'
  <2>1. \A d \in Caller : calls'[d] = IF d = c THEN Idle ELSE calls[d]
    BY <1>6, <1>t DEF Publish, TypeOK
  <2>2. calls[c].frame # None /\ calls[c].frame \in InFlight
    BY <1>6, <1>t DEF Publish, At, CallsWellFormed, InFlight
  <2>3. /\ heard' = calls[c].frame
        /\ UNCHANGED <<toggles, seq, selectionSeq, reset>>
    BY <1>6 DEF Publish
  <2>4. InFlight' \subseteq InFlight
    BY <2>1 DEF InFlight, Idle
  <2>5. Unnumbered <=> Unnumbered'
    BY <2>1, <2>2 DEF Unnumbered, Idle
  <2>6. CallsWellFormed'
    BY <2>1, <1>t DEF CallsWellFormed, Idle
  <2>0. \A f \in InFlight : f.seq \in Nat /\ 0 < f.seq /\ f.seq <= selectionSeq
    BY <1>t DEF FramesAnnounced, InFlight, TypeOK, Call, Frame
  <2>7. selectionSeq # 0 /\ selectionSeq \in Nat /\ seq \in Nat /\ selectionSeq <= seq
    BY <2>2, <2>0, <1>t, LoadAssumption DEF TypeOK
  <2>8. FramesAnnounced'
    BY <2>0, <2>2, <2>3, <2>4, <2>7, <1>t DEF FramesAnnounced
  <2>9. Restated'
    BY <2>2, <2>3, <2>4, <2>5, <1>t DEF Restated, AfterCatchUp
  <2> QED
    BY <2>6, <2>8, <2>9
<1>7. CASE ResetTenant
  <2>1. UNCHANGED <<calls, selectionSeq>> /\ toggles' = {} /\ seq' = seq + 1
    BY <1>7 DEF ResetTenant
  <2>2. InFlight' = InFlight /\ (Unnumbered <=> Unnumbered') /\ CallsWellFormed'
    BY <2>1, <1>t DEF InFlight, Unnumbered, CallsWellFormed
  <2>3. \A f \in InFlight : f.seq \in Nat /\ 0 < f.seq /\ f.seq <= selectionSeq
    BY <1>t DEF FramesAnnounced, InFlight, TypeOK, Call, Frame
  <2>4. seq \in Nat /\ selectionSeq \in Nat /\ selectionSeq <= seq
    BY <1>t, LoadAssumption DEF TypeOK
  <2>5. CASE selectionSeq = 0
    <3>1. InFlight = {}
      BY <2>3, <2>5
    <3>2. UNCHANGED <<reset, heard>> /\ reset = 0 /\ heard = [seq |-> 0, types |-> {}]
      BY <1>7, <2>5, <1>t DEF ResetTenant, FramesAnnounced
    <3> QED
      BY <2>1, <2>2, <2>4, <2>5, <3>1, <3>2 DEF FramesAnnounced, Restated, AfterCatchUp
  <2>6. CASE selectionSeq > 0
    <3>1. reset' = seq + 1 /\ heard' = [seq |-> seq + 1, types |-> {}]
      BY <1>7, <2>6 DEF ResetTenant
    <3>2. FramesAnnounced'
      BY <2>1, <2>2, <2>4, <2>6, <3>1, <1>t DEF FramesAnnounced
    <3>3. ASSUME NEW f \in InFlight' \cup {heard'} PROVE AfterCatchUp(f)' = toggles'
      BY <2>1, <2>2, <2>3, <2>4, <3>1 DEF AfterCatchUp
    <3> QED
      BY <2>2, <3>2, <3>3 DEF Restated
  <2> QED
    BY <2>4, <2>5, <2>6
<1>8. CASE UNCHANGED <<toggles, seq, selectionSeq, reset, calls, heard>>
  BY <1>8, <1>t DEF CallsWellFormed, FramesAnnounced, Restated, InFlight, Unnumbered,
                    AfterCatchUp
<1>9. ASSUME NEW s \in Stream, OpenStream(s) \/ CutStream(s) \/ SetSent(s) \/ SetLoadState(s)
      PROVE  Goal'
  BY <1>8, <1>9 DEF OpenStream, CutStream, SetSent, SetLoadState
<1>10. ASSUME NEW target \in LoadState, Advance(target) PROVE Goal'
  BY <1>8, <1>10 DEF Advance
<1>11. CASE RaiseAwaitingUser
  BY <1>8, <1>11 DEF RaiseAwaitingUser
<1>12. CASE UNCHANGED vars
  BY <1>8, <1>12 DEF vars
<1> QED
  BY <1>1, <1>2, <1>3, <1>4, <1>5, <1>6, <1>7, <1>9, <1>10, <1>11, <1>12 DEF Next

\* LoadInv holds of every reachable state.
LEMMA Invariance == Spec => []LoadInv
<1>1. LoadInv /\ [Next]_vars => LoadInv'
  BY TypeStep, SelectionStep, CompletedStep, AnnouncementStep DEF LoadInv
<1> QED
  BY InitInv, <1>1, PTL DEF Spec

----------------------------------------------------------------------------
(* Theorems *)

\* However calls, streams and resets interleave, every variable of an
\* endpoint's selection and load holds a value of its type.
THEOREM TypeCorrect == Spec => []TypeOK
BY Invariance, PTL DEF LoadInv

\* The selection stays within what the participant declared and closed over
\* dependencies (selectTypes, declare and ResetTenant).
THEOREM SelectionStaysResolvable == Spec => []SelectionResolvable
BY Invariance, PTL DEF LoadInv

\* A completed load waits for nobody (advanceLoadState, raiseAwaitingUser and
\* the streams that race them).
THEOREM CompletionIsClean == Spec => []CompletedWaitsForNobody
BY Invariance, PTL DEF LoadInv

\* A completed load has left its mark on the endpoint (advanceLoadState), which
\* no later load takes away.
THEOREM CompletionIsMarked == Spec => []CompletedIsRemembered
BY Invariance, PTL DEF LoadInv

\* Whatever order the frames of concurrent moves and resets reached it in, a
\* participant that resumes once they are announced learns the selection
\* (publishSelection, ResetTenant and catchUp).
THEOREM SelectionIsNeverLost == Spec => []ResumeLearnsTheSelection
<1>1. LoadInv => ResumeLearnsTheSelection
  BY DEF LoadInv, Restated, ResumeLearnsTheSelection, Quiet, Idle, Unnumbered
<1> QED
  BY Invariance, <1>1, PTL

LEMMA LoadStep ==
  ASSUME TypeOK, [Next]_vars
  PROVE  (FinishesLoading => FinishedByAStream) /\ (LowersFlag => Progress)
<1> USE DEF FinishesLoading, FinishedByAStream, LowersFlag, Progress, LoadingFrom,
            Reconciling, LoadingTo, Completed
<1> DEFINE Goal == (FinishesLoading => FinishedByAStream) /\ (LowersFlag => Progress)
<1>1. ASSUME NEW c \in Caller, StartLoad(c) PROVE Goal
  BY <1>1 DEF StartLoad
<1>2. ASSUME NEW s \in Stream, SetLoadState(s) PROVE Goal
  BY <1>2 DEF SetLoadState, TypeOK
<1>3. ASSUME NEW target \in LoadState, Advance(target) PROVE Goal
  BY <1>3 DEF Advance, Legal, LoadState, TypeOK, Load
<1>4. CASE RaiseAwaitingUser
  BY <1>4 DEF RaiseAwaitingUser, TypeOK, Load
<1>5. CASE load' = None \/ load' = load
  BY <1>5
<1> QED
  BY <1>1, <1>2, <1>3, <1>4, <1>5
     DEF Next, vars, Select, Declare, DropLoad, NumberMove, Publish, ResetTenant,
         OpenStream, CutStream, SetSent

\* Only a stream that sent its whole set moves a load on from
\* LOADING_FROM_AGRIROUTER (advanceLoadState refuses the endpoint).
THEOREM OnlyStreamsEndLoading == Spec => OnlySendingEndsLoading
<1>1. TypeOK /\ [Next]_vars => [FinishesLoading => FinishedByAStream]_vars
  BY LoadStep
<1> QED
  BY <1>1, TypeCorrect, PTL DEF Spec, OnlySendingEndsLoading

\* A raised flag outlives everything but progress the endpoint makes and a load
\* that starts over (setLoadState leaves it alone).
THEOREM FlagStands == Spec => FlagStandsUntilProgress
<1>1. TypeOK /\ [Next]_vars => [LowersFlag => Progress]_vars
  BY LoadStep
<1> QED
  BY <1>1, TypeCorrect, PTL DEF Spec, FlagStandsUntilProgress
=============================================================================
