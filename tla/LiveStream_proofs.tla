------------------------- MODULE LiveStream_proofs -------------------------
(***************************************************************************)
(* Theorems about the live stream: the type invariant; that no revision is *)
(* undone; and that the stored position is safe to resume from where it is:*)
(* nothing references, and the queue has room for every change there can   *)
(* be. Both are needed: MCTiers breaks SafeToResume without the first, a   *)
(* queue of one without the second. However many calls move the selection, *)
(* it excepts only what changed before the latest move.                    *)
(***************************************************************************)
EXTENDS LiveStream, FiniteSetTheorems, TLAPS

----------------------------------------------------------------------------
(* Sequences *)

LEMMA TailOf ==
  ASSUME NEW S, NEW s \in Seq(S), s # <<>>
  PROVE  /\ 1 \in DOMAIN s /\ Head(s) = s[1] /\ Head(s) \in S
         /\ Tail(s) \in Seq(S) /\ Len(Tail(s)) = Len(s) - 1
         /\ \A i \in DOMAIN Tail(s) : i + 1 \in DOMAIN s /\ Tail(s)[i] = s[i + 1]
OBVIOUS

LEMMA AppendOf ==
  ASSUME NEW S, NEW s \in Seq(S), NEW e \in S
  PROVE  /\ Append(s, e) \in Seq(S) /\ Len(Append(s, e)) = Len(s) + 1
         /\ DOMAIN Append(s, e) = 1..(Len(s) + 1)
         /\ \A i \in 1..Len(s) : Append(s, e)[i] = s[i]
         /\ Append(s, e)[Len(s) + 1] = e
OBVIOUS

LEMMA ConcatOf ==
  ASSUME NEW S, NEW s \in Seq(S), NEW t \in Seq(S)
  PROVE  /\ s \o t \in Seq(S) /\ Len(s \o t) = Len(s) + Len(t)
         /\ \A i \in 1..Len(s) : (s \o t)[i] = s[i]
         /\ \A i \in 1..Len(t) : (s \o t)[Len(s) + i] = t[i]
OBVIOUS

----------------------------------------------------------------------------
(* Types *)

\* Nothing in these frames is ahead of what agrirouter has recorded.
Sound(frames) ==
  \A i \in DOMAIN frames :
    /\ frames[i].id <= seq
    /\ frames[i].event = "entity" => frames[i].revision <= revision[frames[i].object]

Recorded ==
  /\ applied \in [Object -> Nat]
  /\ \A o \in Object : revision[o] <= seq
  /\ \A m \in Announcing : moving[m].frame.id <= seq
  /\ Sound(catchUp) /\ Sound(live)
  /\ \A r \in responses : r.revision <= revision[r.object]

IInv == TypeOK /\ Recorded

\* A frame that waits to be handed over stays behind agrirouter's numbers.
LEMMA AnnouncingStays ==
  ASSUME IInv, seq' \in Nat, seq <= seq', moving' = moving
  PROVE  \A m \in Announcing' : moving'[m].frame.id <= seq'
<1> SUFFICES ASSUME NEW m \in Announcing PROVE moving[m].frame.id <= seq'
  BY DEF Announcing
<1>1. m \in Mover /\ moving[m].at = "publish"
  BY DEF Announcing
<1>2. moving[m] \in Call /\ moving[m].frame.id <= seq /\ seq \in Nat
  BY <1>1 DEF IInv, TypeOK, Recorded
<1>3. moving[m].frame.id \in Nat
  BY <1>1, <1>2 DEF Call, RouteFrames
<1> QED
  BY <1>2, <1>3

\* What a change numbers and revises.
LEMMA ChangeType ==
  ASSUME IInv, NEW o \in Object, NEW byUs \in BOOLEAN, Change(o, byUs)
  PROVE  /\ seq' = seq + 1 /\ seq' \in Nat /\ overtaken' \subseteq {"write", "move"}
         /\ revision' \in [Object -> Nat] /\ revision'[o] = revision[o] + 1
         /\ position' \in [Object -> 0..seq'] /\ position'[o] = seq'
         /\ own' \in [Object -> BOOLEAN] /\ own'[o] = byUs
         /\ \A q \in Object : revision[q] <= revision'[q] /\ revision'[q] <= seq'
         /\ \A q \in Object \ {o} : /\ revision'[q] = revision[q]
                                    /\ position'[q] = position[q] /\ own'[q] = own[q]
<1>1. /\ revision \in [Object -> Nat] /\ position \in [Object -> 0..seq]
      /\ own \in [Object -> BOOLEAN] /\ seq \in Nat /\ MaxSeq \in Nat
      /\ overtaken \subseteq {"write", "move"}
      /\ \A q \in Object : revision[q] <= seq
  BY LiveAssumption DEF IInv, TypeOK, Recorded
<1>2. /\ seq' = seq + 1 /\ revision' = [revision EXCEPT ![o] = @ + 1]
      /\ position' = [position EXCEPT ![o] = seq + 1] /\ own' = [own EXCEPT ![o] = byUs]
      /\ seq < MaxSeq /\ (overtaken' = overtaken \/ overtaken' = overtaken \cup {"write"})
  BY DEF Change, Overtake
<1>3. overtaken' \subseteq {"write", "move"}
  BY <1>1, <1>2
<1>4. \A q \in Object : revision'[q] = IF q = o THEN revision[q] + 1 ELSE revision[q]
  BY <1>1, <1>2
<1>5. /\ revision' \in [Object -> Nat]
      /\ \A q \in Object : revision[q] <= revision'[q] /\ revision'[q] <= seq'
  <2>1. \A q \in Object : /\ revision[q] <= revision'[q] /\ revision'[q] <= seq'
                          /\ revision'[q] \in Nat
    BY <1>1, <1>2, <1>3, <1>4
  <2>2. revision' \in [Object -> Nat]
    BY <1>1, <1>2
  <2> QED
    BY <2>1, <2>2 
<1>6. position' \in [Object -> 0..seq'] /\ own' \in [Object -> BOOLEAN]
  BY <1>1, <1>2
<1> QED
  BY <1>1, <1>2, <1>3, <1>4, <1>5, <1>6 

\* Frames stay sound while numbers and revisions only grow.
LEMMA SoundStays ==
  ASSUME NEW frames \in Seq(StreamFrame), Sound(frames),
         revision \in [Object -> Nat], revision' \in [Object -> Nat],
         seq \in Nat, seq' \in Nat, seq <= seq', MaxSeq \in Nat,
         \A q \in Object : revision[q] <= revision'[q]
  PROVE  \A i \in DOMAIN frames :
           /\ frames[i].id <= seq'
           /\ frames[i].event = "entity" => frames[i].revision <= revision'[frames[i].object]
<1> SUFFICES ASSUME NEW i \in DOMAIN frames
             PROVE  /\ frames[i].id <= seq'
                    /\ frames[i].event = "entity"
                         => frames[i].revision <= revision'[frames[i].object]
  OBVIOUS
<1>1. frames[i] \in StreamFrame
  OBVIOUS
<1>2. frames[i].id \in Nat /\ (frames[i].event = "entity" =>
                                 frames[i].object \in Object /\ frames[i].revision \in Nat)
  BY <1>1 DEF StreamFrame, RouteFrames
<1> QED
  BY <1>2 DEF Sound

\* Handing a sound frame to the hub keeps the queue typed and sound.
LEMMA DeliverType ==
  ASSUME IInv, NEW f \in StreamFrame, Deliver(f),
         seq' \in Nat, seq <= seq', revision' \in [Object -> Nat],
         \A q \in Object : revision[q] <= revision'[q],
         f.id <= seq', f.event = "entity" => f.revision <= revision'[f.object]
  PROVE  live' \in Seq(StreamFrame) /\ Len(live') <= Capacity /\ Sound(live)'
<1>1. /\ live \in Seq(StreamFrame) /\ Sound(live) /\ Len(live) <= Capacity
      /\ revision \in [Object -> Nat] /\ seq \in Nat /\ MaxSeq \in Nat /\ Capacity \in Nat
  BY LiveAssumption DEF IInv, TypeOK, Recorded
<1>2. \A i \in DOMAIN live :
        /\ live[i].id <= seq'
        /\ live[i].event = "entity" => live[i].revision <= revision'[live[i].object]
  BY <1>1, SoundStays
<1>3. CASE live' = live
  BY <1>1, <1>2, <1>3 DEF Sound
<1>4. CASE live' = Append(live, f) /\ Len(live) < Capacity
  <2>1. /\ live' \in Seq(StreamFrame) /\ Len(live') = Len(live) + 1
        /\ DOMAIN live' = 1..(Len(live) + 1)
        /\ \A i \in 1..Len(live) : live'[i] = live[i]
        /\ live'[Len(live) + 1] = f
    BY <1>1, <1>4, AppendOf
  <2>2. Len(live) \in Nat /\ DOMAIN live = 1..Len(live)
    BY <1>1
  <2>3. Len(live') <= Capacity
    BY <1>1, <1>4, <2>1, <2>2
  <2>4. ASSUME NEW i \in DOMAIN live'
        PROVE  /\ live'[i].id <= seq'
               /\ live'[i].event = "entity" => live'[i].revision <= revision'[live'[i].object]
    <3>1. i \in DOMAIN live \/ i = Len(live) + 1
      BY <2>1, <2>2
    <3>2. CASE i \in DOMAIN live
      BY <1>2, <2>1, <2>2, <3>2
    <3>3. CASE i = Len(live) + 1
      BY <2>1, <3>3
    <3> QED
      BY <3>1, <3>2, <3>3
  <2> QED
    BY <2>1, <2>3, <2>4 DEF Sound
<1> QED
  BY <1>3, <1>4 DEF Deliver

\* Applying a sound frame leaves every revision between what it was and what
\* agrirouter has.
LEMMA ApplyType ==
  ASSUME IInv, NEW f \in StreamFrame, Apply(f), f.id <= seq,
         f.event = "entity" => f.revision <= revision[f.object]
  PROVE  /\ resume' = f.id /\ resume' \in 0..seq /\ heard' \in 0..MaxMoves
         /\ binding' \in Object \cup {None}
         /\ applied' \in [Object -> Nat]
         /\ \A o \in Object : applied[o] <= applied'[o] /\ applied'[o] <= revision[o]
         /\ \A o \in Object : f.event = "entity" /\ f.object = o => f.revision <= applied'[o]
<1>1. /\ applied \in [Object -> Nat] /\ revision \in [Object -> Nat] /\ seq \in Nat
      /\ heard \in 0..MaxMoves /\ binding \in Object \cup {None}
      /\ \A o \in Object : applied[o] <= revision[o]
  BY LiveAssumption DEF IInv, TypeOK, Recorded
<1>2. /\ f.id \in Nat
      /\ f.event = "entity" => f.object \in Object /\ f.revision \in Nat
      /\ f.event = "route" => f.selection \in 0..MaxMoves
  BY DEF StreamFrame, RouteFrames
<1>3. resume' = f.id /\ resume' \in 0..seq /\ heard' \in 0..MaxMoves
  BY <1>1, <1>2 DEF Apply
<1>4. CASE f.event = "entity"
  <2>1. applied' = [applied EXCEPT ![f.object] = Newest(f.object, f.revision)]
    BY <1>4 DEF Apply
  <2>2. binding' \in Object \cup {None}
    BY <1>2, <1>4 DEF Apply
  <2>3. /\ Newest(f.object, f.revision) \in Nat
        /\ applied[f.object] <= Newest(f.object, f.revision)
        /\ f.revision <= Newest(f.object, f.revision)
        /\ Newest(f.object, f.revision) <= revision[f.object]
    BY <1>1, <1>2, <1>4 DEF Newest
  <2> QED
    BY <1>1, <1>2, <1>3, <1>4, <2>1, <2>2, <2>3
<1>5. CASE f.event # "entity"
  BY <1>1, <1>3, <1>5 DEF Apply
<1> QED
  BY <1>4, <1>5

\* What a connection is sent first.
LEMMA FramesType ==
  ASSUME IInv, NEW objs \in SUBSET Object, NEW ordered \in InOrder(objs)
  PROVE  /\ Cardinality(objs) \in Nat
         /\ Frames(ordered) \in Seq(StreamFrame) /\ Len(Frames(ordered)) = Cardinality(objs)
         /\ \A i \in 1..Cardinality(objs) :
              /\ ordered[i] \in objs
              /\ Frames(ordered)[i] = EntityFrame(ordered[i], revision[ordered[i]],
                                                  position[ordered[i]])
         /\ Sound(Frames(ordered))
<1>1. Cardinality(objs) \in Nat
  BY LiveAssumption, FS_Subset, FS_CardinalityType
<1>2. ordered \in [1..Cardinality(objs) -> objs]
  BY DEF InOrder, Bijection, Injection, Surjection
<1>3. /\ revision \in [Object -> Nat] /\ position \in [Object -> 0..seq]
      /\ named \in [Object -> BOOLEAN] /\ seq \in Nat /\ MaxSeq \in Nat
  BY LiveAssumption DEF IInv, TypeOK
<1>4. ASSUME NEW i \in 1..Cardinality(objs)
      PROVE  /\ ordered[i] \in objs
             /\ Frames(ordered)[i] = EntityFrame(ordered[i], revision[ordered[i]],
                                                 position[ordered[i]])
             /\ Frames(ordered)[i] \in StreamFrame
             /\ Frames(ordered)[i].id <= seq
             /\ Frames(ordered)[i].revision <= revision[Frames(ordered)[i].object]
  <2>1. ordered[i] \in objs /\ ordered[i] \in Object
    BY <1>2
  <2>2. Frames(ordered)[i] = EntityFrame(ordered[i], revision[ordered[i]],
                                         position[ordered[i]])
    BY <1>2 DEF Frames
  <2>3. /\ revision[ordered[i]] \in Nat /\ position[ordered[i]] \in Nat
        /\ position[ordered[i]] <= seq /\ named[ordered[i]] \in BOOLEAN
    BY <1>3, <2>1 
  <2>4. EntityFrame(ordered[i], revision[ordered[i]], position[ordered[i]]) \in StreamFrame
    BY <2>1, <2>3 DEF EntityFrame, StreamFrame, RouteFrames
  <2> QED
    BY <2>1, <2>2, <2>3, <2>4 DEF EntityFrame
<1>5. DOMAIN Frames(ordered) = 1..Cardinality(objs)
  BY <1>2 DEF Frames
<1>6. Frames(ordered) \in [1..Cardinality(objs) -> StreamFrame]
  BY <1>2, <1>4, <1>5 DEF Frames
<1>7. Frames(ordered) \in Seq(StreamFrame) /\ Len(Frames(ordered)) = Cardinality(objs)
  BY <1>1, <1>6
<1> QED
  BY <1>1, <1>4, <1>5, <1>7 DEF Sound

\* The catch-up of a connection is typed and sound.
LEMMA CatchUpType ==
  ASSUME IInv, CatchUp
  PROVE  catchUp' \in Seq(StreamFrame) /\ Sound(catchUp)'
<1> DEFINE route == IF selectionSeq > resume THEN <<RouteFrame(selection, selectionSeq)>>
                    ELSE <<>>
<1>1. PICK ordered \in InOrder(ChangedSince(resume)) :
        catchUp' = route \o Frames(ordered) \o <<CaughtUp(seq)>>
  BY DEF CatchUp
<1>2. ChangedSince(resume) \in SUBSET Object
  BY DEF ChangedSince
<1>3. /\ seq' = seq /\ revision' = revision
      /\ seq \in Nat /\ selectionSeq \in Nat /\ selectionSeq <= seq
      /\ selection \in 0..MaxMoves /\ MaxSeq \in Nat
  BY LiveAssumption DEF CatchUp, router, store, IInv, TypeOK
<1>4. Frames(ordered) \in Seq(StreamFrame) /\ Sound(Frames(ordered))
  BY <1>2, FramesType
<1>5. route \in Seq(StreamFrame) /\ Sound(route)
  <2>1. RouteFrame(selection, selectionSeq) \in StreamFrame
    BY <1>3 DEF RouteFrame, StreamFrame, RouteFrames
  <2>2. <<RouteFrame(selection, selectionSeq)>>[1].id <= seq
        /\ <<RouteFrame(selection, selectionSeq)>>[1].event # "entity"
    BY <1>3 DEF RouteFrame
  <2> QED
    BY <2>1, <2>2 DEF Sound
<1>6. <<CaughtUp(seq)>> \in Seq(StreamFrame) /\ Sound(<<CaughtUp(seq)>>)
  <2>1. CaughtUp(seq) \in StreamFrame
    BY <1>3 DEF CaughtUp, StreamFrame, RouteFrames
  <2>2. <<CaughtUp(seq)>>[1].id <= seq /\ <<CaughtUp(seq)>>[1].event # "entity"
    BY <1>3 DEF CaughtUp
  <2> QED
    BY <2>1, <2>2 DEF Sound
<1>7. ASSUME NEW s \in Seq(StreamFrame), NEW t \in Seq(StreamFrame), Sound(s), Sound(t)
      PROVE  s \o t \in Seq(StreamFrame) /\ Sound(s \o t)
  <2>1. /\ s \o t \in Seq(StreamFrame) /\ Len(s \o t) = Len(s) + Len(t)
        /\ \A i \in 1..Len(s) : (s \o t)[i] = s[i]
        /\ \A i \in 1..Len(t) : (s \o t)[Len(s) + i] = t[i]
    BY ConcatOf
  <2>2. ASSUME NEW i \in DOMAIN (s \o t)
        PROVE  \/ i \in DOMAIN s /\ (s \o t)[i] = s[i]
               \/ i - Len(s) \in DOMAIN t /\ (s \o t)[i] = t[i - Len(s)]
    <3>1. i \in 1..(Len(s) + Len(t)) /\ Len(s) \in Nat /\ Len(t) \in Nat
      BY <2>1
    <3>2. CASE i <= Len(s)
      BY <2>1, <3>1, <3>2
    <3>3. CASE i > Len(s)
      <4>1. i - Len(s) \in 1..Len(t) /\ Len(s) + (i - Len(s)) = i
        BY <3>1, <3>3
      <4> QED
        BY <2>1, <4>1
    <3> QED
      BY <3>1, <3>2, <3>3
  <2> QED
    BY <1>7, <2>1, <2>2 DEF Sound
<1> HIDE DEF route
<1>8. catchUp' \in Seq(StreamFrame) /\ Sound(catchUp')
  BY <1>1, <1>4, <1>5, <1>6, <1>7
<1> QED
  BY <1>3, <1>8 DEF Sound

\* What is left after the first frame.
LEMMA TailType ==
  ASSUME NEW frames \in Seq(StreamFrame), frames # <<>>, Sound(frames)
  PROVE  /\ Head(frames) \in StreamFrame /\ Head(frames).id <= seq
         /\ Head(frames).event = "entity"
              => Head(frames).revision <= revision[Head(frames).object]
         /\ Tail(frames) \in Seq(StreamFrame) /\ Sound(Tail(frames))
         /\ Len(Tail(frames)) <= Len(frames)
BY TailOf DEF Sound

LEMMA InitInv == Init => IInv
<1> SUFFICES ASSUME Init PROVE IInv
  OBVIOUS
<1>1. Sound(<<>>) /\ <<>> \in Seq(StreamFrame) /\ Len(<<>>) = 0
  BY DEF Sound
<1> QED
  BY <1>1, LiveAssumption DEF Init, IInv, TypeOK, Recorded, Announcing, Idle, Call

LEMMA TypeStep == IInv /\ [Next]_vars => IInv'
<1> SUFFICES ASSUME IInv, [Next]_vars PROVE IInv'
  OBVIOUS
<1>1. /\ MaxSeq \in Nat /\ MaxMoves \in Nat /\ MaxBreaks \in Nat /\ Capacity \in Nat
      /\ TypeOK /\ Recorded /\ None \notin Object
  BY LiveAssumption DEF IInv
<1>2. /\ revision \in [Object -> Nat] /\ seq \in Nat
      /\ catchUp \in Seq(StreamFrame) /\ Sound(catchUp)
      /\ live \in Seq(StreamFrame) /\ Sound(live)
  BY <1>1 DEF TypeOK, Recorded
<1>3. ASSUME NEW o \in Object, NEW byUs \in BOOLEAN, Change(o, byUs)
      PROVE  /\ seq' \in Nat /\ seq <= seq' /\ revision' \in [Object -> Nat]
             /\ \A q \in Object : revision[q] <= revision'[q]
             /\ catchUp' = catchUp => Sound(catchUp)'
  <2>1. /\ seq' \in Nat /\ seq <= seq' /\ revision' \in [Object -> Nat]
        /\ \A q \in Object : revision[q] <= revision'[q]
    BY <1>1, <1>2, <1>3, ChangeType 
  <2>2. \A i \in DOMAIN catchUp :
          /\ catchUp[i].id <= seq'
          /\ catchUp[i].event = "entity" => catchUp[i].revision <= revision'[catchUp[i].object]
    BY <1>1, <1>2, <2>1, SoundStays
  <2> QED
    BY <2>1, <2>2 DEF Sound
<1>4. ASSUME NEW o \in Object, OtherWrite(o)
      PROVE  IInv'
  <2> DEFINE f == EntityFrame(o, revision[o] + 1, seq + 1)
  <2>1. Change(o, FALSE) /\ Deliver(f)
    BY <1>4 DEF OtherWrite
  <2>2. /\ seq' = seq + 1 /\ seq' \in Nat /\ overtaken' \subseteq {"write", "move"}
        /\ revision' \in [Object -> Nat] /\ revision'[o] = revision[o] + 1
        /\ position' \in [Object -> 0..seq']
        /\ own' \in [Object -> BOOLEAN]
        /\ \A q \in Object : revision[q] <= revision'[q] /\ revision'[q] <= seq'
    BY <2>1, ChangeType
  <2>3. /\ f \in StreamFrame /\ f.id <= seq'
        /\ f.event = "entity" => f.revision <= revision'[f.object]
    <3>1. revision[o] + 1 \in Nat /\ seq + 1 \in Nat /\ named[o] \in BOOLEAN
      BY <1>1, <2>2 DEF TypeOK
    <3> QED
      BY <1>2, <2>2, <3>1 DEF EntityFrame, StreamFrame, RouteFrames
  <2> HIDE DEF f
  <2>4. live' \in Seq(StreamFrame) /\ Len(live') <= Capacity /\ Sound(live)'
    BY <1>2, <1>3, <2>1, <2>3, DeliverType
  <2>5. /\ UNCHANGED <<named, selection, selectionSeq, moving, conn, catchUp, resume, applied,
                       heard, binding, responses, breaks>>
        /\ Sound(catchUp)'
    BY <1>3, <1>4, <2>1 DEF OtherWrite, client
  <2>6. TypeOK'
    <3>1. \A q \in Object : applied'[q] \in 0..revision'[q]
      BY <1>1, <1>2, <2>2, <2>5 DEF TypeOK, Recorded
    <3>2. selectionSeq' \in 0..seq' /\ resume' \in 0..seq'
      BY <1>1, <1>2, <2>2, <2>5 DEF TypeOK
    <3> QED
      BY <1>1, <2>2, <2>4, <2>5, <3>1, <3>2 DEF TypeOK
  <2>7. Recorded'
    <3>1. \A r \in responses : r.revision <= revision'[r.object]
      BY <1>1, <1>2, <2>2 DEF TypeOK, Recorded
    <3>2. \A m \in Announcing' : moving'[m].frame.id <= seq'
      BY <1>2, <2>2, <2>5, AnnouncingStays
    <3> QED
      BY <1>1, <2>2, <2>4, <2>5, <3>1, <3>2 DEF Recorded
  <2> QED
    BY <2>6, <2>7 DEF IInv
<1>5. ASSUME NEW o \in Object, OwnWrite(o)
      PROVE  IInv'
  <2>1. Change(o, TRUE)
    BY <1>5 DEF OwnWrite
  <2>2. /\ seq' = seq + 1 /\ seq' \in Nat /\ overtaken' \subseteq {"write", "move"}
        /\ revision' \in [Object -> Nat] /\ revision'[o] = revision[o] + 1
        /\ position' \in [Object -> 0..seq']
        /\ own' \in [Object -> BOOLEAN]
        /\ \A q \in Object : revision[q] <= revision'[q] /\ revision'[q] <= seq'
    BY <2>1, ChangeType
  <2>3. /\ UNCHANGED <<selection, selectionSeq, moving, conn, catchUp, live, resume, applied,
                       heard, binding, breaks>>
        /\ Sound(catchUp)' /\ named' = [named EXCEPT ![o] = TRUE]
        /\ responses' = responses \cup {[object |-> o, revision |-> revision[o] + 1]}
    BY <1>3, <1>5, <2>1 DEF OwnWrite, wire
  <2>4. Sound(live)'
    <3>1. \A i \in DOMAIN live :
            /\ live[i].id <= seq'
            /\ live[i].event = "entity" => live[i].revision <= revision'[live[i].object]
      BY <1>1, <1>2, <1>3, <2>1, SoundStays
    <3> QED
      BY <2>3, <3>1 DEF Sound
  <2>5. TypeOK'
    <3>1. \A q \in Object : applied'[q] \in 0..revision'[q]
      BY <1>1, <1>2, <2>2, <2>3 DEF TypeOK, Recorded
    <3>2. selectionSeq' \in 0..seq' /\ resume' \in 0..seq'
      BY <1>1, <1>2, <2>2, <2>3 DEF TypeOK
    <3>3. responses' \subseteq [object : Object, revision : Nat]
      BY <1>1, <2>2, <2>3 DEF TypeOK
    <3> QED
      BY <1>1, <2>2, <2>3, <3>1, <3>2, <3>3 DEF TypeOK
  <2>6. Recorded'
    <3>1. \A r \in responses' : r.revision <= revision'[r.object]
      BY <1>1, <1>2, <2>2, <2>3 DEF TypeOK, Recorded
    <3>2. \A m \in Announcing' : moving'[m].frame.id <= seq'
      BY <1>2, <2>2, <2>3, AnnouncingStays
    <3> QED
      BY <1>1, <2>2, <2>3, <2>4, <3>1, <3>2 DEF Recorded
  <2> QED
    BY <2>5, <2>6 DEF IInv
<1>6. ASSUME NEW m \in Mover, MoveSelection(m)
      PROVE  IInv'
  <2>1. /\ selection' = selection + 1 /\ selection < MaxMoves
        /\ moving' = [moving EXCEPT ![m] = [at |-> "number", frame |-> None]]
        /\ UNCHANGED <<revision, position, own, named, seq, overtaken, selectionSeq, conn,
                       catchUp, live, resume, applied, heard, binding, responses, breaks>>
    BY <1>6 DEF MoveSelection, store, wire, client
  <2>2. [at |-> "number", frame |-> None] \in Call
    BY DEF Call
  <2>3. /\ moving' \in [Mover -> Call]
        /\ \A k \in Announcing' : k \in Announcing /\ moving'[k] = moving[k]
    BY <1>1, <2>1, <2>2 DEF TypeOK, Announcing
  <2>4. selection' \in 0..MaxMoves
    BY <1>1, <2>1 DEF TypeOK
  <2> QED
    BY <1>1, <1>2, <2>1, <2>3, <2>4 DEF IInv, TypeOK, Recorded, Announcing, Sound
<1>7. ASSUME NEW m \in Mover, NumberMove(m)
      PROVE  IInv'
  <2> DEFINE f == RouteFrame(selection, seq + 1)
  <2>1. /\ seq' = seq + 1 /\ selectionSeq' = seq + 1
        /\ moving' = [moving EXCEPT ![m] = [at |-> "publish", frame |-> f]]
        /\ overtaken' \subseteq {"write", "move"}
        /\ UNCHANGED <<revision, position, own, named, selection, conn, catchUp, live, resume,
                       applied, heard, binding, responses, breaks>>
    BY <1>1, <1>7 DEF NumberMove, Overtake, wire, client, TypeOK
  <2>2. seq <= seq' /\ seq' \in Nat
    BY <1>2, <2>1
  <2>3. f \in RouteFrames /\ f.id = seq' /\ [at |-> "publish", frame |-> f] \in Call
    BY <1>1, <1>2, <2>1 DEF RouteFrame, RouteFrames, Call, TypeOK
  <2> HIDE DEF f
  <2>4. Sound(catchUp)' /\ Sound(live)'
    <3>1. \A q \in Object : revision[q] <= revision'[q]
      BY <1>2, <2>1
    <3>2. ASSUME NEW frames \in Seq(StreamFrame), Sound(frames)
          PROVE  \A i \in DOMAIN frames :
                   /\ frames[i].id <= seq'
                   /\ frames[i].event = "entity"
                        => frames[i].revision <= revision'[frames[i].object]
      BY <1>1, <1>2, <2>1, <2>2, <3>1, <3>2, SoundStays
    <3> QED
      BY <1>2, <2>1, <3>2 DEF Sound
  <2>5. /\ moving' \in [Mover -> Call]
        /\ \A k \in Announcing' : moving'[k].frame.id <= seq'
    <3>1. moving \in [Mover -> Call]
      BY <1>1 DEF TypeOK
    <3>2. ASSUME NEW k \in Announcing', k # m
          PROVE  moving'[k].frame.id <= seq'
      <4>1. k \in Announcing /\ moving'[k] = moving[k]
        BY <2>1, <3>1, <3>2 DEF Announcing
      <4>2. moving[k] \in Call /\ moving[k].frame.id <= seq /\ moving[k].at = "publish"
        BY <1>1, <3>1, <4>1 DEF Recorded, Announcing
      <4>3. moving[k].frame.id \in Nat
        BY <4>2 DEF Call, RouteFrames
      <4> QED
        BY <1>2, <2>2, <4>1, <4>2, <4>3
    <3>3. moving'[m].frame.id <= seq'
      BY <2>1, <2>2, <2>3, <3>1
    <3> QED
      BY <2>1, <2>3, <3>1, <3>2, <3>3
  <2>6. TypeOK'
    <3>1. position' \in [Object -> 0..seq']
      BY <1>1, <1>2, <2>1 DEF TypeOK
    <3>2. selectionSeq' \in 0..seq' /\ resume' \in 0..seq'
      BY <1>1, <1>2, <2>1 DEF TypeOK
    <3> QED
      BY <1>1, <2>1, <2>2, <2>5, <3>1, <3>2 DEF TypeOK
  <2>7. Recorded'
    <3>1. \A q \in Object : revision'[q] <= seq'
      BY <1>1, <1>2, <2>1 DEF Recorded
    <3> QED
      BY <1>1, <2>1, <2>4, <2>5, <3>1 DEF Recorded
  <2> QED
    BY <2>6, <2>7 DEF IInv
<1>8. ASSUME NEW m \in Mover, PublishMove(m)
      PROVE  IInv'
  <2> DEFINE f == moving[m].frame
  <2>1. /\ Deliver(f) /\ moving' = [moving EXCEPT ![m] = Idle] /\ m \in Announcing
        /\ UNCHANGED <<revision, position, own, named, seq, overtaken, selection,
                       selectionSeq, conn, catchUp, resume, applied, heard, binding,
                       responses, breaks>>
    BY <1>8 DEF PublishMove, store, client, Announcing
  <2>2. f \in StreamFrame /\ f.id <= seq' /\ f.event # "entity"
    <3>1. moving[m] \in Call /\ moving[m].at = "publish" /\ f.id <= seq
      BY <1>1, <2>1 DEF TypeOK, Recorded, Announcing
    <3>2. f \in RouteFrames
      BY <3>1 DEF Call
    <3> QED
      BY <2>1, <3>1, <3>2 DEF StreamFrame, RouteFrames
  <2> HIDE DEF f
  <2>3. \A q \in Object : revision[q] <= revision'[q]
    BY <1>2, <2>1
  <2>4. live' \in Seq(StreamFrame) /\ Len(live') <= Capacity /\ Sound(live)'
    BY <1>2, <2>1, <2>2, <2>3, DeliverType
  <2>5. /\ moving' \in [Mover -> Call]
        /\ \A k \in Announcing' : k \in Announcing /\ moving'[k] = moving[k]
    BY <1>1, <2>1 DEF TypeOK, Announcing, Idle, Call
  <2> QED
    BY <1>1, <1>2, <2>1, <2>4, <2>5 DEF IInv, TypeOK, Recorded, Announcing, Sound
<1>9. CASE Subscribe
  BY <1>1, <1>2, <1>9 DEF Subscribe, router, store, client, IInv, TypeOK, Recorded,
                          Announcing, Sound
<1>10. CASE CatchUp
  <2>1. catchUp' \in Seq(StreamFrame) /\ Sound(catchUp)'
    BY <1>10, CatchUpType
  <2>2. /\ conn' = "up"
        /\ UNCHANGED <<revision, position, own, named, seq, overtaken, selection,
                       selectionSeq, moving, live,
                       resume, applied, heard, binding, responses, breaks>>
    BY <1>10 DEF CatchUp, router, store, client
  <2> QED
    BY <1>1, <1>2, <2>1, <2>2 DEF IInv, TypeOK, Recorded, Announcing, Sound
<1>11. CASE Receive
  <2>1. /\ UNCHANGED <<revision, position, own, named, seq, overtaken, selection,
                       selectionSeq, moving, conn,
                       responses, breaks>>
        /\ \/ catchUp # <<>> /\ Apply(Head(catchUp)) /\ catchUp' = Tail(catchUp) /\ live' = live
           \/ live # <<>> /\ Apply(Head(live)) /\ live' = Tail(live) /\ catchUp' = catchUp
    BY <1>11 DEF Receive, router, store
  <2>2. PICK f \in StreamFrame : /\ Apply(f) /\ f.id <= seq
                                 /\ f.event = "entity" => f.revision <= revision[f.object]
    BY <1>2, <2>1, TailType
  <2>3. /\ catchUp' \in Seq(StreamFrame) /\ Sound(catchUp')
        /\ live' \in Seq(StreamFrame) /\ Sound(live') /\ Len(live') <= Capacity
    <3>1. Len(live) \in Nat /\ Len(live) <= Capacity
      BY <1>1 DEF TypeOK
    <3>2. CASE catchUp # <<>> /\ catchUp' = Tail(catchUp) /\ live' = live
      BY <1>2, <3>1, <3>2, TailType
    <3>3. CASE live # <<>> /\ live' = Tail(live) /\ catchUp' = catchUp
      <4>1. Tail(live) \in Seq(StreamFrame) /\ Sound(Tail(live)) /\ Len(Tail(live)) <= Len(live)
        BY <1>2, <3>3, TailType
      <4>2. Len(live') \in Nat
        BY <3>3, <4>1
      <4> QED
        BY <1>1, <1>2, <3>1, <3>3, <4>1, <4>2
    <3> QED
      BY <2>1, <3>2, <3>3
  <2>4. /\ resume' \in 0..seq /\ heard' \in 0..MaxMoves /\ binding' \in Object \cup {None}
        /\ applied' \in [Object -> Nat] /\ \A o \in Object : applied'[o] <= revision[o]
    BY <2>2, ApplyType
  <2>5. \A o \in Object : applied'[o] \in 0..revision[o]
    BY <1>2, <2>4
  <2> QED
    BY <1>1, <2>1, <2>3, <2>4, <2>5 DEF IInv, TypeOK, Recorded, Announcing, Sound
<1>12. CASE Bind
  <2>1. named' \in [Object -> BOOLEAN] /\ binding' = None
    BY <1>1, <1>12 DEF Bind, TypeOK
  <2> QED
    BY <1>1, <1>2, <1>12, <2>1 DEF Bind, wire, IInv, TypeOK, Recorded, Announcing, Sound
<1>13. ASSUME NEW r \in responses, ApplyResponse(r)
       PROVE  IInv'
  <2>1. /\ r.object \in Object /\ r.revision \in Nat /\ r.revision <= revision[r.object]
        /\ applied \in [Object -> Nat]
        /\ \A o \in Object : applied[o] <= revision[o]
    BY <1>1, <1>2 DEF TypeOK, Recorded
  <2>2. /\ applied' = [applied EXCEPT ![r.object] = Newest(r.object, r.revision)]
        /\ responses' = responses \ {r}
        /\ UNCHANGED <<revision, position, own, named, seq, overtaken, selection,
                       selectionSeq, moving, conn,
                       catchUp, live, resume, heard, binding, breaks>>
    BY <1>13 DEF ApplyResponse, router, store, wire
  <2>3. /\ Newest(r.object, r.revision) \in Nat
        /\ Newest(r.object, r.revision) <= revision[r.object]
    BY <2>1 DEF Newest
  <2>4. /\ applied' \in [Object -> Nat]
        /\ \A o \in Object : applied'[o] \in 0..revision[o]
    BY <1>2, <2>1, <2>2, <2>3
  <2> QED
    BY <1>1, <1>2, <2>2, <2>4 DEF IInv, TypeOK, Recorded, Announcing, Sound
<1>14. CASE Break /\ responses' \subseteq responses
  <2>1. Sound(<<>>) /\ <<>> \in Seq(StreamFrame) /\ Len(<<>>) = 0
    BY DEF Sound
  <2>2. /\ conn' = "down" /\ catchUp' = <<>> /\ live' = <<>> /\ binding' = None
        /\ breaks' \in 0..MaxBreaks
        /\ UNCHANGED <<revision, position, own, named, seq, overtaken, selection,
                       selectionSeq, moving,
                       resume, applied, heard>>
    BY <1>1, <1>14 DEF Break, router, store, TypeOK
  <2> QED
    BY <1>1, <1>14, <2>1, <2>2 DEF IInv, TypeOK, Recorded, Announcing, Sound
<1>15. CASE UNCHANGED vars
  BY <1>1, <1>2, <1>15 DEF vars, router, store, wire, client, IInv, TypeOK, Recorded,
                           Announcing, Sound
<1>16. (Disconnect \/ Crash) => Break /\ responses' \subseteq responses
  BY DEF Disconnect, Crash
<1> QED
  BY <1>4, <1>5, <1>6, <1>7, <1>8, <1>9, <1>10, <1>11, <1>12, <1>13, <1>14, <1>15, <1>16
     DEF Next

LEMMA Inductive == Spec => []IInv
BY InitInv, TypeStep, PTL DEF Spec

\* Every variable keeps its type, the queue stays within its capacity, and
\* nothing stored is ahead of agrirouter, whatever breaks or moves (streams.go,
\* receive.go).
THEOREM TypeCorrect == Spec => []TypeOK
BY Inductive, PTL DEF IInv

\* Whichever of a response and a frame comes first, and however often one comes,
\* no older revision is applied over a newer one (the guard of Applier.apply).
THEOREM NothingGoesBack == Spec => RevisionsNeverGoBack
<1>1. IInv /\ [Next]_vars => [\A o \in Object : applied'[o] >= applied[o]]_vars
  <2> SUFFICES ASSUME IInv, Next PROVE \A o \in Object : applied'[o] >= applied[o]
    OBVIOUS
  <2>1. /\ applied \in [Object -> Nat] /\ catchUp \in Seq(StreamFrame) /\ Sound(catchUp)
        /\ live \in Seq(StreamFrame) /\ Sound(live)
    BY DEF IInv, TypeOK, Recorded
  <2>2. CASE applied' = applied
    BY <2>1, <2>2
  <2>3. CASE Receive
    <3>1. PICK f \in StreamFrame : /\ Apply(f) /\ f.id <= seq
                                   /\ f.event = "entity" => f.revision <= revision[f.object]
      BY <2>1, <2>3, TailType DEF Receive
    <3>2. applied' \in [Object -> Nat] /\ \A o \in Object : applied[o] <= applied'[o]
      BY <3>1, ApplyType
    <3> QED
      BY <2>1, <3>2
  <2>4. ASSUME NEW r \in responses, ApplyResponse(r)
        PROVE  \A o \in Object : applied'[o] >= applied[o]
    <3>1. r.object \in Object /\ r.revision \in Nat
      BY DEF IInv, TypeOK
    <3>2. Newest(r.object, r.revision) >= applied[r.object]
      BY <2>1, <3>1 DEF Newest
    <3> QED
      BY <2>1, <2>4, <3>1, <3>2 DEF ApplyResponse
  <2>5. \/ applied' = applied \/ Receive \/ \E r \in responses : ApplyResponse(r)
    BY DEF Next, OtherWrite, OwnWrite, MoveSelection, NumberMove, PublishMove, Subscribe,
           CatchUp, Bind, Disconnect, Crash, Break, client
  <2> QED
    BY <2>2, <2>3, <2>4, <2>5
<1> QED
  BY <1>1, Inductive, PTL DEF Spec, RevisionsNeverGoBack

----------------------------------------------------------------------------
(* Where the stored position is safe to resume from *)

\* A frame that shows o as it stands.
Shows(f, o) == f.event = "entity" /\ f.object = o /\ f.revision = revision[o]

\* The participant needs nothing more of o, or a move came after it.
Settled(o) == own[o] \/ applied[o] = revision[o] \/ position[o] <= selectionSeq

\* The first n frames bring all that an object still needs.
Among(frames, n, o) == \E j \in 1..n : Shows(frames[j], o)

\* Every frame on its way is safe to resume from once it and those before it
\* have been applied: they bring whatever its position has passed.
CatchUpIsSafe ==
  \A k \in DOMAIN catchUp, o \in Object :
    position[o] <= catchUp[k].id => Settled(o) \/ Among(catchUp, k, o)

LiveIsSafe ==
  conn = "up" =>
    \A k \in DOMAIN live, o \in Object :
      position[o] <= live[k].id =>
        Settled(o) \/ Among(catchUp, Len(catchUp), o) \/ Among(live, k, o)

\* All that is still needed is on its way.
AllOnTheWay ==
  conn = "up" =>
    \A o \in Object :
      Settled(o) \/ Among(catchUp, Len(catchUp), o) \/ Among(live, Len(live), o)

NothingBehind == \A o \in Object : position[o] <= resume => Settled(o)

\* A move about to be handed over has been numbered: its frame brings no object,
\* and its position passes none that the latest move does not.
MovesAreNumbered ==
  \A m \in Announcing : moving[m].frame.id <= selectionSeq /\ moving[m].frame.event = "route"

PositionsDiffer ==
  \A o, q \in Object : o # q /\ position[o] = position[q] => position[o] = 0

QueuesOfAConnection == (conn = "down" => live = <<>>) /\ (conn # "up" => catchUp = <<>>)

SafeInv ==
  /\ MovesAreNumbered /\ PositionsDiffer /\ QueuesOfAConnection
  /\ NothingBehind /\ CatchUpIsSafe /\ LiveIsSafe /\ AllOnTheWay

\* Every frame queued, or about to be, took a number of its own.
QueueFits == IsFiniteSet(Announcing) /\ Len(live) + Cardinality(Announcing) <= seq

LEMMA AmongTail ==
  ASSUME NEW s \in Seq(StreamFrame), s # <<>>, NEW n \in 0..Len(Tail(s)), NEW o,
         Among(s, n + 1, o)
  PROVE  Shows(s[1], o) \/ Among(Tail(s), n, o)
<1>1. /\ Len(Tail(s)) = Len(s) - 1 /\ Tail(s) \in Seq(StreamFrame)
      /\ \A i \in DOMAIN Tail(s) : Tail(s)[i] = s[i + 1]
  BY TailOf
<1>2. PICK j \in 1..(n + 1) : Shows(s[j], o)
  BY DEF Among
<1>3. CASE j = 1
  BY <1>2, <1>3
<1>4. CASE j # 1
  <2>1. j - 1 \in 1..n /\ j - 1 \in DOMAIN Tail(s) /\ (j - 1) + 1 = j
    BY <1>1, <1>2, <1>4
  <2>2. Tail(s)[j - 1] = s[j]
    BY <1>1, <2>1
  <2> QED
    BY <1>2, <2>1, <2>2 DEF Among
<1> QED
  BY <1>3, <1>4

\* A change settles nothing of the other objects and shows nothing of them, and
\* its position is above every frame on its way.
LEMMA ChangeIsSafe ==
  ASSUME IInv, SafeInv, NEW o \in Object, NEW byUs \in BOOLEAN, Change(o, byUs),
         UNCHANGED <<selection, selectionSeq, moving, conn, catchUp, resume, applied>>
  PROVE  /\ MovesAreNumbered' /\ PositionsDiffer' /\ NothingBehind' /\ CatchUpIsSafe'
         /\ seq' = seq + 1 /\ position'[o] = seq + 1 /\ own'[o] = byUs
         /\ revision'[o] = revision[o] + 1
         /\ \A q \in Object \ {o} : /\ position'[q] = position[q]
                                    /\ own'[q] = own[q] /\ revision'[q] = revision[q]
<1>1. /\ seq' = seq + 1 /\ position'[o] = seq + 1 /\ own'[o] = byUs
      /\ revision'[o] = revision[o] + 1
      /\ \A q \in Object \ {o} : /\ position'[q] = position[q]
                                 /\ own'[q] = own[q] /\ revision'[q] = revision[q]
  BY ChangeType
<1>2. /\ position \in [Object -> 0..seq] /\ seq \in Nat /\ resume \in 0..seq
      /\ catchUp \in Seq(StreamFrame) /\ Sound(catchUp)
  BY LiveAssumption DEF IInv, TypeOK, Recorded
<1>3. MovesAreNumbered'
  BY DEF SafeInv, MovesAreNumbered, Announcing
<1>4. PositionsDiffer'
  BY <1>1, <1>2 DEF SafeInv, PositionsDiffer
<1>5. NothingBehind'
  BY <1>1, <1>2 DEF SafeInv, NothingBehind, Settled
<1>6. CatchUpIsSafe'
  <2> SUFFICES ASSUME NEW k \in DOMAIN catchUp, NEW q \in Object,
                      position'[q] <= catchUp[k].id
               PROVE  (own'[q] \/ applied[q] = revision'[q] \/ position'[q] <= selectionSeq)
                        \/ \E j \in 1..k : /\ catchUp[j].event = "entity"
                                           /\ catchUp[j].object = q
                                           /\ catchUp[j].revision = revision'[q]
    BY DEF CatchUpIsSafe, Settled, Among, Shows
  <2>1. catchUp[k].id <= seq /\ catchUp[k].id \in Nat
    BY <1>2 DEF Sound, StreamFrame, RouteFrames
  <2>2. q # o
    BY <1>1, <1>2, <2>1
  <2> QED
    BY <1>1, <2>2 DEF SafeInv, CatchUpIsSafe, Settled, Among, Shows
<1> QED
  BY <1>1, <1>3, <1>4, <1>5, <1>6

\* A connection's catch-up brings all that the position it resumes from leaves
\* to be brought, in the order of its positions.
LEMMA CatchUpIsComplete ==
  ASSUME IInv, SafeInv, CatchUp, \A o, q \in Object : TierOf[o] = TierOf[q]
  PROVE  /\ CatchUpIsSafe'
         /\ \A o \in Object : Settled(o)' \/ Among(catchUp, Len(catchUp), o)'
<1> DEFINE objs == ChangedSince(resume)
<1> DEFINE route == IF selectionSeq > resume THEN <<RouteFrame(selection, selectionSeq)>>
                    ELSE <<>>
           r == Len(route)
<1>1. PICK ordered \in InOrder(objs) :
        catchUp' = route \o Frames(ordered) \o <<CaughtUp(seq)>>
  BY DEF CatchUp
<1> HIDE DEF route, r
<1>2. UNCHANGED <<revision, position, own, applied, seq, resume, selectionSeq>>
  BY DEF CatchUp, router, store, client
<1>3. /\ position \in [Object -> 0..seq] /\ seq \in Nat /\ resume \in 0..seq
      /\ TierOf \in [Object -> Nat]
      /\ selection \in 0..MaxMoves /\ selectionSeq \in Nat
  BY LiveAssumption DEF IInv, TypeOK
<1> DEFINE n == Cardinality(objs)
<1>4. /\ n \in Nat /\ objs \in SUBSET Object
      /\ Frames(ordered) \in Seq(StreamFrame) /\ Len(Frames(ordered)) = n
      /\ \A i \in 1..n : /\ ordered[i] \in objs
                         /\ Frames(ordered)[i] = EntityFrame(ordered[i], revision[ordered[i]],
                                                             position[ordered[i]])
  <2>1. objs \in SUBSET Object
    BY DEF ChangedSince
  <2> QED
    BY <2>1, FramesType
<1>5. /\ \A i, j \in 1..n : i < j => position[ordered[i]] <= position[ordered[j]]
      /\ \A i, j \in 1..n : ordered[i] = ordered[j] => i = j
      /\ \A o \in objs : \E j \in 1..n : ordered[j] = o
  <2>1. /\ ordered \in [1..n -> objs]
        /\ \A i, j \in 1..n : i < j => Before(ordered[i], ordered[j])
        /\ IsInjective(ordered) /\ \A o \in objs : \E j \in 1..n : ordered[j] = o
    BY DEF InOrder, Bijection, Injection, Surjection
  <2>2. \A i, j \in 1..n : Before(ordered[i], ordered[j])
                             => position[ordered[i]] <= position[ordered[j]]
    <3>1. \A o, q \in Object : Before(o, q) => position[o] <= position[q]
      BY <1>3 DEF Before
    <3>2. \A i \in 1..n : ordered[i] \in Object
      BY <1>4
    <3> QED
      BY <3>1, <3>2
  <2> QED
    BY <2>1, <2>2 DEF IsInjective
<1> HIDE DEF n
<1>6. /\ catchUp' \in Seq(StreamFrame) /\ Len(catchUp') = r + n + 1 /\ r \in Nat
      /\ \A i \in 1..n : catchUp'[r + i] = EntityFrame(ordered[i], revision[ordered[i]],
                                                       position[ordered[i]])
      /\ \A i \in 1..r : catchUp'[i].id = selectionSeq
  <2>1. catchUp' \in Seq(StreamFrame)
    BY CatchUpType
  <2>2. /\ route \in Seq(StreamFrame) /\ r \in Nat
        /\ \A i \in 1..r : route[i].id = selectionSeq
    <3>1. RouteFrame(selection, selectionSeq) \in StreamFrame
      BY <1>3 DEF RouteFrame, StreamFrame, RouteFrames
    <3>2. RouteFrame(selection, selectionSeq).id = selectionSeq
      BY DEF RouteFrame
    <3>3. CASE selectionSeq > resume
      <4>1. route = <<RouteFrame(selection, selectionSeq)>> /\ r = 1
        BY <3>3 DEF route, r
      <4> QED
        BY <3>1, <3>2, <4>1
    <3>4. CASE ~(selectionSeq > resume)
      <4>1. route = <<>> /\ r = 0
        BY <3>4 DEF route, r
      <4> QED
        BY <4>1
    <3> QED
      BY <3>3, <3>4
  <2> DEFINE s == route \o Frames(ordered)
  <2>3. /\ s \in Seq(StreamFrame) /\ Len(s) = r + n
        /\ \A i \in 1..r : s[i] = route[i]
        /\ \A i \in 1..n : s[r + i] = Frames(ordered)[i]
    <3>1. /\ route \in Seq(StreamFrame) /\ Len(route) = r
          /\ Frames(ordered) \in Seq(StreamFrame) /\ Len(Frames(ordered)) = n
      BY <1>4, <2>2 DEF r
    <3> DEFINE t == Frames(ordered)
    <3> HIDE DEF t
    <3>2. t \in Seq(StreamFrame) /\ Len(t) = n
      BY <3>1 DEF t
    <3>3. ASSUME NEW a \in Seq(StreamFrame), NEW b \in Seq(StreamFrame)
          PROVE  /\ a \o b \in Seq(StreamFrame) /\ Len(a \o b) = Len(a) + Len(b)
                 /\ \A i \in 1..Len(a) : (a \o b)[i] = a[i]
                 /\ \A i \in 1..Len(b) : (a \o b)[Len(a) + i] = b[i]
      BY ConcatOf
    <3>4. /\ route \o t \in Seq(StreamFrame) /\ Len(route \o t) = Len(route) + Len(t)
          /\ \A i \in 1..Len(route) : (route \o t)[i] = route[i]
          /\ \A i \in 1..Len(t) : (route \o t)[Len(route) + i] = t[i]
      BY <3>1, <3>2, <3>3
    <3> QED
      BY <3>1, <3>2, <3>4 DEF t
  <2>4. CaughtUp(seq) \in StreamFrame
    BY <1>3 DEF CaughtUp, StreamFrame, RouteFrames
  <2>5. /\ Len(catchUp') = Len(s) + 1 /\ \A i \in 1..Len(s) : catchUp'[i] = s[i]
    <3> HIDE DEF s
    <3>1. <<CaughtUp(seq)>> \in Seq(StreamFrame) /\ Len(<<CaughtUp(seq)>>) = 1
      BY <2>4
    <3>2. catchUp' = s \o <<CaughtUp(seq)>>
      BY <1>1 DEF s
    <3> QED
      BY <2>3, <3>1, <3>2, ConcatOf
  <2> HIDE DEF s
  <2>6. \A i \in 1..n : r + i \in 1..Len(s)
    BY <1>4, <2>2, <2>3
  <2>7. \A i \in 1..r : i \in 1..Len(s)
    BY <1>4, <2>2, <2>3
  <2> QED
    BY <1>4, <2>1, <2>2, <2>3, <2>5, <2>6, <2>7
<1>7. ASSUME NEW o \in Object
      PROVE  Settled(o) \/ \E j \in 1..n : ordered[j] = o /\ Shows(catchUp'[r + j], o)
  <2>1. CASE position[o] <= resume
    BY <2>1 DEF SafeInv, NothingBehind, Settled
  <2>2. CASE own[o]
    BY <2>2 DEF Settled
  <2>3. CASE position[o] > resume /\ ~own[o]
    <3>1. o \in objs
      BY <2>3 DEF ChangedSince
    <3>2. PICK j \in 1..n : ordered[j] = o
      BY <1>5, <3>1
    <3>3. catchUp'[r + j] = EntityFrame(o, revision[o], position[o])
      BY <1>6, <3>2
    <3>4. Shows(catchUp'[r + j], o)
      BY <3>3 DEF EntityFrame, Shows
    <3> QED
      BY <3>2, <3>4
  <2> QED
    BY <1>3, <2>1, <2>2, <2>3
<1>8. CatchUpIsSafe'
  <2> SUFFICES ASSUME NEW k \in DOMAIN catchUp', NEW o \in Object,
                      position[o] <= catchUp'[k].id
               PROVE  Settled(o) \/ \E j \in 1..k : Shows(catchUp'[j], o)
    BY <1>2 DEF CatchUpIsSafe, Settled, Among, Shows
  <2>1. k \in 1..(r + n + 1)
    BY <1>4, <1>6
  <2>2. CASE Settled(o)
    BY <2>2
  <2>3. CASE ~Settled(o)
    <3>1. PICK j \in 1..n : ordered[j] = o /\ Shows(catchUp'[r + j], o)
      BY <1>7, <2>3
    <3>2. CASE r + j <= k
      <4>1. r + j \in 1..k
        BY <1>4, <1>6, <2>1, <3>1, <3>2
      <4> QED
        BY <3>1, <4>1
    <3>3. CASE k <= r
      <4>1. catchUp'[k].id = selectionSeq
        BY <1>6, <2>1, <3>3
      <4> QED
        BY <2>3, <4>1 DEF Settled
    <3>4. CASE r < k /\ k < r + j
      <4>1. k - r \in 1..n /\ k - r < j /\ r + (k - r) = k
        BY <1>4, <1>6, <2>1, <3>1, <3>4
      <4> DEFINE i == k - r
      <4> HIDE DEF i
      <4>2. i \in 1..n /\ i < j /\ r + i = k
        BY <4>1 DEF i
      <4>3. /\ ordered[i] \in objs /\ ordered[i] \in Object /\ ordered[i] # o
            /\ catchUp'[k].id = position[ordered[i]]
        BY <1>4, <1>5, <1>6, <3>1, <4>2 DEF EntityFrame
      <4>4. position[ordered[i]] <= position[o]
        BY <1>5, <3>1, <4>2
      <4>5. position[ordered[i]] = position[o] /\ position[ordered[i]] > resume
        BY <1>3, <4>3, <4>4 DEF ChangedSince
      <4>6. position[ordered[i]] = 0
        BY <4>3, <4>5 DEF SafeInv, PositionsDiffer
      <4> QED
        BY <1>3, <4>5, <4>6
    <3>5. r + j \in Nat /\ k \in Nat /\ r \in Nat
      BY <1>4, <1>6, <2>1, <3>1
    <3> QED
      BY <3>2, <3>3, <3>4, <3>5
  <2> QED
    BY <2>2, <2>3
<1>9. \A o \in Object : Settled(o)' \/ Among(catchUp, Len(catchUp), o)'
  <2>1. \A j \in 1..n : r + j \in 1..Len(catchUp')
    BY <1>4, <1>6
  <2> QED
    BY <1>2, <1>7, <2>1 DEF Settled, Among, Shows
<1> QED
  BY <1>8, <1>9

\* Another endpoint's change is on its way as soon as it is made.
LEMMA OtherWriteIsSafe ==
  ASSUME MaxSeq <= Capacity, IInv, SafeInv, QueueFits, NEW o \in Object, OtherWrite(o)
  PROVE  SafeInv'
<1> DEFINE f == EntityFrame(o, revision[o] + 1, seq + 1)
<1>1. /\ Change(o, FALSE) /\ Deliver(f)
      /\ UNCHANGED <<selection, selectionSeq, moving, conn, catchUp, resume, applied>>
  BY DEF OtherWrite, client
<1>2. /\ MovesAreNumbered' /\ PositionsDiffer' /\ NothingBehind' /\ CatchUpIsSafe'
      /\ seq' = seq + 1 /\ position'[o] = seq + 1 /\ revision'[o] = revision[o] + 1
      /\ \A q \in Object \ {o} : /\ position'[q] = position[q]
                                 /\ own'[q] = own[q] /\ revision'[q] = revision[q]
  BY <1>1, ChangeIsSafe
<1>3. /\ seq \in Nat /\ Len(live) \in Nat /\ Len(live) <= seq /\ seq < MaxSeq
      /\ MaxSeq \in Nat /\ Capacity \in Nat /\ live \in Seq(StreamFrame) /\ Sound(live)
      /\ f \in StreamFrame
  <2>1. /\ seq \in Nat /\ MaxSeq \in Nat /\ Capacity \in Nat /\ seq' \in Nat
        /\ live \in Seq(StreamFrame) /\ Len(live) <= seq /\ Sound(live)
    <3>1. seq' \in Nat
      BY <1>1, ChangeType
    <3>2. /\ seq \in Nat /\ MaxSeq \in Nat /\ Capacity \in Nat
          /\ live \in Seq(StreamFrame) /\ Sound(live)
      BY LiveAssumption DEF IInv, TypeOK, Recorded
    <3>3. Cardinality(Announcing) \in Nat
      BY FS_CardinalityType DEF QueueFits
    <3>4. Len(live) <= seq
      BY <3>2, <3>3 DEF QueueFits
    <3> QED
      BY <3>1, <3>2, <3>4
  <2>2. seq < MaxSeq
    BY <1>1 DEF Change 
  <2>3. /\ revision' \in [Object -> Nat] /\ named \in [Object -> BOOLEAN]
    BY <1>1, ChangeType DEF IInv, TypeOK
  <2>4. revision[o] + 1 \in Nat /\ seq + 1 \in Nat
    BY <1>2, <2>1, <2>3
  <2>5. f \in StreamFrame
    BY <2>3, <2>4 DEF EntityFrame, StreamFrame, RouteFrames
  <2> QED
    BY <2>1, <2>2, <2>5
<1>4. f.id = seq + 1 /\ f.event = "entity" /\ f.object = o /\ f.revision = revision'[o]
  BY <1>2 DEF EntityFrame
<1> HIDE DEF f
<1>5. CASE conn = "down"
  <2>1. live' = live /\ live = <<>> /\ catchUp = <<>> /\ conn' = "down"
    BY <1>1, <1>5 DEF Deliver, Listening, SafeInv, QueuesOfAConnection
  <2> QED
    BY <1>1, <1>2, <1>3, <2>1
       DEF SafeInv, QueuesOfAConnection, LiveIsSafe, AllOnTheWay
<1>6. CASE conn # "down"
  <2>1. live' = Append(live, f)
    BY <1>1, <1>3, <1>6 DEF Deliver, Listening
  <2>2. /\ live' \in Seq(StreamFrame) /\ Len(live') = Len(live) + 1
        /\ DOMAIN live' = 1..(Len(live) + 1)
        /\ \A i \in 1..Len(live) : live'[i] = live[i]
        /\ live'[Len(live) + 1] = f
    BY <1>3, <2>1, AppendOf
  <2>3. QueuesOfAConnection'
    BY <1>1, <1>6 DEF SafeInv, QueuesOfAConnection
  <2>4. ASSUME NEW q \in Object, q # o
        PROVE  /\ Settled(q) => Settled(q)'
               /\ Among(catchUp, Len(catchUp), q) => Among(catchUp, Len(catchUp), q)'
               /\ \A n \in 0..Len(live) : Among(live, n, q) => Among(live, n, q)'
    BY <1>1, <1>2, <1>3, <2>2, <2>4 DEF Settled, Among, Shows
  <2>5. Among(live, Len(live), o)'
    <3>1. Shows(live[Len(live)], o)'
      BY <1>4, <2>2 DEF Shows
    <3> QED
      BY <1>3, <2>2, <3>1 DEF Among
  <2>6. \A q \in Object, n \in 0..Len(live) : Among(live, n, q)' => Among(live, Len(live), q)'
    BY <1>3, <2>2 DEF Among
  <2>7. AllOnTheWay'
    <3> SUFFICES ASSUME conn' = "up", NEW q \in Object
                 PROVE  \/ Settled(q)' \/ Among(catchUp, Len(catchUp), q)'
                        \/ Among(live, Len(live), q)'
      BY DEF AllOnTheWay
    <3>1. CASE q = o
      BY <2>5, <3>1
    <3>2. CASE q # o
      <4>1. Settled(q) \/ Among(catchUp, Len(catchUp), q) \/ Among(live, Len(live), q)
        BY <1>1 DEF SafeInv, AllOnTheWay
      <4>2. Len(live) \in 0..Len(live)
        BY <1>3
      <4> QED
        BY <2>4, <2>6, <3>2, <4>1, <4>2
    <3> QED
      BY <3>1, <3>2
  <2>8. LiveIsSafe'
    <3> SUFFICES ASSUME conn' = "up", NEW k \in DOMAIN live', NEW q \in Object,
                        position'[q] <= live'[k].id
                 PROVE  \/ Settled(q)' \/ Among(catchUp, Len(catchUp), q)'
                        \/ Among(live, k, q)'
      BY DEF LiveIsSafe
    <3>1. CASE k = Len(live) + 1
      BY <2>2, <2>7, <3>1 DEF AllOnTheWay
    <3>2. CASE k # Len(live) + 1
      <4>1. k \in DOMAIN live /\ k \in 0..Len(live) /\ live'[k] = live[k]
        BY <1>3, <2>2, <3>2
      <4>2. live[k].id <= seq /\ live[k].id \in Nat
        BY <1>3, <4>1, LiveAssumption DEF Sound, StreamFrame, RouteFrames
      <4>3. q # o
        BY <1>2, <1>3, <4>1, <4>2
      <4>4. position[q] <= live[k].id
        BY <1>2, <4>1, <4>3
      <4>5. Settled(q) \/ Among(catchUp, Len(catchUp), q) \/ Among(live, k, q)
        BY <1>1, <4>1, <4>4 DEF SafeInv, LiveIsSafe
      <4> QED
        BY <2>4, <4>1, <4>3, <4>5
    <3> QED
      BY <3>1, <3>2
  <2> QED
    BY <1>2, <2>3, <2>7, <2>8 DEF SafeInv
<1> QED
  BY <1>5, <1>6

\* Applying a frame settles the object it shows, and unsettles none.
LEMMA ApplySettles ==
  ASSUME IInv, NEW f \in StreamFrame, Apply(f), f.id <= seq,
         f.event = "entity" => f.revision <= revision[f.object],
         UNCHANGED <<revision, own, position, selectionSeq>>
  PROVE  \A o \in Object : Settled(o) \/ Shows(f, o) => Settled(o)'
<1>1. applied \in [Object -> Nat] /\ revision \in [Object -> Nat]
  BY LiveAssumption DEF IInv, TypeOK, Recorded
<1>2. /\ applied' \in [Object -> Nat]
      /\ \A o \in Object : applied[o] <= applied'[o] /\ applied'[o] <= revision[o]
      /\ \A o \in Object : f.event = "entity" /\ f.object = o => f.revision <= applied'[o]
  BY ApplyType
<1> QED
  BY <1>1, <1>2 DEF Settled, Shows

\* A frame's position passes nothing that it and those before it did not bring.
LEMMA ReceiveIsSafe ==
  ASSUME IInv, SafeInv, Receive
  PROVE  SafeInv'
<1>1. /\ conn = "up" /\ conn' = "up"
      /\ UNCHANGED <<revision, position, own, seq, selection, selectionSeq, moving>>
      /\ \/ catchUp # <<>> /\ Apply(Head(catchUp)) /\ catchUp' = Tail(catchUp) /\ live' = live
         \/ /\ catchUp = <<>> /\ catchUp' = <<>>
            /\ live # <<>> /\ Apply(Head(live)) /\ live' = Tail(live)
  BY DEF Receive, router, store
<1>2. /\ catchUp \in Seq(StreamFrame) /\ Sound(catchUp)
      /\ live \in Seq(StreamFrame) /\ Sound(live)
  BY LiveAssumption DEF IInv, TypeOK, Recorded
<1>3. MovesAreNumbered' /\ PositionsDiffer'
  BY <1>1 DEF SafeInv, MovesAreNumbered, Announcing, PositionsDiffer
<1>4. CASE catchUp # <<>> /\ Apply(Head(catchUp)) /\ catchUp' = Tail(catchUp) /\ live' = live
  <2>1. /\ Head(catchUp) = catchUp[1] /\ 1 \in DOMAIN catchUp
        /\ catchUp' \in Seq(StreamFrame) /\ Len(catchUp') = Len(catchUp) - 1
        /\ \A i \in DOMAIN catchUp' : i + 1 \in DOMAIN catchUp /\ catchUp'[i] = catchUp[i + 1]
    BY <1>2, <1>4, TailOf
  <2>2. \A o \in Object : Settled(o) \/ Shows(catchUp[1], o) => Settled(o)'
    BY <1>1, <1>2, <1>4, <2>1, TailType, ApplySettles
  <2>3. resume' = catchUp[1].id
    BY <1>4, <2>1 DEF Apply
  <2>4. ASSUME NEW o \in Object, NEW n \in 0..Len(catchUp'), Among(catchUp, n + 1, o)
        PROVE  Settled(o)' \/ Among(catchUp, n, o)'
    <3>1. Shows(catchUp[1], o) \/ Among(Tail(catchUp), n, o)
      BY <1>2, <1>4, <2>4, AmongTail
    <3> QED
      BY <1>1, <1>4, <2>2, <3>1 DEF Among, Shows
  <2>5. \A o \in Object : Among(catchUp, Len(catchUp), o)
                            => Settled(o)' \/ Among(catchUp, Len(catchUp), o)'
    <3>1. Len(catchUp') \in 0..Len(catchUp') /\ Len(catchUp') + 1 = Len(catchUp)
      BY <1>2, <2>1
    <3> QED
      BY <2>4, <3>1
  <2>6. \A o \in Object, n \in Nat : Among(live, n, o) => Among(live, n, o)'
    BY <1>1, <1>4 DEF Among, Shows
  <2>7. NothingBehind'
    <3> SUFFICES ASSUME NEW o \in Object, position[o] <= catchUp[1].id
                 PROVE  Settled(o)'
      BY <1>1, <2>3 DEF NothingBehind
    <3>1. Settled(o) \/ Among(catchUp, 1, o)
      BY <2>1 DEF SafeInv, CatchUpIsSafe
    <3>2. Settled(o) \/ Shows(catchUp[1], o)
      BY <3>1 DEF Among
    <3> QED
      BY <2>2, <3>2
  <2>8. CatchUpIsSafe'
    <3> SUFFICES ASSUME NEW k \in DOMAIN catchUp', NEW o \in Object,
                        position[o] <= catchUp'[k].id
                 PROVE  Settled(o)' \/ Among(catchUp, k, o)'
      BY <1>1 DEF CatchUpIsSafe
    <3>1. k + 1 \in DOMAIN catchUp /\ catchUp'[k] = catchUp[k + 1] /\ k \in 0..Len(catchUp')
      BY <2>1
    <3>2. Settled(o) \/ Among(catchUp, k + 1, o)
      BY <3>1 DEF SafeInv, CatchUpIsSafe
    <3> QED
      BY <2>2, <2>4, <3>1, <3>2
  <2>9. LiveIsSafe'
    <3> SUFFICES ASSUME NEW k \in DOMAIN live, NEW o \in Object,
                        position[o] <= live[k].id
                 PROVE  \/ Settled(o)' \/ Among(catchUp, Len(catchUp), o)'
                        \/ Among(live, k, o)'
      BY <1>1, <1>4 DEF LiveIsSafe
    <3>1. Settled(o) \/ Among(catchUp, Len(catchUp), o) \/ Among(live, k, o)
      BY <1>1 DEF SafeInv, LiveIsSafe
    <3>2. k \in Nat
      BY <1>2
    <3> QED
      BY <2>2, <2>5, <2>6, <3>1, <3>2
  <2>10. AllOnTheWay'
    <3> SUFFICES ASSUME NEW o \in Object
                 PROVE  \/ Settled(o)' \/ Among(catchUp, Len(catchUp), o)'
                        \/ Among(live, Len(live), o)'
      BY DEF AllOnTheWay
    <3>1. Settled(o) \/ Among(catchUp, Len(catchUp), o) \/ Among(live, Len(live), o)
      BY <1>1 DEF SafeInv, AllOnTheWay
    <3>2. Len(live) \in Nat /\ Len(live)' = Len(live)
      BY <1>2, <1>4
    <3>3. Among(live, Len(live), o) => Among(live, Len(live), o)'
      BY <1>1, <1>4 DEF Among, Shows
    <3> QED
      BY <2>2, <2>5, <3>1, <3>3
  <2> QED
    BY <1>1, <1>2, <1>3, <1>4, <2>7, <2>8, <2>9, <2>10
       DEF SafeInv, QueuesOfAConnection
<1>5. CASE /\ catchUp = <<>> /\ catchUp' = <<>>
           /\ live # <<>> /\ Apply(Head(live)) /\ live' = Tail(live)
  <2>1. /\ Head(live) = live[1] /\ 1 \in DOMAIN live
        /\ live' \in Seq(StreamFrame) /\ Len(live') = Len(live) - 1
        /\ \A i \in DOMAIN live' : i + 1 \in DOMAIN live /\ live'[i] = live[i + 1]
    BY <1>2, <1>5, TailOf
  <2>2. \A o \in Object : Settled(o) \/ Shows(live[1], o) => Settled(o)'
    BY <1>1, <1>2, <1>5, <2>1, TailType, ApplySettles
  <2>3. resume' = live[1].id
    BY <1>5, <2>1 DEF Apply
  <2>4. ASSUME NEW o \in Object, NEW n \in 0..Len(live'), Among(live, n + 1, o)
        PROVE  Settled(o)' \/ Among(live, n, o)'
    <3>1. Shows(live[1], o) \/ Among(Tail(live), n, o)
      BY <1>2, <1>5, <2>4, AmongTail
    <3> QED
      BY <1>1, <1>5, <2>2, <3>1 DEF Among, Shows
  <2>5. \A o \in Object : ~Among(catchUp, Len(catchUp), o)
    BY <1>5 DEF Among
  <2>6. NothingBehind'
    <3> SUFFICES ASSUME NEW o \in Object, position[o] <= live[1].id
                 PROVE  Settled(o)'
      BY <1>1, <2>3 DEF NothingBehind
    <3>1. Settled(o) \/ Among(live, 1, o)
      BY <1>1, <2>1, <2>5 DEF SafeInv, LiveIsSafe
    <3>2. Settled(o) \/ Shows(live[1], o)
      BY <3>1 DEF Among
    <3> QED
      BY <2>2, <3>2
  <2>7. LiveIsSafe'
    <3> SUFFICES ASSUME NEW k \in DOMAIN live', NEW o \in Object,
                        position[o] <= live'[k].id
                 PROVE  Settled(o)' \/ Among(live, k, o)'
      BY <1>1 DEF LiveIsSafe
    <3>1. k + 1 \in DOMAIN live /\ live'[k] = live[k + 1] /\ k \in 0..Len(live')
      BY <2>1
    <3>2. Settled(o) \/ Among(live, k + 1, o)
      BY <1>1, <2>5, <3>1 DEF SafeInv, LiveIsSafe
    <3> QED
      BY <2>2, <2>4, <3>1, <3>2
  <2>8. AllOnTheWay'
    <3> SUFFICES ASSUME NEW o \in Object
                 PROVE  Settled(o)' \/ Among(live, Len(live), o)'
      BY DEF AllOnTheWay
    <3>1. Settled(o) \/ Among(live, Len(live), o)
      BY <1>1, <2>5 DEF SafeInv, AllOnTheWay
    <3>2. Len(live') \in 0..Len(live') /\ Len(live') + 1 = Len(live)
      BY <1>2, <2>1
    <3> QED
      BY <2>2, <2>4, <3>1, <3>2
  <2> QED
    BY <1>1, <1>2, <1>3, <1>5, <2>1, <2>6, <2>7, <2>8
       DEF SafeInv, QueuesOfAConnection, CatchUpIsSafe
<1> QED
  BY <1>1, <1>4, <1>5

LEMMA SafeInit == Init => SafeInv
<1> SUFFICES ASSUME Init PROVE SafeInv
  OBVIOUS
<1>1. conn = "down" /\ catchUp = <<>> /\ live = <<>>
  BY DEF Init
<1>2. CatchUpIsSafe /\ LiveIsSafe /\ AllOnTheWay /\ QueuesOfAConnection
  BY <1>1 DEF CatchUpIsSafe, LiveIsSafe, AllOnTheWay, QueuesOfAConnection
<1>3. MovesAreNumbered /\ PositionsDiffer /\ NothingBehind
  BY DEF Init, MovesAreNumbered, Announcing, Idle, PositionsDiffer, NothingBehind, Settled
<1> QED
  BY <1>2, <1>3 DEF SafeInv

\* A move brings no object, and excepts every object that changed before it.
LEMMA MoveIsSafe ==
  ASSUME IInv, SafeInv, NEW m \in Mover,
         MoveSelection(m) \/ NumberMove(m) \/ PublishMove(m)
  PROVE  SafeInv'
<1>1. /\ seq \in Nat /\ selectionSeq \in 0..seq /\ position \in [Object -> 0..seq]
      /\ moving \in [Mover -> Call] /\ live \in Seq(StreamFrame)
  BY DEF IInv, TypeOK
<1>2. CASE MoveSelection(m)
  <2>1. /\ UNCHANGED <<revision, position, own, seq, selectionSeq, conn, catchUp, live, resume,
                       applied>>
        /\ moving' = [moving EXCEPT ![m] = [at |-> "number", frame |-> None]]
    BY <1>2 DEF MoveSelection, store, wire, client
  <2>2. MovesAreNumbered'
    BY <1>1, <2>1 DEF SafeInv, MovesAreNumbered, Announcing
  <2> QED
    BY <2>1, <2>2 DEF SafeInv, PositionsDiffer, QueuesOfAConnection, NothingBehind,
                      CatchUpIsSafe, LiveIsSafe, AllOnTheWay, Settled, Among, Shows
<1>3. CASE NumberMove(m)
  <2>1. /\ UNCHANGED <<revision, position, own, conn, catchUp, live, resume, applied>>
        /\ seq' = seq + 1 /\ selectionSeq' = seq + 1
        /\ moving' = [moving EXCEPT ![m] = [at |-> "publish",
                                           frame |-> RouteFrame(selection, seq + 1)]]
    BY <1>3 DEF NumberMove, wire, client
  <2>2. \A o \in Object : Settled(o)'
    BY <1>1, <2>1 DEF Settled
  <2>3. MovesAreNumbered'
    <3> SUFFICES ASSUME NEW c \in Mover, moving'[c].at = "publish"
                 PROVE  moving'[c].frame.id <= seq + 1 /\ moving'[c].frame.event = "route"
      BY <2>1 DEF MovesAreNumbered, Announcing
    <3>1. CASE c = m
      BY <1>1, <2>1, <3>1 DEF RouteFrame
    <3>2. CASE c # m
      <4>1. moving'[c] = moving[c] /\ c \in Announcing
        BY <1>1, <2>1, <3>2 DEF Announcing
      <4>2. moving[c].frame.id <= selectionSeq /\ moving[c].frame.event = "route"
        BY <4>1 DEF SafeInv, MovesAreNumbered
      <4>3. moving[c].frame.id \in Nat
        BY <1>1, <4>1 DEF Announcing, Call, RouteFrames
      <4> QED
        BY <1>1, <4>1, <4>2, <4>3
    <3> QED
      BY <3>1, <3>2
  <2> QED
    BY <2>1, <2>2, <2>3 DEF SafeInv, PositionsDiffer, QueuesOfAConnection, NothingBehind,
                            CatchUpIsSafe, LiveIsSafe, AllOnTheWay
<1>4. CASE PublishMove(m)
  <2> DEFINE f == moving[m].frame
  <2>1. /\ UNCHANGED <<revision, position, own, seq, selectionSeq, conn, catchUp, resume,
                       applied>>
        /\ moving' = [moving EXCEPT ![m] = Idle]
        /\ Deliver(f) /\ m \in Announcing
    BY <1>4 DEF PublishMove, store, client, Announcing
  <2>2. f \in StreamFrame /\ f.id <= selectionSeq /\ f.id \in Nat
    BY <1>1, <2>1 DEF SafeInv, MovesAreNumbered, Announcing, Call, StreamFrame, RouteFrames
  <2>3. MovesAreNumbered'
    BY <1>1, <2>1 DEF SafeInv, MovesAreNumbered, Announcing, Idle
  <2>4. CASE live' = live
    BY <2>1, <2>3, <2>4 DEF SafeInv, PositionsDiffer, QueuesOfAConnection, NothingBehind,
                            CatchUpIsSafe, LiveIsSafe, AllOnTheWay, Settled, Among, Shows
  <2>5. CASE live' = Append(live, f) /\ conn # "down"
    <3> HIDE DEF f
    <3>1. /\ live' \in Seq(StreamFrame) /\ Len(live') = Len(live) + 1
          /\ DOMAIN live' = 1..(Len(live) + 1)
          /\ \A i \in 1..Len(live) : live'[i] = live[i]
          /\ live'[Len(live) + 1] = f
      BY <1>1, <2>2, <2>5, AppendOf
    <3>2. /\ \A o \in Object : Settled(o)' <=> Settled(o)
          /\ \A o \in Object : Among(catchUp, Len(catchUp), o)'
                                  <=> Among(catchUp, Len(catchUp), o)
          /\ \A o \in Object, n \in 0..Len(live) : Among(live, n, o) => Among(live, n, o)'
      BY <1>1, <2>1, <3>1 DEF Settled, Among, Shows
    <3>3. \A o \in Object : Among(live, Len(live), o) => Among(live, Len(live), o)'
      BY <1>1, <2>1, <3>1 DEF Among, Shows
    <3>4. AllOnTheWay'
      BY <2>1, <3>2, <3>3 DEF SafeInv, AllOnTheWay
    <3>5. LiveIsSafe'
      <4> SUFFICES ASSUME conn = "up", NEW k \in DOMAIN live', NEW o \in Object,
                          position[o] <= live'[k].id
                   PROVE  \/ Settled(o) \/ Among(catchUp, Len(catchUp), o)
                          \/ Among(live, k, o)'
        BY <2>1, <3>2 DEF LiveIsSafe
      <4>1. CASE k = Len(live) + 1
        BY <1>1, <2>2, <3>1, <4>1 DEF Settled
      <4>2. CASE k # Len(live) + 1
        <5>1. k \in DOMAIN live /\ k \in 0..Len(live) /\ live'[k] = live[k]
          BY <1>1, <3>1, <4>2
        <5> QED
          BY <3>2, <5>1 DEF SafeInv, LiveIsSafe
      <4> QED
        BY <4>1, <4>2
    <3>6. QueuesOfAConnection' /\ PositionsDiffer' /\ NothingBehind' /\ CatchUpIsSafe'
      BY <2>1, <2>5 DEF SafeInv, QueuesOfAConnection, PositionsDiffer, NothingBehind,
                        CatchUpIsSafe, Settled, Among, Shows
    <3> QED
      BY <2>3, <3>4, <3>5, <3>6 DEF SafeInv
  <2> QED
    BY <2>1, <2>4, <2>5 DEF Deliver, Listening
<1> QED
  BY <1>2, <1>3, <1>4

LEMMA QueueInit == Init => QueueFits
<1> SUFFICES ASSUME Init PROVE QueueFits
  OBVIOUS
<1>1. Announcing = {} /\ Len(live) = 0 /\ seq = 0
  BY DEF Init, Announcing, Idle
<1> QED
  BY <1>1, FS_EmptySet DEF QueueFits

\* A number is taken for each frame before it is queued.
LEMMA QueueStep == IInv /\ QueueFits /\ [Next]_vars => QueueFits'
<1> SUFFICES ASSUME IInv, QueueFits, [Next]_vars PROVE QueueFits'
  OBVIOUS
<1>1. /\ seq \in Nat /\ live \in Seq(StreamFrame) /\ moving \in [Mover -> Call]
      /\ Len(live) \in Nat
  BY DEF IInv, TypeOK
<1>2. /\ IsFiniteSet(Announcing) /\ Cardinality(Announcing) \in Nat
      /\ Len(live) + Cardinality(Announcing) <= seq
  BY FS_CardinalityType DEF QueueFits
<1>3. \A f : Deliver(f) => Len(live') \in 0..(Len(live) + 1)
  BY <1>1 DEF Deliver
<1>4. ASSUME NEW o \in Object, OtherWrite(o) \/ OwnWrite(o)
      PROVE  QueueFits'
  <2>1. seq' = seq + 1 /\ moving' = moving /\ Len(live') \in 0..(Len(live) + 1)
    BY <1>1, <1>3, <1>4 DEF OtherWrite, OwnWrite, Change, wire
  <2>2. Announcing' = Announcing
    BY <2>1 DEF Announcing
  <2> QED
    BY <1>1, <1>2, <2>1, <2>2 DEF QueueFits
<1>5. ASSUME NEW m \in Mover, MoveSelection(m)
      PROVE  QueueFits'
  <2>1. seq' = seq /\ live' = live
    BY <1>5 DEF MoveSelection, store, wire
  <2>2. Announcing' = Announcing
    BY <1>1, <1>5 DEF MoveSelection, Announcing, Idle
  <2> QED
    BY <1>2, <2>1, <2>2 DEF QueueFits
<1>6. ASSUME NEW m \in Mover, NumberMove(m)
      PROVE  QueueFits'
  <2>1. seq' = seq + 1 /\ live' = live
    BY <1>6 DEF NumberMove, wire
  <2>2. Announcing' = Announcing \cup {m} /\ m \notin Announcing
    BY <1>1, <1>6 DEF NumberMove, Announcing
  <2>3. IsFiniteSet(Announcing') /\ Cardinality(Announcing') = Cardinality(Announcing) + 1
    BY <1>2, <2>2, FS_AddElement
  <2> QED
    BY <1>1, <1>2, <2>1, <2>3 DEF QueueFits
<1>7. ASSUME NEW m \in Mover, PublishMove(m)
      PROVE  QueueFits'
  <2>1. seq' = seq /\ Len(live') \in 0..(Len(live) + 1)
    BY <1>1, <1>3, <1>7 DEF PublishMove, store
  <2>2. Announcing' = Announcing \ {m} /\ m \in Announcing
    BY <1>1, <1>7 DEF PublishMove, Announcing, Idle
  <2>3. IsFiniteSet(Announcing') /\ Cardinality(Announcing') = Cardinality(Announcing) - 1
    BY <1>2, <2>2, FS_RemoveElement
  <2> QED
    BY <1>1, <1>2, <2>1, <2>3 DEF QueueFits
<1>8. CASE Receive
  <2>1. seq' = seq /\ moving' = moving /\ Len(live') \in 0..Len(live)
    <3>1. live' = live \/ (live # <<>> /\ live' = Tail(live))
      BY <1>8 DEF Receive
    <3>2. live # <<>> => Len(Tail(live)) = Len(live) - 1 /\ Len(Tail(live)) \in Nat
      BY <1>1, TailOf
    <3> QED
      BY <1>1, <1>8, <3>1, <3>2 DEF Receive, router, store
  <2>2. Announcing' = Announcing
    BY <2>1 DEF Announcing
  <2> QED
    BY <1>1, <1>2, <2>1, <2>2 DEF QueueFits
<1>9. CASE \/ Subscribe \/ CatchUp \/ Bind \/ \E r \in responses : ApplyResponse(r)
           \/ Disconnect \/ Crash \/ UNCHANGED vars
  <2>1. seq' = seq /\ moving' = moving /\ (live' = live \/ live' = <<>>)
    BY <1>9 DEF Subscribe, CatchUp, Bind, ApplyResponse, Disconnect, Crash, Break, vars, router,
                store, wire
  <2>2. Announcing' = Announcing /\ Len(live') \in 0..Len(live)
    BY <1>1, <2>1 DEF Announcing
  <2> QED
    BY <1>1, <1>2, <2>1, <2>2 DEF QueueFits
<1> QED
  BY <1>4, <1>5, <1>6, <1>7, <1>8, <1>9 DEF Next

LEMMA SafeStep ==
  ASSUME MaxSeq <= Capacity, \A o, q \in Object : TierOf[o] = TierOf[q],
         IInv, SafeInv, QueueFits, [Next]_vars
  PROVE  SafeInv'
<1>1. /\ seq \in Nat /\ resume \in 0..seq
      /\ applied \in [Object -> Nat] /\ revision \in [Object -> Nat]
      /\ \A o \in Object : applied[o] <= revision[o]
      /\ catchUp \in Seq(StreamFrame) /\ live \in Seq(StreamFrame)
  BY LiveAssumption DEF IInv, TypeOK, Recorded
<1>2. ASSUME NEW o \in Object, OtherWrite(o) PROVE SafeInv'
  BY <1>2, OtherWriteIsSafe
<1>3. ASSUME NEW o \in Object, OwnWrite(o) PROVE SafeInv'
  <2>1. /\ Change(o, TRUE)
        /\ UNCHANGED <<selection, selectionSeq, moving, conn, catchUp, live, resume, applied>>
    BY <1>3 DEF OwnWrite, wire
  <2>2. /\ MovesAreNumbered' /\ PositionsDiffer' /\ NothingBehind' /\ CatchUpIsSafe'
        /\ seq' = seq + 1 /\ position'[o] = seq + 1 /\ own'[o]
        /\ \A q \in Object \ {o} : /\ position'[q] = position[q]
                                   /\ own'[q] = own[q] /\ revision'[q] = revision[q]
    BY <2>1, ChangeIsSafe
  <2>3. Settled(o)'
    BY <2>2 DEF Settled
  <2>4. ASSUME NEW q \in Object, q # o
        PROVE  /\ Settled(q) => Settled(q)'
               /\ Among(catchUp, Len(catchUp), q) => Among(catchUp, Len(catchUp), q)'
               /\ \A n \in Nat : Among(live, n, q) => Among(live, n, q)'
               /\ Among(live, Len(live), q) => Among(live, Len(live), q)'
    BY <2>1, <2>2, <2>4 DEF Settled, Among, Shows
  <2>5. AllOnTheWay'
    BY <2>1, <2>3, <2>4 DEF SafeInv, AllOnTheWay
  <2>6. LiveIsSafe'
    <3> SUFFICES ASSUME conn = "up", NEW k \in DOMAIN live, NEW q \in Object,
                        position'[q] <= live[k].id
                 PROVE  \/ Settled(q)' \/ Among(catchUp, Len(catchUp), q)'
                        \/ Among(live, k, q)'
      BY <2>1 DEF LiveIsSafe
    <3>1. CASE q # o
      <4>1. k \in Nat
        BY <1>1
      <4>2. position[q] <= live[k].id
        BY <2>2, <3>1
      <4>3. Settled(q) \/ Among(catchUp, Len(catchUp), q) \/ Among(live, k, q)
        BY <4>2 DEF SafeInv, LiveIsSafe
      <4> QED
        BY <2>4, <3>1, <4>1, <4>3
    <3> QED
      BY <2>3, <3>1
  <2> QED
    BY <1>1, <2>1, <2>2, <2>5, <2>6 DEF SafeInv, QueuesOfAConnection
<1>4. ASSUME NEW m \in Mover, MoveSelection(m) \/ NumberMove(m) \/ PublishMove(m)
      PROVE  SafeInv'
  BY <1>4, MoveIsSafe
<1>5. CASE Subscribe
  BY <1>5 DEF Subscribe, router, store, client, SafeInv, MovesAreNumbered, Announcing,
              PositionsDiffer, QueuesOfAConnection, NothingBehind, CatchUpIsSafe, LiveIsSafe,
              AllOnTheWay, Settled, Among, Shows
<1>6. CASE CatchUp
  <2>1. /\ conn' = "up"
        /\ UNCHANGED <<revision, position, own, seq, selection, selectionSeq, moving, live,
                       resume, applied>>
    BY <1>6 DEF CatchUp, router, store, client
  <2>2. /\ CatchUpIsSafe'
        /\ \A o \in Object : Settled(o)' \/ Among(catchUp, Len(catchUp), o)'
    BY <1>6, CatchUpIsComplete
  <2>3. LiveIsSafe' /\ AllOnTheWay'
    BY <2>2 DEF LiveIsSafe, AllOnTheWay
  <2> QED
    BY <2>1, <2>2, <2>3 DEF SafeInv, MovesAreNumbered, Announcing, PositionsDiffer,
                            QueuesOfAConnection, NothingBehind, Settled
<1>7. CASE Receive
  BY <1>7, ReceiveIsSafe
<1>8. CASE Bind
  BY <1>8 DEF Bind, wire, SafeInv, MovesAreNumbered, Announcing,
              PositionsDiffer, QueuesOfAConnection, NothingBehind, CatchUpIsSafe, LiveIsSafe,
              AllOnTheWay, Settled, Among, Shows
<1>9. ASSUME NEW r \in responses, ApplyResponse(r)
      PROVE  SafeInv'
  <2>1. /\ applied' = [applied EXCEPT ![r.object] = Newest(r.object, r.revision)]
        /\ UNCHANGED <<revision, position, own, seq, selection, selectionSeq, moving, conn,
                       catchUp, live, resume>>
    BY <1>9 DEF ApplyResponse, router, store, wire
  <2>2. r.object \in Object /\ r.revision \in Nat /\ r.revision <= revision[r.object]
    BY LiveAssumption DEF IInv, TypeOK, Recorded
  <2>3. applied[r.object] = revision[r.object]
          => Newest(r.object, r.revision) = revision[r.object]
    BY <1>1, <2>2 DEF Newest
  <2>4. \A o \in Object : applied[o] = revision[o] => applied'[o] = revision'[o]
    BY <1>1, <2>1, <2>2, <2>3
  <2>5. \A o \in Object : Settled(o) => Settled(o)'
    BY <2>1, <2>4 DEF Settled
  <2>6. \A o \in Object, n \in Nat : /\ Among(catchUp, n, o) => Among(catchUp, n, o)'
                                     /\ Among(live, n, o) => Among(live, n, o)'
    BY <2>1 DEF Among, Shows
  <2>7. \A o \in Object : /\ Among(catchUp, Len(catchUp), o) => Among(catchUp, Len(catchUp), o)'
                          /\ Among(live, Len(live), o) => Among(live, Len(live), o)'
    BY <2>1 DEF Among, Shows
  <2>8. NothingBehind'
    BY <2>1, <2>5 DEF SafeInv, NothingBehind
  <2>9. CatchUpIsSafe'
    <3>1. \A k \in DOMAIN catchUp : k \in Nat
      BY <1>1
    <3> QED
      BY <2>1, <2>5, <2>6, <3>1 DEF SafeInv, CatchUpIsSafe
  <2>10. LiveIsSafe'
    <3>1. \A k \in DOMAIN live : k \in Nat
      BY <1>1
    <3> QED
      BY <2>1, <2>5, <2>6, <2>7, <3>1 DEF SafeInv, LiveIsSafe
  <2>11. AllOnTheWay'
    BY <2>1, <2>5, <2>7 DEF SafeInv, AllOnTheWay
  <2> QED
    BY <2>1, <2>8, <2>9, <2>10, <2>11
       DEF SafeInv, MovesAreNumbered, Announcing, PositionsDiffer, QueuesOfAConnection
<1>10. CASE Disconnect \/ Crash
  <2>1. /\ conn' = "down" /\ catchUp' = <<>> /\ live' = <<>>
        /\ UNCHANGED <<revision, position, own, seq, selection, selectionSeq, moving, resume,
                       applied>>
    BY <1>10 DEF Disconnect, Crash, Break, router, store
  <2> QED
    BY <2>1 DEF SafeInv, MovesAreNumbered, Announcing, PositionsDiffer, QueuesOfAConnection,
                NothingBehind, CatchUpIsSafe, LiveIsSafe, AllOnTheWay, Settled
<1>11. CASE UNCHANGED vars
  BY <1>11 DEF vars, router, store, wire, client, SafeInv, MovesAreNumbered,
               Announcing, PositionsDiffer, QueuesOfAConnection, NothingBehind, CatchUpIsSafe, LiveIsSafe,
               AllOnTheWay, Settled, Among, Shows
<1> QED
  BY <1>2, <1>3, <1>4, <1>5, <1>6, <1>7, <1>8, <1>9, <1>10, <1>11 DEF Next

\* Where nothing references and the queue has room, no reconnection, restart or
\* response, and no number of calls that move the selection, leaves the
\* participant with a position that passed what it does not hold, but for what
\* changed before the latest move (catchUp and liveStream in streams.go, apply in
\* inbound.go, publishSelection in router.go).
THEOREM ResumesSafely ==
  ASSUME MaxSeq <= Capacity, \A o, q \in Object : TierOf[o] = TierOf[q]
  PROVE  Spec => []SafeToResume
<1>1. IInv /\ SafeInv /\ QueueFits /\ [Next]_vars => SafeInv'
  BY SafeStep
<1>2. IInv /\ SafeInv => SafeToResume
  <2> SUFFICES ASSUME IInv, SafeInv, NEW o \in Object, selectionSeq < position[o],
                      position[o] <= resume, ~own[o]
               PROVE  applied[o] = revision[o]
    BY DEF SafeToResume
  <2>1. selectionSeq \in Nat /\ position[o] \in Nat
    BY DEF IInv, TypeOK
  <2>2. Settled(o)
    BY DEF SafeInv, NothingBehind
  <2> QED
    BY <2>1, <2>2 DEF Settled
<1> QED
  BY <1>1, <1>2, SafeInit, QueueInit, QueueStep, Inductive, PTL DEF Spec

=============================================================================
