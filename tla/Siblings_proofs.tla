-------------------------- MODULE Siblings_proofs --------------------------
(***************************************************************************)
(* Theorems about several endpoints over one store.                        *)
(*                                                                         *)
(* In general: every variable keeps its type, and the revision a pair is at*)
(* is one its object has had.                                              *)
(*                                                                         *)
(* While users neither add records nor correct what theirs are: one record *)
(* per object and one object per record, whichever of the endpoints was    *)
(* told first, and at rest both sides have the same pairs. The work is in  *)
(* following the two halves of every pair: where only one side has it, the *)
(* call or the frame that brings the other half is still on its way.       *)
(*                                                                         *)
(* Then what the records show. A record that does not show its object as it*)
(* stands has that revision on its way, in the stream or as an answer; and *)
(* whatever older is on its way is followed by it, or has been overtaken.  *)
(***************************************************************************)
EXTENDS Siblings, FiniteSetTheorems, SequenceTheorems, WellFoundedInduction, TLAPS

----------------------------------------------------------------------------
(* Types *)

Content == 1..edited
Revision == [content : Content, by : Endpoint \cup {Other}]

\* A revision o has had, and what it held.
Had(o, revision, c) ==
  revision \in DOMAIN history[o] /\ c = history[o][revision].content

\* What a frame or an answer says of an object is what the object once was.
Faithful(f) ==
  /\ f.to \in Endpoint /\ f.object \in Object /\ f.local \in LocalId \cup {None}
  /\ Had(f.object, f.revision, f.content)

LiveFrame(f) ==
  /\ f.event \in {"object", "caughtUp"} /\ f.id \in 0..seq
  /\ f.event = "object" => Faithful(f)

HistoryOK ==
  /\ edited \in Nat /\ seq \in Nat
  /\ history \in [Object -> Seq(Revision)]
  /\ \A o \in Object : Len(history[o]) <= MaxRevision
  /\ changed \in [Object -> 0..seq]

StreamOK ==
  /\ connected \in BOOLEAN
  /\ live = [i \in 1..Len(live) |-> live[i]] /\ Len(live) \in Nat
  /\ \A i \in 1..Len(live) : LiveFrame(live[i])

BindingOK == binding # None => binding \in Owed /\ binding.object \in Existing

\* What is named is there.
MappingOK == mapping \in [Endpoint -> [LocalId -> Existing \cup {None}]]

RowsExist ==
  \A e \in Endpoint, l \in LocalId : Bound(e, l) => row[e][l].object \in Existing

\* What is being sent was read from a record, and its base from a pair.
SendingOK(k) ==
  /\ k \in Sending
  /\ content[k.local] # None
  /\ k.step # "read" => k.content \in Content
  /\ k.object = None => k.base = 0
  /\ k.object # None => k.object \in Existing /\ k.base <= Len(history[k.object])
  /\ k.step \in {"bind", "pair"} => k.object # None

CallOK(e) ==
  LET k == calls[e] IN
  \/ k = None
  \/ SendingOK(k)
  \/ k.step = "apply" /\ Faithful(k.frame) /\ k.frame.to = e /\ k.frame.local \in LocalId
  \/ /\ k.step \in {"correct", "rewrite"}
     /\ DOMAIN k.entries \subseteq LocalId
     /\ \A l \in DOMAIN k.entries : k.entries[l] \in Existing \cup {None}
  \/ k.step = "request" /\ k.objects \subseteq Existing

CallsOK ==
  /\ calls = [e \in Endpoint |-> calls[e]]
  /\ \A e \in Endpoint : CallOK(e)

IInv ==
  /\ TypeOK /\ BasesExist /\ RowsExist /\ MappingOK
  /\ HistoryOK /\ StreamOK /\ BindingOK /\ CallsOK

----------------------------------------------------------------------------
(* While users neither add records nor correct what theirs are *)

Unassisted == added = 0 /\ corrections = 0

CountsOK == added \in Nat /\ corrections \in Nat /\ faults \in Nat

\* Some endpoint has record l bound to o.
Known(l, o) == \E e \in Endpoint : Bound(e, l) /\ row[e][l].object = o

OneToOne ==
  \A l, k \in LocalId, o, q \in Object : Known(l, o) /\ Known(k, q) => (l = k <=> o = q)

\* Every record came from an object, and pairs have revisions.
RecordsAreKnown ==
  /\ \A l \in LocalId : content[l] # None => \E o \in Object : Known(l, o)
  /\ \A e \in Endpoint, l \in LocalId :
       Bound(e, l) => l <= minted /\ content[l] # None /\ row[e][l].revision > 0

MappingIsKnown ==
  \A e \in Endpoint, l \in LocalId : mapping[e][l] # None => Known(l, mapping[e][l])

\* A local id in a frame is one agrirouter has for the object.
Named(f) == f.local # None => mapping[f.to][f.local] = f.object

FramesAreNamed == \A i \in 1..Len(live) : live[i].event = "object" => Named(live[i])

BindingIsKnown ==
  binding # None => /\ Bound(binding.to, binding.local)
                    /\ row[binding.to][binding.local].object = binding.object

SendingIsKnown(e, k) ==
  /\ k.object # None => Known(k.local, k.object) /\ k.base > 0
  /\ k.step = "sibling" => \E d \in Endpoint \ {e} : Bound(d, k.local)
  /\ k.step = "put" => k.object # None
  /\ k.step = "pair" => mapping[e][k.local] = k.object

CallIsKnown(e) ==
  \/ calls[e] = None
  \/ calls[e].step \in {"read", "sibling", "bind", "pair", "put"} /\ SendingIsKnown(e, calls[e])
  \/ calls[e].step = "apply" /\ Named(calls[e].frame)

CallsAreKnown == \A e \in Endpoint : CallIsKnown(e)

PairsInv ==
  /\ OneToOne /\ RecordsAreKnown /\ MappingIsKnown /\ FramesAreNamed /\ BindingIsKnown
  /\ CallsAreKnown

\* While nothing breaks, a half of a pair is missing only on its way.
HalvesOnTheWay ==
  faults = 0 =>
    \A e \in Endpoint, l \in LocalId :
      /\ Bound(e, l) => \/ mapping[e][l] = row[e][l].object
                        \/ binding = [to |-> e, local |-> l, object |-> row[e][l].object]
      /\ mapping[e][l] # None => \/ Bound(e, l)
                                 \/ At(e, "pair") /\ calls[e].local = l

\* What is in the stream, or has been answered, of o as it stands.
DueFrame(e, o) ==
  \E i \in 1..Len(live) :
    /\ live[i].event = "object" /\ live[i].to = e
    /\ live[i].object = o /\ live[i].revision = Len(history[o])
DueAnswer(e, o) ==
  /\ At(e, "apply")
  /\ calls[e].frame.object = o /\ calls[e].frame.revision = Len(history[o])
Due(e, o) == DueFrame(e, o) \/ DueAnswer(e, o)

\* A frame or an answer that changes nothing any more.
Overtaken(f) == \E l \in Holders(f.to, f.object) : row[f.to][l].revision > f.revision

Followed(f) == Due(f.to, f.object) \/ Overtaken(f)

\* Nothing older is what an endpoint gets to apply last.
OldIsFollowed ==
  /\ \A i \in 1..Len(live) : live[i].event = "object" => Followed(live[i])
  /\ \A e \in Endpoint : At(e, "apply") => Followed(calls[e].frame)

InTurn ==
  \A i, j \in 1..Len(live) :
    /\ i < j /\ live[i].event = "object" /\ live[j].event = "object"
    /\ live[i].to = live[j].to /\ live[i].object = live[j].object
    => live[i].revision <= live[j].revision

\* Whoever is about to take over a sibling's pair, which may be older than the
\* one delivered meanwhile, is still to be told what the object is.
JoinsInTime ==
  \A e \in Endpoint, i \in 1..Len(live) :
    /\ calls[e] # None /\ calls[e].step \in {"sibling", "bind", "pair"}
    /\ live[i].event = "object" /\ live[i].to = e /\ Known(calls[e].local, live[i].object)
    => DueFrame(e, live[i].object)

\* A record shows its object as it stands, or what a user made of it.
Shown(l, o) ==
  \/ content[l] = Current(o).content
  \/ \A i \in DOMAIN history[o] : history[o][i].content # content[l]

ShownOrDue ==
  \A l \in LocalId, o \in Object : Known(l, o) => Shown(l, o) \/ \E e \in Endpoint : Due(e, o)

StartsEmpty ==
  ~connected => /\ live = <<>>
                /\ \A e \in Endpoint : calls[e] = None
                /\ \A e \in Endpoint, l \in LocalId : ~Bound(e, l)

\* While nothing breaks, what is not shown yet is on its way.
ContentOnTheWay ==
  faults = 0 => OldIsFollowed /\ InTurn /\ JoinsInTime /\ ShownOrDue /\ StartsEmpty

----------------------------------------------------------------------------
(* Numbers, and ends of sequences *)

LEMMA MinOf ==
  ASSUME NEW S \in SUBSET Nat, S # {}
  PROVE  Min(S) \in S /\ \A n \in S : Min(S) <= n
<1>1. IsWellFoundedOn(OpToRel(<, Nat), Nat)
  BY NatLessThanWellFounded
<1>2. PICK m \in S : \A n \in S : ~(<<n, m>> \in OpToRel(<, Nat))
  BY <1>1, WFMin
<1>3. ASSUME NEW n \in S PROVE m <= n
  <2>1. n \in Nat /\ m \in Nat
    OBVIOUS
  <2>2. ~(n < m)
    BY <1>2, <2>1, Zenon DEF OpToRel
  <2> QED
    BY <2>1, <2>2
<1> QED
  BY <1>3 DEF Min

LEMMA LastOf ==
  ASSUME NEW S, NEW s \in Seq(S)
  PROVE  /\ s # <<>> => Len(s) \in DOMAIN s /\ Last(s) = s[Len(s)] /\ Last(s) \in S
         /\ DOMAIN s = 1..Len(s) /\ Len(s) \in Nat
BY DEF Last

LEMMA AppendOf ==
  ASSUME NEW S, NEW s \in Seq(S), NEW x \in S
  PROVE  /\ Append(s, x) \in Seq(S) /\ Len(Append(s, x)) = Len(s) + 1
         /\ Last(Append(s, x)) = x
         /\ \A i \in DOMAIN s : i \in DOMAIN Append(s, x) /\ Append(s, x)[i] = s[i]
         /\ Append(s, x)[Len(s) + 1] = x
<1>1. /\ Append(s, x) \in Seq(S) /\ Len(Append(s, x)) = Len(s) + 1
      /\ \A i \in DOMAIN s : i \in DOMAIN Append(s, x) /\ Append(s, x)[i] = s[i]
      /\ Append(s, x)[Len(s) + 1] = x
  OBVIOUS
<1>2. Last(Append(s, x)) = x
  BY <1>1 DEF Last
<1> QED
  BY <1>1, <1>2

LEMMA SeqIsFunction ==
  ASSUME NEW S, NEW s \in Seq(S)
  PROVE  s = [i \in 1..Len(s) |-> s[i]] /\ Len(s) \in Nat
OBVIOUS

LEMMA Names ==
  /\ None \notin LocalId /\ None \notin Object /\ None \notin Nat
  /\ Other \notin Endpoint
  /\ MaxObjects \in Nat /\ MaxRecords \in Nat /\ MaxRevision \in Nat /\ MaxRevision > 0
  /\ Shared \in Nat
  /\ LocalId \subseteq Nat /\ Object \subseteq Nat
  /\ \A i \in DOMAIN Endpoints : Endpoints[i] \in Endpoint
BY SiblingsAssumption DEF LocalId, Object, Endpoint

LEMMA PairType ==
  ASSUME NEW o \in Object, NEW n \in 0..MaxRevision
  PROVE  /\ [object |-> o, revision |-> n] \in Pair
         /\ [object |-> o, revision |-> n] # None
BY SiblingsAssumption DEF Pair

----------------------------------------------------------------------------
(* Objects only gain revisions *)

Grown ==
  /\ HistoryOK' /\ edited <= edited' /\ seq <= seq'
  /\ \A o \in Object : \A i \in DOMAIN history[o] :
       i \in DOMAIN history'[o] /\ history'[o][i] = history[o][i]

LEMMA Still ==
  ASSUME HistoryOK, UNCHANGED <<objects, edited>>
  PROVE  Grown
<1>1. Revision' = Revision
  BY DEF Revision, Content
<1> QED
  BY <1>1 DEF HistoryOK, Grown, objects

LEMMA EditGrows ==
  ASSUME HistoryOK, UNCHANGED objects, Edit
  PROVE  Grown
<1>1. edited' \in Nat /\ edited <= edited' /\ Content \subseteq Content'
  BY DEF HistoryOK, Edit, Content
<1>2. Revision \subseteq Revision'
  BY <1>1 DEF Revision
<1>3. Seq(Revision) \subseteq Seq(Revision')
  BY <1>2
<1>4. history' \in [Object -> Seq(Revision')]
  BY <1>3 DEF HistoryOK, objects
<1> QED
  BY <1>1, <1>4 DEF HistoryOK, Grown, objects

\* A new revision is the object's last, and disturbs no earlier one.
LEMMA ReviseGrows ==
  ASSUME HistoryOK, NEW o \in Object, NEW rev, rev \in Revision', Revise(o, rev),
         edited' \in Nat, edited <= edited'
  PROVE  /\ Grown
         /\ history'[o] = Append(history[o], rev)
         /\ Len(history'[o]) = Len(history[o]) + 1 /\ Len(history[o]) < MaxRevision
         /\ Last(history'[o]) = rev /\ history'[o][Len(history[o]) + 1] = rev
         /\ \A q \in Object : q # o => history'[q] = history[q]
<1>1. Content \subseteq Content'
  BY DEF HistoryOK, Content
<1>2. Seq(Revision) \subseteq Seq(Revision')
  <2>1. Revision \subseteq Revision'
    BY <1>1 DEF Revision
  <2> QED
    BY <2>1
<1>3. history[o] \in Seq(Revision')
  BY <1>2 DEF HistoryOK
<1>4. /\ Append(history[o], rev) \in Seq(Revision')
      /\ Len(Append(history[o], rev)) = Len(history[o]) + 1
      /\ Last(Append(history[o], rev)) = rev
      /\ \A i \in DOMAIN history[o] : /\ i \in DOMAIN Append(history[o], rev)
                                      /\ Append(history[o], rev)[i] = history[o][i]
      /\ Append(history[o], rev)[Len(history[o]) + 1] = rev
  BY <1>3, AppendOf
<1>5. /\ history' = [history EXCEPT ![o] = Append(history[o], rev)]
      /\ changed' = [changed EXCEPT ![o] = seq + 1] /\ seq' = seq + 1
      /\ Len(history[o]) < MaxRevision
  BY DEF Revise
<1>6. /\ history'[o] = Append(history[o], rev)
      /\ \A q \in Object : q # o => history'[q] = history[q]
  BY <1>5 DEF HistoryOK
<1>7. history' \in [Object -> Seq(Revision')]
  BY <1>2, <1>4, <1>5 DEF HistoryOK
<1>8. \A q \in Object : Len(history'[q]) <= MaxRevision
  <2> SUFFICES ASSUME NEW q \in Object PROVE Len(history'[q]) <= MaxRevision
    OBVIOUS
  <2>1. Len(history[o]) \in Nat
    BY DEF HistoryOK
  <2>2. CASE q = o
    BY <1>4, <1>5, <1>6, <2>1, <2>2, Names
  <2>3. CASE q # o
    BY <1>6, <2>3 DEF HistoryOK
  <2> QED
    BY <2>2, <2>3
<1>9. seq' \in Nat /\ seq <= seq' /\ changed' \in [Object -> 0..seq']
  BY <1>5 DEF HistoryOK
<1>10. \A q \in Object : \A i \in DOMAIN history[q] :
          i \in DOMAIN history'[q] /\ history'[q][i] = history[q][i]
  BY <1>4, <1>6
<1> QED
  BY <1>4, <1>5, <1>6, <1>7, <1>8, <1>9, <1>10 DEF Grown, HistoryOK

----------------------------------------------------------------------------
(* What is on the stream *)

LEMMA LocalNameOf ==
  ASSUME NEW e, NEW o
  PROVE  /\ LocalName(e, o) \in LocalId \cup {None}
         /\ LocalName(e, o) # None => mapping[e][LocalName(e, o)] = o
         /\ LocalName(e, o) = None => \A l \in LocalId : mapping[e][l] # o
BY Names DEF LocalName

LEMMA OrderOf ==
  ASSUME NEW told \in SUBSET (Object \X DOMAIN Endpoints), NEW order \in InOrder(told)
  PROVE  /\ Cardinality(told) \in Nat /\ order \in [1..Cardinality(told) -> told]
         /\ \A i \in 1..Cardinality(told) :
              /\ order[i] \in told
              /\ order[i][1] \in Object /\ order[i][2] \in DOMAIN Endpoints
              /\ Endpoints[order[i][2]] \in Endpoint
<1>1. IsFiniteSet(Object) /\ IsFiniteSet(DOMAIN Endpoints)
  BY FS_Interval, SiblingsAssumption, Names DEF Object
<1>2. IsFiniteSet(told)
  BY <1>1, FS_Product, FS_Subset
<1>3. Cardinality(told) \in Nat
  BY <1>2, FS_CardinalityType
<1>4. order \in [1..Cardinality(told) -> told]
  BY DEF InOrder, Bijection, Injection
<1> QED
  BY <1>3, <1>4, Names

LEMMA FaithfulExists ==
  ASSUME HistoryOK, NEW f, Faithful(f)
  PROVE  f.object \in Existing
BY DEF Faithful, Had, HistoryOK, Existing

LEMMA ToldOf ==
  ASSUME NEW o \in Object, NEW by
  PROVE  Told(o, by) \in SUBSET (Object \X DOMAIN Endpoints)
BY DEF Told

LEMMA MissedOf ==
  ASSUME NEW from
  PROVE  Missed(from) \in SUBSET (Object \X DOMAIN Endpoints)
BY DEF Missed, Told, Existing

\* What stays true of a frame while objects gain revisions.
LEMMA FaithfulGrows ==
  ASSUME Grown, NEW f, Faithful(f)
  PROVE  Faithful(f)'
BY DEF Faithful, Had, Grown

LEMMA LiveFrameGrows ==
  ASSUME HistoryOK, Grown, NEW f, LiveFrame(f)
  PROVE  LiveFrame(f)'
<1>1. f.id \in 0..seq'
  BY DEF LiveFrame, Grown, HistoryOK
<1>2. f.event = "object" => Faithful(f)'
  BY FaithfulGrows DEF LiveFrame
<1> QED
  BY <1>1, <1>2 DEF LiveFrame

\* Where the frames on the stream come from.
LEMMA Published ==
  ASSUME StreamOK, NEW n \in Nat, NEW frames, frames = [i \in 1..n |-> frames[i]],
         Publish(frames)
  PROVE  /\ Len(live') \in Nat /\ live' = [i \in 1..Len(live') |-> live'[i]]
         /\ \A i \in 1..Len(live') : \/ \E j \in 1..Len(live) : live'[i] = live[j]
                                     \/ \E j \in 1..n : live'[i] = frames[j]
<1>1. CASE ~connected
  <2>1. live' = live
    BY <1>1 DEF Publish
  <2> QED
    BY <2>1 DEF StreamOK
<1>2. CASE connected
  <2>1. live \in Seq({live[i] : i \in 1..Len(live)}) /\ Len(live) \in Nat
    BY DEF StreamOK
  <2>2. frames \in Seq({frames[i] : i \in 1..n}) /\ Len(frames) = n
    OBVIOUS
  <2>3. live' = live \o frames
    BY <1>2 DEF Publish
  <2>4. /\ Len(live') = Len(live) + n /\ Len(live') \in Nat
        /\ live' = [i \in 1..Len(live') |-> live'[i]]
        /\ \A i \in 1..Len(live') :
             live'[i] = IF i <= Len(live) THEN live[i] ELSE frames[i - Len(live)]
    BY <2>1, <2>2, <2>3
  <2>5. ASSUME NEW i \in 1..Len(live')
        PROVE  \/ \E j \in 1..Len(live) : live'[i] = live[j]
               \/ \E j \in 1..n : live'[i] = frames[j]
    <3>0. /\ Len(live') = Len(live) + n
          /\ live'[i] = IF i <= Len(live) THEN live[i] ELSE frames[i - Len(live)]
      BY <2>4
    <3>1. CASE i <= Len(live)
      <4>1. i \in 1..Len(live) /\ live'[i] = live[i]
        BY <2>1, <3>0, <3>1
      <4> QED
        BY <4>1
    <3>2. CASE i > Len(live)
      <4>1. i - Len(live) \in 1..n /\ live'[i] = frames[i - Len(live)]
        BY <2>1, <3>0, <3>2
      <4> QED
        BY <4>1
    <3> QED
      BY <2>1, <3>0, <3>1, <3>2
  <2> QED
    BY <2>4, <2>5
<1> QED
  BY <1>1, <1>2

LEMMA PublishOK ==
  ASSUME HistoryOK, Grown, StreamOK, NEW n \in Nat, NEW frames,
         frames = [i \in 1..n |-> frames[i]],
         \A i \in 1..n : \A f : f = frames[i] => LiveFrame(f)',
         Publish(frames), UNCHANGED connected
  PROVE  StreamOK'
<1>1. \A i \in 1..Len(live) : \A f : f = live[i] => LiveFrame(f)'
  BY LiveFrameGrows DEF StreamOK
<1>2. \A i \in 1..Len(live') : LiveFrame(live[i])'
  BY <1>1, Published
<1> QED
  BY <1>2, Published DEF StreamOK

LEMMA ReviseStream ==
  ASSUME HistoryOK, StreamOK, NEW o \in Object, NEW rev, rev \in Revision', Revise(o, rev),
         edited' \in Nat, edited <= edited', UNCHANGED connected
  PROVE  StreamOK'
<1>0. Grown
  BY ReviseGrows
<1>1. PICK order \in InOrder(Told(o, rev.by)) :
        Publish(FannedOut(order, Append(history[o], rev), seq + 1))
  BY DEF Revise
<1> DEFINE n == Cardinality(Told(o, rev.by))
           frames == FannedOut(order, Append(history[o], rev), seq + 1)
<1>2. n \in Nat /\ order \in [1..n -> Told(o, rev.by)]
      /\ \A i \in 1..n : /\ order[i] \in Told(o, rev.by)
                         /\ Endpoints[order[i][2]] \in Endpoint
  BY OrderOf, ToldOf
<1>3. frames = [i \in 1..n |-> frames[i]]
  BY <1>2 DEF FannedOut
<1>4. ASSUME NEW i \in 1..n, NEW f, f = frames[i] PROVE LiveFrame(f)'
  <2>1. f = Frame(Endpoints[order[i][2]], order[i][1], Append(history[o], rev), seq + 1)
    BY <1>2, <1>4 DEF FannedOut
  <2>2. order[i][1] = o
    BY <1>2 DEF Told
  <2>3. /\ history'[o] = Append(history[o], rev)
        /\ Last(history'[o]) = rev /\ Len(history'[o]) \in DOMAIN history'[o]
        /\ history'[o][Len(history'[o])] = rev
    <3>1. Len(history[o]) \in Nat /\ history'[o] \in Seq(Revision')
      BY <1>0 DEF HistoryOK, Grown
    <3> QED
      BY ReviseGrows, <3>1
  <2>4. /\ f.event = "object" /\ f.id = seq + 1 /\ f.to = Endpoints[order[i][2]]
        /\ f.object = o /\ f.revision = Len(history'[o]) /\ f.content = rev.content
        /\ f.local = LocalName(Endpoints[order[i][2]], o)
    BY <2>1, <2>2, <2>3 DEF Frame
  <2>5. Faithful(f)'
    BY <1>2, <2>3, <2>4, LocalNameOf DEF Faithful, Had
  <2>6. f.id \in 0..seq'
    BY <2>4 DEF Revise, HistoryOK
  <2> QED
    BY <2>4, <2>5, <2>6 DEF LiveFrame
<1>5. Publish(frames)
  BY <1>1
<1> HIDE DEF n, frames
<1> QED
  BY <1>0, <1>2, <1>3, <1>4, <1>5, PublishOK

LEMMA ConnectStream ==
  ASSUME HistoryOK, StreamOK, NEW from, NEW order \in InOrder(Missed(from)),
         live' = CatchUp(order), connected' \in BOOLEAN, UNCHANGED <<objects, edited>>
  PROVE  StreamOK'
<1> DEFINE n == Cardinality(Missed(from))
           frames == [i \in DOMAIN order |->
             LET o == order[i][1] IN Frame(Endpoints[order[i][2]], o, history[o], changed[o])]
<1>1. n \in Nat /\ order \in [1..n -> Missed(from)]
      /\ \A i \in 1..n : /\ order[i] \in Missed(from) /\ order[i][1] \in Object
                         /\ Endpoints[order[i][2]] \in Endpoint
  BY OrderOf, MissedOf
<1>2. ASSUME NEW i \in 1..n, NEW f, f = frames[i] PROVE LiveFrame(f)
  <2> DEFINE o == order[i][1]
  <2>1. o \in Object /\ history[o] # <<>> /\ Endpoints[order[i][2]] \in Endpoint
    BY <1>1 DEF Missed, Told, Existing
  <2>2. f = Frame(Endpoints[order[i][2]], o, history[o], changed[o])
    BY <1>1, <1>2
  <2> HIDE DEF o
  <2>3. /\ Len(history[o]) \in DOMAIN history[o]
        /\ Last(history[o]) = history[o][Len(history[o])]
    BY <2>1, LastOf DEF HistoryOK
  <2>4. changed[o] \in 0..seq
    BY <2>1 DEF HistoryOK
  <2> QED
    BY <2>1, <2>2, <2>3, <2>4, LocalNameOf DEF LiveFrame, Faithful, Had, Frame
<1>3. LiveFrame(CaughtUp(seq))
  BY DEF LiveFrame, CaughtUp, HistoryOK
<1>4. live' = frames \o <<CaughtUp(seq)>>
  BY DEF CatchUp
<1>5. frames = [i \in 1..n |-> frames[i]]
  BY <1>1
<1> HIDE DEF frames, n
<1>6. frames \in Seq({frames[i] : i \in 1..n}) /\ Len(frames) = n
  BY <1>1, <1>5
<1>7. /\ Len(live') = n + 1
      /\ live' = [i \in 1..n + 1 |-> IF i <= n THEN frames[i] ELSE CaughtUp(seq)]
  BY <1>1, <1>4, <1>6
<1>8. ASSUME NEW i \in 1..n + 1 PROVE \A f : f = live'[i] => LiveFrame(f)
  <2>1. CASE i <= n
    <3>1. i \in 1..n /\ live'[i] = frames[i]
      BY <1>1, <1>7, <2>1
    <3> QED
      BY <1>2, <3>1
  <2>2. CASE i > n
    <3>1. live'[i] = CaughtUp(seq)
      BY <1>1, <1>7, <2>2
    <3> QED
      BY <1>3, <3>1
  <2> QED
    BY <1>1, <2>1, <2>2
<1>9. ASSUME NEW i \in 1..Len(live') PROVE LiveFrame(live[i])'
  <2>1. \A f : f = live'[i] => LiveFrame(f)'
    BY <1>7, <1>8, <1>9, Still, LiveFrameGrows
  <2> QED
    BY <2>1
<1> QED
  BY <1>1, <1>7, <1>9 DEF StreamOK

LEMMA StreamGrows ==
  ASSUME HistoryOK, Grown, StreamOK, UNCHANGED stream
  PROVE  StreamOK'
<1>1. UNCHANGED live /\ UNCHANGED connected
  BY DEF stream
<1> QED
  BY <1>1, LiveFrameGrows DEF StreamOK

LEMMA TailOK ==
  ASSUME HistoryOK, Grown, StreamOK, live # <<>>, live' = Tail(live), UNCHANGED connected
  PROVE  StreamOK'
<1>1. live \in Seq({live[i] : i \in 1..Len(live)}) /\ Len(live) \in Nat
  BY DEF StreamOK
<1>2. /\ Len(live') = Len(live) - 1 /\ Len(live') \in Nat
      /\ live' = [i \in 1..Len(live') |-> live'[i]]
      /\ \A i \in 1..Len(live') : live'[i] = live[i + 1]
  <2>1. /\ Tail(live) \in Seq({live[i] : i \in 1..Len(live)})
        /\ Len(Tail(live)) = Len(live) - 1
        /\ \A i \in 1..Len(Tail(live)) : Tail(live)[i] = live[i + 1]
    BY <1>1, HeadTailProperties
  <2>2. live' \in Seq({live[i] : i \in 1..Len(live)}) /\ Len(live') = Len(live) - 1
    BY <2>1
  <2>3. live' = [i \in 1..Len(live') |-> live'[i]] /\ Len(live') \in Nat
    BY <2>2, SeqIsFunction
  <2> QED
    BY <2>1, <2>2, <2>3
<1>3. ASSUME NEW i \in 1..Len(live') PROVE LiveFrame(live[i])'
  <2>1. i + 1 \in 1..Len(live) /\ live'[i] = live[i + 1]
    BY <1>1, <1>2
  <2> QED
    BY <2>1, LiveFrameGrows DEF StreamOK
<1> QED
  BY <1>2, <1>3 DEF StreamOK

LEMMA DropOK ==
  ASSUME Drop
  PROVE  StreamOK'
<1>1. live' = <<>> /\ connected' = FALSE
  BY DEF Drop
<1>2. /\ live' = [i \in 1..Len(live') |-> live'[i]] /\ Len(live') = 0
      /\ ~\E i \in 1..Len(live') : TRUE
  BY <1>1
<1>3. connected' \in BOOLEAN /\ Len(live') \in Nat
  BY <1>1, <1>2
<1> QED
  BY <1>2, <1>3, Zenon DEF StreamOK

----------------------------------------------------------------------------
(* Steps *)

LEMMA GrownLen ==
  ASSUME HistoryOK, Grown, NEW o \in Object
  PROVE  /\ Len(history[o]) <= Len(history'[o])
         /\ history[o] # <<>> => history'[o] # <<>>
<1>1. history[o] \in Seq(Revision) /\ history'[o] \in Seq(Revision')
  BY DEF HistoryOK, Grown
<1>2. CASE history[o] = <<>>
  BY <1>1, <1>2
<1>3. CASE history[o] # <<>>
  <2>1. Len(history[o]) \in DOMAIN history[o]
    BY <1>1, <1>3, LastOf
  <2>2. Len(history[o]) \in DOMAIN history'[o]
    BY <2>1 DEF Grown
  <2> QED
    BY <1>1, <2>1, <2>2
<1> QED
  BY <1>2, <1>3

LEMMA ExistingGrows ==
  ASSUME HistoryOK, Grown
  PROVE  Existing \subseteq Existing'
BY GrownLen DEF Existing

LEMMA MappingStill ==
  ASSUME IInv, Grown, UNCHANGED mapping
  PROVE  MappingOK'
BY ExistingGrows DEF IInv, MappingOK

LEMMA BindingStill ==
  ASSUME IInv, Grown, UNCHANGED binding
  PROVE  BindingOK'
BY ExistingGrows DEF IInv, BindingOK

LEMMA CallGrows ==
  ASSUME HistoryOK, Grown, \A l \in LocalId : content[l] # None => content'[l] # None,
         NEW e \in Endpoint, CallOK(e), calls'[e] = calls[e]
  PROVE  CallOK(e)'
<1> DEFINE k == calls[e]
<1>1. CASE k = None
  BY <1>1 DEF CallOK
<1>2. CASE SendingOK(k)
  <2>1. k \in Sending /\ k.local \in LocalId /\ k.object \in Object \cup {None}
        /\ k.base \in 0..MaxRevision
    BY <1>2 DEF SendingOK, Sending
  <2>2. content'[k.local] # None
    BY <1>2, <2>1 DEF SendingOK
  <2>3. Content \subseteq Content'
    BY DEF Content, HistoryOK, Grown
  <2>4. k.object # None => k.base <= Len(history'[k.object])
    <3>1. SUFFICES ASSUME k.object # None PROVE k.base <= Len(history'[k.object])
      OBVIOUS
    <3>2. k.object \in Object /\ k.base <= Len(history[k.object])
      BY <1>2, <2>1, <3>1 DEF SendingOK
    <3>3. Len(history[k.object]) <= Len(history'[k.object])
      BY <3>2, GrownLen
    <3>4. Len(history[k.object]) \in Nat /\ Len(history'[k.object]) \in Nat
      BY <3>2 DEF HistoryOK, Grown
    <3>5. k.base \in Int
      BY <2>1, Names
    <3> HIDE DEF k
    <3> QED
      BY <3>2, <3>3, <3>4, <3>5
  <2>5. k.object # None => k.object \in Existing'
    BY <1>2, ExistingGrows DEF SendingOK
  <2>6. SendingOK(calls[e])'
    BY <1>2, <2>1, <2>2, <2>3, <2>4, <2>5 DEF SendingOK
  <2> QED
    BY <2>6 DEF CallOK
<1>3. CASE k.step = "apply" /\ Faithful(k.frame) /\ k.frame.to = e /\ k.frame.local \in LocalId
  <2>1. \A f : f = k.frame => Faithful(f)'
    BY <1>3, FaithfulGrows
  <2> QED
    BY <1>3, <2>1 DEF CallOK
<1>4. CASE /\ k.step \in {"correct", "rewrite"}
           /\ DOMAIN k.entries \subseteq LocalId
           /\ \A l \in DOMAIN k.entries : k.entries[l] \in Existing \cup {None}
  <2>1. Existing \subseteq Existing'
    BY ExistingGrows
  <2> QED
    BY <1>4, <2>1 DEF CallOK
<1>5. CASE k.step = "request" /\ k.objects \subseteq Existing
  <2>1. Existing \subseteq Existing'
    BY ExistingGrows
  <2> QED
    BY <1>5, <2>1 DEF CallOK
<1> QED
  BY <1>1, <1>2, <1>3, <1>4, <1>5 DEF CallOK

LEMMA StepKeeps ==
  ASSUME IInv, Grown,
         MappingOK',
         row' \in [Endpoint -> [LocalId -> Pair \cup {None}]],
         content' \in [LocalId -> Content' \cup {None}],
         \A l \in LocalId : content[l] # None => content'[l] # None,
         position' \in 0..seq', minted' \in 0..MaxRecords,
         BasesExist' /\ RowsExist', StreamOK', BindingOK',
         calls' = [e \in Endpoint |-> calls'[e]],
         \A e \in Endpoint : calls'[e] = calls[e] \/ CallOK(e)'
  PROVE  IInv'
<1>1. TypeOK'
  BY DEF TypeOK, Content, MappingOK, Existing
<1>2. CallsOK'
  BY CallGrows DEF CallsOK, IInv
<1> QED
  BY <1>1, <1>2 DEF IInv, Grown

LEMMA RowsStill ==
  ASSUME IInv, Grown, UNCHANGED row
  PROVE  BasesExist' /\ RowsExist' /\ row' \in [Endpoint -> [LocalId -> Pair \cup {None}]]
<1>1. row' \in [Endpoint -> [LocalId -> Pair \cup {None}]]
  BY DEF IInv, TypeOK
<1>2. ASSUME NEW e \in Endpoint, NEW l \in LocalId, Bound(e, l)'
      PROVE  (row[e][l].revision <= Len(history[row[e][l].object]))'
  <2> DEFINE o == row[e][l].object
             at == row[e][l].revision
             had == Len(history[o])
             has == Len(history'[o])
  <2>1. row[e][l] \in Pair
    BY <1>2 DEF Bound, IInv, TypeOK
  <2>2. o \in Object /\ at \in Nat
    BY <2>1, Names DEF Pair
  <2>3. at <= had
    BY <1>2 DEF Bound, IInv, BasesExist
  <2>4. had <= has
    BY <2>2, GrownLen DEF IInv
  <2>5. had \in Nat /\ has \in Nat
    <3>1. HistoryOK /\ HistoryOK'
      BY DEF IInv, Grown
    <3>2. history[o] \in Seq(Revision) /\ history'[o] \in Seq(Revision')
      <4> HIDE DEF o
      <4> QED
        BY <2>2, <3>1 DEF HistoryOK
    <3> QED
      BY <3>2
  <2>6. at <= has
    <3> HIDE DEF o, at, had, has
    <3> QED
      BY <2>2, <2>3, <2>4, <2>5
  <2> QED
    BY <2>6
<1>3. RowsExist'
  BY ExistingGrows DEF IInv, RowsExist, Bound
<1> QED
  BY <1>1, <1>2, <1>3 DEF BasesExist

LEMMA ContentsStill ==
  ASSUME IInv, Grown, UNCHANGED content
  PROVE  content' \in [LocalId -> Content' \cup {None}]
<1>1. Content \subseteq Content'
  BY DEF Content, IInv, HistoryOK, Grown
<1> QED
  BY <1>1 DEF IInv, TypeOK, Content

LEMMA PositionStill ==
  ASSUME IInv, Grown, UNCHANGED position
  PROVE  position' \in 0..seq'
BY DEF IInv, TypeOK, HistoryOK, Grown

\* A step that leaves the store and the identifiers alone.
LEMMA StoreStill ==
  ASSUME IInv, Grown, UNCHANGED <<store, minted>>,
         MappingOK', StreamOK', BindingOK',
         calls' = [e \in Endpoint |-> calls'[e]],
         \A e \in Endpoint : calls'[e] = calls[e] \/ CallOK(e)'
  PROVE  IInv'
<1>1. UNCHANGED row /\ UNCHANGED content /\ UNCHANGED position
  BY DEF store
<1>2. minted' \in 0..MaxRecords
  BY DEF IInv, TypeOK
<1> QED
  BY <1>1, <1>2, RowsStill, ContentsStill, PositionStill, StepKeeps

LEMMA StepOf ==
  ASSUME IInv, NEW e \in Endpoint, NEW k, Step(e, k)
  PROVE  /\ calls' = [d \in Endpoint |-> calls'[d]] /\ calls'[e] = k
         /\ \A d \in Endpoint : d # e => calls'[d] = calls[d]
BY DEF IInv, CallsOK, Step

\* A step of one user's call that only it is moved by.
LEMMA CallStep ==
  ASSUME IInv, NEW e \in Endpoint, NEW k, Step(e, k), CallOK(e)',
         UNCHANGED <<router, stream, store, minted, binding, edited>>
  PROVE  IInv'
<1>1. Grown /\ UNCHANGED stream /\ UNCHANGED mapping
  BY Still DEF IInv, router
<1>2. StreamOK' /\ BindingOK'
  BY <1>1, StreamGrows, BindingStill DEF IInv
<1>3. MappingOK'
  BY <1>1, MappingStill
<1> QED
  BY <1>1, <1>2, <1>3, StepOf, StoreStill

LEMMA CallEnds ==
  ASSUME IInv, NEW e \in Endpoint, End(e)
  PROVE  CallOK(e)'
BY StepOf DEF End, CallOK

----------------------------------------------------------------------------
(* The store *)

LEMMA RecordOfType ==
  ASSUME IInv, NEW f, f.local \in LocalId \cup {None}
  PROVE  /\ RecordOf(f) \in LocalId \cup {None}
         /\ Holders(f.to, f.object) # {} => RecordOf(f) \in Holders(f.to, f.object)
         /\ RecordOf(f) = None =>
              /\ Holders(f.to, f.object) = {} /\ SiblingHolders(f.to, f.object) = {}
              /\ f.local = None
         /\ Joined(f) => RecordOf(f) \in SiblingHolders(f.to, f.object)
<1>1. Holders(f.to, f.object) \subseteq LocalId /\ SiblingHolders(f.to, f.object) \subseteq LocalId
  BY DEF Holders, SiblingHolders
<1>2. CASE Holders(f.to, f.object) # {}
  <2>1. RecordOf(f) \in Holders(f.to, f.object)
    BY <1>2 DEF RecordOf
  <2> QED
    BY <1>1, <1>2, <2>1, Names DEF Joined
<1>3. CASE Holders(f.to, f.object) = {} /\ f.local # None
  BY <1>3, Names DEF RecordOf, Joined
<1>4. CASE Holders(f.to, f.object) = {} /\ f.local = None /\ SiblingHolders(f.to, f.object) # {}
  <2>1. RecordOf(f) \in SiblingHolders(f.to, f.object)
    BY <1>4 DEF RecordOf
  <2> QED
    BY <1>1, <1>4, <2>1, Names
<1>5. CASE Holders(f.to, f.object) = {} /\ f.local = None /\ SiblingHolders(f.to, f.object) = {}
  BY <1>5 DEF RecordOf, Joined
<1> QED
  BY <1>2, <1>3, <1>4, <1>5

\* What is written to the store is a pair, at a revision the object has had.
LEMMA WriteKeeps ==
  ASSUME IInv, NEW l \in LocalId, NEW f, Faithful(f), Write(l, f), UNCHANGED <<objects, edited>>
  PROVE  /\ row' \in [Endpoint -> [LocalId -> Pair \cup {None}]]
         /\ content' \in [LocalId -> Content' \cup {None}]
         /\ \A k \in LocalId : content[k] # None => content'[k] # None
         /\ BasesExist' /\ RowsExist'
         /\ row'[f.to][l] = [object |-> f.object, revision |-> f.revision]
         /\ \A e \in Endpoint, k \in LocalId :
              e # f.to \/ k # l => row'[e][k] = row[e][k]
         /\ content'[l] = f.content /\ f.content \in Content
         /\ \A k \in LocalId : k # l => content'[k] = content[k]
<1>1. /\ f.object \in Object /\ f.to \in Endpoint
      /\ history[f.object] \in Seq(Revision) /\ Len(history[f.object]) <= MaxRevision
      /\ f.revision \in DOMAIN history[f.object]
      /\ f.content = history[f.object][f.revision].content
  BY DEF Faithful, Had, IInv, HistoryOK
<1>2. /\ f.revision \in 0..MaxRevision /\ f.revision <= Len(history[f.object])
      /\ f.content \in Content
  <2>1. history[f.object][f.revision] \in Revision
    BY <1>1
  <2>2. Len(history[f.object]) \in Nat /\ f.revision \in 1..Len(history[f.object])
    BY <1>1
  <2> QED
    BY <1>1, <2>1, <2>2, Names DEF Revision
<1>3. [object |-> f.object, revision |-> f.revision] \in Pair
  BY <1>1, <1>2, PairType
<1>4. /\ row' = [row EXCEPT ![f.to][l] = [object |-> f.object, revision |-> f.revision]]
      /\ content' = [content EXCEPT ![l] = f.content]
  BY DEF Write
<1>5. /\ row' \in [Endpoint -> [LocalId -> Pair \cup {None}]]
      /\ row'[f.to][l] = [object |-> f.object, revision |-> f.revision]
      /\ \A e \in Endpoint, k \in LocalId :
              e # f.to \/ k # l => row'[e][k] = row[e][k]
  BY <1>1, <1>3, <1>4 DEF IInv, TypeOK
<1>6. Content = Content' /\ Content \subseteq Nat
  BY DEF Content, IInv, HistoryOK
<1>7. content' \in [LocalId -> Content' \cup {None}] /\ content'[l] = f.content
      /\ \A k \in LocalId : k # l => content'[k] = content[k]
  BY <1>2, <1>4, <1>6 DEF IInv, TypeOK, Content
<1>8. \A k \in LocalId : content[k] # None => content'[k] # None
  BY <1>2, <1>6, <1>7, Names
<1>9. ASSUME NEW e \in Endpoint, NEW k \in LocalId, row'[e][k] # None
      PROVE  /\ row'[e][k].revision <= Len(history[row'[e][k].object])
             /\ row'[e][k].object \in Existing
  <2>1. CASE e = f.to /\ k = l
    BY <1>2, <1>5, <2>1, FaithfulExists DEF IInv
  <2>2. CASE e # f.to \/ k # l
    BY <1>5, <1>9, <2>2 DEF IInv, BasesExist, RowsExist, Bound
  <2> QED
    BY <2>1, <2>2
<1>10. BasesExist' /\ RowsExist'
  BY <1>9 DEF BasesExist, RowsExist, Existing, Bound, objects
<1> QED
  BY <1>2, <1>5, <1>7, <1>8, <1>10

LEMMA ApplyKeeps ==
  ASSUME IInv, NEW f, Faithful(f), Apply(f), UNCHANGED <<objects, edited>>
  PROVE  /\ row' \in [Endpoint -> [LocalId -> Pair \cup {None}]]
         /\ content' \in [LocalId -> Content' \cup {None}]
         /\ \A k \in LocalId : content[k] # None => content'[k] # None
         /\ BasesExist' /\ RowsExist' /\ minted' \in 0..MaxRecords
<1>0. f.local \in LocalId \cup {None}
  BY DEF Faithful
<1>1. CASE RecordOf(f) # None /\ Superseded(RecordOf(f), f)
  <2>1. UNCHANGED <<content, row, minted>>
    BY <1>1 DEF Apply
  <2>2. Grown
    BY Still DEF IInv
  <2> QED
    BY <2>1, <2>2, RowsStill, ContentsStill DEF IInv, TypeOK
<1>2. CASE RecordOf(f) # None /\ ~Superseded(RecordOf(f), f)
  <2>1. RecordOf(f) \in LocalId
    BY <1>0, <1>2, RecordOfType
  <2>2. Write(RecordOf(f), f) /\ UNCHANGED minted
    BY <1>2 DEF Apply
  <2> QED
    BY <2>1, <2>2, WriteKeeps DEF IInv, TypeOK
<1>3. CASE RecordOf(f) = None
  <2>1. minted < MaxRecords /\ minted' = minted + 1 /\ Write(minted + 1, f)
    BY <1>3 DEF Apply
  <2>2. minted + 1 \in LocalId /\ minted' \in 0..MaxRecords
    BY <2>1, Names DEF LocalId, IInv, TypeOK
  <2> QED
    BY <2>1, <2>2, WriteKeeps
<1> QED
  BY <1>1, <1>2, <1>3

----------------------------------------------------------------------------
(* One step per action: types and bases *)

LEMMA CallAt ==
  ASSUME IInv, NEW e \in Endpoint, NEW step, At(e, step)
  PROVE  /\ step \in {"read", "sibling", "bind", "pair", "put"} => SendingOK(calls[e])
         /\ step = "apply" => /\ Faithful(calls[e].frame) /\ calls[e].frame.to = e
                              /\ calls[e].frame.local \in LocalId
         /\ step \in {"correct", "rewrite"} =>
              /\ DOMAIN calls[e].entries \subseteq LocalId
              /\ \A l \in DOMAIN calls[e].entries : calls[e].entries[l] \in Existing \cup {None}
         /\ step = "request" => calls[e].objects \subseteq Existing
<1>1. CallOK(e) /\ calls[e] # None /\ calls[e].step = step
  BY DEF IInv, CallsOK, At
<1>2. SendingOK(calls[e]) => calls[e].step \in {"read", "sibling", "bind", "pair", "put"}
  BY DEF SendingOK, Sending
<1> QED
  BY <1>1, <1>2 DEF CallOK

LEMMA OtherWriteTypes == ASSUME IInv, NEW o \in Object, OtherWrite(o) PROVE IInv'
<1> DEFINE rev == [content |-> edited + 1, by |-> Other]
<1>1. /\ edited' = edited + 1 /\ edited \in Nat /\ Revise(o, rev)
      /\ UNCHANGED <<mapping, connected, store, process>>
  BY DEF OtherWrite, Edit, IInv, HistoryOK
<1>2. rev \in Revision'
  BY <1>1 DEF Revision, Content
<1> HIDE DEF rev
<1>3. Grown /\ StreamOK'
  BY <1>1, <1>2, ReviseGrows, ReviseStream DEF IInv
<1>4. UNCHANGED minted /\ UNCHANGED binding /\ UNCHANGED calls
  BY <1>1 DEF process
<1>5. BindingOK' /\ MappingOK'
      /\ calls' = [e \in Endpoint |-> calls'[e]]
  BY <1>1, <1>3, <1>4, BindingStill, MappingStill DEF IInv, CallsOK
<1> QED
  BY <1>1, <1>3, <1>4, <1>5, StoreStill

LEMMA ConnectTypes == ASSUME IInv, Connect PROVE IInv'
<1>1. Grown
  BY Still DEF IInv, Connect, router, bounds
<1>2. StreamOK'
  BY ConnectStream DEF IInv, Connect, router, bounds
<1>3. BindingOK' /\ MappingOK'
      /\ calls' = [e \in Endpoint |-> calls'[e]] /\ UNCHANGED calls
  BY <1>1, BindingStill, MappingStill DEF IInv, CallsOK, Connect, router, process
<1> QED
  BY <1>1, <1>2, <1>3, StoreStill DEF Connect, process

LEMMA HeadOK ==
  ASSUME StreamOK, live # <<>>
  PROVE  1 \in 1..Len(live) /\ Head(live) = live[1] /\ LiveFrame(Head(live))
<1>1. live \in Seq({live[i] : i \in 1..Len(live)})
  BY DEF StreamOK
<1>2. 1 \in 1..Len(live) /\ Head(live) = live[1]
  BY <1>1
<1> QED
  BY <1>2 DEF StreamOK

\* What taking a frame off the stream does, whatever the frame.
LEMMA ReceivingTypes ==
  ASSUME IInv, NEW event, Receiving(event)
  PROVE  /\ Grown /\ StreamOK' /\ position' \in 0..seq'
         /\ MappingOK'
         /\ calls' = [e \in Endpoint |-> calls'[e]] /\ UNCHANGED calls
         /\ UNCHANGED objects /\ UNCHANGED edited
         /\ LiveFrame(Head(live)) /\ Head(live).event = event
<1>1. UNCHANGED objects /\ UNCHANGED edited /\ UNCHANGED mapping /\ UNCHANGED calls
      /\ UNCHANGED connected /\ live # <<>> /\ live' = Tail(live)
      /\ position' = Head(live).id /\ Head(live).event = event
  BY DEF Receiving, router, bounds
<1>2. Grown
  BY <1>1, Still DEF IInv
<1>3. StreamOK' /\ LiveFrame(Head(live))
  BY <1>1, <1>2, TailOK, HeadOK DEF IInv
<1>4. position' \in 0..seq'
  BY <1>1, <1>3 DEF LiveFrame, objects
<1> QED
  BY <1>1, <1>2, <1>3, <1>4, MappingStill DEF IInv, CallsOK

LEMMA ReceiveObjectTypes == ASSUME IInv, ReceiveObject PROVE IInv'
<1> DEFINE f == Head(live)
           l == RecordOf(f)
<1>1. Receiving("object")
  BY DEF ReceiveObject
<1>2. /\ Grown /\ StreamOK' /\ position' \in 0..seq'
      /\ MappingOK'
      /\ calls' = [e \in Endpoint |-> calls'[e]] /\ UNCHANGED calls
      /\ UNCHANGED objects /\ UNCHANGED edited /\ Faithful(f)
  BY <1>1, ReceivingTypes DEF LiveFrame
<1>3. Apply(f)
  BY DEF ReceiveObject
<1>4. /\ row' \in [Endpoint -> [LocalId -> Pair \cup {None}]]
      /\ content' \in [LocalId -> Content' \cup {None}]
      /\ \A k \in LocalId : content[k] # None => content'[k] # None
      /\ BasesExist' /\ RowsExist' /\ minted' \in 0..MaxRecords
  BY <1>2, <1>3, ApplyKeeps
<1>5. BindingOK'
  <2>1. /\ f.to \in Endpoint /\ f.object \in Object /\ f.local \in LocalId \cup {None}
        /\ f.object \in Existing'
    BY <1>2, FaithfulExists, ExistingGrows DEF Faithful, IInv
  <2>2. l = None => minted + 1 \in LocalId
    BY <1>3, Names DEF Apply, LocalId, IInv, TypeOK
  <2>3. l \in LocalId \cup {None}
    BY <2>1, RecordOfType
  <2>4. \/ binding' = None
        \/ l = None /\ binding' = [to |-> f.to, local |-> minted + 1, object |-> f.object]
        \/ l # None /\ binding' = [to |-> f.to, local |-> l, object |-> f.object]
    <3>1. binding' = CASE l = None -> [to |-> f.to, local |-> minted + 1, object |-> f.object]
                       [] Joined(f) /\ ~Superseded(l, f) -> [to |-> f.to, local |-> l, object |-> f.object]
                       [] OTHER -> None
      BY DEF ReceiveObject
    <3>2. Joined(f) => l # None
      BY DEF Joined
    <3> HIDE DEF l, f
    <3> QED
      BY <3>1, <3>2
  <2> HIDE DEF l, f
  <2>5. CASE binding' = None
    BY <2>5 DEF BindingOK
  <2>6. CASE \E j \in LocalId : binding' = [to |-> f.to, local |-> j, object |-> f.object]
    <3>1. binding' \in Owed /\ binding'.object = f.object
      BY <2>1, <2>6 DEF Owed
    <3> QED
      BY <2>1, <3>1 DEF BindingOK
  <2> QED
    BY <2>2, <2>3, <2>4, <2>5, <2>6
<1> QED
  BY <1>2, <1>4, <1>5, StepKeeps

LEMMA ReceiveCaughtUpTypes == ASSUME IInv, ReceiveCaughtUp PROVE IInv'
<1>1. Receiving("caughtUp") /\ UNCHANGED <<content, row, minted, binding>>
  BY DEF ReceiveCaughtUp
<1>2. /\ Grown /\ StreamOK' /\ position' \in 0..seq'
      /\ MappingOK'
      /\ calls' = [e \in Endpoint |-> calls'[e]] /\ UNCHANGED calls
  BY <1>1, ReceivingTypes
<1>3. BindingOK' /\ minted' \in 0..MaxRecords
  BY <1>1, <1>2, BindingStill DEF IInv, TypeOK
<1> QED
  BY <1>1, <1>2, <1>3, RowsStill, ContentsStill, StepKeeps

\* Agrirouter takes a binding.
LEMMA MappingType ==
  ASSUME IInv, NEW e \in Endpoint, NEW l \in LocalId, NEW o \in Object, o \in Existing',
         Grown, mapping' = [mapping EXCEPT ![e][l] = o]
  PROVE  /\ MappingOK'
         /\ mapping'[e][l] = o
         /\ \A d \in Endpoint, k \in LocalId : d # e \/ k # l => mapping'[d][k] = mapping[d][k]
BY ExistingGrows DEF IInv, MappingOK

LEMMA BindTypes == ASSUME IInv, Bind PROVE IInv'
<1>1. /\ binding.to \in Endpoint /\ binding.local \in LocalId /\ binding.object \in Object
      /\ UNCHANGED objects /\ UNCHANGED edited /\ UNCHANGED calls /\ UNCHANGED <<store, minted>>
      /\ binding' = None
  BY DEF Bind, IInv, BindingOK, Owed, bounds
<1>2. Grown
  BY <1>1, Still DEF IInv
<1>3. MappingOK'
  <2>1. binding.object \in Existing'
    BY <1>2, ExistingGrows DEF Bind, IInv, BindingOK
  <2> QED
    BY <1>1, <1>2, <2>1, MappingType, MappingStill DEF Bind
<1>4. StreamOK'
  BY <1>2, StreamGrows, DropOK DEF Bind, IInv
<1>5. BindingOK'
  BY <1>1 DEF BindingOK
<1>6. calls' = [e \in Endpoint |-> calls'[e]]
  BY <1>1 DEF IInv, CallsOK
<1> QED
  BY <1>1, <1>2, <1>3, <1>4, <1>5, <1>6, StoreStill

LEMMA PairOf ==
  ASSUME IInv, NEW e \in Endpoint, NEW l \in LocalId, Bound(e, l)
  PROVE  /\ row[e][l] \in Pair /\ row[e][l].object \in Object /\ row[e][l].object # None
         /\ row[e][l].object \in Existing
         /\ row[e][l].revision \in 0..MaxRevision
         /\ row[e][l].revision <= Len(history[row[e][l].object])
<1>1. row[e][l] \in Pair
  BY DEF Bound, IInv, TypeOK
<1>2. row[e][l].revision <= Len(history[row[e][l].object])
  BY DEF Bound, IInv, BasesExist
<1>3. row[e][l].object \in Existing
  BY DEF IInv, RowsExist
<1> QED
  BY <1>1, <1>2, <1>3, Names DEF Pair

\* What a user is sending stays what it was read as while its call moves on.
LEMMA SendingMoves ==
  ASSUME IInv, NEW e \in Endpoint, SendingOK(calls[e]), calls[e].step # "read",
         NEW step \in {"sibling", "bind", "pair", "put"},
         step \in {"bind", "pair"} => calls[e].object # None,
         Step(e, Reached(calls[e], step)), UNCHANGED <<history, content, edited>>
  PROVE  CallOK(e)'
<1> DEFINE k == calls[e]
<1>1. calls'[e] = [k EXCEPT !.step = step]
  BY StepOf DEF Reached
<1>2. k \in Sending
  BY DEF SendingOK
<1>3. /\ calls'[e] \in Sending
      /\ calls'[e].local = k.local /\ calls'[e].content = k.content
      /\ calls'[e].object = k.object /\ calls'[e].base = k.base /\ calls'[e].step = step
  BY <1>1, <1>2 DEF Sending
<1>4. SendingOK(calls[e])'
  BY <1>3 DEF SendingOK, Content, Existing
<1> QED
  BY <1>4 DEF CallOK

LEMMA BeginSendTypes ==
  ASSUME IInv, NEW e \in Endpoint, NEW l \in LocalId, BeginSend(e, l)
  PROVE  IInv'
<1> DEFINE k == [step |-> "read", local |-> l, content |-> None, object |-> None, base |-> 0]
<1>1. /\ Step(e, k) /\ content[l] # None
      /\ UNCHANGED <<router, stream, store, minted, binding, edited>>
  BY DEF BeginSend
<1>2. k \in Sending
  BY Names DEF Sending
<1>3. calls'[e] = k /\ content' = content
  BY <1>1, StepOf DEF store
<1>4. SendingOK(calls[e])'
  BY <1>1, <1>2, <1>3 DEF SendingOK
<1> QED
  BY <1>1, <1>4, CallStep DEF CallOK

LEMMA SendReadTypes ==
  ASSUME IInv, NEW e \in Endpoint, SendRead(e)
  PROVE  IInv'
<1> DEFINE k == calls[e]
           l == calls[e].local
           r == [k EXCEPT !.content = content[l]]
           x == IF Bound(e, l)
                THEN [r EXCEPT !.step = "put", !.object = row[e][l].object,
                               !.base = row[e][l].revision]
                ELSE Reached(r, "sibling")
<1>1. At(e, "read") /\ Step(e, x) /\ UNCHANGED <<router, stream, store, minted, binding, bounds>>
  BY DEF SendRead
<1>2. SendingOK(k)
  BY <1>1, CallAt
<1>3. k \in Sending /\ l \in LocalId /\ content[l] \in Content /\ k.step = "read"
  BY <1>1, <1>2 DEF SendingOK, Sending, IInv, TypeOK, Content, At
<1>4. /\ x.step \in {"put", "sibling"} /\ x.local = l /\ x.content = content[l]
      /\ Bound(e, l) => x.object = row[e][l].object /\ x.base = row[e][l].revision
      /\ ~Bound(e, l) => x.object = k.object /\ x.base = k.base
      /\ Bound(e, l) => x = [step |-> "put", local |-> l, content |-> content[l],
                             object |-> row[e][l].object, base |-> row[e][l].revision]
      /\ ~Bound(e, l) => x = [step |-> "sibling", local |-> l, content |-> content[l],
                              object |-> k.object, base |-> k.base]
  BY <1>3 DEF Reached, Sending
<1>5. Bound(e, l) => /\ row[e][l] \in Pair /\ row[e][l].object \in Existing
                     /\ row[e][l].object # None
                     /\ row[e][l].revision <= Len(history[row[e][l].object])
  BY <1>3, PairOf
<1>6. Content \subseteq Nat
  BY DEF Content, IInv, HistoryOK
<1>7. x \in Sending
  <2>1. CASE Bound(e, l)
    BY <1>3, <1>4, <1>5, <1>6, <2>1 DEF Sending, Pair
  <2>2. CASE ~Bound(e, l)
    BY <1>3, <1>4, <1>6, <2>2 DEF Sending
  <2> QED
    BY <2>1, <2>2
<1>8. /\ x.object = None => x.base = 0
      /\ x.object # None => x.object \in Existing /\ x.base <= Len(history[x.object])
  BY <1>2, <1>4, <1>5 DEF SendingOK
<1> HIDE DEF x
<1>9. calls'[e] = x /\ UNCHANGED history /\ UNCHANGED content /\ UNCHANGED edited
  BY <1>1, StepOf DEF router, objects, store, bounds
<1>10. SendingOK(calls[e])'
  BY <1>2, <1>3, <1>4, <1>7, <1>8, <1>9 DEF SendingOK, Content, Existing
<1> QED
  BY <1>1, <1>10, CallStep DEF CallOK, bounds

LEMMA SiblingReadTypes ==
  ASSUME IInv, NEW e \in Endpoint, SiblingRead(e)
  PROVE  IInv'
<1> DEFINE k == calls[e]
           l == calls[e].local
           bound == {d \in Endpoint \ {e} : Bound(d, l)}
           pair == row[CHOOSE d \in bound : TRUE][l]
           x == [k EXCEPT !.step = "bind", !.object = pair.object, !.base = pair.revision]
<1>1. /\ At(e, "sibling") /\ UNCHANGED <<router, stream, store, minted, binding, bounds>>
      /\ Step(e, IF bound = {} THEN Reached(k, "put") ELSE x)
  BY DEF SiblingRead
<1>2. SendingOK(k) /\ k \in Sending /\ l \in LocalId /\ k.step = "sibling"
  BY <1>1, CallAt DEF SendingOK, Sending, At
<1>3. UNCHANGED history /\ UNCHANGED content /\ UNCHANGED edited
  BY <1>1 DEF router, objects, store, bounds
<1>4. CASE bound = {}
  BY <1>1, <1>2, <1>3, <1>4, SendingMoves, CallStep DEF bounds
<1>5. CASE bound # {}
  <2>1. PICK d \in bound : pair = row[d][l]
    BY <1>5
  <2>2. /\ pair \in Pair /\ pair.object # None /\ pair.object \in Existing /\ pair.object \in Object
        /\ pair.revision <= Len(history[pair.object]) /\ pair.revision \in 0..MaxRevision
    BY <1>2, <2>1, PairOf
  <2> HIDE DEF pair, bound
  <2>3. /\ x \in Sending /\ x.step = "bind" /\ x.local = l /\ x.content = k.content
        /\ x.object = pair.object /\ x.base = pair.revision
    BY <1>2, <2>2 DEF Sending
  <2> HIDE DEF x
  <2>4. Step(e, x)
    BY <1>1, <1>5
  <2>5. calls'[e] = x
    BY <2>4, StepOf
  <2>6. SendingOK(calls[e])'
    BY <1>2, <1>3, <2>2, <2>3, <2>5 DEF SendingOK, Content, Existing
  <2> QED
    BY <1>1, <2>4, <2>6, CallStep DEF CallOK, bounds
<1> QED
  BY <1>4, <1>5

LEMMA SiblingBindTypes ==
  ASSUME IInv, NEW e \in Endpoint, SiblingBind(e)
  PROVE  IInv'
<1> DEFINE k == calls[e]
<1>1. /\ At(e, "bind") /\ UNCHANGED objects /\ UNCHANGED <<store, minted>> /\ UNCHANGED stream
      /\ UNCHANGED binding /\ UNCHANGED bounds
  BY DEF SiblingBind
<1>2. /\ SendingOK(k) /\ k.local \in LocalId /\ k.object \in Object /\ k.step = "bind"
      /\ k.object \in Existing
      /\ k.object # None
  BY <1>1, CallAt DEF SendingOK, Sending, At
<1>3. UNCHANGED history /\ UNCHANGED content /\ UNCHANGED edited
  BY <1>1 DEF objects, store, bounds
<1>4. Grown
  BY <1>1, <1>3, Still DEF IInv
<1>5. StreamOK' /\ BindingOK'
  BY <1>1, <1>4, StreamGrows, BindingStill DEF IInv
<1>6. CASE Bindable(e, k.local, k.object)
  <2>1. mapping' = [mapping EXCEPT ![e][k.local] = k.object] /\ Step(e, Reached(k, "pair"))
    BY <1>6 DEF SiblingBind
  <2>2. CallOK(e)'
    BY <1>2, <1>3, <2>1, SendingMoves
  <2>3. MappingOK'
    BY <1>2, <1>4, <2>1, MappingType, ExistingGrows DEF IInv
  <2> QED
    BY <1>1, <1>4, <1>5, <2>1, <2>2, <2>3, StepOf, StoreStill
<1>7. CASE ~Bindable(e, k.local, k.object)
  <2>1. End(e) /\ UNCHANGED mapping
    BY <1>7 DEF SiblingBind
  <2>2. MappingOK'
    BY <1>4, <2>1, MappingStill
  <2> QED
    BY <1>1, <1>4, <1>5, <2>1, <2>2, CallEnds, StepOf, StoreStill DEF End
<1> QED
  BY <1>6, <1>7

LEMMA SiblingStoreTypes ==
  ASSUME IInv, NEW e \in Endpoint, SiblingStore(e)
  PROVE  IInv'
<1> DEFINE k == calls[e]
           pair == [object |-> k.object, revision |-> k.base]
<1>1. /\ At(e, "pair")
      /\ UNCHANGED <<router, stream, content, position, minted, binding, bounds>>
  BY DEF SiblingStore
<1>2. /\ SendingOK(k) /\ k.local \in LocalId /\ k.object \in Object /\ k.step = "pair"
      /\ k.object \in Existing /\ k.object # None
      /\ k.base \in 0..MaxRevision /\ k.base <= Len(history[k.object])
  BY <1>1, CallAt DEF SendingOK, Sending, At
<1>3. UNCHANGED objects /\ UNCHANGED history /\ UNCHANGED content /\ UNCHANGED edited
      /\ UNCHANGED mapping /\ UNCHANGED stream /\ UNCHANGED binding /\ UNCHANGED position
      /\ UNCHANGED minted
  BY <1>1 DEF router, objects, bounds
<1>4. Grown
  BY <1>3, Still DEF IInv
<1>5. /\ StreamOK' /\ BindingOK' /\ minted' \in 0..MaxRecords
      /\ MappingOK'
  BY <1>3, <1>4, StreamGrows, BindingStill, MappingStill DEF IInv, TypeOK
<1>6. content' \in [LocalId -> Content' \cup {None}] /\ position' \in 0..seq'
  BY <1>3, <1>4, ContentsStill, PositionStill
<1>7. CASE Holders(e, k.object) \subseteq {k.local}
  <2>1. row' = [row EXCEPT ![e][k.local] = pair] /\ Step(e, Reached(k, "put"))
    BY <1>7 DEF SiblingStore
  <2>2. CallOK(e)'
    BY <1>2, <1>3, <2>1, SendingMoves
  <2>3. pair \in Pair
    BY <1>2, PairType
  <2>4. /\ row' \in [Endpoint -> [LocalId -> Pair \cup {None}]]
        /\ row'[e][k.local] = pair
        /\ \A d \in Endpoint, j \in LocalId : d # e \/ j # k.local => row'[d][j] = row[d][j]
    BY <1>2, <2>1, <2>3 DEF IInv, TypeOK
  <2>5. ASSUME NEW d \in Endpoint, NEW j \in LocalId, row'[d][j] # None
        PROVE  /\ row'[d][j].revision <= Len(history[row'[d][j].object])
               /\ row'[d][j].object \in Existing
    <3>1. CASE d = e /\ j = k.local
      BY <1>2, <2>4, <3>1
    <3>2. CASE d # e \/ j # k.local
      BY <2>4, <2>5, <3>2 DEF IInv, BasesExist, RowsExist, Bound
    <3> QED
      BY <3>1, <3>2
  <2>6. BasesExist' /\ RowsExist'
    BY <1>3, <2>5 DEF BasesExist, RowsExist, Existing, Bound
  <2> QED
    BY <1>3, <1>4, <1>5, <1>6, <2>1, <2>2, <2>4, <2>6, StepOf, StepKeeps
<1>8. CASE ~(Holders(e, k.object) \subseteq {k.local})
  <2>1. End(e) /\ UNCHANGED row
    BY <1>8 DEF SiblingStore
  <2> QED
    BY <1>3, <1>4, <1>5, <1>6, <2>1, RowsStill, CallEnds, StepOf, StepKeeps DEF End
<1> QED
  BY <1>7, <1>8

LEMMA SendRefusedTypes ==
  ASSUME IInv, NEW e \in Endpoint, SendRefused(e)
  PROVE  IInv'
BY CallEnds, CallStep DEF SendRefused, End, bounds

\* An answer says of an object what agrirouter has just made of it.
LEMMA AnswerOK ==
  ASSUME IInv, NEW e \in Endpoint, calls[e].local \in LocalId, NEW o \in Object,
         NEW revision, NEW c, Answer(e, o, revision, c),
         revision \in DOMAIN history'[o], c = history'[o][revision].content
  PROVE  /\ CallOK(e)' /\ calls'[e].step = "apply" /\ calls'[e].frame.object = o
         /\ calls'[e].frame.revision = revision /\ calls'[e].frame.content = c
         /\ calls'[e].frame.to = e /\ calls'[e].frame.local = calls[e].local
<1> DEFINE f == [to |-> e, object |-> o, revision |-> revision, content |-> c,
                 local |-> calls[e].local]
<1>1. calls'[e] = [step |-> "apply", frame |-> f]
  BY StepOf DEF Answer
<1>2. calls'[e].step = "apply" /\ calls'[e].frame = f
  BY <1>1
<1>3. Faithful(calls[e].frame)'
  BY <1>2 DEF Faithful, Had
<1> QED
  BY <1>2, <1>3 DEF CallOK

\* A call has a record, what it held and an object when it reaches agrirouter.
LEMMA PutOf ==
  ASSUME IInv, NEW e \in Endpoint, At(e, "put")
  PROVE  /\ SendingOK(calls[e]) /\ calls[e].local \in LocalId /\ calls[e].content \in Content
         /\ calls[e].step = "put" /\ calls[e].object \in Object \cup {None}
         /\ calls[e].base \in 0..MaxRevision
         /\ Target(e) \in Existing \cup {None}
<1>1. SendingOK(calls[e]) /\ calls[e].step = "put"
  BY CallAt DEF At
<1> QED
  BY <1>1 DEF SendingOK, Sending, Target, IInv, MappingOK

LEMMA SendCreatesTypes ==
  ASSUME IInv, NEW e \in Endpoint, SendCreates(e)
  PROVE  IInv'
<1> DEFINE k == calls[e]
           o == Min(Unused)
           rev == [content |-> k.content, by |-> e]
<1>1. /\ At(e, "put") /\ Unused # {} /\ Revise(o, rev) /\ UNCHANGED edited
      /\ mapping' = [mapping EXCEPT ![e][k.local] = o] /\ Answer(e, o, 1, k.content)
      /\ UNCHANGED connected /\ UNCHANGED <<store, minted>> /\ UNCHANGED binding
  BY DEF SendCreates, bounds
<1>2. o \in Object /\ history[o] = <<>>
  BY <1>1, MinOf, Names DEF Unused, Existing
<1>3. k.local \in LocalId /\ k.content \in Content
  BY <1>1, PutOf
<1>4. rev \in Revision'
  BY <1>1, <1>3 DEF Revision, Content
<1>5. edited' \in Nat /\ edited <= edited'
  BY <1>1 DEF IInv, HistoryOK
<1>6. /\ Grown /\ StreamOK' /\ history'[o] = Append(history[o], rev)
      /\ history'[o][Len(history[o]) + 1] = rev
  BY <1>1, <1>2, <1>4, <1>5, ReviseGrows, ReviseStream DEF IInv
<1> HIDE DEF o
<1>7. 1 \in DOMAIN history'[o] /\ k.content = history'[o][1].content
  <2>1. history[o] = <<>> /\ Len(history[o]) = 0
    BY <1>2
  <2>2. history'[o] = <<rev>>
    BY <1>6, <2>1
  <2> QED
    BY <2>2
<1>8. CallOK(e)'
  BY <1>1, <1>2, <1>3, <1>7, AnswerOK
<1>9. MappingOK'
  <2>1. history'[o] # <<>>
    BY <1>7
  <2>2. o \in Existing'
    BY <1>2, <2>1 DEF Existing
  <2> QED
    BY <1>1, <1>2, <1>3, <1>6, <2>2, MappingType
<1>10. BindingOK'
  BY <1>1, <1>6, BindingStill
<1> QED
  BY <1>1, <1>6, <1>8, <1>9, <1>10, StepOf, StoreStill DEF Answer

LEMMA SendKeptTypes ==
  ASSUME IInv, NEW e \in Endpoint, SendKept(e)
  PROVE  IInv'
<1> DEFINE o == Target(e)
<1>1. /\ At(e, "put") /\ o # None
      /\ Answer(e, o, Len(history[o]), Current(o).content)
      /\ UNCHANGED <<router, stream, store, minted, binding, bounds>>
  BY DEF SendKept, Accepted
<1>2. o \in Object /\ history[o] # <<>> /\ calls[e].local \in LocalId
  BY <1>1, PutOf DEF Existing
<1>3. /\ Len(history[o]) \in DOMAIN history[o]
      /\ Current(o).content = history[o][Len(history[o])].content
  BY <1>2, LastOf DEF IInv, HistoryOK, Current
<1>4. UNCHANGED history /\ UNCHANGED edited
  BY <1>1 DEF router, objects, bounds
<1> HIDE DEF o
<1>5. CallOK(e)'
  BY <1>1, <1>2, <1>3, <1>4, AnswerOK
<1> QED
  BY <1>1, <1>4, <1>5, CallStep DEF Answer

LEMMA SendRevisesTypes ==
  ASSUME IInv, NEW e \in Endpoint, SendRevises(e)
  PROVE  IInv'
<1> DEFINE k == calls[e]
           o == Target(e)
           rev == [content |-> k.content, by |-> e]
<1>1. /\ At(e, "put") /\ o # None /\ Revise(o, rev) /\ UNCHANGED edited
      /\ Answer(e, o, Len(history[o]) + 1, k.content)
      /\ UNCHANGED mapping /\ UNCHANGED connected /\ UNCHANGED <<store, minted>>
      /\ UNCHANGED binding
  BY DEF SendRevises, Accepted, bounds
<1>2. o \in Object /\ k.local \in LocalId /\ k.content \in Content
  BY <1>1, PutOf DEF Existing
<1>3. rev \in Revision' /\ edited' \in Nat /\ edited <= edited'
  BY <1>1, <1>2 DEF Revision, Content, IInv, HistoryOK
<1> HIDE DEF o
<1>4. /\ Grown /\ StreamOK' /\ history'[o] = Append(history[o], rev)
      /\ history'[o][Len(history[o]) + 1] = rev
      /\ Len(history'[o]) = Len(history[o]) + 1
  BY <1>1, <1>2, <1>3, ReviseGrows, ReviseStream DEF IInv
<1>5. Len(history[o]) + 1 \in DOMAIN history'[o]
  BY <1>2, <1>4 DEF IInv, HistoryOK, Grown
<1>6. CallOK(e)'
  BY <1>1, <1>2, <1>4, <1>5, AnswerOK
<1> QED
  BY <1>1, <1>4, <1>6, BindingStill, MappingStill, StepOf, StoreStill DEF Answer

LEMMA SendApplyTypes ==
  ASSUME IInv, NEW e \in Endpoint, SendApply(e)
  PROVE  IInv'
<1>1. /\ At(e, "apply") /\ Apply(calls[e].frame) /\ End(e)
      /\ UNCHANGED objects /\ UNCHANGED mapping /\ UNCHANGED stream /\ UNCHANGED position
      /\ UNCHANGED binding /\ UNCHANGED edited
  BY DEF SendApply, router, bounds
<1>2. Faithful(calls[e].frame)
  BY <1>1, CallAt
<1>3. /\ row' \in [Endpoint -> [LocalId -> Pair \cup {None}]]
      /\ content' \in [LocalId -> Content' \cup {None}]
      /\ \A k \in LocalId : content[k] # None => content'[k] # None
      /\ BasesExist' /\ RowsExist' /\ minted' \in 0..MaxRecords
  BY <1>1, <1>2, ApplyKeeps
<1>4. Grown
  BY <1>1, Still DEF IInv
<1>5. StreamOK' /\ BindingOK' /\ MappingOK' /\ position' \in 0..seq'
  BY <1>1, <1>4, StreamGrows, BindingStill, MappingStill, PositionStill DEF IInv
<1> QED
  BY <1>1, <1>3, <1>4, <1>5, CallEnds, StepOf, StepKeeps DEF End

LEMMA BeginCorrectionTypes ==
  ASSUME IInv, NEW e \in Endpoint, NEW entries \in Entries, BeginCorrection(e, entries)
  PROVE  IInv'
<1>1. /\ Step(e, [step |-> "correct", entries |-> entries])
      /\ UNCHANGED <<router, stream, store, minted, binding, edited>>
  BY DEF BeginCorrection
<1>2. DOMAIN entries \subseteq LocalId
      /\ \A l \in DOMAIN entries : entries[l] \in Existing \cup {None}
  BY DEF Entries
<1>3. calls'[e] = [step |-> "correct", entries |-> entries]
  BY <1>1, StepOf
<1>4. calls'[e].step = "correct" /\ calls'[e].entries = entries
  BY <1>3
<1>5. CallOK(e)'
  BY <1>1, <1>2, <1>4 DEF CallOK, Existing, router, objects
<1> QED
  BY <1>1, <1>5, CallStep

\* Records are listed with the objects they are to name.
LEMMA EntriesOf ==
  ASSUME IInv, NEW e \in Endpoint, At(e, "correct") \/ At(e, "rewrite")
  PROVE  /\ DOMAIN calls[e].entries \subseteq LocalId
         /\ \A l \in DOMAIN calls[e].entries : calls[e].entries[l] \in Existing \cup {None}
         /\ calls[e].step \in {"correct", "rewrite"}
BY CallAt DEF At

LEMMA CorrectAtAgrirouterTypes ==
  ASSUME IInv, NEW e \in Endpoint, CorrectAtAgrirouter(e)
  PROVE  IInv'
<1> DEFINE k == calls[e]
<1>1. /\ At(e, "correct") /\ UNCHANGED objects /\ UNCHANGED stream /\ UNCHANGED <<store, minted>>
      /\ UNCHANGED binding /\ UNCHANGED edited
  BY DEF CorrectAtAgrirouter, bounds
<1>2. Grown
  BY <1>1, Still DEF IInv
<1>3. StreamOK' /\ BindingOK'
  BY <1>1, <1>2, StreamGrows, BindingStill DEF IInv
<1>4. CASE CorrectionRefused(e, k.entries)
  <2>1. End(e) /\ UNCHANGED mapping
    BY <1>4 DEF CorrectAtAgrirouter
  <2> QED
    BY <1>1, <1>2, <1>3, <2>1, MappingStill, CallEnds, StepOf, StoreStill DEF End
<1>5. CASE ~CorrectionRefused(e, k.entries)
  <2> DEFINE names == [l \in LocalId |->
                         IF l \in DOMAIN k.entries THEN k.entries[l] ELSE mapping[e][l]]
  <2>1. mapping' = [mapping EXCEPT ![e] = names] /\ Step(e, Reached(k, "rewrite"))
    BY <1>5 DEF CorrectAtAgrirouter
  <2>2. names \in [LocalId -> Existing \cup {None}]
    BY <1>1, EntriesOf DEF IInv, MappingOK
  <2>3. MappingOK'
    <3> HIDE DEF names
    <3>1. Existing' = Existing
      BY <1>1 DEF Existing, objects
    <3> QED
      BY <2>1, <2>2, <3>1 DEF IInv, MappingOK
  <2>4. calls'[e] = [k EXCEPT !.step = "rewrite"]
    BY <2>1, StepOf DEF Reached
  <2>5. CallOK(e)'
    <3>1. /\ DOMAIN k.entries \subseteq LocalId
          /\ \A l \in DOMAIN k.entries : k.entries[l] \in Existing \cup {None}
      BY <1>1, EntriesOf
    <3>2. calls'[e].step = "rewrite" /\ calls'[e].entries = k.entries
      BY <2>4
    <3> QED
      BY <1>1, <3>1, <3>2 DEF CallOK, Existing, objects
  <2> QED
    BY <1>1, <1>2, <1>3, <2>1, <2>3, <2>5, StepOf, StoreStill
<1> QED
  BY <1>4, <1>5

LEMMA CorrectLocallyTypes ==
  ASSUME IInv, NEW e \in Endpoint, CorrectLocally(e)
  PROVE  IInv'
<1> DEFINE entries == calls[e].entries
           rewritten == [l \in LocalId |->
             IF l \notin DOMAIN entries THEN row[e][l]
             ELSE IF entries[l] = None THEN None
             ELSE [object |-> entries[l], revision |-> 0]]
           asked == {entries[l] : l \in DOMAIN entries} \ {None}
           clash == \E l \in LocalId, k \in DOMAIN entries :
             l # k /\ rewritten[l] # None /\ rewritten[k] # None
             /\ rewritten[l].object = rewritten[k].object
<1>1. /\ At(e, "rewrite") /\ UNCHANGED objects /\ UNCHANGED mapping /\ UNCHANGED stream
      /\ UNCHANGED content /\ UNCHANGED position /\ UNCHANGED minted /\ UNCHANGED binding
      /\ UNCHANGED edited
  BY DEF CorrectLocally, router, bounds
<1>2. Grown
  BY <1>1, Still DEF IInv
<1>3. /\ StreamOK' /\ BindingOK' /\ MappingOK' /\ position' \in 0..seq'
      /\ content' \in [LocalId -> Content' \cup {None}] /\ minted' \in 0..MaxRecords
  BY <1>1, <1>2, StreamGrows, BindingStill, MappingStill, PositionStill, ContentsStill
     DEF IInv, TypeOK
<1>4. CASE clash
  <2>1. End(e) /\ UNCHANGED row
    BY <1>4 DEF CorrectLocally
  <2> QED
    BY <1>1, <1>2, <1>3, <2>1, RowsStill, CallEnds, StepOf, StepKeeps DEF End
<1>5. CASE ~clash
  <2>1. row' = [row EXCEPT ![e] = rewritten] /\ Step(e, [step |-> "request", objects |-> asked])
    BY <1>5 DEF CorrectLocally
  <2>2. ASSUME NEW l \in LocalId
        PROVE  \/ rewritten[l] = row[e][l]
               \/ rewritten[l] = None
               \/ /\ rewritten[l] \in Pair /\ rewritten[l].object \in Existing
                  /\ rewritten[l].revision = 0
    <3>1. CASE l \notin DOMAIN entries
      BY <3>1
    <3>2. CASE l \in DOMAIN entries /\ entries[l] = None
      BY <3>2
    <3>3. CASE l \in DOMAIN entries /\ entries[l] # None
      <4>1. entries[l] \in Existing /\ entries[l] \in Object
        BY <1>1, <3>3, EntriesOf DEF Existing
      <4>2. rewritten[l] = [object |-> entries[l], revision |-> 0]
        BY <3>3
      <4> HIDE DEF rewritten, entries
      <4> QED
        BY <4>1, <4>2, Names DEF Pair
    <3> QED
      BY <3>1, <3>2, <3>3
  <2>3. rewritten \in [LocalId -> Pair \cup {None}]
    <3>1. rewritten = [l \in LocalId |-> rewritten[l]]
      OBVIOUS
    <3> HIDE DEF rewritten
    <3> QED
      BY <2>2, <3>1 DEF IInv, TypeOK
  <2>4. asked \subseteq Existing
    BY <1>1, EntriesOf
  <2> HIDE DEF rewritten, asked, entries
  <2>5. /\ row' \in [Endpoint -> [LocalId -> Pair \cup {None}]]
        /\ row'[e] = rewritten /\ \A d \in Endpoint : d # e => row'[d] = row[d]
    BY <2>1, <2>3 DEF IInv, TypeOK
  <2>6. ASSUME NEW d \in Endpoint, NEW l \in LocalId, row'[d][l] # None
        PROVE  /\ row'[d][l].revision <= Len(history[row'[d][l].object])
               /\ row'[d][l].object \in Existing
    <3>1. CASE d # e \/ rewritten[l] = row[e][l]
      BY <2>5, <2>6, <3>1, PairOf DEF Bound
    <3>2. CASE d = e /\ rewritten[l] \in Pair /\ rewritten[l].object \in Existing
               /\ rewritten[l].revision = 0
      <4>1. Len(history[rewritten[l].object]) \in Nat
        BY <3>2 DEF IInv, HistoryOK, Existing
      <4> QED
        BY <2>5, <3>2, <4>1
    <3> QED
      BY <2>2, <2>5, <2>6, <3>1, <3>2
  <2>7. BasesExist' /\ RowsExist'
    BY <1>1, <2>6 DEF BasesExist, RowsExist, Existing, Bound, objects
  <2>8. CallOK(e)'
    <3>1. calls'[e] = [step |-> "request", objects |-> asked]
      BY <2>1, StepOf
    <3>2. calls'[e].step = "request" /\ calls'[e].objects = asked
      BY <3>1
    <3> QED
      BY <1>1, <2>4, <3>2 DEF CallOK, Existing, objects
  <2> QED
    BY <1>1, <1>2, <1>3, <2>1, <2>5, <2>7, <2>8, StepOf, StepKeeps
<1> QED
  BY <1>4, <1>5

LEMMA CorrectRequestsTypes ==
  ASSUME IInv, NEW e \in Endpoint, CorrectRequests(e)
  PROVE  IInv'
<1> DEFINE asked == calls[e].objects
           o == Min(asked)
           frames == <<Frame(e, o, history[o], changed[o])>>
           k == [calls[e] EXCEPT !.objects = @ \ {o}]
<1>1. /\ At(e, "request") /\ UNCHANGED objects /\ UNCHANGED mapping /\ UNCHANGED connected
      /\ UNCHANGED <<store, minted>> /\ UNCHANGED binding /\ UNCHANGED edited
  BY DEF CorrectRequests, router, bounds
<1>2. Grown
  BY <1>1, Still DEF IInv
<1>3. BindingOK' /\ MappingOK'
  BY <1>1, <1>2, BindingStill, MappingStill
<1>4. CASE asked = {}
  <2>1. End(e) /\ UNCHANGED live
    BY <1>4 DEF CorrectRequests
  <2>2. StreamOK'
    BY <1>1, <1>2, <2>1, StreamGrows DEF IInv, stream
  <2> QED
    BY <1>1, <1>2, <1>3, <2>1, <2>2, CallEnds, StepOf, StoreStill DEF End
<1>5. CASE asked # {}
  <2>1. Publish(frames) /\ Step(e, k)
    BY <1>5 DEF CorrectRequests
  <2>2. asked \subseteq Existing
    BY <1>1, CallAt
  <2>3. o \in asked /\ o \in Object /\ history[o] # <<>>
    BY <1>5, <2>2, MinOf, Names DEF Existing
  <2> HIDE DEF o
  <2>4. /\ Len(history[o]) \in DOMAIN history[o]
        /\ Last(history[o]) = history[o][Len(history[o])] /\ changed[o] \in 0..seq
    BY <2>3, LastOf DEF IInv, HistoryOK
  <2>5. ASSUME NEW f, f = Frame(e, o, history[o], changed[o]) PROVE LiveFrame(f)'
    <3>1. LiveFrame(f)
      BY <2>3, <2>4, <2>5, LocalNameOf DEF LiveFrame, Faithful, Had, Frame
    <3> QED
      BY <1>2, <3>1, LiveFrameGrows DEF IInv
  <2>6. frames = [i \in 1..1 |-> frames[i]] /\ frames[1] = Frame(e, o, history[o], changed[o])
    OBVIOUS
  <2> HIDE DEF frames
  <2>7. StreamOK'
    <3>1. \A i \in 1..1 : \A f : f = frames[i] => LiveFrame(f)'
      BY <2>5, <2>6
    <3> QED
      BY <1>1, <1>2, <2>1, <2>6, <3>1, PublishOK DEF IInv
  <2>8. CallOK(e)'
    <3>1. calls'[e] = k
      BY <2>1, StepOf
    <3>2. calls'[e].step = "request" /\ calls'[e].objects = asked \ {o}
      BY <1>1, <3>1 DEF At
    <3> QED
      BY <1>1, <2>2, <3>2 DEF CallOK, Existing, objects
  <2> QED
    BY <1>1, <1>2, <1>3, <2>1, <2>7, <2>8, StepOf, StoreStill
<1> QED
  BY <1>4, <1>5

\* What a user types in is content of its own.
LEMMA TypedIn ==
  ASSUME IInv, NEW l \in LocalId, Edit, content' = [content EXCEPT ![l] = edited + 1]
  PROVE  /\ content' \in [LocalId -> Content' \cup {None}]
         /\ \A k \in LocalId : content[k] # None => content'[k] # None
<1>1. /\ edited \in Nat /\ edited' = edited + 1 /\ Content \subseteq Content'
      /\ edited + 1 \in Content' /\ edited + 1 \in Nat
  BY DEF IInv, HistoryOK, Edit, Content
<1>2. content \in [LocalId -> Content \cup {None}]
  BY DEF IInv, TypeOK, Content
<1> QED
  BY <1>1, <1>2, Names

LEMMA AddRecordTypes == ASSUME IInv, AddRecord PROVE IInv'
<1>1. /\ minted < MaxRecords /\ minted' = minted + 1 /\ Edit /\ UNCHANGED objects
      /\ content' = [content EXCEPT ![minted + 1] = edited + 1]
      /\ UNCHANGED mapping /\ UNCHANGED stream /\ UNCHANGED row /\ UNCHANGED position
      /\ UNCHANGED binding /\ UNCHANGED calls
  BY DEF AddRecord, router
<1>2. minted + 1 \in LocalId /\ minted' \in 0..MaxRecords
  BY <1>1, Names DEF LocalId, IInv, TypeOK
<1>3. Grown
  BY <1>1, EditGrows DEF IInv
<1>4. /\ StreamOK' /\ BindingOK' /\ MappingOK' /\ position' \in 0..seq'
      /\ BasesExist' /\ RowsExist' /\ row' \in [Endpoint -> [LocalId -> Pair \cup {None}]]
  BY <1>1, <1>3, StreamGrows, BindingStill, MappingStill, PositionStill, RowsStill DEF IInv
<1>5. calls' = [e \in Endpoint |-> calls'[e]]
  BY <1>1 DEF IInv, CallsOK
<1> QED
  BY <1>1, <1>2, <1>3, <1>4, <1>5, TypedIn, StepKeeps

LEMMA EditRecordTypes ==
  ASSUME IInv, NEW l \in LocalId, EditRecord(l)
  PROVE  IInv'
<1>1. /\ Edit /\ UNCHANGED objects /\ content' = [content EXCEPT ![l] = edited + 1]
      /\ UNCHANGED mapping /\ UNCHANGED stream /\ UNCHANGED row /\ UNCHANGED position
      /\ UNCHANGED minted /\ UNCHANGED binding /\ UNCHANGED calls
  BY DEF EditRecord, router, process
<1>2. Grown
  BY <1>1, EditGrows DEF IInv
<1>3. /\ StreamOK' /\ BindingOK' /\ MappingOK' /\ position' \in 0..seq'
      /\ BasesExist' /\ RowsExist' /\ row' \in [Endpoint -> [LocalId -> Pair \cup {None}]]
  BY <1>1, <1>2, StreamGrows, BindingStill, MappingStill, PositionStill, RowsStill DEF IInv
<1>4. calls' = [e \in Endpoint |-> calls'[e]] /\ minted' \in 0..MaxRecords
  BY <1>1 DEF IInv, CallsOK, TypeOK
<1> QED
  BY <1>1, <1>2, <1>3, <1>4, TypedIn, StepKeeps

LEMMA FaultTypes == ASSUME IInv, Disconnect \/ Crash PROVE IInv'
<1>1. /\ Drop /\ binding' = None /\ UNCHANGED objects /\ UNCHANGED mapping
      /\ UNCHANGED <<store, minted>> /\ UNCHANGED edited
      /\ \/ UNCHANGED calls
         \/ calls' = [e \in Endpoint |-> None]
  BY DEF Disconnect, Crash, router
<1>2. Grown
  BY <1>1, Still DEF IInv
<1>3. StreamOK' /\ BindingOK' /\ MappingOK'
  BY <1>1, <1>2, DropOK, MappingStill DEF BindingOK
<1>4. /\ calls' = [e \in Endpoint |-> calls'[e]]
      /\ \A e \in Endpoint : calls'[e] = calls[e] \/ CallOK(e)'
  BY <1>1 DEF IInv, CallsOK, CallOK
<1> QED
  BY <1>1, <1>2, <1>3, <1>4, StoreStill

LEMMA InitTypes == Init => IInv
<1> SUFFICES ASSUME Init PROVE IInv
  OBVIOUS
<1>1. \A o \in Object : o <= Shared =>
        [content |-> o, by |-> Other] \in Revision
  BY Names DEF Init, Revision, Content, Object
<1>2. ASSUME NEW o \in Object
      PROVE  history[o] \in Seq(Revision) /\ Len(history[o]) <= MaxRevision
  <2>1. CASE o <= Shared
    <3>1. history[o] = <<[content |-> o, by |-> Other]>>
      BY <2>1 DEF Init
    <3>2. Len(history[o]) = 1 /\ history[o] \in Seq(Revision)
      BY <1>1, <2>1, <3>1
    <3> QED
      BY <3>2, Names
  <2>2. CASE ~(o <= Shared)
    <3>1. history[o] = <<>>
      BY <2>2 DEF Init
    <3> QED
      BY <3>1, Names
  <2> QED
    BY <2>1, <2>2
<1>3. changed \in [Object -> 0..seq] /\ edited \in Nat /\ seq \in Nat
  BY Names DEF Init, Object
<1>4. history = [o \in Object |-> history[o]]
  BY DEF Init
<1>5. HistoryOK
  BY <1>2, <1>3, <1>4 DEF HistoryOK
<1>6. StreamOK
  <2>1. live = <<>> /\ connected = FALSE
    BY DEF Init
  <2>2. /\ live = [i \in 1..Len(live) |-> live[i]] /\ Len(live) = 0
        /\ ~\E i \in 1..Len(live) : TRUE
    BY <2>1
  <2>3. connected \in BOOLEAN /\ Len(live) \in Nat
    BY <2>1, <2>2
  <2> QED
    BY <2>2, <2>3, Zenon DEF StreamOK
<1>7. TypeOK /\ MappingOK
  BY Names DEF Init, TypeOK, MappingOK
<1>8. BasesExist /\ RowsExist /\ BindingOK /\ CallsOK
  BY DEF Init, BasesExist, RowsExist, Bound, BindingOK, CallsOK, CallOK
<1> QED
  BY <1>5, <1>6, <1>7, <1>8 DEF IInv

LEMMA StutterTypes == ASSUME IInv, UNCHANGED vars PROVE IInv'
<1>1. /\ UNCHANGED objects /\ UNCHANGED mapping /\ UNCHANGED stream /\ UNCHANGED <<store, minted>>
      /\ UNCHANGED binding /\ UNCHANGED calls /\ UNCHANGED edited
  BY DEF vars, router, process, bounds
<1>2. Grown
  BY <1>1, Still DEF IInv
<1>3. StreamOK' /\ BindingOK' /\ MappingOK' /\ calls' = [e \in Endpoint |-> calls'[e]]
  BY <1>1, <1>2, StreamGrows, BindingStill, MappingStill DEF IInv, CallsOK
<1> QED
  BY <1>1, <1>2, <1>3, StoreStill

LEMMA NextTypes == ASSUME IInv, [Next]_vars PROVE IInv'
<1>1. CASE \E o \in Object : OtherWrite(o)
  BY <1>1, OtherWriteTypes
<1>2. CASE Connect
  BY <1>2, ConnectTypes
<1>3. CASE Receive
  BY <1>3, ReceiveObjectTypes, ReceiveCaughtUpTypes, BindTypes DEF Receive
<1>4. ASSUME NEW e \in Endpoint, Send(e) PROVE IInv'
  BY <1>4, SendReadTypes, SiblingReadTypes, SiblingBindTypes, SiblingStoreTypes,
     SendRefusedTypes, SendCreatesTypes, SendKeptTypes, SendRevisesTypes, SendApplyTypes DEF Send
<1>5. ASSUME NEW e \in Endpoint, Correct(e) PROVE IInv'
  BY <1>5, CorrectAtAgrirouterTypes, CorrectLocallyTypes, CorrectRequestsTypes DEF Correct
<1>6. ASSUME NEW e \in Endpoint, User(e) PROVE IInv'
  BY <1>6, BeginSendTypes, BeginCorrectionTypes DEF User
<1>7. CASE AddRecord \/ \E l \in LocalId : EditRecord(l)
  BY <1>7, AddRecordTypes, EditRecordTypes
<1>8. CASE Disconnect \/ Crash
  BY <1>8, FaultTypes
<1>9. CASE UNCHANGED vars
  BY <1>9, StutterTypes
<1> QED
  BY <1>1, <1>2, <1>3, <1>4, <1>5, <1>6, <1>7, <1>8, <1>9 DEF Next

LEMMA TypesAndBases == Spec => []IInv
<1>1. Init => IInv
  BY InitTypes
<1>2. IInv /\ [Next]_vars => IInv'
  BY NextTypes
<1> QED
  BY <1>1, <1>2, PTL DEF Spec

\* Every variable has its type, whatever the endpoints, the objects and the
\* number of writes, corrections and faults.
THEOREM TypeCorrect == Spec => []TypeOK
<1>1. IInv => TypeOK
  BY DEF IInv
<1> QED
  BY <1>1, TypesAndBases, PTL

\* The revision a pair is at is one its object has had: no send, binding taken
\* over from a sibling, correction, late frame or restart leaves a base that
\* agrirouter never gave out for that object (ssot.go counts each object's
\* revisions, store.go keeps the base).
THEOREM BasesAreRevisions == Spec => []BasesExist
<1>1. IInv => BasesExist
  BY DEF IInv
<1> QED
  BY <1>1, TypesAndBases, PTL

----------------------------------------------------------------------------
(* Pairs while no user adds or corrects: what a step may do to them *)

\* No pair goes, and none changes its object.
RowsKept ==
  \A e \in Endpoint, l \in LocalId :
    Bound(e, l) => row'[e][l] # None /\ row'[e][l].object = row[e][l].object

\* No identifier goes, and none changes its object.
MappingKept ==
  \A e \in Endpoint, l \in LocalId : mapping[e][l] # None => mapping'[e][l] = mapping[e][l]

LEMMA KnownKept ==
  ASSUME RowsKept, NEW l \in LocalId, NEW o, Known(l, o)
  PROVE  Known(l, o)'
BY DEF RowsKept, Known, Bound

LEMMA NamedKept ==
  ASSUME IInv, MappingKept, NEW f, Faithful(f), Named(f)
  PROVE  Named(f)'
BY Names DEF MappingKept, Named, Faithful

LEMMA CallKnownKept ==
  ASSUME IInv, RowsKept, MappingKept, NEW e \in Endpoint, CallIsKnown(e), calls'[e] = calls[e]
  PROVE  CallIsKnown(e)'
<1> DEFINE k == calls[e]
<1>0. CallOK(e)
  BY DEF IInv, CallsOK
<1>1. CASE k = None
  BY <1>1 DEF CallIsKnown
<1>2. CASE /\ k # None
           /\ k.step \in {"read", "sibling", "bind", "pair", "put"} /\ SendingIsKnown(e, k)
  <2>1. SendingOK(k)
    BY <1>0, <1>2, CallAt DEF At, CallOK, SendingOK
  <2>2. k.local \in LocalId
    BY <2>1 DEF SendingOK, Sending
  <2>3. calls'[e] = k
    OBVIOUS
  <2>4. k.object # None => /\ k.base > 0
                           /\ \E d \in Endpoint : row'[d][k.local] # None
                                                  /\ row'[d][k.local].object = k.object
    BY <1>2, <2>2 DEF SendingIsKnown, Known, Bound, RowsKept
  <2>5. k.step = "sibling" => \E d \in Endpoint \ {e} : row'[d][k.local] # None
    BY <1>2, <2>2 DEF SendingIsKnown, Bound, RowsKept
  <2>6. k.step = "put" => k.object # None
    BY <1>2 DEF SendingIsKnown
  <2>7. k.step = "pair" => mapping'[e][k.local] = k.object
    <3>1. k.step = "pair" => mapping[e][k.local] = k.object /\ k.object # None
      BY <1>2, <2>1 DEF SendingIsKnown, SendingOK
    <3> QED
      BY <2>2, <3>1 DEF MappingKept
  <2> HIDE DEF k
  <2>8. SendingIsKnown(e, calls[e])'
    BY <2>3, <2>4, <2>5, <2>6, <2>7 DEF SendingIsKnown, Known, Bound
  <2> QED
    BY <1>2, <2>3, <2>8 DEF CallIsKnown
<1>3. CASE k # None /\ k.step = "apply" /\ Named(k.frame)
  <2>1. Faithful(k.frame)
    BY <1>0, <1>3 DEF CallOK, SendingOK, Sending
  <2>2. \A f : f = k.frame => Named(f)'
    BY <1>3, <2>1, NamedKept
  <2> QED
    BY <1>3, <2>2 DEF CallIsKnown
<1> QED
  BY <1>1, <1>2, <1>3 DEF CallIsKnown, CallsAreKnown

LEMMA PairsKeep ==
  ASSUME IInv, PairsInv, RowsKept, MappingKept, OneToOne', RecordsAreKnown',
         \A e \in Endpoint, l \in LocalId :
           mapping'[e][l] # mapping[e][l] => Known(l, mapping'[e][l]),
         FramesAreNamed', BindingIsKnown',
         \A e \in Endpoint : calls'[e] = calls[e] \/ CallIsKnown(e)'
  PROVE  PairsInv'
<1>1. CallsAreKnown'
  BY CallKnownKept DEF PairsInv, CallsAreKnown
<1>2. ASSUME NEW e \in Endpoint, NEW l \in LocalId, mapping'[e][l] # None
      PROVE  \E d \in Endpoint : row'[d][l] # None /\ row'[d][l].object = mapping'[e][l]
  <2>1. Known(l, mapping'[e][l])
    BY <1>2 DEF PairsInv, MappingIsKnown
  <2> QED
    BY <2>1 DEF Known, Bound, RowsKept
<1>3. MappingIsKnown'
  BY <1>2 DEF MappingIsKnown, Known, Bound
<1> QED
  BY <1>1, <1>3 DEF PairsInv

\* A step that leaves rows and identifiers alone.
LEMMA PairsStill ==
  ASSUME IInv, PairsInv, UNCHANGED <<row, mapping>>, RecordsAreKnown',
         FramesAreNamed', BindingIsKnown',
         \A e \in Endpoint : calls'[e] = calls[e] \/ CallIsKnown(e)'
  PROVE  PairsInv'
<1>1. RowsKept /\ MappingKept /\ OneToOne'
  BY DEF RowsKept, MappingKept, Bound, PairsInv, OneToOne, Known
<1> QED
  BY <1>1, PairsKeep

\* A record's pair with an object that some endpoint has for it.
LEMMA WriteKnown ==
  ASSUME IInv, PairsInv, NEW e \in Endpoint, NEW l \in LocalId, NEW o \in Object,
         NEW n \in 0..MaxRevision, Known(l, o),
         row' = [row EXCEPT ![e][l] = [object |-> o, revision |-> n]]
  PROVE  RowsKept /\ OneToOne'
<1> DEFINE p == [object |-> o, revision |-> n]
<1>1. /\ row'[e][l] = p
      /\ \A d \in Endpoint, k \in LocalId : d # e \/ k # l => row'[d][k] = row[d][k]
  BY DEF IInv, TypeOK
<1>2. p.object = o
  OBVIOUS
<1>3. ASSUME NEW d \in Endpoint, NEW k \in LocalId, Bound(d, k)
      PROVE  row'[d][k] # None /\ row'[d][k].object = row[d][k].object
  <2>1. CASE d = e /\ k = l
    <3>1. Known(l, row[e][l].object) /\ row[e][l].object \in Object /\ row[e][l].object # None
      BY <1>3, <2>1, PairOf DEF Known
    <3>2. row[e][l].object = o
      BY <3>1 DEF PairsInv, OneToOne
    <3>3. p # None
      BY PairType
    <3> QED
      BY <1>1, <1>2, <2>1, <3>2, <3>3
  <2>2. CASE d # e \/ k # l
    BY <1>1, <1>3, <2>2 DEF Bound
  <2> QED
    BY <2>1, <2>2
<1>4. RowsKept
  BY <1>3 DEF RowsKept
<1>5. ASSUME NEW k \in LocalId, NEW q, Known(k, q)'
      PROVE  Known(k, q)
  <2>1. PICK d \in Endpoint : row'[d][k] # None /\ row'[d][k].object = q
    BY <1>5 DEF Known, Bound
  <2>2. CASE d = e /\ k = l
    BY <1>1, <1>2, <2>1, <2>2
  <2>3. CASE d # e \/ k # l
    BY <1>1, <2>1, <2>3 DEF Known, Bound
  <2> QED
    BY <2>2, <2>3
<1> QED
  BY <1>4, <1>5 DEF OneToOne, PairsInv

\* A new record's pair with an object no endpoint has.
LEMMA WriteFresh ==
  ASSUME IInv, PairsInv, NEW e \in Endpoint, NEW l \in LocalId, NEW o \in Object,
         NEW n \in 0..MaxRevision,
         \A k \in LocalId : ~Known(k, o), \A d \in Endpoint : ~Bound(d, l),
         row' = [row EXCEPT ![e][l] = [object |-> o, revision |-> n]]
  PROVE  RowsKept /\ OneToOne'
<1> DEFINE p == [object |-> o, revision |-> n]
<1>1. /\ row'[e][l] = p
      /\ \A d \in Endpoint, k \in LocalId : d # e \/ k # l => row'[d][k] = row[d][k]
  BY DEF IInv, TypeOK
<1>2. p.object = o
  OBVIOUS
<1> HIDE DEF p
<1>3. RowsKept
  BY <1>1 DEF RowsKept, Bound
<1>4. ASSUME NEW k \in LocalId, NEW q, Known(k, q)'
      PROVE  (k = l /\ q = o) \/ (k # l /\ Known(k, q))
  <2>1. PICK d \in Endpoint : row'[d][k] # None /\ row'[d][k].object = q
    BY <1>4 DEF Known, Bound
  <2>2. CASE d = e /\ k = l
    BY <1>1, <1>2, <2>1, <2>2
  <2>3. CASE k # l
    BY <1>1, <2>1, <2>3 DEF Known, Bound
  <2>4. CASE d # e /\ k = l
    BY <1>1, <2>1, <2>4 DEF Bound
  <2> QED
    BY <2>2, <2>3, <2>4
<1>5. OneToOne'
  <2> SUFFICES ASSUME NEW k \in LocalId, NEW j \in LocalId, NEW q \in Object, NEW r \in Object,
                      Known(k, q)', Known(j, r)'
               PROVE  k = j <=> q = r
    BY DEF OneToOne
  <2>1. (k = l /\ q = o) \/ (k # l /\ Known(k, q))
    BY <1>4
  <2>2. (j = l /\ r = o) \/ (j # l /\ Known(j, r))
    BY <1>4
  <2> QED
    BY <2>1, <2>2 DEF PairsInv, OneToOne
<1> QED
  BY <1>3, <1>5

\* Records and pairs after one pair has been written.
LEMMA RecordsKept ==
  ASSUME IInv, PairsInv, RowsKept, NEW e \in Endpoint, NEW l \in LocalId, NEW o \in Object,
         NEW n \in 0..MaxRevision, n > 0,
         row' = [row EXCEPT ![e][l] = [object |-> o, revision |-> n]],
         \A k \in LocalId : k # l => content'[k] = content[k],
         content'[l] # None, l <= minted', minted <= minted', minted' \in Nat
  PROVE  RecordsAreKnown'
<1> DEFINE p == [object |-> o, revision |-> n]
<1>1. /\ row'[e][l] = p
      /\ \A d \in Endpoint, k \in LocalId : d # e \/ k # l => row'[d][k] = row[d][k]
  BY DEF IInv, TypeOK
<1>2. p.object = o /\ p.revision = n /\ p # None
  BY PairType
<1> HIDE DEF p
<1>3. ASSUME NEW k \in LocalId, content'[k] # None
      PROVE  \E q \in Object : Known(k, q)'
  <2>1. CASE k = l
    BY <1>1, <1>2, <2>1 DEF Known, Bound
  <2>2. CASE k # l
    BY <1>3, <2>2, KnownKept DEF PairsInv, RecordsAreKnown
  <2> QED
    BY <2>1, <2>2
<1>4. ASSUME NEW d \in Endpoint, NEW k \in LocalId, row'[d][k] # None
      PROVE  k <= minted' /\ content'[k] # None /\ row'[d][k].revision > 0
  <2>1. CASE d = e /\ k = l
    BY <1>1, <1>2, <2>1
  <2>2. CASE d # e \/ k # l
    <3>1. row'[d][k] = row[d][k] /\ Bound(d, k)
      BY <1>1, <1>4, <2>2 DEF Bound
    <3>2. k <= minted /\ content[k] # None /\ row[d][k].revision > 0
      BY <3>1 DEF PairsInv, RecordsAreKnown
    <3>3. k \in Nat /\ minted \in Nat
      BY Names DEF IInv, TypeOK
    <3>4. k <= minted'
      BY <3>2, <3>3
    <3>5. content'[k] # None
      BY <3>2
    <3> QED
      BY <3>1, <3>2, <3>4, <3>5
  <2> QED
    BY <2>1, <2>2
<1> QED
  BY <1>3, <1>4 DEF RecordsAreKnown, Bound

\* Only what is bound holds an object, and a bound record is not a new one.
LEMMA FreshRecord ==
  ASSUME IInv, PairsInv, minted < MaxRecords
  PROVE  /\ minted + 1 \in LocalId
         /\ \A d \in Endpoint : ~Bound(d, minted + 1)
         /\ content[minted + 1] = None
<1>1. minted \in Nat /\ minted + 1 \in LocalId
  BY Names DEF IInv, TypeOK, LocalId
<1>2. ASSUME NEW d \in Endpoint, Bound(d, minted + 1) PROVE FALSE
  BY <1>1, <1>2 DEF PairsInv, RecordsAreKnown
<1>3. content[minted + 1] = None
  BY <1>1, <1>2 DEF PairsInv, RecordsAreKnown, Known
<1> QED
  BY <1>1, <1>2, <1>3

LEMMA ResolvesToKnown ==
  ASSUME IInv, PairsInv, NEW f, Faithful(f), Named(f)
  PROVE  /\ RecordOf(f) # None => RecordOf(f) \in LocalId /\ Known(RecordOf(f), f.object)
         /\ RecordOf(f) = None => \A k \in LocalId : ~Known(k, f.object)
         /\ Joined(f) => ~Superseded(RecordOf(f), f)
         /\ ~Joined(f) /\ RecordOf(f) # None =>
              Bound(f.to, RecordOf(f)) \/ mapping[f.to][RecordOf(f)] = f.object
<1>0. f.to \in Endpoint /\ f.object \in Object /\ f.local \in LocalId \cup {None}
      /\ f.object # None
  BY Names DEF Faithful
<1>1. ASSUME NEW k \in LocalId, Known(k, f.object)
      PROVE  k \in Holders(f.to, f.object) \/ k \in SiblingHolders(f.to, f.object)
  BY <1>1 DEF Known, Holders, SiblingHolders
<1>2. \A k \in Holders(f.to, f.object) \cup SiblingHolders(f.to, f.object) :
        k \in LocalId /\ Known(k, f.object)
  BY <1>0 DEF Known, Holders, SiblingHolders
<1>3. f.local # None =>
        f.local \in LocalId /\ mapping[f.to][f.local] = f.object /\ Known(f.local, f.object)
  BY <1>0 DEF Named, PairsInv, MappingIsKnown
<1>4. CASE Holders(f.to, f.object) # {}
  <2>1. RecordOf(f) \in Holders(f.to, f.object)
    BY <1>0, <1>4, RecordOfType
  <2> QED
    BY <1>2, <1>4, <2>1, Names DEF Joined, Holders
<1>5. CASE Holders(f.to, f.object) = {} /\ f.local # None
  <2>1. RecordOf(f) = f.local
    BY <1>5 DEF RecordOf
  <2> QED
    BY <1>3, <1>5, <2>1 DEF Joined
<1>6. CASE Holders(f.to, f.object) = {} /\ f.local = None /\ RecordOf(f) # None
  <2>1. RecordOf(f) \in SiblingHolders(f.to, f.object)
    BY <1>0, <1>6, RecordOfType DEF Joined
  <2>2. RecordOf(f) \in LocalId /\ Known(RecordOf(f), f.object)
    BY <1>2, <2>1
  <2>3. ~Bound(f.to, RecordOf(f))
    <3>1. SUFFICES ASSUME Bound(f.to, RecordOf(f)) PROVE FALSE
      OBVIOUS
    <3>2. /\ row[f.to][RecordOf(f)].object \in Object
          /\ Known(RecordOf(f), row[f.to][RecordOf(f)].object)
      BY <1>0, <2>2, <3>1, PairOf DEF Known
    <3>3. row[f.to][RecordOf(f)].object = f.object
      BY <1>0, <2>2, <3>2 DEF PairsInv, OneToOne
    <3> QED
      BY <1>6, <2>2, <3>1, <3>3 DEF Holders
  <2> QED
    BY <1>6, <2>2, <2>3 DEF Superseded, Joined
<1>7. CASE Holders(f.to, f.object) = {} /\ f.local = None /\ RecordOf(f) = None
  <2>1. SiblingHolders(f.to, f.object) = {}
    BY <1>0, <1>7, RecordOfType
  <2> QED
    BY <1>1, <1>7, <2>1 DEF Joined
<1> QED
  BY <1>4, <1>5, <1>6, <1>7

LEMMA FaithfulRevision ==
  ASSUME IInv, NEW f, Faithful(f)
  PROVE  /\ f.to \in Endpoint /\ f.object \in Object /\ f.local \in LocalId \cup {None}
         /\ f.revision \in 0..MaxRevision /\ f.revision > 0 /\ f.content \in Content
         /\ f.content # None /\ f.content \in Nat
<1>1. /\ f.object \in Object /\ f.to \in Endpoint /\ f.local \in LocalId \cup {None}
      /\ history[f.object] \in Seq(Revision) /\ Len(history[f.object]) <= MaxRevision
      /\ f.revision \in DOMAIN history[f.object]
      /\ f.content = history[f.object][f.revision].content
  BY DEF Faithful, Had, IInv, HistoryOK
<1>2. Len(history[f.object]) \in Nat /\ f.revision \in 1..Len(history[f.object])
  BY <1>1
<1>3. history[f.object][f.revision] \in Revision
  BY <1>1
<1>4. Content \subseteq Nat
  BY DEF Content, IInv, HistoryOK
<1>5. f.revision \in 0..MaxRevision /\ f.revision > 0
  BY <1>1, <1>2, Names
<1>6. f.content \in Content
  BY <1>1, <1>3 DEF Revision
<1> QED
  BY <1>1, <1>4, <1>5, <1>6, Names

\* Whatever is applied, object and record keep to each other.
LEMMA ApplyPairs ==
  ASSUME IInv, PairsInv, NEW f, Faithful(f), Named(f), Apply(f), minted' \in 0..MaxRecords,
         UNCHANGED <<objects, edited>>
  PROVE  /\ RowsKept /\ OneToOne' /\ RecordsAreKnown'
         /\ \A e \in Endpoint, k \in LocalId :
              \/ row'[e][k] = row[e][k]
              \/ /\ e = f.to /\ row'[e][k] = [object |-> f.object, revision |-> f.revision]
                 /\ k = (IF RecordOf(f) = None THEN minted + 1 ELSE RecordOf(f))
         /\ RecordOf(f) = None =>
              row'[f.to][minted + 1] = [object |-> f.object, revision |-> f.revision]
         /\ Joined(f) => row'[f.to][RecordOf(f)] =
                           [object |-> f.object, revision |-> f.revision]
<1>1. /\ f.to \in Endpoint /\ f.object \in Object /\ f.local \in LocalId \cup {None}
      /\ f.revision \in 0..MaxRevision /\ f.revision > 0
      /\ f.content # None
  BY FaithfulRevision
<1>2. minted \in Nat /\ minted' \in Nat
  BY Names DEF IInv, TypeOK
<1>3. CASE RecordOf(f) # None /\ Superseded(RecordOf(f), f)
  <2>1. UNCHANGED <<content, row, minted>>
    BY <1>3 DEF Apply
  <2>2. ~Joined(f)
    BY <1>3, ResolvesToKnown
  <2> QED
    BY <1>3, <2>1, <2>2
       DEF RowsKept, Bound, PairsInv, OneToOne, RecordsAreKnown, Known
<1>4. CASE RecordOf(f) # None /\ ~Superseded(RecordOf(f), f)
  <2> DEFINE l == RecordOf(f)
  <2>1. l \in LocalId /\ Known(l, f.object)
    BY <1>4, ResolvesToKnown
  <2>2. Write(l, f) /\ UNCHANGED minted
    BY <1>4 DEF Apply
  <2>3. /\ row'[f.to][l] = [object |-> f.object, revision |-> f.revision]
        /\ \A e \in Endpoint, k \in LocalId : e # f.to \/ k # l => row'[e][k] = row[e][k]
        /\ content'[l] = f.content /\ \A k \in LocalId : k # l => content'[k] = content[k]
    BY <2>1, <2>2, WriteKeeps
  <2>4. row' = [row EXCEPT ![f.to][l] = [object |-> f.object, revision |-> f.revision]]
    BY <2>2 DEF Write
  <2>5. l <= minted
    <3>1. PICK d \in Endpoint : Bound(d, l)
      BY <2>1 DEF Known
    <3> QED
      BY <2>1, <3>1 DEF PairsInv, RecordsAreKnown
  <2> HIDE DEF l
  <2>6. RowsKept /\ OneToOne'
    BY <1>1, <2>1, <2>4, WriteKnown
  <2>7. RecordsAreKnown'
    <3>1. l <= minted' /\ minted <= minted' /\ content'[l] # None
      BY <1>1, <1>2, <2>2, <2>3, <2>5
    <3> QED
      BY <1>1, <1>2, <2>1, <2>3, <2>4, <2>6, <3>1, RecordsKept
  <2> QED
    BY <1>4, <2>1, <2>3, <2>6, <2>7 DEF l
<1>5. CASE RecordOf(f) = None
  <2> DEFINE l == minted + 1
  <2>1. minted < MaxRecords /\ minted' = minted + 1 /\ Write(l, f)
    BY <1>5 DEF Apply
  <2>2. l \in LocalId /\ \A d \in Endpoint : ~Bound(d, l)
    BY <2>1, FreshRecord
  <2>3. /\ row'[f.to][l] = [object |-> f.object, revision |-> f.revision]
        /\ \A e \in Endpoint, k \in LocalId : e # f.to \/ k # l => row'[e][k] = row[e][k]
        /\ content'[l] = f.content /\ \A k \in LocalId : k # l => content'[k] = content[k]
    BY <2>1, <2>2, WriteKeeps
  <2>4. row' = [row EXCEPT ![f.to][l] = [object |-> f.object, revision |-> f.revision]]
    BY <2>1 DEF Write
  <2>5. l <= minted' /\ minted <= minted'
    BY <1>2, <2>1
  <2>6. \A k \in LocalId : ~Known(k, f.object)
    BY <1>5, ResolvesToKnown
  <2>7. ~Joined(f)
    BY <1>5 DEF Joined
  <2> HIDE DEF l
  <2>8. RowsKept /\ OneToOne'
    BY <1>1, <2>2, <2>4, <2>6, WriteFresh
  <2>9. RecordsAreKnown'
    BY <1>1, <1>2, <2>2, <2>3, <2>4, <2>5, <2>8, RecordsKept
  <2> QED
    BY <1>5, <2>2, <2>3, <2>7, <2>8, <2>9 DEF l
<1> QED
  BY <1>3, <1>4, <1>5

LEMMA FrameNamed ==
  ASSUME NEW e, NEW o, NEW revisions, NEW id
  PROVE  Named(Frame(e, o, revisions, id))
BY LocalNameOf DEF Named, Frame

LEMMA ReviseNamed ==
  ASSUME IInv, PairsInv, NEW o \in Object, NEW rev, Revise(o, rev), UNCHANGED mapping
  PROVE  FramesAreNamed'
<1>1. PICK order \in InOrder(Told(o, rev.by)) :
        Publish(FannedOut(order, Append(history[o], rev), seq + 1))
  BY DEF Revise
<1> DEFINE n == Cardinality(Told(o, rev.by))
           frames == FannedOut(order, Append(history[o], rev), seq + 1)
<1>2. n \in Nat /\ order \in [1..n -> Told(o, rev.by)]
  BY OrderOf, ToldOf
<1>3. frames = [i \in 1..n |-> frames[i]] /\ \A i \in 1..n : Named(frames[i])
  BY <1>2, FrameNamed DEF FannedOut
<1>4. Publish(frames)
  BY <1>1
<1> HIDE DEF n, frames
<1>5. \A i \in 1..Len(live') : \/ \E j \in 1..Len(live) : live'[i] = live[j]
                               \/ \E j \in 1..n : live'[i] = frames[j]
  BY <1>2, <1>3, <1>4, Published DEF IInv
<1> QED
  BY <1>3, <1>5 DEF PairsInv, FramesAreNamed, Named

----------------------------------------------------------------------------
(* One step per action: records, objects and the halves of their pairs *)

OneEach == IInv /\ PairsInv /\ HalvesOnTheWay

LEMMA RecordsStill ==
  ASSUME PairsInv, UNCHANGED <<row, content, minted>>
  PROVE  RecordsAreKnown'
BY DEF PairsInv, RecordsAreKnown, Known, Bound

LEMMA NamedStill ==
  ASSUME PairsInv, UNCHANGED <<live, mapping>>
  PROVE  FramesAreNamed'
BY DEF PairsInv, FramesAreNamed, Named

LEMMA NamedGrows ==
  ASSUME IInv, PairsInv, MappingKept, UNCHANGED live
  PROVE  FramesAreNamed'
<1>1. ASSUME NEW i \in 1..Len(live), live[i].event = "object"
      PROVE  \A f : f = live[i] => Named(f)'
  BY <1>1, NamedKept DEF PairsInv, FramesAreNamed, IInv, StreamOK, LiveFrame
<1> QED
  BY <1>1 DEF FramesAreNamed

LEMMA BindingKnownStill ==
  ASSUME IInv, PairsInv, RowsKept, UNCHANGED binding
  PROVE  BindingIsKnown'
<1>1. binding # None => binding.to \in Endpoint /\ binding.local \in LocalId
  BY DEF IInv, BindingOK, Owed
<1> QED
  BY <1>1 DEF PairsInv, BindingIsKnown, RowsKept, Bound

\* Halves stay where they are when nobody's row, identifier or owed binding moves.
LEMMA HalvesStill ==
  ASSUME HalvesOnTheWay, faults' = 0 => faults = 0, UNCHANGED <<row, mapping, binding>>,
         \A e \in Endpoint : calls'[e] = calls[e] \/ ~At(e, "pair")
  PROVE  HalvesOnTheWay'
<1> SUFFICES ASSUME faults' = 0, NEW e \in Endpoint, NEW l \in LocalId
             PROVE  /\ row'[e][l] # None =>
                         \/ mapping'[e][l] = row'[e][l].object
                         \/ binding' = [to |-> e, local |-> l, object |-> row'[e][l].object]
                    /\ mapping'[e][l] # None =>
                         \/ row'[e][l] # None
                         \/ calls'[e] # None /\ calls'[e].step = "pair" /\ calls'[e].local = l
  BY DEF HalvesOnTheWay, Bound, At
<1>1. faults = 0
  OBVIOUS
<1> QED
  BY <1>1 DEF HalvesOnTheWay, Bound, At

\* Another's write, an edit, a connection.
LEMMA ElsewhereOneEach ==
  ASSUME OneEach, IInv', UNCHANGED <<row, mapping, binding, calls, minted>>,
         faults' = 0 => faults = 0,
         RecordsAreKnown', FramesAreNamed'
  PROVE  PairsInv' /\ HalvesOnTheWay'
<1>1. RowsKept
  BY DEF RowsKept, Bound
<1> QED
  BY <1>1, PairsStill, BindingKnownStill, HalvesStill DEF OneEach

LEMMA OtherWriteOneEach ==
  ASSUME OneEach, IInv', NEW o \in Object, OtherWrite(o)
  PROVE  PairsInv' /\ HalvesOnTheWay'
<1>1. UNCHANGED <<row, mapping, binding, calls, minted>> /\ UNCHANGED content /\ faults' = faults
  BY DEF OtherWrite, store, process
<1>2. FramesAreNamed'
  BY <1>1, ReviseNamed DEF OtherWrite, OneEach
<1> QED
  BY <1>1, <1>2, RecordsStill, ElsewhereOneEach DEF OneEach

LEMMA CatchUpNamed ==
  ASSUME IInv, NEW from, NEW order \in InOrder(Missed(from)), live' = CatchUp(order),
         UNCHANGED mapping
  PROVE  FramesAreNamed'
<1> DEFINE n == Cardinality(Missed(from))
           frames == [i \in DOMAIN order |->
             LET o == order[i][1] IN Frame(Endpoints[order[i][2]], o, history[o], changed[o])]
<1>1. n \in Nat /\ order \in [1..n -> Missed(from)]
  BY OrderOf, MissedOf
<1>2. frames = [i \in 1..n |-> frames[i]] /\ \A i \in 1..n : Named(frames[i])
  BY <1>1, FrameNamed
<1>3. live' = frames \o <<CaughtUp(seq)>>
  BY DEF CatchUp
<1> HIDE DEF n, frames
<1>4. frames \in Seq({frames[i] : i \in 1..n}) /\ Len(frames) = n
  BY <1>1, <1>2
<1>5. /\ Len(live') = n + 1
      /\ live' = [i \in 1..n + 1 |-> IF i <= n THEN frames[i] ELSE CaughtUp(seq)]
  BY <1>1, <1>3, <1>4
<1>6. ASSUME NEW i \in 1..n + 1, live'[i].event = "object" PROVE Named(live[i])'
  <2>1. CASE i <= n
    <3>1. i \in 1..n /\ live'[i] = frames[i]
      BY <1>1, <1>5, <2>1
    <3> QED
      BY <1>2, <3>1 DEF Named
  <2>2. CASE i > n
    <3>1. live'[i] = CaughtUp(seq)
      BY <1>1, <1>5, <2>2
    <3> QED
      BY <1>6, <3>1 DEF CaughtUp
  <2> QED
    BY <1>1, <2>1, <2>2
<1> QED
  BY <1>5, <1>6 DEF FramesAreNamed

LEMMA ConnectOneEach ==
  ASSUME OneEach, IInv', Connect
  PROVE  PairsInv' /\ HalvesOnTheWay'
<1>1. UNCHANGED <<row, mapping, binding, calls, minted>> /\ UNCHANGED content /\ faults' = faults
  BY DEF Connect, router, store, process, bounds
<1>2. FramesAreNamed'
  BY <1>1, CatchUpNamed DEF Connect, OneEach
<1> QED
  BY <1>1, <1>2, RecordsStill, ElsewhereOneEach DEF OneEach

LEMMA EditRecordOneEach ==
  ASSUME OneEach, IInv', NEW l \in LocalId, EditRecord(l)
  PROVE  PairsInv' /\ HalvesOnTheWay'
<1>1. /\ UNCHANGED <<row, mapping, binding, calls, minted>> /\ UNCHANGED live /\ faults' = faults
      /\ content[l] # None /\ content' = [content EXCEPT ![l] = edited + 1]
  BY DEF EditRecord, router, stream, process
<1>2. \A k \in LocalId : content'[k] # None <=> content[k] # None
  BY <1>1, TypedIn DEF EditRecord, OneEach, IInv, TypeOK
<1>3. RecordsAreKnown'
  BY <1>1, <1>2 DEF OneEach, PairsInv, RecordsAreKnown, Known, Bound
<1> QED
  BY <1>1, <1>3, NamedStill, ElsewhereOneEach DEF OneEach

LEMMA TailNamed ==
  ASSUME IInv, PairsInv, live # <<>>, live' = Tail(live), UNCHANGED mapping
  PROVE  FramesAreNamed'
<1>1. live \in Seq({live[i] : i \in 1..Len(live)}) /\ Len(live) \in Nat
  BY DEF IInv, StreamOK
<1>2. /\ Len(Tail(live)) = Len(live) - 1
      /\ \A i \in 1..Len(Tail(live)) : Tail(live)[i] = live[i + 1]
  BY <1>1, HeadTailProperties
<1>3. ASSUME NEW i \in 1..Len(live') PROVE i + 1 \in 1..Len(live) /\ live'[i] = live[i + 1]
  BY <1>1, <1>2
<1> QED
  BY <1>3 DEF FramesAreNamed, Named, PairsInv

LEMMA ReceiveObjectOneEach ==
  ASSUME OneEach, IInv', ReceiveObject
  PROVE  PairsInv' /\ HalvesOnTheWay'
<1> DEFINE f == Head(live)
           l == RecordOf(f)
           pair == [object |-> f.object, revision |-> f.revision]
<1>0. Receiving("object")
  BY DEF ReceiveObject
<1>1. /\ IInv /\ PairsInv /\ HalvesOnTheWay
      /\ UNCHANGED objects /\ UNCHANGED edited /\ UNCHANGED mapping /\ UNCHANGED calls
      /\ binding = None /\ live # <<>> /\ live' = Tail(live) /\ faults' = faults /\ Apply(f)
  BY <1>0 DEF ReceiveObject, Receiving, router, bounds, OneEach
<1>2. f = live[1] /\ f.event = "object" /\ Faithful(f) /\ Named(f)
  <2>1. 1 \in 1..Len(live) /\ Head(live) = live[1] /\ LiveFrame(Head(live))
    BY <1>1, HeadOK DEF IInv
  <2> QED
    BY <1>0, <1>1, <2>1 DEF Receiving, LiveFrame, PairsInv, FramesAreNamed
<1>3. minted' \in 0..MaxRecords
  BY DEF IInv, TypeOK
<1>4. binding' = CASE l = None -> [to |-> f.to, local |-> minted + 1, object |-> f.object]
                   [] Joined(f) /\ ~Superseded(l, f) -> [to |-> f.to, local |-> l, object |-> f.object]
                   [] OTHER -> None
  BY DEF ReceiveObject
<1>5. FramesAreNamed'
  BY <1>1, TailNamed
<1> HIDE DEF f
<1>6. /\ RowsKept /\ OneToOne' /\ RecordsAreKnown'
      /\ \A e \in Endpoint, k \in LocalId :
           \/ row'[e][k] = row[e][k]
           \/ e = f.to /\ row'[e][k] = pair /\ k = (IF l = None THEN minted + 1 ELSE l)
      /\ l = None => row'[f.to][minted + 1] = pair
      /\ Joined(f) => row'[f.to][l] = pair
  BY <1>1, <1>2, <1>3, ApplyPairs DEF l, pair
<1>7. f.to \in Endpoint /\ f.object \in Object /\ pair \in Pair /\ pair.object = f.object
      /\ pair # None
  BY <1>1, <1>2, FaithfulRevision, PairType
<1>8. /\ Joined(f) => l # None /\ ~Superseded(l, f)
      /\ ~Joined(f) /\ l # None =>
           l \in LocalId /\ (Bound(f.to, l) \/ mapping[f.to][l] = f.object)
  BY <1>1, <1>2, ResolvesToKnown DEF Joined
<1> HIDE DEF l, pair
<1>9. \/ l = None /\ binding' = [to |-> f.to, local |-> minted + 1, object |-> f.object]
      \/ l # None /\ Joined(f) /\ binding' = [to |-> f.to, local |-> l, object |-> f.object]
      \/ l # None /\ ~Joined(f) /\ binding' = None
  BY <1>4, <1>8
<1>10. BindingIsKnown'
  BY <1>6, <1>7, <1>9 DEF BindingIsKnown, Bound
<1>11. PairsInv'
  <2>1. MappingKept
    BY <1>1 DEF MappingKept
  <2> QED
    BY <1>1, <1>5, <1>6, <1>10, <2>1, PairsKeep
<1>12. HalvesOnTheWay'
  <2> SUFFICES ASSUME faults' = 0, NEW e \in Endpoint, NEW k \in LocalId
               PROVE  /\ row'[e][k] # None =>
                           \/ mapping[e][k] = row'[e][k].object
                           \/ binding' = [to |-> e, local |-> k, object |-> row'[e][k].object]
                      /\ mapping[e][k] # None =>
                           \/ row'[e][k] # None
                           \/ calls[e] # None /\ calls[e].step = "pair" /\ calls[e].local = k
    BY <1>1 DEF HalvesOnTheWay, Bound, At
  <2>1. /\ Bound(e, k) => mapping[e][k] = row[e][k].object
        /\ mapping[e][k] # None =>
             Bound(e, k) \/ (calls[e] # None /\ calls[e].step = "pair" /\ calls[e].local = k)
    <3>1. Bound(e, k) => binding # [to |-> e, local |-> k, object |-> row[e][k].object]
      BY <1>1, PairOf, SiblingsAssumption DEF Owed
    <3> QED
      BY <1>1, <3>1 DEF HalvesOnTheWay, At
  <2>2. mapping[e][k] # None =>
             row'[e][k] # None \/ (calls[e] # None /\ calls[e].step = "pair" /\ calls[e].local = k)
    BY <1>6, <2>1 DEF RowsKept
  <2>3. CASE row'[e][k] = row[e][k]
    BY <2>1, <2>2, <2>3 DEF Bound
  <2>4. CASE e = f.to /\ row'[e][k] = pair /\ k = (IF l = None THEN minted + 1 ELSE l)
    <3>1. CASE l = None \/ Joined(f)
      BY <1>7, <1>8, <1>9, <2>2, <2>4, <3>1
    <3>2. CASE l # None /\ ~Joined(f)
      <4>1. CASE Bound(f.to, l)
        BY <1>6, <1>7, <2>1, <2>2, <2>4, <3>2, <4>1 DEF RowsKept
      <4>2. CASE mapping[f.to][l] = f.object
        BY <1>7, <2>2, <2>4, <3>2, <4>2
      <4> QED
        BY <1>8, <3>2, <4>1, <4>2
    <3> QED
      BY <3>1, <3>2
  <2> QED
    BY <1>6, <2>3, <2>4
<1> QED
  BY <1>11, <1>12

LEMMA ReceiveCaughtUpOneEach ==
  ASSUME OneEach, IInv', ReceiveCaughtUp
  PROVE  PairsInv' /\ HalvesOnTheWay'
<1>1. /\ UNCHANGED <<row, mapping, binding, calls, minted>> /\ UNCHANGED content
      /\ live # <<>> /\ live' = Tail(live) /\ faults' = faults
  BY DEF ReceiveCaughtUp, Receiving, router, bounds
<1> QED
  BY <1>1, TailNamed, RecordsStill, ElsewhereOneEach DEF OneEach

\* Agrirouter refuses no binding the platform asks for.
LEMMA AlwaysBindable ==
  ASSUME PairsInv, NEW e \in Endpoint, NEW l \in LocalId, NEW o \in Object, Known(l, o), IInv
  PROVE  Bindable(e, l, o)
<1>1. ASSUME NEW k \in LocalId, mapping[e][k] # None
      PROVE  mapping[e][k] = o <=> k = l
  <2>1. mapping[e][k] \in Object /\ Known(k, mapping[e][k])
    BY <1>1 DEF PairsInv, MappingIsKnown, IInv, TypeOK
  <2> QED
    BY <2>1 DEF PairsInv, OneToOne
<1>2. mapping[e][l] \in {None, o}
  BY <1>1
<1>3. LocalName(e, o) \in {None, l}
  <2>1. LocalName(e, o) \in LocalId \cup {None}
        /\ (LocalName(e, o) # None => mapping[e][LocalName(e, o)] = o)
    BY LocalNameOf
  <2>2. o # None
    BY Names
  <2> QED
    BY <1>1, <2>1, <2>2
<1> QED
  BY <1>2, <1>3 DEF Bindable

\* Naming an object by the identifier of the record that is known to be it.
LEMMA MapsKnown ==
  ASSUME IInv, PairsInv, NEW e \in Endpoint, NEW l \in LocalId, NEW o \in Object, Known(l, o),
         mapping' = [mapping EXCEPT ![e][l] = o]
  PROVE  /\ MappingKept /\ mapping'[e][l] = o
         /\ \A d \in Endpoint, k \in LocalId : d # e \/ k # l => mapping'[d][k] = mapping[d][k]
         /\ \A d \in Endpoint, k \in LocalId :
              mapping'[d][k] # mapping[d][k] => Known(k, mapping'[d][k])
<1>1. /\ mapping'[e][l] = o
      /\ \A d \in Endpoint, k \in LocalId : d # e \/ k # l => mapping'[d][k] = mapping[d][k]
  BY DEF IInv, TypeOK
<1>2. mapping[e][l] \in {None, o}
  BY AlwaysBindable DEF Bindable
<1> QED
  BY <1>1, <1>2 DEF MappingKept

LEMMA BindOneEach ==
  ASSUME OneEach, IInv', Bind
  PROVE  PairsInv' /\ HalvesOnTheWay'
<1> DEFINE e == binding.to
           l == binding.local
           o == binding.object
<1>1. /\ IInv /\ PairsInv /\ HalvesOnTheWay /\ binding # None /\ binding' = None
      /\ UNCHANGED <<row, content, minted>> /\ UNCHANGED calls /\ faults' = faults
      /\ e \in Endpoint /\ l \in LocalId /\ o \in Object
  BY DEF Bind, OneEach, IInv, BindingOK, Owed, store, bounds
<1>2. Bound(e, l) /\ row[e][l].object = o
  BY <1>1 DEF PairsInv, BindingIsKnown
<1>3. Known(l, o) /\ Bindable(e, l, o)
  BY <1>1, <1>2, AlwaysBindable DEF Known
<1>4. mapping' = [mapping EXCEPT ![e][l] = o] /\ UNCHANGED live
  BY <1>3 DEF Bind, store, stream
<1>5. binding = [to |-> e, local |-> l, object |-> o]
  BY <1>1 DEF IInv, BindingOK, Owed
<1> HIDE DEF e, l, o
<1>6. /\ MappingKept /\ mapping'[e][l] = o
      /\ \A d \in Endpoint, k \in LocalId : d # e \/ k # l => mapping'[d][k] = mapping[d][k]
      /\ \A d \in Endpoint, k \in LocalId :
           mapping'[d][k] # mapping[d][k] => Known(k, mapping'[d][k])
  BY <1>1, <1>3, <1>4, MapsKnown
<1>7. RowsKept /\ OneToOne' /\ BindingIsKnown'
  BY <1>1 DEF RowsKept, PairsInv, OneToOne, Known, Bound, BindingIsKnown
<1>8. RecordsAreKnown' /\ FramesAreNamed'
  BY <1>1, <1>4, <1>6, RecordsStill, NamedGrows
<1>9. PairsInv'
  BY <1>1, <1>6, <1>7, <1>8, PairsKeep
<1>10. HalvesOnTheWay'
  <2> SUFFICES ASSUME faults = 0, NEW d \in Endpoint, NEW k \in LocalId
               PROVE  /\ row[d][k] # None => mapping'[d][k] = row[d][k].object
                      /\ mapping'[d][k] # None =>
                           \/ row[d][k] # None
                           \/ calls[d] # None /\ calls[d].step = "pair" /\ calls[d].local = k
    BY <1>1 DEF HalvesOnTheWay, Bound, At
  <2>1. CASE d = e /\ k = l
    BY <1>2, <1>6, <2>1 DEF Bound
  <2>2. CASE d # e \/ k # l
    <3>1. \A q : binding # [to |-> d, local |-> k, object |-> q]
      BY <1>5, <2>2
    <3> QED
      BY <1>1, <1>6, <2>2, <3>1 DEF HalvesOnTheWay, Bound, At
  <2> QED
    BY <2>1, <2>2
<1> QED
  BY <1>9, <1>10

\* A step of one user's call that moves nothing but the call.
LEMMA CallOneEach ==
  ASSUME OneEach, IInv', NEW e \in Endpoint, \A d \in Endpoint : d # e => calls'[d] = calls[d],
         CallIsKnown(e)', ~At(e, "pair"), faults' = faults,
         UNCHANGED <<row, content, minted>>, UNCHANGED <<live, mapping>>, UNCHANGED binding
  PROVE  PairsInv' /\ HalvesOnTheWay'
<1>1. RowsKept
  BY DEF RowsKept, Bound
<1>2. RecordsAreKnown' /\ FramesAreNamed' /\ BindingIsKnown'
  BY <1>1, RecordsStill, NamedStill, BindingKnownStill DEF OneEach
<1> QED
  BY <1>2, PairsStill, HalvesStill DEF OneEach

LEMMA EndKnown ==
  ASSUME IInv, NEW e \in Endpoint, End(e)
  PROVE  CallIsKnown(e)' /\ \A d \in Endpoint : d # e => calls'[d] = calls[d]
BY StepOf DEF End, CallIsKnown

LEMMA BeginSendOneEach ==
  ASSUME OneEach, IInv', NEW e \in Endpoint, NEW l \in LocalId, BeginSend(e, l)
  PROVE  PairsInv' /\ HalvesOnTheWay'
<1> DEFINE k == [step |-> "read", local |-> l, content |-> None, object |-> None, base |-> 0]
<1>1. /\ calls[e] = None /\ Step(e, k) /\ faults' = faults
      /\ UNCHANGED <<row, content, minted>> /\ UNCHANGED <<live, mapping>> /\ UNCHANGED binding
  BY DEF BeginSend, router, stream, store
<1>2. calls'[e] = k /\ \A d \in Endpoint : d # e => calls'[d] = calls[d]
  BY <1>1, StepOf DEF OneEach
<1>3. calls'[e].step = "read" /\ calls'[e].object = None
  BY <1>2
<1>4. CallIsKnown(e)'
  BY <1>3 DEF CallIsKnown, SendingIsKnown
<1> QED
  BY <1>1, <1>2, <1>4, CallOneEach DEF At

LEMMA SendReadOneEach ==
  ASSUME OneEach, IInv', NEW e \in Endpoint, SendRead(e)
  PROVE  PairsInv' /\ HalvesOnTheWay'
<1> DEFINE k == calls[e]
           l == calls[e].local
           r == [k EXCEPT !.content = content[l]]
           x == IF Bound(e, l)
                THEN [r EXCEPT !.step = "put", !.object = row[e][l].object,
                               !.base = row[e][l].revision]
                ELSE Reached(r, "sibling")
<1>1. /\ At(e, "read") /\ Step(e, x) /\ faults' = faults
      /\ UNCHANGED <<row, content, minted>> /\ UNCHANGED <<live, mapping>> /\ UNCHANGED binding
  BY DEF SendRead, router, stream, store, bounds
<1>2. IInv /\ PairsInv /\ SendingOK(k) /\ SendingIsKnown(e, k)
  BY <1>1, CallAt DEF OneEach, At, PairsInv, CallsAreKnown, CallIsKnown
<1>3. k \in Sending /\ l \in LocalId /\ content[l] # None /\ k.step = "read"
  BY <1>1, <1>2 DEF SendingOK, Sending, At
<1>4. calls'[e] = x /\ \A d \in Endpoint : d # e => calls'[d] = calls[d]
  BY <1>1, <1>2, StepOf
<1>5. CASE Bound(e, l)
  <2>1. /\ x.step = "put" /\ x.local = l
        /\ x.object = row[e][l].object /\ x.base = row[e][l].revision
    BY <1>3, <1>5 DEF Sending
  <2>2. Known(l, row[e][l].object) /\ row[e][l].revision > 0 /\ row[e][l].object # None
    BY <1>2, <1>3, <1>5, PairOf DEF Known, PairsInv, RecordsAreKnown
  <2> HIDE DEF x
  <2>3. CallIsKnown(e)'
    BY <1>1, <1>4, <2>1, <2>2 DEF CallIsKnown, SendingIsKnown, Known, Bound
  <2> QED
    BY <1>1, <1>4, <2>3, CallOneEach DEF At
<1>6. CASE ~Bound(e, l)
  <2>1. x.step = "sibling" /\ x.local = l /\ x.object = k.object /\ x.base = k.base
    BY <1>3, <1>6 DEF Sending, Reached
  <2>2. \E d \in Endpoint \ {e} : Bound(d, l)
    BY <1>2, <1>3, <1>6 DEF PairsInv, RecordsAreKnown, Known
  <2> HIDE DEF x
  <2>3. CallIsKnown(e)'
    BY <1>1, <1>2, <1>4, <2>1, <2>2 DEF CallIsKnown, SendingIsKnown, Known, Bound
  <2> QED
    BY <1>1, <1>4, <2>3, CallOneEach DEF At
<1> QED
  BY <1>5, <1>6

\* A call that only moves on to its next step.
LEMMA ReachedKnown ==
  ASSUME IInv, NEW e \in Endpoint, SendingOK(calls[e]), SendingIsKnown(e, calls[e]),
         NEW step \in {"pair", "put"}, calls[e].object # None,
         step = "pair" => mapping'[e][calls[e].local] = calls[e].object,
         Step(e, Reached(calls[e], step)), RowsKept
  PROVE  CallIsKnown(e)' /\ \A d \in Endpoint : d # e => calls'[d] = calls[d]
<1> DEFINE k == calls[e]
<1>1. k \in Sending /\ k.local \in LocalId
  BY DEF SendingOK, Sending
<1>2. calls'[e] = [k EXCEPT !.step = step] /\ \A d \in Endpoint : d # e => calls'[d] = calls[d]
  BY StepOf DEF Reached
<1>3. calls'[e].step = step /\ calls'[e].local = k.local /\ calls'[e].object = k.object
      /\ calls'[e].base = k.base
  BY <1>1, <1>2 DEF Sending
<1>4. Known(k.local, k.object) /\ k.base > 0
  BY DEF SendingIsKnown
<1>5. \E d \in Endpoint : row'[d][k.local] # None /\ row'[d][k.local].object = k.object
  BY <1>1, <1>4 DEF Known, Bound, RowsKept
<1>6. SendingIsKnown(e, calls[e])'
  BY <1>3, <1>4, <1>5 DEF SendingIsKnown, Known, Bound
<1> QED
  BY <1>2, <1>3, <1>6 DEF CallIsKnown

LEMMA SendingAt ==
  ASSUME OneEach, NEW e \in Endpoint, NEW step \in {"read", "sibling", "bind", "pair", "put"},
         At(e, step)
  PROVE  /\ IInv /\ PairsInv /\ HalvesOnTheWay
         /\ SendingOK(calls[e]) /\ SendingIsKnown(e, calls[e]) /\ calls[e] \in Sending
         /\ calls[e].step = step /\ calls[e].local \in LocalId
BY CallAt DEF OneEach, At, PairsInv, CallsAreKnown, CallIsKnown, SendingOK, Sending

LEMMA SiblingReadOneEach ==
  ASSUME OneEach, IInv', NEW e \in Endpoint, SiblingRead(e)
  PROVE  PairsInv' /\ HalvesOnTheWay'
<1> DEFINE k == calls[e]
           l == calls[e].local
           bound == {d \in Endpoint \ {e} : Bound(d, l)}
           pair == row[CHOOSE d \in bound : TRUE][l]
           x == [k EXCEPT !.step = "bind", !.object = pair.object, !.base = pair.revision]
<1>1. /\ At(e, "sibling") /\ faults' = faults
      /\ UNCHANGED <<row, content, minted>> /\ UNCHANGED <<live, mapping>> /\ UNCHANGED binding
      /\ Step(e, IF bound = {} THEN Reached(k, "put") ELSE x)
  BY DEF SiblingRead, router, stream, store, bounds
<1>2. /\ IInv /\ PairsInv /\ SendingIsKnown(e, k) /\ k \in Sending /\ k.step = "sibling"
      /\ l \in LocalId
  BY <1>1, SendingAt
<1>3. bound # {}
  BY <1>2 DEF SendingIsKnown
<1>4. PICK d \in bound : pair = row[d][l]
  BY <1>3
<1>5. Known(l, pair.object) /\ pair.revision > 0 /\ pair.object # None
  BY <1>2, <1>4, PairOf DEF Known, PairsInv, RecordsAreKnown
<1>6. Step(e, x)
  BY <1>1, <1>3
<1> HIDE DEF pair, bound
<1>7. x.step = "bind" /\ x.local = l /\ x.object = pair.object /\ x.base = pair.revision
  BY <1>2 DEF Sending
<1> HIDE DEF x
<1>8. calls'[e] = x /\ \A c \in Endpoint : c # e => calls'[c] = calls[c]
  BY <1>2, <1>6, StepOf
<1>9. CallIsKnown(e)'
  BY <1>1, <1>5, <1>7, <1>8 DEF CallIsKnown, SendingIsKnown, Known, Bound
<1> QED
  BY <1>1, <1>8, <1>9, CallOneEach DEF At

LEMMA SiblingBindOneEach ==
  ASSUME OneEach, IInv', NEW e \in Endpoint, SiblingBind(e)
  PROVE  PairsInv' /\ HalvesOnTheWay'
<1> DEFINE k == calls[e]
           l == calls[e].local
           o == calls[e].object
<1>1. /\ At(e, "bind") /\ faults' = faults
      /\ UNCHANGED <<row, content, minted>> /\ UNCHANGED live /\ UNCHANGED binding
  BY DEF SiblingBind, stream, store, bounds
<1>2. /\ IInv /\ PairsInv /\ HalvesOnTheWay /\ SendingOK(k) /\ SendingIsKnown(e, k)
      /\ k \in Sending /\ k.step = "bind" /\ l \in LocalId
  BY <1>1, SendingAt
<1>3. o \in Object /\ o # None /\ Known(l, o)
  BY <1>2 DEF SendingOK, Sending, SendingIsKnown
<1>4. mapping' = [mapping EXCEPT ![e][l] = o] /\ Step(e, Reached(k, "pair"))
  BY <1>2, <1>3, AlwaysBindable DEF SiblingBind
<1>5. /\ MappingKept /\ mapping'[e][l] = o
      /\ \A d \in Endpoint, j \in LocalId : d # e \/ j # l => mapping'[d][j] = mapping[d][j]
      /\ \A d \in Endpoint, j \in LocalId :
           mapping'[d][j] # mapping[d][j] => Known(j, mapping'[d][j])
  BY <1>2, <1>3, <1>4, MapsKnown
<1>6. RowsKept /\ OneToOne'
  BY <1>1, <1>2 DEF RowsKept, PairsInv, OneToOne, Known, Bound
<1>7. CallIsKnown(e)' /\ \A d \in Endpoint : d # e => calls'[d] = calls[d]
  BY <1>2, <1>3, <1>4, <1>5, <1>6, ReachedKnown
<1>8. RecordsAreKnown' /\ FramesAreNamed' /\ BindingIsKnown'
  BY <1>1, <1>2, <1>5, <1>6, RecordsStill, NamedGrows, BindingKnownStill
<1>9. PairsInv'
  BY <1>2, <1>5, <1>6, <1>7, <1>8, PairsKeep
<1>10. calls'[e] # None /\ calls'[e].step = "pair" /\ calls'[e].local = l
  <2>1. calls'[e] = [k EXCEPT !.step = "pair"] /\ calls'[e] \in Sending
    BY <1>2, <1>4, StepOf DEF Reached, Sending
  <2> QED
    BY <1>2, <2>1, SiblingsAssumption DEF Sending
<1> HIDE DEF l, o, k
<1>11. HalvesOnTheWay'
  <2> SUFFICES ASSUME faults = 0, NEW d \in Endpoint, NEW j \in LocalId
               PROVE  /\ row[d][j] # None =>
                           \/ mapping'[d][j] = row[d][j].object
                           \/ binding = [to |-> d, local |-> j, object |-> row[d][j].object]
                      /\ mapping'[d][j] # None =>
                           \/ row[d][j] # None
                           \/ calls'[d] # None /\ calls'[d].step = "pair" /\ calls'[d].local = j
    BY <1>1 DEF HalvesOnTheWay, Bound, At
  <2>1. CASE d = e /\ j = l
    <3>1. row[e][l] # None => row[e][l].object = o
      <4>1. ASSUME Bound(e, l) PROVE row[e][l].object \in Object /\ Known(l, row[e][l].object)
        BY <1>2, <4>1, PairOf DEF Known
      <4> QED
        BY <1>2, <1>3, <4>1 DEF PairsInv, OneToOne, Bound
    <3> QED
      BY <1>5, <1>10, <2>1, <3>1
  <2>2. CASE d # e
    BY <1>2, <1>5, <1>7, <2>2 DEF HalvesOnTheWay, Bound, At
  <2>3. CASE d = e /\ j # l
    BY <1>1, <1>2, <1>5, <2>3 DEF HalvesOnTheWay, Bound, At
  <2> QED
    BY <2>1, <2>2, <2>3
<1> QED
  BY <1>9, <1>11

LEMMA SiblingStoreOneEach ==
  ASSUME OneEach, IInv', NEW e \in Endpoint, SiblingStore(e)
  PROVE  PairsInv' /\ HalvesOnTheWay'
<1> DEFINE k == calls[e]
           l == calls[e].local
           o == calls[e].object
           n == calls[e].base
           p == [object |-> o, revision |-> n]
<1>1. /\ At(e, "pair") /\ faults' = faults
      /\ UNCHANGED <<live, mapping>> /\ UNCHANGED binding /\ UNCHANGED content
      /\ UNCHANGED minted
  BY DEF SiblingStore, router, stream, bounds
<1>2. /\ IInv /\ PairsInv /\ HalvesOnTheWay /\ SendingOK(k) /\ SendingIsKnown(e, k)
      /\ k \in Sending /\ k.step = "pair" /\ l \in LocalId
  BY <1>1, SendingAt
<1>3. /\ o \in Object /\ o # None /\ Known(l, o) /\ n \in 0..MaxRevision /\ n > 0
      /\ mapping[e][l] = o /\ content[l] # None
  BY <1>2 DEF SendingOK, Sending, SendingIsKnown
<1>4. Holders(e, o) \subseteq {l}
  BY <1>2, <1>3 DEF Holders, PairsInv, OneToOne, Known
<1>5. row' = [row EXCEPT ![e][l] = p] /\ Step(e, Reached(k, "put"))
  BY <1>4 DEF SiblingStore
<1>6. /\ row'[e][l] = p
      /\ \A d \in Endpoint, j \in LocalId : d # e \/ j # l => row'[d][j] = row[d][j]
  BY <1>2, <1>5 DEF IInv, TypeOK
<1>7. p # None /\ p.object = o
  BY <1>3, PairType
<1>8. RowsKept /\ OneToOne'
  BY <1>2, <1>3, <1>5, WriteKnown
<1>9. RecordsAreKnown'
  <2>1. l <= minted
    BY <1>2, <1>3 DEF Known, PairsInv, RecordsAreKnown
  <2>2. minted \in Nat
    BY <1>2, Names DEF IInv, TypeOK
  <2>3. /\ l <= minted' /\ minted <= minted' /\ minted' \in Nat
        /\ \A j \in LocalId : j # l => content'[j] = content[j]
        /\ content'[l] # None
        /\ row' = [row EXCEPT ![e][l] = [object |-> o, revision |-> n]]
    BY <1>1, <1>3, <1>5, <2>1, <2>2
  <2> HIDE DEF l, o, n
  <2> QED
    BY <1>2, <1>3, <1>8, <2>3, RecordsKept
<1>10. CallIsKnown(e)' /\ \A d \in Endpoint : d # e => calls'[d] = calls[d]
  BY <1>2, <1>3, <1>5, <1>8, ReachedKnown
<1>11. FramesAreNamed' /\ BindingIsKnown' /\ MappingKept
  BY <1>1, <1>2, <1>8, NamedStill, BindingKnownStill DEF MappingKept
<1>12. PairsInv'
  BY <1>1, <1>2, <1>8, <1>9, <1>10, <1>11, PairsKeep
<1> HIDE DEF l, o, k, n, p
<1>13. HalvesOnTheWay'
  <2> SUFFICES ASSUME faults = 0, NEW d \in Endpoint, NEW j \in LocalId
               PROVE  /\ row'[d][j] # None =>
                           \/ mapping[d][j] = row'[d][j].object
                           \/ binding = [to |-> d, local |-> j, object |-> row'[d][j].object]
                      /\ mapping[d][j] # None =>
                           \/ row'[d][j] # None
                           \/ calls'[d] # None /\ calls'[d].step = "pair" /\ calls'[d].local = j
    BY <1>1 DEF HalvesOnTheWay, Bound, At
  <2>1. CASE d = e /\ j = l
    BY <1>3, <1>6, <1>7, <2>1
  <2>2. CASE d # e
    BY <1>2, <1>6, <1>10, <2>2 DEF HalvesOnTheWay, Bound, At
  <2>3. CASE d = e /\ j # l
    BY <1>1, <1>2, <1>6, <2>3 DEF HalvesOnTheWay, Bound, At, l
  <2> QED
    BY <2>1, <2>2, <2>3
<1> QED
  BY <1>12, <1>13

LEMMA SendRefusedOneEach ==
  ASSUME OneEach, IInv', NEW e \in Endpoint, SendRefused(e)
  PROVE  PairsInv' /\ HalvesOnTheWay'
<1>1. /\ At(e, "put") /\ End(e) /\ faults' = faults
      /\ UNCHANGED <<row, content, minted>> /\ UNCHANGED <<live, mapping>> /\ UNCHANGED binding
  BY DEF SendRefused, router, stream, store, bounds
<1> QED
  BY <1>1, EndKnown, CallOneEach DEF At, OneEach

\* A record that came from an object never creates a second one.
LEMMA NeverCreates ==
  ASSUME OneEach, NEW e \in Endpoint, SendCreates(e)
  PROVE  FALSE
<1>1. At(e, "put") /\ ~PutRefused(e) /\ Target(e) = None
  BY DEF SendCreates
<1>2. SendingIsKnown(e, calls[e]) /\ calls[e].step = "put"
  BY <1>1, SendingAt
<1>3. calls[e].base # 0
  BY <1>2 DEF SendingIsKnown
<1> QED
  BY <1>1, <1>3 DEF PutRefused

\* What a write is answered with names the object its identifier names.
LEMMA AnswerKnown ==
  ASSUME IInv, NEW e \in Endpoint, calls[e].local \in LocalId, Target(e) \in Object,
         NEW revision, NEW c, Answer(e, Target(e), revision, c), UNCHANGED mapping
  PROVE  CallIsKnown(e)' /\ \A d \in Endpoint : d # e => calls'[d] = calls[d]
<1> DEFINE f == [to |-> e, object |-> Target(e), revision |-> revision, content |-> c,
                 local |-> calls[e].local]
<1>1. calls'[e] = [step |-> "apply", frame |-> f]
      /\ \A d \in Endpoint : d # e => calls'[d] = calls[d]
  BY StepOf DEF Answer
<1>2. calls'[e].step = "apply" /\ calls'[e].frame = f
  BY <1>1
<1>3. f.to = e /\ f.local = calls[e].local /\ f.object = Target(e)
  OBVIOUS
<1> HIDE DEF f
<1>4. Named(calls[e].frame)'
  BY <1>2, <1>3 DEF Named, Target
<1> QED
  BY <1>1, <1>2, <1>4 DEF CallIsKnown

LEMMA SendKeptOneEach ==
  ASSUME OneEach, IInv', NEW e \in Endpoint, SendKept(e)
  PROVE  PairsInv' /\ HalvesOnTheWay'
<1>1. /\ At(e, "put") /\ Target(e) # None /\ faults' = faults
      /\ Answer(e, Target(e), Len(history[Target(e)]), Current(Target(e)).content)
      /\ UNCHANGED <<row, content, minted>> /\ UNCHANGED <<live, mapping>> /\ UNCHANGED binding
  BY DEF SendKept, Accepted, router, stream, store, bounds
<1>2. calls[e].local \in LocalId /\ Target(e) \in Object
  BY <1>1, PutOf DEF OneEach, Existing
<1>3. CallIsKnown(e)' /\ \A d \in Endpoint : d # e => calls'[d] = calls[d]
  BY <1>1, <1>2, AnswerKnown DEF OneEach
<1> QED
  BY <1>1, <1>3, CallOneEach DEF At

LEMMA SendRevisesOneEach ==
  ASSUME OneEach, IInv', NEW e \in Endpoint, SendRevises(e)
  PROVE  PairsInv' /\ HalvesOnTheWay'
<1>1. /\ At(e, "put") /\ Target(e) # None /\ faults' = faults
      /\ Revise(Target(e), [content |-> calls[e].content, by |-> e])
      /\ Answer(e, Target(e), Len(history[Target(e)]) + 1, calls[e].content)
      /\ UNCHANGED <<row, content, minted>> /\ UNCHANGED mapping /\ UNCHANGED binding
  BY DEF SendRevises, Accepted, store, bounds
<1>2. calls[e].local \in LocalId /\ Target(e) \in Object
  BY <1>1, PutOf DEF OneEach, Existing
<1>3. CallIsKnown(e)' /\ \A d \in Endpoint : d # e => calls'[d] = calls[d]
  BY <1>1, <1>2, AnswerKnown DEF OneEach
<1>4. RowsKept
  BY <1>1 DEF RowsKept, Bound
<1>5. FramesAreNamed'
  BY <1>1, <1>2, ReviseNamed DEF OneEach
<1>6. RecordsAreKnown' /\ BindingIsKnown'
  BY <1>1, <1>4, RecordsStill, BindingKnownStill DEF OneEach
<1> QED
  BY <1>1, <1>3, <1>5, <1>6, PairsStill, HalvesStill DEF OneEach, At

LEMMA SendApplyOneEach ==
  ASSUME OneEach, IInv', NEW e \in Endpoint, SendApply(e)
  PROVE  PairsInv' /\ HalvesOnTheWay'
<1> DEFINE f == calls[e].frame
           l == RecordOf(f)
           pair == [object |-> f.object, revision |-> f.revision]
<1>1. /\ At(e, "apply") /\ Apply(f) /\ End(e) /\ UNCHANGED objects /\ UNCHANGED edited
      /\ UNCHANGED <<live, mapping>> /\ UNCHANGED binding /\ faults' = faults
  BY DEF SendApply, router, stream, bounds
<1>2. /\ IInv /\ PairsInv /\ HalvesOnTheWay /\ Faithful(f) /\ Named(f)
      /\ f.local \in LocalId
  BY <1>1, CallAt DEF OneEach, PairsInv, CallsAreKnown, CallIsKnown, At
<1>3. minted' \in 0..MaxRecords
  BY DEF IInv, TypeOK
<1>4. l # None /\ ~Joined(f)
  BY <1>2, RecordOfType, Names DEF Joined
<1>5. l \in LocalId /\ (Bound(f.to, l) \/ mapping[f.to][l] = f.object)
  BY <1>2, <1>4, ResolvesToKnown
<1>6. f.to \in Endpoint /\ pair.object = f.object
  BY <1>2, FaithfulRevision
<1>7. /\ RowsKept /\ OneToOne' /\ RecordsAreKnown'
      /\ \A d \in Endpoint, k \in LocalId :
           \/ row'[d][k] = row[d][k]
           \/ d = f.to /\ row'[d][k] = pair /\ k = l
  BY <1>1, <1>2, <1>3, <1>4, ApplyPairs
<1> HIDE DEF f, l, pair
<1>8. CallIsKnown(e)' /\ \A d \in Endpoint : d # e => calls'[d] = calls[d]
  BY <1>1, <1>2, EndKnown
<1>9. FramesAreNamed' /\ BindingIsKnown' /\ MappingKept
  BY <1>1, <1>2, <1>7, NamedStill, BindingKnownStill DEF MappingKept
<1>10. PairsInv'
  BY <1>1, <1>2, <1>7, <1>8, <1>9, PairsKeep
<1>11. HalvesOnTheWay'
  <2> SUFFICES ASSUME faults = 0, NEW d \in Endpoint, NEW k \in LocalId
               PROVE  /\ row'[d][k] # None =>
                           \/ mapping[d][k] = row'[d][k].object
                           \/ binding = [to |-> d, local |-> k, object |-> row'[d][k].object]
                      /\ mapping[d][k] # None =>
                           \/ row'[d][k] # None
                           \/ calls'[d] # None /\ calls'[d].step = "pair" /\ calls'[d].local = k
    BY <1>1 DEF HalvesOnTheWay, Bound, At
  <2>1. /\ Bound(d, k) => \/ mapping[d][k] = row[d][k].object
                          \/ binding = [to |-> d, local |-> k, object |-> row[d][k].object]
        /\ mapping[d][k] # None =>
             \/ Bound(d, k)
             \/ calls'[d] # None /\ calls'[d].step = "pair" /\ calls'[d].local = k
    BY <1>1, <1>2, <1>8 DEF HalvesOnTheWay, At
  <2>2. mapping[d][k] # None =>
             \/ row'[d][k] # None
             \/ calls'[d] # None /\ calls'[d].step = "pair" /\ calls'[d].local = k
    BY <1>7, <2>1 DEF RowsKept
  <2>3. CASE row'[d][k] = row[d][k]
    BY <2>1, <2>2, <2>3 DEF Bound
  <2>4. CASE d = f.to /\ row'[d][k] = pair /\ k = l
    <3>1. CASE Bound(f.to, l)
      BY <1>6, <1>7, <2>1, <2>2, <2>4, <3>1 DEF RowsKept
    <3>2. CASE mapping[f.to][l] = f.object
      BY <1>6, <2>2, <2>4, <3>2
    <3> QED
      BY <1>5, <3>1, <3>2
  <2> QED
    BY <1>7, <2>3, <2>4
<1> QED
  BY <1>10, <1>11

\* A break on the way is what the halves of a pair are not promised through.
LEMMA FaultOneEach ==
  ASSUME OneEach, IInv', CountsOK, Disconnect \/ Crash
  PROVE  PairsInv' /\ HalvesOnTheWay'
<1>1. /\ live' = <<>> /\ binding' = None /\ faults' = faults + 1
      /\ UNCHANGED <<row, content, minted>> /\ UNCHANGED <<row, mapping>>
      /\ \/ UNCHANGED calls
         \/ calls' = [e \in Endpoint |-> None]
  BY DEF Disconnect, Crash, Drop, Fault, router, store
<1>2. FramesAreNamed'
  <2>1. ~\E i \in 1..Len(live') : TRUE
    BY <1>1
  <2> QED
    BY <2>1, Zenon DEF FramesAreNamed
<1>3. BindingIsKnown' /\ HalvesOnTheWay'
  BY <1>1 DEF BindingIsKnown, HalvesOnTheWay, CountsOK
<1>4. \A e \in Endpoint : calls'[e] = calls[e] \/ CallIsKnown(e)'
  BY <1>1 DEF CallIsKnown
<1> QED
  BY <1>1, <1>2, <1>3, <1>4, RecordsStill, PairsStill DEF OneEach

LEMMA StutterOneEach ==
  ASSUME OneEach, IInv', UNCHANGED vars
  PROVE  PairsInv' /\ HalvesOnTheWay'
<1>1. /\ UNCHANGED <<row, mapping, binding, calls, minted>> /\ UNCHANGED <<live, mapping>>
      /\ UNCHANGED <<row, content, minted>> /\ faults' = faults
  BY DEF vars, router, stream, store, process, bounds
<1> QED
  BY <1>1, RecordsStill, NamedStill, ElsewhereOneEach DEF OneEach

LEMMA InitOneEach == Init => CountsOK /\ PairsInv /\ HalvesOnTheWay
<1> SUFFICES ASSUME Init PROVE CountsOK /\ PairsInv /\ HalvesOnTheWay
  OBVIOUS
<1>1. /\ \A e \in Endpoint, l \in LocalId :
           ~Bound(e, l) /\ mapping[e][l] = None /\ calls[e] = None
      /\ \A l \in LocalId : content[l] = None
  BY DEF Init, Bound
<1>2. \A l \in LocalId : \A o : ~Known(l, o)
  BY <1>1 DEF Known
<1>3. FramesAreNamed
  <2>1. live = <<>>
    BY DEF Init
  <2>2. ~\E i \in 1..Len(live) : TRUE
    BY <2>1
  <2> QED
    BY <2>2, Zenon DEF FramesAreNamed
<1>4. OneToOne /\ RecordsAreKnown /\ MappingIsKnown
  <2>1. OneToOne
    BY <1>2 DEF OneToOne
  <2>2. RecordsAreKnown
    BY <1>1 DEF RecordsAreKnown
  <2>3. MappingIsKnown
    BY <1>1 DEF MappingIsKnown
  <2> QED
    BY <2>1, <2>2, <2>3
<1>5. BindingIsKnown /\ CallsAreKnown /\ CountsOK
  BY <1>1 DEF Init, BindingIsKnown, CallsAreKnown, CallIsKnown, CountsOK
<1>6. HalvesOnTheWay
  BY <1>1 DEF HalvesOnTheWay
<1> QED
  BY <1>3, <1>4, <1>5, <1>6 DEF PairsInv

\* Nothing is corrected while nothing has been.
LEMMA NothingCorrected ==
  ASSUME OneEach, NEW e \in Endpoint, Correct(e)
  PROVE  FALSE
BY DEF Correct, CorrectAtAgrirouter, CorrectLocally, CorrectRequests, At, OneEach, PairsInv,
       CallsAreKnown, CallIsKnown

\* Who counts a record added, or a correction, or a break.
LEMMA Counting ==
  ASSUME [Next]_vars
  PROVE  \/ UNCHANGED <<added, corrections, faults>>
         \/ AddRecord
         \/ \E e \in Endpoint, entries \in Entries : BeginCorrection(e, entries)
         \/ (Disconnect \/ Crash) /\ UNCHANGED <<added, corrections>>
<1>1. CASE \E o \in Object : OtherWrite(o)
  BY <1>1 DEF OtherWrite
<1>2. CASE Connect \/ Receive
  BY <1>2 DEF Connect, Receive, ReceiveObject, ReceiveCaughtUp, Receiving, Bind, bounds
<1>3. ASSUME NEW e \in Endpoint, Send(e)
      PROVE  UNCHANGED <<added, corrections, faults>>
  BY <1>3 DEF Send, SendRead, SiblingRead, SiblingBind, SiblingStore, SendRefused, SendCreates,
              SendKept, SendRevises, SendApply, bounds
<1>4. ASSUME NEW e \in Endpoint, Correct(e)
      PROVE  UNCHANGED <<added, corrections, faults>>
  BY <1>4 DEF Correct, CorrectAtAgrirouter, CorrectLocally, CorrectRequests, bounds
<1>5. ASSUME NEW e \in Endpoint, NEW l \in LocalId, BeginSend(e, l)
      PROVE  UNCHANGED <<added, corrections, faults>>
  BY <1>5 DEF BeginSend
<1>6. CASE \E l \in LocalId : EditRecord(l)
  BY <1>6 DEF EditRecord
<1>7. CASE Disconnect \/ Crash
  BY <1>7 DEF Disconnect, Crash
<1>8. CASE UNCHANGED vars
  BY <1>8 DEF vars, bounds
<1> QED
  BY <1>1, <1>2, <1>3, <1>4, <1>5, <1>6, <1>7, <1>8 DEF Next, User

LEMMA CountsStep ==
  ASSUME CountsOK, [Next]_vars
  PROVE  /\ CountsOK' /\ (Unassisted' => Unassisted)
         /\ Unassisted' => ~AddRecord
         /\ Unassisted' => \A e \in Endpoint, entries \in Entries : ~BeginCorrection(e, entries)
<1>1. CASE UNCHANGED <<added, corrections, faults>>
  <2>1. ~AddRecord /\ \A e \in Endpoint, entries \in Entries : ~BeginCorrection(e, entries)
    BY <1>1 DEF AddRecord, BeginCorrection, CountsOK
  <2> QED
    BY <1>1, <2>1 DEF CountsOK, Unassisted
<1>2. CASE AddRecord
  BY <1>2 DEF AddRecord, CountsOK, Unassisted
<1>3. CASE \E e \in Endpoint, entries \in Entries : BeginCorrection(e, entries)
  BY <1>3 DEF BeginCorrection, CountsOK, Unassisted
<1>4. CASE (Disconnect \/ Crash) /\ UNCHANGED <<added, corrections>>
  <2>1. ~AddRecord /\ \A e \in Endpoint, entries \in Entries : ~BeginCorrection(e, entries)
    BY <1>4 DEF AddRecord, BeginCorrection, CountsOK
  <2>2. faults' = faults + 1
    BY <1>4 DEF Disconnect, Crash, Fault
  <2> QED
    BY <1>4, <2>1, <2>2 DEF CountsOK, Unassisted
<1> QED
  BY <1>1, <1>2, <1>3, <1>4, Counting

LEMMA NextOneEach ==
  ASSUME OneEach, IInv', CountsOK, [Next]_vars, Unassisted'
  PROVE  PairsInv' /\ HalvesOnTheWay'
<1>1. CASE \E o \in Object : OtherWrite(o)
  BY <1>1, OtherWriteOneEach
<1>2. CASE Connect
  BY <1>2, ConnectOneEach
<1>3. CASE Receive
  BY <1>3, ReceiveObjectOneEach, ReceiveCaughtUpOneEach, BindOneEach DEF Receive
<1>4. ASSUME NEW e \in Endpoint, Send(e) PROVE PairsInv' /\ HalvesOnTheWay'
  BY <1>4, SendReadOneEach, SiblingReadOneEach, SiblingBindOneEach, SiblingStoreOneEach,
     SendRefusedOneEach, NeverCreates, SendKeptOneEach, SendRevisesOneEach, SendApplyOneEach
     DEF Send
<1>5. ASSUME NEW e \in Endpoint, Correct(e) PROVE FALSE
  BY <1>5, NothingCorrected
<1>6. ASSUME NEW e \in Endpoint, User(e) PROVE PairsInv' /\ HalvesOnTheWay'
  BY <1>6, CountsStep, BeginSendOneEach DEF User
<1>7. ~AddRecord
  BY CountsStep
<1>8. CASE \E l \in LocalId : EditRecord(l)
  BY <1>8, EditRecordOneEach
<1>9. CASE Disconnect \/ Crash
  BY <1>9, FaultOneEach
<1>10. CASE UNCHANGED vars
  BY <1>10, StutterOneEach
<1> QED
  BY <1>1, <1>2, <1>3, <1>4, <1>5, <1>6, <1>7, <1>8, <1>9, <1>10 DEF Next

UnassistedInv == IInv /\ CountsOK /\ (Unassisted => PairsInv /\ HalvesOnTheWay)

LEMMA OneEachHolds == Spec => []UnassistedInv
<1>1. Init => UnassistedInv
  BY InitTypes, InitOneEach DEF UnassistedInv
<1>2. UnassistedInv /\ [Next]_vars => UnassistedInv'
  <2> SUFFICES ASSUME UnassistedInv, [Next]_vars PROVE UnassistedInv'
    OBVIOUS
  <2>1. IInv' /\ CountsOK' /\ (Unassisted' => Unassisted)
    BY NextTypes, CountsStep DEF UnassistedInv
  <2>2. Unassisted' => PairsInv' /\ HalvesOnTheWay'
    BY <2>1, NextOneEach DEF UnassistedInv, OneEach
  <2> QED
    BY <2>1, <2>2 DEF UnassistedInv
<1> QED
  BY <1>1, <1>2, PTL DEF Spec

\* While users neither add records nor correct what theirs are, the endpoints
\* that know a record by one local id mean one object by it: a delivery, a send
\* through a sibling's pair and a late answer never name a second one
\* (bindAsSibling in outbound.go, apply in inbound.go, bind in ssot.go).
THEOREM NoSecondObject == Spec => [](Unassisted => MintsNoSecond)
<1>1. UnassistedInv => (Unassisted => MintsNoSecond)
  <2> SUFFICES ASSUME UnassistedInv, Unassisted, NEW e \in Endpoint, NEW d \in Endpoint,
                      NEW l \in LocalId, mapping[e][l] # None, mapping[d][l] # None
               PROVE  mapping[e][l] = mapping[d][l]
    BY DEF MintsNoSecond
  <2>1. mapping[e][l] \in Object /\ mapping[d][l] \in Object
    BY DEF UnassistedInv, IInv, TypeOK
  <2> QED
    BY <2>1 DEF UnassistedInv, PairsInv, MappingIsKnown, OneToOne
<1> QED
  BY <1>1, OneEachHolds, PTL

\* Under the same condition the store has an object under one local id, whichever
\* of the endpoints hold it and whichever was told first.
THEOREM NoSecondRecord == Spec => [](Unassisted => OneRecordPerObject)
<1>1. UnassistedInv => (Unassisted => OneRecordPerObject)
  <2> SUFFICES ASSUME UnassistedInv, Unassisted, NEW o \in Object
               PROVE  Cardinality(UNION {Holders(e, o) : e \in Endpoint}) <= 1
    BY DEF OneRecordPerObject
  <2> DEFINE held == UNION {Holders(e, o) : e \in Endpoint}
  <2>1. \A l, k \in held : l = k
    BY DEF UnassistedInv, PairsInv, OneToOne, Known, Holders
  <2>2. CASE held = {}
    BY <2>2, FS_EmptySet
  <2>3. CASE held # {}
    <3>1. PICK l \in held : held = {l}
      BY <2>1, <2>3
    <3>2. Cardinality({l}) = 1
      BY FS_Singleton
    <3> QED
      BY <3>1, <3>2
  <2> QED
    BY <2>2, <2>3
<1> QED
  BY <1>1, OneEachHolds, PTL

\* Under the same condition, and while nothing breaks, the platform and
\* agrirouter have the same pairs at rest: the half of a pair that is missing is
\* the loop's to bind or the call's to store (receive.go, outbound.go).
THEOREM PairsAgree == Spec => [](Unassisted => BothSidesAgree)
<1>1. UnassistedInv => (Unassisted => BothSidesAgree)
  <2> SUFFICES ASSUME UnassistedInv, Unassisted, AtRest, NEW e \in Endpoint, NEW l \in LocalId
               PROVE  mapping[e][l] = IF Bound(e, l) THEN row[e][l].object ELSE None
    BY DEF BothSidesAgree
  <2>1. HalvesOnTheWay /\ faults = 0 /\ binding = None /\ calls[e] = None /\ IInv
    BY DEF UnassistedInv, AtRest
  <2>2. Bound(e, l) => binding # [to |-> e, local |-> l, object |-> row[e][l].object]
    BY <2>1, PairOf, SiblingsAssumption DEF Owed
  <2> QED
    BY <2>1, <2>2 DEF HalvesOnTheWay, At
<1> QED
  BY <1>1, OneEachHolds, PTL

----------------------------------------------------------------------------
(* One step per action: what a record shows, and what is on its way to it *)

Settling == OneEach /\ faults = 0 /\ ContentOnTheWay

Joining == {"sibling", "bind", "pair"}

\* While nobody is connected there is nothing yet.
LEMMA ConnectedIf ==
  ASSUME Settling
  PROVE  /\ \A e \in Endpoint : calls[e] # None => connected
         /\ \A l \in LocalId : \A o : Known(l, o) => connected
         /\ \A l \in LocalId : content[l] # None => connected
         /\ live # <<>> => connected
BY DEF Settling, OneEach, PairsInv, RecordsAreKnown, ContentOnTheWay, StartsEmpty, Known

LEMMA AnswersAt ==
  ASSUME IInv, NEW e \in Endpoint, At(e, "apply")
  PROVE  /\ Faithful(calls[e].frame) /\ calls[e].frame.to = e
         /\ calls[e].frame.local \in LocalId
BY CallAt

\* A revision is a number, and none is above the object's latest.
LEMMA NoneNewer ==
  ASSUME IInv, NEW f, Faithful(f)
  PROVE  /\ f.to \in Endpoint /\ f.object \in Object
         /\ f.revision \in Nat /\ Len(history[f.object]) \in Nat
         /\ f.revision <= Len(history[f.object])
         /\ Current(f.object) = history[f.object][Len(history[f.object])]
         /\ f.revision = Len(history[f.object]) => f.content = Current(f.object).content
<1>1. /\ f.object \in Object /\ f.to \in Endpoint /\ f.revision \in DOMAIN history[f.object]
      /\ f.content = history[f.object][f.revision].content
      /\ history[f.object] \in Seq(Revision)
  BY DEF Faithful, Had, IInv, HistoryOK
<1>2. Len(history[f.object]) \in Nat /\ f.revision \in 1..Len(history[f.object])
  BY <1>1
<1> QED
  BY <1>1, <1>2 DEF Current, Last

LEMMA LiveAt ==
  ASSUME IInv, NEW i \in 1..Len(live), live[i].event = "object"
  PROVE  Faithful(live[i])
BY DEF IInv, StreamOK, LiveFrame

\* What is on its way stays so while histories and the stream stay, but for the
\* call that ends.
LEMMA FollowedStays ==
  ASSUME UNCHANGED <<history, row, live>>, NEW f, f.to \in Endpoint,
         calls'[f.to] = calls[f.to] \/ ~At(f.to, "apply"), Followed(f)
  PROVE  Followed(f)'
BY DEF Followed, Due, DueFrame, DueAnswer, Overtaken, Holders, Bound, At

\* A step of a call that writes nothing.
LEMMA ContentSame ==
  ASSUME Settling, UNCHANGED <<history, content, row, live, connected>>,
         \A e \in Endpoint :
           \/ calls'[e] = calls[e]
           \/ /\ connected /\ ~At(e, "apply")
              /\ At(e, "apply")' => /\ calls'[e].frame.to = e
                                    /\ calls'[e].frame.revision = Len(history[calls'[e].frame.object])
              /\ calls'[e] # None /\ calls'[e].step \in Joining =>
                   \/ calls[e] # None /\ calls[e].step \in Joining
                      /\ calls[e].local = calls'[e].local
                   \/ \A i \in 1..Len(live) :
                        live[i].event = "object" /\ live[i].to = e
                        /\ Known(calls'[e].local, live[i].object) => DueFrame(e, live[i].object)
  PROVE  ContentOnTheWay'
<1>1. IInv /\ OldIsFollowed /\ InTurn /\ JoinsInTime /\ ShownOrDue /\ StartsEmpty
  BY DEF Settling, OneEach, ContentOnTheWay
<1>2. \A e, o : DueFrame(e, o)' <=> DueFrame(e, o)
  BY DEF DueFrame
<1>3. ASSUME NEW e \in Endpoint, NEW o, Due(e, o) PROVE Due(e, o)'
  BY <1>2, <1>3 DEF Due, DueAnswer, At
<1>4. OldIsFollowed'
  <2>1. ASSUME NEW i \in 1..Len(live), live[i].event = "object", NEW f, f = live[i]
        PROVE  Followed(f)'
    <3>1. f.to \in Endpoint /\ Followed(f)
      BY <1>1, <2>1, LiveAt DEF OldIsFollowed, Faithful
    <3> QED
      BY <3>1, FollowedStays
  <2>2. ASSUME NEW e \in Endpoint, At(e, "apply")', NEW f, f = calls'[e].frame
        PROVE  Followed(f)'
    <3>1. CASE calls'[e] = calls[e]
      <4>1. At(e, "apply") /\ f = calls[e].frame
        BY <2>2, <3>1 DEF At
      <4>2. f.to = e /\ Followed(f)
        BY <1>1, <4>1, AnswersAt DEF OldIsFollowed
      <4> QED
        BY <3>1, <4>2, FollowedStays
    <3>2. CASE calls'[e] # calls[e]
      <4>1. f.to = e /\ f.revision = Len(history[f.object])
        BY <2>2, <3>2
      <4> QED
        BY <2>2, <4>1 DEF Followed, Due, DueAnswer
    <3> QED
      BY <3>1, <3>2
  <2> QED
    BY <2>1, <2>2 DEF OldIsFollowed
<1>5. InTurn'
  BY <1>1 DEF InTurn
<1>6. JoinsInTime'
  <2> SUFFICES ASSUME NEW e \in Endpoint, NEW i \in 1..Len(live),
                      calls'[e] # None, calls'[e].step \in Joining,
                      live[i].event = "object", live[i].to = e,
                      Known(calls'[e].local, live[i].object)
               PROVE  DueFrame(e, live[i].object)
    BY <1>2 DEF JoinsInTime, Joining, Known, Bound
  <2> QED
    BY <1>1 DEF JoinsInTime, Joining
<1>7. ShownOrDue'
  <2> SUFFICES ASSUME NEW l \in LocalId, NEW o \in Object, Known(l, o)
               PROVE  Shown(l, o) \/ \E e \in Endpoint : Due(e, o)'
    BY DEF ShownOrDue, Known, Bound, Shown, Current
  <2> QED
    BY <1>1, <1>3 DEF ShownOrDue
<1>8. StartsEmpty'
  BY <1>1 DEF StartsEmpty, Bound
<1> QED
  BY <1>4, <1>5, <1>6, <1>7, <1>8 DEF ContentOnTheWay

LEMMA BindContent == ASSUME Settling, Bind PROVE ContentOnTheWay'
<1>1. binding \in Owed /\ binding # None
  BY DEF Bind, Settling, OneEach, IInv, BindingOK
<1>2. Bindable(binding.to, binding.local, binding.object)
  <2>1. /\ binding.to \in Endpoint /\ binding.local \in LocalId /\ binding.object \in Object
        /\ Known(binding.local, binding.object)
    BY <1>1 DEF Owed, Settling, OneEach, PairsInv, BindingIsKnown, Known
  <2> QED
    BY <2>1, AlwaysBindable DEF Settling, OneEach
<1> QED
  BY <1>2, ContentSame DEF Bind, objects, store, stream

LEMMA BeginSendContent ==
  ASSUME Settling, NEW e \in Endpoint, NEW l \in LocalId, BeginSend(e, l)
  PROVE  ContentOnTheWay'
<1> DEFINE k == [step |-> "read", local |-> l, content |-> None, object |-> None, base |-> 0]
<1>1. /\ calls[e] = None /\ content[l] # None /\ Step(e, k)
      /\ UNCHANGED <<history, content, row, live, connected>>
  BY DEF BeginSend, router, objects, store, stream
<1>2. connected
  BY <1>1, ConnectedIf
<1>3. calls'[e] = k /\ \A d \in Endpoint : d # e => calls'[d] = calls[d]
  BY <1>1, StepOf DEF Settling, OneEach
<1>4. calls'[e].step = "read"
  BY <1>3
<1> QED
  BY <1>1, <1>2, <1>3, <1>4, ContentSame DEF At, Joining

\* What a call that writes nothing comes to next.
LEMMA StepContent ==
  ASSUME Settling, NEW e \in Endpoint, NEW k, Step(e, k), calls[e] # None, ~At(e, "apply"),
         UNCHANGED <<history, content, row, live, connected>>,
         k # None /\ k.step = "apply" =>
           k.frame.to = e /\ k.frame.revision = Len(history[k.frame.object]),
         k # None /\ k.step \in Joining =>
           \/ calls[e].step \in Joining /\ calls[e].local = k.local
           \/ \A i \in 1..Len(live) :
                live[i].event = "object" /\ live[i].to = e
                /\ Known(k.local, live[i].object) => DueFrame(e, live[i].object)
  PROVE  ContentOnTheWay'
<1>1. connected
  BY ConnectedIf
<1>2. calls'[e] = k /\ \A d \in Endpoint : d # e => calls'[d] = calls[d]
  BY StepOf DEF Settling, OneEach
<1> QED
  BY <1>1, <1>2, ContentSame DEF At

LEMMA SendReadContent ==
  ASSUME Settling, NEW e \in Endpoint, SendRead(e)
  PROVE  ContentOnTheWay'
<1> DEFINE l == calls[e].local
           k == [calls[e] EXCEPT !.content = content[l]]
           put == [k EXCEPT !.step = "put", !.object = row[e][l].object,
                            !.base = row[e][l].revision]
<1>1. /\ At(e, "read") /\ Step(e, IF Bound(e, l) THEN put ELSE Reached(k, "sibling"))
      /\ UNCHANGED <<history, content, row, live, connected>>
  BY DEF SendRead, router, objects, store, stream
<1>2. calls[e] \in Sending /\ l \in LocalId /\ calls[e] # None /\ ~At(e, "apply")
  BY <1>1, SendingAt DEF At, Settling
<1>3. CASE Bound(e, l)
  <2>1. put.step = "put"
    BY <1>2 DEF Sending
  <2> QED
    BY <1>1, <1>2, <1>3, <2>1, StepContent DEF Joining
<1>4. CASE ~Bound(e, l)
  <2>1. Reached(k, "sibling").step = "sibling" /\ Reached(k, "sibling").local = l
    BY <1>2 DEF Sending, Reached
  <2>2. ASSUME NEW i \in 1..Len(live), live[i].event = "object", live[i].to = e,
               Known(l, live[i].object)
        PROVE  DueFrame(e, live[i].object)
    <3>1. Followed(live[i]) /\ live[i].object \in Object
      BY <2>2, LiveAt
         DEF Settling, OneEach, ContentOnTheWay, OldIsFollowed, Faithful
    <3>2. ~Overtaken(live[i])
      <4>1. SUFFICES ASSUME NEW j \in LocalId, Bound(e, j), row[e][j].object = live[i].object
                     PROVE  FALSE
        BY <2>2 DEF Overtaken, Holders
      <4>2. j = l
        BY <1>2, <2>2, <3>1, <4>1 DEF Settling, OneEach, PairsInv, OneToOne, Known
      <4> QED
        BY <1>4, <4>1, <4>2
    <3>3. ~DueAnswer(e, live[i].object)
      BY <1>2 DEF DueAnswer
    <3> QED
      BY <2>2, <3>1, <3>2, <3>3 DEF Followed, Due
  <2> HIDE DEF k, l
  <2> QED
    BY <1>1, <1>2, <1>4, <2>1, <2>2, StepContent
<1> QED
  BY <1>3, <1>4

LEMMA SiblingReadContent ==
  ASSUME Settling, NEW e \in Endpoint, SiblingRead(e)
  PROVE  ContentOnTheWay'
<1>1. /\ At(e, "sibling") /\ UNCHANGED <<history, content, row, live, connected>>
      /\ \/ Step(e, Reached(calls[e], "put"))
         \/ \E pair : Step(e, [calls[e] EXCEPT !.step = "bind", !.object = pair.object,
                                               !.base = pair.revision])
  BY DEF SiblingRead, router, objects, store, stream
<1>2. calls[e] \in Sending /\ calls[e] # None /\ ~At(e, "apply")
      /\ calls[e].step \in Joining
  BY <1>1, SendingAt DEF At, Settling, Joining
<1>3. Reached(calls[e], "put").step = "put"
  BY <1>2 DEF Sending, Reached
<1>4. ASSUME NEW pair, NEW k,
             k = [calls[e] EXCEPT !.step = "bind", !.object = pair.object,
                                  !.base = pair.revision]
      PROVE  k.step = "bind" /\ k.local = calls[e].local
  BY <1>2, <1>4 DEF Sending
<1>5. CASE Step(e, Reached(calls[e], "put"))
  BY <1>1, <1>2, <1>3, <1>5, StepContent DEF Joining
<1>6. ASSUME NEW pair, NEW k, Step(e, k),
             k = [calls[e] EXCEPT !.step = "bind", !.object = pair.object,
                                  !.base = pair.revision]
      PROVE  ContentOnTheWay'
  BY <1>1, <1>2, <1>4, <1>6, StepContent
<1> QED
  BY <1>1, <1>5, <1>6

LEMMA SiblingBindContent ==
  ASSUME Settling, NEW e \in Endpoint, SiblingBind(e)
  PROVE  ContentOnTheWay'
<1>1. /\ At(e, "bind") /\ UNCHANGED <<history, content, row, live, connected>>
      /\ Step(e, Reached(calls[e], "pair")) \/ Step(e, None)
  BY DEF SiblingBind, End, objects, store, stream
<1>2. calls[e] \in Sending /\ calls[e] # None /\ ~At(e, "apply")
      /\ calls[e].step \in Joining
  BY <1>1, SendingAt DEF At, Settling, Joining
<1>3. Reached(calls[e], "pair").step = "pair" /\ Reached(calls[e], "pair").local = calls[e].local
  BY <1>2 DEF Sending, Reached
<1> QED
  BY <1>1, <1>2, <1>3, StepContent DEF Joining

LEMMA SendRefusedContent ==
  ASSUME Settling, NEW e \in Endpoint, SendRefused(e)
  PROVE  ContentOnTheWay'
<1>1. /\ At(e, "put") /\ UNCHANGED <<history, content, row, live, connected>>
      /\ Step(e, None)
  BY DEF SendRefused, End, router, objects, store, stream
<1> QED
  BY <1>1, StepContent DEF At

LEMMA SendKeptContent ==
  ASSUME Settling, NEW e \in Endpoint, SendKept(e)
  PROVE  ContentOnTheWay'
<1> DEFINE o == Target(e)
           k == [step |-> "apply",
                 frame |-> [to |-> e, object |-> o, revision |-> Len(history[o]),
                            content |-> Current(o).content, local |-> calls[e].local]]
<1>1. /\ At(e, "put") /\ UNCHANGED <<history, content, row, live, connected>>
      /\ Step(e, k)
  BY DEF SendKept, Accepted, Answer, router, objects, store, stream
<1>2. /\ k.step = "apply" /\ k.frame.to = e /\ k.frame.object = o
      /\ k.frame.revision = Len(history[o])
  OBVIOUS
<1> HIDE DEF k
<1> QED
  BY <1>1, <1>2, StepContent DEF At, Joining

LEMMA StutterContent == ASSUME Settling, UNCHANGED vars PROVE ContentOnTheWay'
<1>1. UNCHANGED <<history, content, row, live, connected>> /\ UNCHANGED calls
  BY DEF vars, router, objects, store, stream, process
<1> QED
  BY <1>1, ContentSame

\* A user's edit is nothing the object ever was.
LEMMA EditRecordContent ==
  ASSUME Settling, NEW l \in LocalId, EditRecord(l)
  PROVE  ContentOnTheWay'
<1>1. /\ UNCHANGED <<history, row, live, connected, calls>> /\ edited \in Nat
      /\ content' = [content EXCEPT ![l] = edited + 1]
      /\ content \in [LocalId -> 1..edited \cup {None}]
  BY DEF EditRecord, router, objects, stream, process, Settling, OneEach, IInv, HistoryOK, TypeOK
<1>2. OldIsFollowed' /\ InTurn' /\ JoinsInTime' /\ StartsEmpty'
  <2>1. \A e, o : Due(e, o)' <=> Due(e, o)
    BY <1>1 DEF Due, DueFrame, DueAnswer, At
  <2>2. \A f : Followed(f)' <=> Followed(f)
    BY <1>1, <2>1 DEF Followed, Overtaken, Holders, Bound
  <2> QED
    BY <1>1, <2>2 DEF Settling, ContentOnTheWay, OldIsFollowed, InTurn, JoinsInTime, StartsEmpty,
                      DueFrame, At, Known, Bound
<1>3. ShownOrDue'
  <2> SUFFICES ASSUME NEW k \in LocalId, NEW o \in Object, Known(k, o)
               PROVE  Shown(k, o)' \/ \E e \in Endpoint : Due(e, o)
    BY <1>1 DEF ShownOrDue, Known, Bound, Due, DueFrame, DueAnswer, At
  <2>1. CASE k = l
    <3>1. \A i \in DOMAIN history[o] : history[o][i].content \in 1..edited
      <4>1. history[o] \in Seq(Revision)
        BY DEF Settling, OneEach, IInv, HistoryOK
      <4>2. \A i \in DOMAIN history[o] : history[o][i] \in Revision
        BY <4>1
      <4> QED
        BY <4>2 DEF Revision, Content
    <3>2. content'[l] = edited + 1
      BY <1>1
    <3> QED
      BY <1>1, <2>1, <3>1, <3>2 DEF Shown
  <2>2. CASE k # l
    BY <1>1, <2>2 DEF Settling, ContentOnTheWay, ShownOrDue, Shown, Current
  <2> QED
    BY <2>1, <2>2
<1> QED
  BY <1>2, <1>3 DEF ContentOnTheWay

\* The pair stored may be older than the one it replaces; what the endpoint has
\* not applied of the object includes the object as it stands.
LEMMA SiblingStoreContent ==
  ASSUME Settling, NEW e \in Endpoint, SiblingStore(e)
  PROVE  ContentOnTheWay'
<1> DEFINE k == calls[e]
           l == calls[e].local
           o == calls[e].object
           p == [object |-> o, revision |-> k.base]
<1>1. /\ At(e, "pair") /\ UNCHANGED <<history, content, live, connected>>
  BY DEF SiblingStore, router, objects, stream
<1>2. /\ IInv /\ PairsInv /\ SendingIsKnown(e, k)
      /\ k \in Sending /\ k.step = "pair" /\ l \in LocalId /\ k # None
      /\ OldIsFollowed /\ InTurn /\ JoinsInTime /\ ShownOrDue /\ StartsEmpty
  BY <1>1, SendingAt DEF At, Settling, OneEach, ContentOnTheWay
<1>3. /\ o \in Object /\ Known(l, o) /\ k.base \in 0..MaxRevision
  <2>1. SendingOK(k)
    BY <1>1, SendingAt DEF Settling
  <2> QED
    BY <1>2, <2>1, Names DEF SendingOK, Sending, SendingIsKnown
<1>4. Holders(e, o) \subseteq {l}
  BY <1>2, <1>3 DEF Holders, PairsInv, OneToOne, Known
<1>5. row' = [row EXCEPT ![e][l] = p] /\ Step(e, Reached(k, "put"))
  BY <1>4 DEF SiblingStore
<1>6. /\ row'[e][l] = p
      /\ \A d \in Endpoint, j \in LocalId : d # e \/ j # l => row'[d][j] = row[d][j]
  BY <1>2, <1>5 DEF IInv, TypeOK
<1>7. p # None /\ p.object = o
  BY <1>3, PairType
<1>8. /\ calls'[e] = Reached(k, "put") /\ calls'[e] # None /\ calls'[e].step = "put"
      /\ \A d \in Endpoint : d # e => calls'[d] = calls[d]
  <2>1. Reached(k, "put").step = "put" /\ Reached(k, "put") \in Sending
    BY <1>2 DEF Reached, Sending
  <2> QED
    BY <1>2, <1>5, <2>1, StepOf, SiblingsAssumption
<1> HIDE DEF k, l, o, p
<1>9. ASSUME NEW j \in LocalId, NEW q \in Object, Known(j, q)' PROVE Known(j, q)
  <2>1. PICK d \in Endpoint : row'[d][j] # None /\ row'[d][j].object = q
    BY <1>9 DEF Known, Bound
  <2> QED
    BY <1>3, <1>6, <1>7, <2>1 DEF Known, Bound
<1>10. ASSUME NEW d \in Endpoint, NEW q PROVE Due(d, q) => Due(d, q)'
  BY <1>1, <1>2, <1>8 DEF Due, DueFrame, DueAnswer, At, k
<1>11. ASSUME NEW f, Faithful(f), Followed(f), f.to # e \/ f.object # o
       PROVE  Followed(f)'
  <2>1. f.to \in Endpoint /\ f.object \in Object
    BY <1>11 DEF Faithful
  <2>2. CASE Due(f.to, f.object)
    BY <1>10, <2>1, <2>2 DEF Followed
  <2>3. CASE Overtaken(f)
    <3>1. PICK j \in LocalId : /\ Bound(f.to, j) /\ row[f.to][j].object = f.object
                               /\ row[f.to][j].revision > f.revision
      BY <2>3 DEF Overtaken, Holders
    <3>2. f.to # e \/ j # l
      BY <1>2, <1>3, <1>11, <2>1, <3>1 DEF PairsInv, OneToOne, Known, l
    <3>3. row'[f.to][j] = row[f.to][j]
      BY <1>6, <2>1, <3>2
    <3> QED
      BY <3>1, <3>3 DEF Followed, Overtaken, Holders, Bound
  <2> QED
    BY <1>11, <2>2, <2>3 DEF Followed
<1>12. OldIsFollowed'
  <2>1. ASSUME NEW i \in 1..Len(live), live[i].event = "object", NEW f, f = live[i]
        PROVE  Followed(f)'
    <3>1. Faithful(f) /\ Followed(f)
      BY <1>2, <2>1, LiveAt DEF OldIsFollowed
    <3>2. CASE f.to = e /\ f.object = o
      <4>1. DueFrame(e, o)
        BY <1>2, <1>3, <2>1, <3>2 DEF JoinsInTime, k, l
      <4> QED
        BY <1>10, <3>2, <4>1 DEF Followed, Due
    <3> QED
      BY <1>11, <3>1, <3>2
  <2>2. ASSUME NEW d \in Endpoint, At(d, "apply")', NEW f, f = calls'[d].frame
        PROVE  Followed(f)'
    <3>1. d # e /\ calls'[d] = calls[d] /\ At(d, "apply") /\ f = calls[d].frame
      BY <1>8, <2>2 DEF At
    <3>2. Faithful(f) /\ f.to = d /\ Followed(f)
      BY <1>2, <3>1, AnswersAt DEF OldIsFollowed
    <3> QED
      BY <1>11, <3>1, <3>2
  <2> QED
    BY <1>1, <2>1, <2>2 DEF OldIsFollowed
<1>13. InTurn'
  BY <1>1, <1>2 DEF InTurn
<1>14. JoinsInTime'
  <2> SUFFICES ASSUME NEW d \in Endpoint, NEW i \in 1..Len(live),
                      calls'[d] # None, calls'[d].step \in Joining,
                      live[i].event = "object", live[i].to = d,
                      NEW j, j = calls[d].local, NEW q, q = live[i].object, Known(j, q)'
               PROVE  DueFrame(d, q)
    <3>1. SUFFICES ASSUME NEW d \in Endpoint, NEW i \in 1..Len(live),
                          calls'[d] # None, calls'[d].step \in Joining,
                          live[i].event = "object", live[i].to = d,
                          Known(calls[d].local, live[i].object)'
                   PROVE  DueFrame(d, live[i].object)
      BY <1>1 DEF JoinsInTime, Joining, DueFrame
    <3>2. d # e /\ calls'[d] = calls[d]
      BY <1>8, <3>1 DEF Joining
    <3>3. ASSUME NEW j, j = calls[d].local, NEW q, q = live[i].object PROVE Known(j, q)'
      BY <1>1, <3>1, <3>2, <3>3 DEF Known, Bound
    <3> QED
      BY <3>1, <3>3
  <2>1. d # e /\ calls'[d] = calls[d]
    BY <1>8 DEF Joining
  <2>2. j \in LocalId /\ q \in Object
    <3>1. At(d, "sibling") \/ At(d, "bind") \/ At(d, "pair")
      BY <2>1 DEF At, Joining
    <3> QED
      BY <1>2, <3>1, SendingAt, LiveAt DEF Settling, Faithful
  <2>3. Known(j, q)
    BY <1>9, <2>2
  <2> QED
    BY <1>2, <2>1, <2>3 DEF JoinsInTime, Joining
<1>15. ShownOrDue'
  <2> SUFFICES ASSUME NEW j \in LocalId, NEW q \in Object, Known(j, q)'
               PROVE  Shown(j, q)' \/ \E d \in Endpoint : Due(d, q)'
    BY DEF ShownOrDue
  <2>1. Shown(j, q)' <=> Shown(j, q)
    BY <1>1 DEF Shown, Current
  <2> QED
    BY <1>2, <1>9, <1>10, <2>1 DEF ShownOrDue
<1>16. StartsEmpty'
  BY <1>1, <1>2, ConnectedIf DEF StartsEmpty, k
<1> QED
  BY <1>12, <1>13, <1>14, <1>15, <1>16 DEF ContentOnTheWay

\* Everything a connection is sent first is as it stands.
LEMMA CatchUpNewest ==
  ASSUME NEW from, NEW order \in InOrder(Missed(from)), live' = CatchUp(order)
  PROVE  \A i \in 1..Len(live') :
           live'[i].event = "object" => live'[i].revision = Len(history[live'[i].object])
<1> DEFINE n == Cardinality(Missed(from))
           frames == [i \in DOMAIN order |->
             LET o == order[i][1] IN Frame(Endpoints[order[i][2]], o, history[o], changed[o])]
<1>1. n \in Nat /\ order \in [1..n -> Missed(from)]
  BY OrderOf, MissedOf
<1>2. frames = [i \in 1..n |-> frames[i]]
      /\ \A i \in 1..n : frames[i].revision = Len(history[frames[i].object])
  BY <1>1 DEF Frame
<1>3. live' = frames \o <<CaughtUp(seq)>>
  BY DEF CatchUp
<1> HIDE DEF n, frames
<1>4. frames \in Seq({frames[i] : i \in 1..n}) /\ Len(frames) = n
  BY <1>1, <1>2
<1>5. /\ Len(live') = n + 1
      /\ live' = [i \in 1..n + 1 |-> IF i <= n THEN frames[i] ELSE CaughtUp(seq)]
  BY <1>1, <1>3, <1>4
<1>6. ASSUME NEW i \in 1..n + 1, live'[i].event = "object"
      PROVE  live'[i].revision = Len(history[live'[i].object])
  <2>1. CASE i <= n
    <3>1. i \in 1..n /\ live'[i] = frames[i]
      BY <1>1, <1>5, <2>1
    <3> QED
      BY <1>2, <3>1
  <2>2. CASE i > n
    <3>1. live'[i] = CaughtUp(seq)
      BY <1>1, <1>5, <2>2
    <3> QED
      BY <1>6, <3>1 DEF CaughtUp
  <2> QED
    BY <1>1, <2>1, <2>2
<1> QED
  BY <1>5, <1>6

LEMMA ConnectContent == ASSUME Settling, IInv', Connect PROVE ContentOnTheWay'
<1>1. /\ connected' = TRUE /\ UNCHANGED <<history, row, calls>>
      /\ \A e \in Endpoint : calls[e] = None
      /\ \A e \in Endpoint, l \in LocalId : ~Bound(e, l)
  BY DEF Connect, router, objects, store, process, Settling, ContentOnTheWay, StartsEmpty
<1>2. ASSUME NEW i \in 1..Len(live'), live'[i].event = "object"
      PROVE  live'[i].revision = Len(history[live'[i].object])
  BY <1>2, CatchUpNewest DEF Connect
<1>3. OldIsFollowed'
  <2>1. ASSUME NEW i \in 1..Len(live'), live'[i].event = "object", NEW f, f = live'[i]
        PROVE  Followed(f)'
    <3>1. live'[i].revision = Len(history'[live'[i].object])
      BY <1>1, <1>2, <2>1
    <3> QED
      BY <2>1, <3>1 DEF Followed, Due, DueFrame
  <2> QED
    BY <1>1, <2>1 DEF OldIsFollowed, At
<1>4. InTurn'
  <2> SUFFICES ASSUME NEW i \in 1..Len(live'), NEW j \in 1..Len(live'),
                      live'[i].event = "object", live'[j].event = "object",
                      live'[i].object = live'[j].object
               PROVE  live'[i].revision <= live'[j].revision
    BY DEF InTurn
  <2>1. live'[i].revision = live'[j].revision
    BY <1>2
  <2>2. live'[j].revision \in Nat
    <3>1. live'[j].object \in Object
      BY DEF IInv, StreamOK, LiveFrame, Faithful
    <3>2. history[live'[j].object] \in Seq(Revision)
      BY <3>1 DEF Settling, OneEach, IInv, HistoryOK
    <3> QED
      BY <1>2, <3>2
  <2> QED
    BY <2>1, <2>2
<1>5. JoinsInTime' /\ ShownOrDue' /\ StartsEmpty'
  BY <1>1 DEF JoinsInTime, ShownOrDue, StartsEmpty, Known, Bound
<1> QED
  BY <1>3, <1>4, <1>5 DEF ContentOnTheWay

\* Where the frames of a change go in the stream.
LEMMA PublishedAfter ==
  ASSUME StreamOK, connected, NEW n \in Nat, NEW frames, frames = [i \in 1..n |-> frames[i]],
         Publish(frames)
  PROVE  /\ Len(live) \in Nat /\ Len(live') = Len(live) + n
         /\ \A i \in 1..Len(live) : i \in 1..Len(live') /\ live'[i] = live[i]
         /\ \A i \in 1..n : Len(live) + i \in 1..Len(live') /\ live'[Len(live) + i] = frames[i]
         /\ \A i \in 1..Len(live') :
              i \in 1..Len(live) \/ (i - Len(live) \in 1..n /\ live'[i] = frames[i - Len(live)])
<1>1. live \in Seq({live[i] : i \in 1..Len(live)}) /\ Len(live) \in Nat
  BY DEF StreamOK
<1>2. frames \in Seq({frames[i] : i \in 1..n}) /\ Len(frames) = n
  OBVIOUS
<1>3. live' = live \o frames
  BY DEF Publish
<1>4. /\ Len(live') = Len(live) + n
      /\ \A i \in 1..Len(live') :
           live'[i] = IF i <= Len(live) THEN live[i] ELSE frames[i - Len(live)]
  BY <1>1, <1>2, <1>3
<1>5. ASSUME NEW i \in 1..Len(live)
      PROVE  i \in 1..Len(live') /\ live'[i] = live[i]
  <2>1. i \in 1..Len(live') /\ i <= Len(live)
    BY <1>1, <1>4
  <2> QED
    BY <1>4, <2>1
<1>6. ASSUME NEW i \in 1..n
      PROVE  Len(live) + i \in 1..Len(live') /\ live'[Len(live) + i] = frames[i]
  <2>1. /\ Len(live) + i \in 1..Len(live') /\ ~(Len(live) + i <= Len(live))
        /\ Len(live) + i - Len(live) = i
    BY <1>1, <1>4
  <2> QED
    BY <1>4, <2>1
<1>7. ASSUME NEW i \in 1..Len(live')
      PROVE  i \in 1..Len(live) \/ (i - Len(live) \in 1..n /\ live'[i] = frames[i - Len(live)])
  <2>1. CASE i <= Len(live)
    BY <1>1, <2>1
  <2>2. CASE ~(i <= Len(live))
    <3>1. i - Len(live) \in 1..n
      BY <1>1, <1>4, <2>2
    <3> QED
      BY <1>4, <2>2, <3>1
  <2> QED
    BY <2>1, <2>2
<1> QED
  BY <1>1, <1>4, <1>5, <1>6, <1>7

\* A change goes to every endpoint but its origin, behind what is in the stream.
LEMMA ReviseSends ==
  ASSUME IInv, NEW o \in Object, NEW rev, Revise(o, rev), connected,
         Len(history'[o]) = Len(history[o]) + 1
  PROVE  /\ \A i \in 1..Len(live) : i \in 1..Len(live') /\ live'[i] = live[i]
         /\ \A i \in 1..Len(live') :
              \/ i \in 1..Len(live)
              \/ /\ i > Len(live) /\ live'[i].event = "object" /\ live'[i].object = o
                 /\ live'[i].revision = Len(history'[o])
         /\ \A e \in Endpoint : e # rev.by => DueFrame(e, o)'
<1>1. PICK order \in InOrder(Told(o, rev.by)) :
        Publish(FannedOut(order, Append(history[o], rev), seq + 1))
  BY DEF Revise
<1> DEFINE n == Cardinality(Told(o, rev.by))
           frames == FannedOut(order, Append(history[o], rev), seq + 1)
<1>2. /\ n \in Nat /\ order \in [1..n -> Told(o, rev.by)]
      /\ order \in Bijection(1..n, Told(o, rev.by))
  BY OrderOf, ToldOf DEF InOrder
<1>3. Len(Append(history[o], rev)) = Len(history'[o])
  BY DEF IInv, HistoryOK
<1>4. ASSUME NEW i \in 1..n
      PROVE  /\ frames[i].event = "object" /\ frames[i].to = Endpoints[order[i][2]]
             /\ frames[i].object = o /\ frames[i].revision = Len(history'[o])
  <2>1. order[i][1] = o
    BY <1>2 DEF Told
  <2>2. frames[i] = Frame(Endpoints[order[i][2]], o, Append(history[o], rev), seq + 1)
    BY <1>2, <2>1 DEF FannedOut
  <2> QED
    BY <1>3, <2>2 DEF Frame
<1>5. frames = [i \in 1..n |-> frames[i]] /\ Publish(frames)
  BY <1>1, <1>2 DEF FannedOut
<1>6. ASSUME NEW e \in Endpoint, e # rev.by
      PROVE  \E i \in 1..n : Endpoints[order[i][2]] = e
  <2>1. PICK j \in DOMAIN Endpoints : Endpoints[j] = e
    BY DEF Endpoint
  <2>2. <<o, j>> \in Told(o, rev.by)
    BY <1>6, <2>1 DEF Told
  <2>3. PICK i \in 1..n : order[i] = <<o, j>>
    BY <1>2, <2>2 DEF Bijection, Surjection
  <2> QED
    BY <2>1, <2>3
<1> HIDE DEF n, frames
<1>7. /\ Len(live) \in Nat /\ Len(live') = Len(live) + n
      /\ \A i \in 1..Len(live) : i \in 1..Len(live') /\ live'[i] = live[i]
      /\ \A i \in 1..n : Len(live) + i \in 1..Len(live') /\ live'[Len(live) + i] = frames[i]
      /\ \A i \in 1..Len(live') :
           i \in 1..Len(live) \/ (i - Len(live) \in 1..n /\ live'[i] = frames[i - Len(live)])
  <2>1. StreamOK /\ n \in Nat
    BY <1>2 DEF IInv
  <2> QED
    BY <1>5, <2>1, PublishedAfter
<1>8. ASSUME NEW e \in Endpoint, e # rev.by PROVE DueFrame(e, o)'
  <2>1. PICK i \in 1..n : Endpoints[order[i][2]] = e
    BY <1>6, <1>8
  <2>2. PICK j \in 1..Len(live') : live'[j] = frames[i]
    BY <1>7
  <2> QED
    BY <1>4, <2>1, <2>2 DEF DueFrame
<1>9. ASSUME NEW i \in 1..Len(live'), i \notin 1..Len(live)
      PROVE  /\ i > Len(live) /\ live'[i].event = "object" /\ live'[i].object = o
             /\ live'[i].revision = Len(history'[o])
  <2>1. i > Len(live)
    BY <1>2, <1>7, <1>9
  <2> QED
    BY <1>4, <1>7, <1>9, <2>1
<1> QED
  BY <1>7, <1>8, <1>9

\* A change puts everything said of the object before it out of date, and each
\* endpoint is told or has the answer.
LEMMA ReviseContent ==
  ASSUME Settling, IInv', NEW o \in Object, NEW rev, rev \in Revision', Revise(o, rev),
         edited' \in Nat, edited <= edited', UNCHANGED <<connected, row, content>>,
         \A e \in Endpoint :
           \/ calls'[e] = calls[e] /\ e # rev.by
           \/ At(e, "put") /\ DueAnswer(e, o)' /\ calls'[e].frame.to = e
  PROVE  ContentOnTheWay'
<1>1. /\ IInv /\ OldIsFollowed /\ InTurn /\ JoinsInTime /\ ShownOrDue /\ StartsEmpty
      /\ HistoryOK /\ StreamOK
  BY DEF Settling, OneEach, IInv, ContentOnTheWay
<1>2. CASE ~connected
  <2>1. /\ live' = <<>> /\ \A e \in Endpoint : calls'[e] = None
        /\ \A e \in Endpoint, l \in LocalId : ~Bound(e, l)
        /\ ~\E i \in 1..Len(<<>>) : TRUE
    BY <1>1, <1>2 DEF StartsEmpty, Revise, Publish, At
  <2> QED
    BY <1>2, <2>1 DEF ContentOnTheWay, OldIsFollowed, InTurn, JoinsInTime, ShownOrDue, StartsEmpty,
                      At, Known, Bound
<1>3. CASE connected
  <2>1. /\ Len(history'[o]) = Len(history[o]) + 1
        /\ \A q \in Object : q # o => history'[q] = history[q]
    BY <1>1, ReviseGrows
  <2>2. /\ \A i \in 1..Len(live) : i \in 1..Len(live') /\ live'[i] = live[i]
        /\ \A i \in 1..Len(live') :
             \/ i \in 1..Len(live)
             \/ /\ i > Len(live) /\ live'[i].event = "object" /\ live'[i].object = o
                /\ live'[i].revision = Len(history'[o])
        /\ \A e \in Endpoint : e # rev.by => DueFrame(e, o)'
    BY <1>1, <1>3, <2>1, ReviseSends
  <2>3. \A e \in Endpoint : Due(e, o)'
    BY <2>2 DEF Due
  <2>4. ASSUME NEW e \in Endpoint, NEW q \in Object, q # o
        PROVE  /\ DueFrame(e, q) => DueFrame(e, q)'
               /\ DueAnswer(e, q) => DueAnswer(e, q)'
    <3>1. history'[q] = history[q]
      BY <2>1, <2>4
    <3>2. DueFrame(e, q) => DueFrame(e, q)'
      BY <2>2, <3>1 DEF DueFrame
    <3>3. DueAnswer(e, q) => DueAnswer(e, q)'
      BY <3>1 DEF DueAnswer, At
    <3> QED
      BY <3>2, <3>3
  <2>5. ASSUME NEW f, Faithful(f), Followed(f) PROVE Followed(f)'
    <3>1. f.to \in Endpoint /\ f.object \in Object
      BY <2>5 DEF Faithful
    <3>2. Overtaken(f) => Overtaken(f)'
      BY DEF Overtaken, Holders, Bound
    <3> QED
      BY <2>3, <2>4, <2>5, <3>1, <3>2 DEF Followed, Due
  <2>6. OldIsFollowed'
    <3>1. ASSUME NEW i \in 1..Len(live'), live'[i].event = "object", NEW f, f = live'[i]
          PROVE  Followed(f)'
      <4>1. CASE i \in 1..Len(live)
        <5>1. f = live[i]
          BY <2>2, <3>1, <4>1
        <5> QED
          BY <1>1, <2>5, <3>1, <4>1, <5>1, LiveAt DEF OldIsFollowed
      <4>2. CASE i \notin 1..Len(live)
        <5>1. f.object = o /\ f.to \in Endpoint
          BY <2>2, <3>1, <4>2 DEF IInv, StreamOK, LiveFrame, Faithful
        <5> QED
          BY <2>3, <5>1 DEF Followed
      <4> QED
        BY <4>1, <4>2
    <3>2. ASSUME NEW e \in Endpoint, At(e, "apply")', NEW f, f = calls'[e].frame
          PROVE  Followed(f)'
      <4>1. CASE calls'[e] = calls[e]
        <5>1. At(e, "apply") /\ f = calls[e].frame
          BY <3>2, <4>1 DEF At
        <5> QED
          BY <1>1, <2>5, <5>1, AnswersAt DEF OldIsFollowed
      <4>2. CASE calls'[e] # calls[e]
        <5>1. f.object = o /\ f.to = e
          BY <3>2, <4>2 DEF DueAnswer
        <5> QED
          BY <2>3, <3>2, <5>1 DEF Followed
      <4> QED
        BY <4>1, <4>2
    <3> QED
      BY <3>1, <3>2 DEF OldIsFollowed
  <2>7. InTurn'
    <3> SUFFICES ASSUME NEW i \in 1..Len(live'), NEW j \in 1..Len(live'), i < j,
                        live'[i].event = "object", live'[j].event = "object",
                        live'[i].to = live'[j].to, live'[i].object = live'[j].object
                 PROVE  live'[i].revision <= live'[j].revision
      BY DEF InTurn
    <3>1. Len(history[o]) \in Nat /\ Len(history'[o]) \in Nat /\ Len(live) \in Nat
      BY <1>1, <2>1 DEF HistoryOK, StreamOK
    <3>2. CASE i \in 1..Len(live) /\ j \in 1..Len(live)
      BY <1>1, <2>2, <3>2 DEF InTurn
    <3>3. CASE i \in 1..Len(live) /\ j \notin 1..Len(live)
      <4>1. /\ live'[i] = live[i] /\ live[i].event = "object" /\ live[i].object = o
            /\ live'[j].revision = Len(history'[o])
        BY <2>2, <3>3
      <4>2. live[i].revision \in Nat /\ live[i].revision <= Len(history[o])
        BY <1>1, <3>3, <4>1, LiveAt, NoneNewer
      <4> QED
        BY <2>1, <3>1, <4>1, <4>2
    <3>4. CASE i \notin 1..Len(live)
      <4>1. i > Len(live) /\ live'[i].revision = Len(history'[o])
        BY <2>2, <3>4
      <4>2. j \notin 1..Len(live)
        BY <3>1, <4>1
      <4>3. live'[j].revision = Len(history'[o])
        BY <2>2, <4>2
      <4> QED
        BY <3>1, <4>1, <4>3
    <3> QED
      BY <3>2, <3>3, <3>4
  <2>8. JoinsInTime'
    <3> SUFFICES ASSUME NEW e \in Endpoint, NEW i \in 1..Len(live'),
                        calls'[e] # None, calls'[e].step \in Joining,
                        live'[i].event = "object", live'[i].to = e,
                        NEW q, q = live'[i].object,
                        Known(calls[e].local, q)'
                 PROVE  DueFrame(e, q)'
      BY DEF JoinsInTime, Joining
    <3>1. calls'[e] = calls[e] /\ e # rev.by
      BY DEF DueAnswer, At, Joining
    <3>2. DueFrame(e, o)'
      BY <2>2, <3>1
    <3>3. CASE q = o
      BY <3>2, <3>3
    <3>4. CASE q # o
      <4>1. i \in 1..Len(live) /\ live'[i] = live[i]
        BY <2>2, <3>4
      <4>2. q \in Object
        BY <1>1, <4>1, LiveAt DEF Faithful
      <4>3. Known(calls[e].local, q)
        BY <3>1 DEF Known, Bound
      <4>4. DueFrame(e, q)
        BY <1>1, <3>1, <4>1, <4>3 DEF JoinsInTime, Joining
      <4> QED
        BY <2>4, <3>4, <4>2, <4>4
    <3> QED
      BY <3>3, <3>4
  <2>9. ShownOrDue'
    <3> SUFFICES ASSUME NEW l \in LocalId, NEW q \in Object, Known(l, q)
                 PROVE  Shown(l, q)' \/ \E e \in Endpoint : Due(e, q)'
      BY DEF ShownOrDue, Known, Bound
    <3>1. CASE q = o
      BY <2>3, <3>1 DEF Known
    <3>2. CASE q # o
      <4>1. Shown(l, q)' <=> Shown(l, q)
        BY <2>1, <3>2 DEF Shown, Current
      <4> QED
        BY <1>1, <2>4, <3>2, <4>1 DEF ShownOrDue, Due
    <3> QED
      BY <3>1, <3>2
  <2>10. StartsEmpty'
    BY <1>3 DEF StartsEmpty
  <2> QED
    BY <2>6, <2>7, <2>8, <2>9, <2>10 DEF ContentOnTheWay
<1> QED
  BY <1>2, <1>3

LEMMA OtherWriteContent ==
  ASSUME Settling, IInv', NEW o \in Object, OtherWrite(o)
  PROVE  ContentOnTheWay'
<1> DEFINE rev == [content |-> edited + 1, by |-> Other]
<1>1. /\ edited' = edited + 1 /\ edited \in Nat /\ Revise(o, rev)
      /\ UNCHANGED <<connected, row, content>> /\ UNCHANGED calls
  BY DEF OtherWrite, Edit, Settling, OneEach, IInv, HistoryOK, store, process
<1>2. rev \in Revision' /\ edited' \in Nat /\ edited <= edited'
  BY <1>1 DEF Revision, Content
<1>3. \A e \in Endpoint : e # rev.by
  BY Names
<1> HIDE DEF rev
<1> QED
  BY <1>1, <1>2, <1>3, ReviseContent

\* A user who is waiting for an answer has one.
LEMMA AnswerCounts ==
  ASSUME NEW e \in Endpoint, NEW o \in Object, NEW n \in 1..MaxRevision, NEW c \in Nat,
         NEW l \in LocalId
  PROVE  [step |-> "apply",
          frame |-> [to |-> e, object |-> o, revision |-> n, content |-> c, local |-> l]] # None
BY SiblingsAssumption DEF Answered

LEMMA SendRevisesContent ==
  ASSUME Settling, IInv', NEW e \in Endpoint, SendRevises(e)
  PROVE  ContentOnTheWay'
<1> SUFFICES ASSUME NEW o, o = Target(e), NEW c, c = calls[e].content,
                    NEW l, l = calls[e].local, NEW n, n = Len(history[o]) + 1
             PROVE  ContentOnTheWay'
  OBVIOUS
<1> DEFINE rev == [content |-> c, by |-> e]
           f == [to |-> e, object |-> o, revision |-> n, content |-> c, local |-> l]
<1>1. /\ IInv /\ At(e, "put") /\ o # None /\ Revise(o, rev) /\ UNCHANGED edited
      /\ Step(e, [step |-> "apply", frame |-> f])
      /\ UNCHANGED <<connected, row, content>>
  BY DEF SendRevises, Accepted, bounds, store, Answer, Settling, OneEach
<1>2. o \in Object /\ c \in Content /\ l \in LocalId
  BY <1>1, PutOf DEF Existing
<1>3. rev \in Revision' /\ edited' \in Nat /\ edited <= edited' /\ rev.by = e
  BY <1>1, <1>2 DEF Revision, Content, IInv, HistoryOK
<1>4. /\ f.object = o /\ f.revision = n /\ f.to = e /\ f.content = c /\ f.local = l
      /\ f = [to |-> f.to, object |-> f.object, revision |-> f.revision,
              content |-> f.content, local |-> f.local]
  OBVIOUS
<1>5. /\ Len(history'[o]) = n /\ history'[o][n] = rev /\ n \in DOMAIN history'[o]
  <2>1. /\ Len(history'[o]) = Len(history[o]) + 1 /\ history'[o][Len(history[o]) + 1] = rev
        /\ Grown /\ Len(history[o]) \in Nat /\ history'[o] \in Seq(Revision')
    BY <1>1, <1>2, <1>3, ReviseGrows DEF IInv, HistoryOK, Grown
  <2> QED
    BY <2>1
<1>6. /\ calls'[e] = [step |-> "apply", frame |-> f]
      /\ \A d \in Endpoint : d # e => calls'[d] = calls[d]
  BY <1>1, StepOf
<1>7. n \in 1..MaxRevision /\ c \in Nat
  <2>1. c \in Nat
    BY <1>2 DEF Content
  <2>2. Len(history'[o]) <= MaxRevision
    BY <1>2 DEF IInv, HistoryOK
  <2>3. Len(history[o]) \in Nat /\ n = Len(history[o]) + 1
    BY <1>1, <1>2 DEF IInv, HistoryOK
  <2> HIDE DEF f, rev
  <2> QED
    BY <1>5, <2>1, <2>2, <2>3, Names
<1>8. [step |-> "apply", frame |-> f] # None
  BY <1>2, <1>7, AnswerCounts
<1> HIDE DEF f, rev
<1>9. calls'[e].step = "apply" /\ calls'[e].frame = f
  BY <1>6
<1>10. DueAnswer(e, o)' /\ calls'[e].frame.to = e
  BY <1>4, <1>5, <1>6, <1>8, <1>9 DEF DueAnswer, At
<1> QED
  BY <1>1, <1>2, <1>3, <1>6, <1>10, ReviseContent

\* What a delivery or an answer leaves behind, whichever record it is written to:
\* nothing is less overtaken, older news of the object is, and the record shows
\* the object or newer news than this is due.
LEMMA WriteSettles ==
  ASSUME OneEach, ShownOrDue, NEW f, Faithful(f), Followed(f), NEW l \in LocalId,
         Write(l, f), UNCHANGED <<objects, edited>>, ~Superseded(l, f),
         \A k \in LocalId : Known(k, f.object) => k = l,
         \A d \in Endpoint : Bound(d, l) => row[d][l].object = f.object,
         content[l] # None => Known(l, f.object)
  PROVE  /\ \A g : Faithful(g) /\ Overtaken(g) => Overtaken(g)'
         /\ \A g : Faithful(g) /\ g.to = f.to /\ g.object = f.object
                   /\ g.revision < f.revision => Overtaken(g)'
         /\ \A k \in LocalId, o \in Object : Known(k, o)' =>
              \/ Shown(k, o)'
              \/ /\ \E e \in Endpoint : Due(e, o)
                 /\ o = f.object => f.revision # Len(history[o])
         /\ \A k \in LocalId, o \in Object : Known(k, o)' /\ content[k] # None => Known(k, o)
<1> DEFINE p == [object |-> f.object, revision |-> f.revision]
<1>1. /\ IInv /\ PairsInv /\ f.to \in Endpoint /\ f.object \in Object /\ f.revision \in 0..MaxRevision
      /\ p \in Pair /\ p # None /\ p.object = f.object /\ p.revision = f.revision
  BY FaithfulRevision, PairType DEF OneEach
<1>2. /\ row'[f.to][l] = p
      /\ \A e \in Endpoint, k \in LocalId : e # f.to \/ k # l => row'[e][k] = row[e][k]
      /\ content'[l] = f.content
      /\ \A k \in LocalId : k # l => content'[k] = content[k]
  BY <1>1, WriteKeeps
<1>3. UNCHANGED history
  BY DEF objects
<1> HIDE DEF p
<1>4. ASSUME NEW g, Faithful(g), Overtaken(g) PROVE Overtaken(g)'
  <2>1. PICK k \in LocalId : /\ Bound(g.to, k) /\ row[g.to][k].object = g.object
                             /\ row[g.to][k].revision > g.revision
    BY <1>4 DEF Overtaken, Holders
  <2>2. g.to \in Endpoint /\ g.revision \in 0..MaxRevision
    BY <1>1, <1>4, FaithfulRevision
  <2>3. CASE g.to = f.to /\ k = l
    <3>1. ~(f.revision < row[f.to][l].revision) /\ g.object = f.object
      BY <1>1, <2>1, <2>3 DEF Superseded
    <3>2. row[f.to][l].revision \in 0..MaxRevision
      BY <1>1, <2>1, <2>3, PairOf
    <3>3. f.revision > g.revision
      BY <1>1, <2>1, <2>2, <2>3, <3>1, <3>2, Names
    <3> QED
      BY <1>1, <1>2, <2>3, <3>1, <3>3 DEF Overtaken, Holders, Bound
  <2>4. CASE g.to # f.to \/ k # l
    <3>1. row'[g.to][k] = row[g.to][k]
      BY <1>2, <2>2, <2>4
    <3> QED
      BY <2>1, <3>1 DEF Overtaken, Holders, Bound
  <2> QED
    BY <2>3, <2>4
<1>5. ASSUME NEW g, Faithful(g), g.to = f.to, g.object = f.object, g.revision < f.revision
      PROVE  Overtaken(g)'
  <2>1. g.revision \in 0..MaxRevision
    BY <1>1, <1>5, FaithfulRevision
  <2>2. f.revision > g.revision
    BY <1>1, <1>5, <2>1, Names
  <2> QED
    BY <1>1, <1>2, <1>5, <2>2 DEF Overtaken, Holders, Bound
<1>6. ASSUME NEW k \in LocalId, NEW o \in Object, Known(k, o)'
      PROVE  (k = l /\ o = f.object) \/ (k # l /\ Known(k, o) /\ o # f.object)
  <2>1. PICK d \in Endpoint : row'[d][k] # None /\ row'[d][k].object = o
    BY <1>6 DEF Known, Bound
  <2>2. CASE k = l
    <3>1. CASE d = f.to
      BY <1>1, <1>2, <2>1, <2>2, <3>1
    <3>2. CASE d # f.to
      BY <1>2, <2>1, <2>2, <3>2 DEF Bound
    <3> QED
      BY <2>2, <3>1, <3>2
  <2>3. CASE k # l
    BY <1>2, <2>1, <2>3 DEF Known, Bound
  <2> QED
    BY <2>2, <2>3
<1>7. ASSUME NEW k \in LocalId, NEW o \in Object, Known(k, o)'
      PROVE  \/ Shown(k, o)'
             \/ /\ \E e \in Endpoint : Due(e, o)
                /\ o = f.object => f.revision # Len(history[o])
  <2>1. CASE k # l
    <3>1. Known(k, o) /\ o # f.object /\ content'[k] = content[k]
      BY <1>2, <1>6, <1>7, <2>1
    <3>2. Shown(k, o) => Shown(k, o)'
      BY <1>3, <3>1 DEF Shown, Current
    <3> QED
      BY <3>1, <3>2 DEF ShownOrDue
  <2>2. CASE k = l
    <3>1. o = f.object
      BY <1>6, <1>7, <2>2
    <3>2. CASE f.revision = Len(history[f.object])
      <4>1. f.content = Current(f.object).content
        BY <1>1, <3>2, NoneNewer
      <4> QED
        BY <1>2, <1>3, <2>2, <3>1, <4>1 DEF Shown, Current
    <3>3. CASE f.revision # Len(history[f.object])
      <4>1. ~Overtaken(f)
        <5>1. SUFFICES ASSUME NEW j \in LocalId, Bound(f.to, j), row[f.to][j].object = f.object,
                              row[f.to][j].revision > f.revision
                       PROVE  FALSE
          BY DEF Overtaken, Holders
        <5>2. j = l
          BY <1>1, <5>1 DEF Known
        <5>3. row[f.to][j].revision \in 0..MaxRevision
          BY <1>1, <5>1, PairOf
        <5>4. f.revision < row[f.to][l].revision
          BY <1>1, <5>1, <5>2, <5>3, Names
        <5> QED
          BY <5>1, <5>2, <5>4 DEF Superseded
      <4> QED
        BY <1>1, <3>1, <3>3, <4>1 DEF Followed
    <3> QED
      BY <3>2, <3>3
  <2> QED
    BY <2>1, <2>2
<1>8. ASSUME NEW k \in LocalId, NEW o \in Object, Known(k, o)', content[k] # None
      PROVE  Known(k, o)
  BY <1>6, <1>8
<1> QED
  BY <1>4, <1>5, <1>7, <1>8

LEMMA ApplySettles ==
  ASSUME OneEach, ShownOrDue, NEW f, Faithful(f), Named(f), Followed(f), Apply(f),
         UNCHANGED <<objects, edited>>
  PROVE  /\ \A g : Faithful(g) /\ Overtaken(g) => Overtaken(g)'
         /\ \A g : Faithful(g) /\ g.to = f.to /\ g.object = f.object
                   /\ g.revision < f.revision /\ f.revision = Len(history[f.object])
                   => Overtaken(g)'
         /\ \A k \in LocalId, o \in Object : Known(k, o)' =>
              \/ Shown(k, o)'
              \/ /\ \E e \in Endpoint : Due(e, o)
                 /\ o = f.object => f.revision # Len(history[o])
         /\ \A k \in LocalId, o \in Object : Known(k, o)' /\ content[k] # None => Known(k, o)
<1>1. IInv /\ PairsInv /\ f.to \in Endpoint /\ f.object \in Object /\ f.revision \in 0..MaxRevision
  BY FaithfulRevision DEF OneEach
<1>2. CASE RecordOf(f) = None
  <2>1. minted < MaxRecords /\ Write(minted + 1, f)
    BY <1>2 DEF Apply
  <2>2. /\ minted + 1 \in LocalId /\ content[minted + 1] = None
        /\ \A d \in Endpoint : ~Bound(d, minted + 1)
    BY <1>1, <2>1, FreshRecord
  <2>3. \A k \in LocalId : ~Known(k, f.object)
    BY <1>1, <1>2, ResolvesToKnown
  <2>4. ~Superseded(minted + 1, f)
    BY <1>1, <2>2 DEF Superseded
  <2> QED
    BY <2>1, <2>2, <2>3, <2>4, WriteSettles
<1>3. ASSUME NEW l, l = RecordOf(f), l # None
      PROVE  /\ l \in LocalId /\ Known(l, f.object)
             /\ \A k \in LocalId : Known(k, f.object) => k = l
             /\ \A d \in Endpoint : Bound(d, l) => row[d][l].object = f.object
  <2>1. l \in LocalId /\ Known(l, f.object)
    BY <1>1, <1>3, ResolvesToKnown
  <2>2. \A k \in LocalId : Known(k, f.object) => k = l
    BY <1>1, <2>1 DEF PairsInv, OneToOne
  <2>3. ASSUME NEW d \in Endpoint, Bound(d, l) PROVE row[d][l].object = f.object
    <3>1. row[d][l].object \in Object /\ Known(l, row[d][l].object)
      BY <1>1, <2>1, <2>3, PairOf DEF Known
    <3> QED
      BY <1>1, <2>1, <3>1 DEF PairsInv, OneToOne
  <2> QED
    BY <2>1, <2>2, <2>3
<1>4. CASE RecordOf(f) # None /\ ~Superseded(RecordOf(f), f)
  <2>1. Write(RecordOf(f), f)
    BY <1>4 DEF Apply
  <2> QED
    BY <1>3, <1>4, <2>1, WriteSettles
<1>5. CASE RecordOf(f) # None /\ Superseded(RecordOf(f), f)
  <2>1. UNCHANGED <<content, row>> /\ UNCHANGED history
    BY <1>5 DEF Apply, objects
  <2>2. f.revision # Len(history[f.object])
    <3>1. PICK l \in LocalId : l = RecordOf(f) /\ Bound(f.to, l) /\ row[f.to][l].object = f.object
                               /\ f.revision < row[f.to][l].revision
      BY <1>1, <1>3, <1>5 DEF Superseded
    <3>2. row[f.to][l].revision <= Len(history[f.object]) /\ row[f.to][l].revision \in 0..MaxRevision
      BY <1>1, <3>1, PairOf DEF IInv, BasesExist
    <3>3. Len(history[f.object]) \in Nat
      BY <1>1, NoneNewer
    <3> QED
      BY <1>1, <3>1, <3>2, <3>3, Names
  <2>3. /\ \A g : Overtaken(g)' <=> Overtaken(g)
        /\ \A k \in LocalId : \A o : Known(k, o)' <=> Known(k, o)
        /\ \A k \in LocalId : \A o : Shown(k, o)' <=> Shown(k, o)
    BY <2>1 DEF Overtaken, Holders, Known, Bound, Shown, Current
  <2> QED
    BY <2>2, <2>3 DEF ShownOrDue
<1> QED
  BY <1>2, <1>4, <1>5

\* A call about to take over a pair is on a record that is there.
LEMMA JoiningAt ==
  ASSUME Settling, NEW e \in Endpoint, calls[e] # None, calls[e].step \in Joining
  PROVE  calls[e].local \in LocalId /\ content[calls[e].local] # None
<1>1. At(e, "sibling") \/ At(e, "bind") \/ At(e, "pair")
  BY DEF At, Joining
<1>2. SendingOK(calls[e])
  BY <1>1, SendingAt DEF Settling
<1> QED
  BY <1>2 DEF SendingOK, Sending

LEMMA SendApplyContent ==
  ASSUME Settling, IInv', NEW e \in Endpoint, SendApply(e)
  PROVE  ContentOnTheWay'
<1> SUFFICES ASSUME NEW f, f = calls[e].frame PROVE ContentOnTheWay'
  OBVIOUS
<1>1. /\ IInv /\ PairsInv /\ OneEach /\ At(e, "apply") /\ calls[e] # None
      /\ Apply(f) /\ End(e) /\ UNCHANGED <<objects, edited>>
      /\ UNCHANGED live /\ UNCHANGED connected /\ UNCHANGED history
      /\ OldIsFollowed /\ InTurn /\ JoinsInTime /\ ShownOrDue /\ StartsEmpty
  BY DEF SendApply, router, objects, stream, bounds, Settling, OneEach, ContentOnTheWay, At
<1>2. Faithful(f) /\ f.to = e /\ Named(f) /\ Followed(f)
  BY <1>1, AnswersAt DEF PairsInv, CallsAreKnown, CallIsKnown, At, OldIsFollowed
<1>3. calls'[e] = None /\ \A d \in Endpoint : d # e => calls'[d] = calls[d]
  BY <1>1, StepOf DEF End
<1>4. /\ \A g : Faithful(g) /\ Overtaken(g) => Overtaken(g)'
      /\ \A g : Faithful(g) /\ g.to = f.to /\ g.object = f.object
                /\ g.revision < f.revision /\ f.revision = Len(history[f.object])
                => Overtaken(g)'
      /\ \A k \in LocalId, o \in Object : Known(k, o)' =>
           \/ Shown(k, o)'
           \/ /\ \E d \in Endpoint : Due(d, o)
              /\ o = f.object => f.revision # Len(history[o])
      /\ \A k \in LocalId, o \in Object : Known(k, o)' /\ content[k] # None => Known(k, o)
  BY <1>1, <1>2, ApplySettles
<1>5. \A d, o : DueFrame(d, o)' <=> DueFrame(d, o)
  BY <1>1 DEF DueFrame
<1>6. ASSUME NEW d \in Endpoint, NEW o, Due(d, o), ~Due(d, o)'
      PROVE  d = e /\ f.object = o /\ f.revision = Len(history[o])
  BY <1>1, <1>2, <1>3, <1>5, <1>6 DEF Due, DueAnswer, At
<1>7. ASSUME NEW g, Faithful(g), Followed(g) PROVE Followed(g)' \/ g.revision = Len(history[g.object])
  <2>1. /\ g.to \in Endpoint /\ g.object \in Object /\ g.revision \in Nat
        /\ Len(history[g.object]) \in Nat /\ g.revision <= Len(history[g.object])
    BY <1>1, <1>7, NoneNewer
  <2>2. CASE Overtaken(g)
    BY <1>4, <1>7, <2>2 DEF Followed
  <2>3. CASE Due(g.to, g.object) /\ ~Due(g.to, g.object)'
    <3>1. g.to = f.to /\ g.object = f.object /\ f.revision = Len(history[g.object])
      BY <1>2, <1>6, <2>1, <2>3
    <3>2. CASE g.revision < f.revision
      BY <1>4, <1>7, <3>1, <3>2 DEF Followed
    <3>3. CASE ~(g.revision < f.revision)
      BY <2>1, <3>1, <3>3
    <3> QED
      BY <3>2, <3>3
  <2> QED
    BY <1>7, <2>2, <2>3 DEF Followed
<1>8. OldIsFollowed'
  <2>1. ASSUME NEW i \in 1..Len(live), live[i].event = "object", NEW g, g = live[i]
        PROVE  Followed(g)'
    <3>1. Faithful(g) /\ Followed(g)
      BY <1>1, <2>1, LiveAt DEF OldIsFollowed
    <3>2. CASE g.revision = Len(history[g.object])
      <4>1. DueFrame(g.to, g.object)
        BY <2>1, <3>2 DEF DueFrame
      <4> QED
        BY <1>5, <4>1 DEF Followed, Due
    <3> QED
      BY <1>7, <3>1, <3>2
  <2>2. ASSUME NEW d \in Endpoint, At(d, "apply")', NEW g, g = calls'[d].frame
        PROVE  Followed(g)'
    <3>1. d # e /\ calls'[d] = calls[d] /\ At(d, "apply") /\ g = calls[d].frame
      BY <1>3, <2>2 DEF At
    <3>2. Faithful(g) /\ Followed(g)
      BY <1>1, <3>1, AnswersAt DEF OldIsFollowed
    <3>3. CASE g.revision = Len(history[g.object])
      <4>1. DueAnswer(d, g.object)' /\ g.to = d
        BY <1>1, <3>1, <3>3, AnswersAt DEF DueAnswer, At
      <4> QED
        BY <4>1 DEF Followed, Due
    <3> QED
      BY <1>7, <3>2, <3>3
  <2> QED
    BY <1>1, <2>1, <2>2 DEF OldIsFollowed
<1>9. InTurn'
  BY <1>1 DEF InTurn
<1>10. JoinsInTime'
  <2> SUFFICES ASSUME NEW d \in Endpoint, NEW i \in 1..Len(live),
                      calls'[d] # None, calls'[d].step \in Joining,
                      live[i].event = "object", live[i].to = d,
                      NEW j, j = calls'[d].local, NEW q, q = live[i].object, Known(j, q)'
               PROVE  DueFrame(d, q)'
    BY <1>1 DEF JoinsInTime, Joining
  <2>1. d # e /\ calls'[d] = calls[d]
    BY <1>3
  <2>2. j \in LocalId /\ content[j] # None /\ q \in Object
    BY <1>1, <2>1, JoiningAt, LiveAt DEF Faithful
  <2>3. Known(j, q)
    BY <1>4, <2>2
  <2> QED
    BY <1>1, <1>5, <2>1, <2>3 DEF JoinsInTime, Joining
<1>11. ShownOrDue'
  <2> SUFFICES ASSUME NEW k \in LocalId, NEW o \in Object, Known(k, o)'
               PROVE  Shown(k, o)' \/ \E d \in Endpoint : Due(d, o)'
    BY DEF ShownOrDue
  <2> QED
    BY <1>4, <1>6
<1>12. StartsEmpty'
  BY <1>1, ConnectedIf DEF StartsEmpty
<1> QED
  BY <1>8, <1>9, <1>10, <1>11, <1>12 DEF ContentOnTheWay

\* What taking the first frame leaves in the stream.
LEMMA TailAt ==
  ASSUME IInv, live # <<>>, live' = Tail(live)
  PROVE  /\ 1 \in 1..Len(live) /\ Head(live) = live[1] /\ Len(live) \in Nat
         /\ \A i \in 1..Len(live') : i + 1 \in 1..Len(live) /\ live'[i] = live[i + 1]
         /\ \A i \in 1..Len(live) : i = 1 \/ \E j \in 1..Len(live') : live'[j] = live[i]
<1>1. live \in Seq({live[i] : i \in 1..Len(live)}) /\ Len(live) \in Nat
  BY DEF IInv, StreamOK
<1>2. /\ Len(live') = Len(live) - 1
      /\ \A i \in 1..Len(live') : live'[i] = live[i + 1]
  BY <1>1, HeadTailProperties
<1>3. \A i \in 1..Len(live') : i + 1 \in 1..Len(live)
  BY <1>1, <1>2
<1>4. ASSUME NEW i \in 1..Len(live), i # 1 PROVE \E j \in 1..Len(live') : live'[j] = live[i]
  <2>1. i - 1 \in 1..Len(live') /\ (i - 1) + 1 = i
    BY <1>1, <1>2, <1>4
  <2>2. live'[i - 1] = live[i]
    BY <1>2, <2>1
  <2> QED
    BY <2>1, <2>2
<1> QED
  BY <1>1, <1>2, <1>3, <1>4

LEMMA ReceiveObjectContent ==
  ASSUME Settling, IInv', ReceiveObject
  PROVE  ContentOnTheWay'
<1> SUFFICES ASSUME NEW f, f = Head(live) PROVE ContentOnTheWay'
  OBVIOUS
<1>1. /\ IInv /\ PairsInv /\ OneEach /\ live # <<>> /\ live' = Tail(live) /\ f.event = "object"
      /\ Apply(f) /\ UNCHANGED <<objects, edited>>
      /\ UNCHANGED calls /\ UNCHANGED connected /\ UNCHANGED history
      /\ OldIsFollowed /\ InTurn /\ JoinsInTime /\ ShownOrDue /\ StartsEmpty
  BY DEF ReceiveObject, Receiving, router, objects, bounds, Settling, OneEach, ContentOnTheWay
<1>2. /\ 1 \in 1..Len(live) /\ f = live[1] /\ Len(live) \in Nat
      /\ \A i \in 1..Len(live') : i + 1 \in 1..Len(live) /\ live'[i] = live[i + 1]
      /\ \A i \in 1..Len(live) : i = 1 \/ \E j \in 1..Len(live') : live'[j] = live[i]
  BY <1>1, TailAt
<1>3. Faithful(f) /\ Named(f) /\ Followed(f)
  BY <1>1, <1>2, LiveAt DEF PairsInv, FramesAreNamed, OldIsFollowed
<1>4. /\ \A g : Faithful(g) /\ Overtaken(g) => Overtaken(g)'
      /\ \A g : Faithful(g) /\ g.to = f.to /\ g.object = f.object
                /\ g.revision < f.revision /\ f.revision = Len(history[f.object])
                => Overtaken(g)'
      /\ \A k \in LocalId, o \in Object : Known(k, o)' =>
           \/ Shown(k, o)'
           \/ /\ \E d \in Endpoint : Due(d, o)
              /\ o = f.object => f.revision # Len(history[o])
      /\ \A k \in LocalId, o \in Object : Known(k, o)' /\ content[k] # None => Known(k, o)
  BY <1>1, <1>3, ApplySettles
<1>5. ASSUME NEW d, NEW o, DueFrame(d, o), ~DueFrame(d, o)'
      PROVE  f.to = d /\ f.object = o /\ f.revision = Len(history[o])
  <2>1. PICK i \in 1..Len(live) : /\ live[i].event = "object" /\ live[i].to = d
                                  /\ live[i].object = o /\ live[i].revision = Len(history[o])
    BY <1>5 DEF DueFrame
  <2>2. ASSUME i # 1 PROVE FALSE
    <3>1. PICK j \in 1..Len(live') : live'[j] = live[i]
      BY <1>2, <2>2
    <3>2. /\ live'[j].event = "object" /\ live'[j].to = d
          /\ live'[j].object = o /\ live'[j].revision = Len(history'[o])
      BY <1>1, <2>1, <3>1
    <3> QED
      BY <1>5, <3>2 DEF DueFrame
  <2> QED
    BY <1>2, <2>1, <2>2
<1>6. \A d, o : DueAnswer(d, o)' <=> DueAnswer(d, o)
  BY <1>1 DEF DueAnswer, At
<1>7. ASSUME NEW g, Faithful(g), Followed(g) PROVE Followed(g)' \/ g.revision = Len(history[g.object])
  <2>1. /\ g.to \in Endpoint /\ g.object \in Object /\ g.revision \in Nat
        /\ Len(history[g.object]) \in Nat /\ g.revision <= Len(history[g.object])
    BY <1>1, <1>7, NoneNewer
  <2>2. CASE Overtaken(g)
    BY <1>4, <1>7, <2>2 DEF Followed
  <2>3. CASE Due(g.to, g.object) /\ ~Due(g.to, g.object)'
    <3>1. g.to = f.to /\ g.object = f.object /\ f.revision = Len(history[g.object])
      BY <1>5, <1>6, <2>1, <2>3 DEF Due
    <3>2. CASE g.revision < f.revision
      BY <1>4, <1>7, <3>1, <3>2 DEF Followed
    <3>3. CASE ~(g.revision < f.revision)
      BY <2>1, <3>1, <3>3
    <3> QED
      BY <3>2, <3>3
  <2> QED
    BY <1>7, <2>2, <2>3 DEF Followed
<1>8. OldIsFollowed'
  <2>1. ASSUME NEW i \in 1..Len(live'), live'[i].event = "object", NEW g, g = live'[i]
        PROVE  Followed(g)'
    <3>1. i + 1 \in 1..Len(live) /\ g = live[i + 1] /\ g.event = "object"
      BY <1>2, <2>1
    <3>2. Faithful(g) /\ Followed(g)
      BY <1>1, <3>1, LiveAt DEF OldIsFollowed
    <3>3. CASE g.revision = Len(history[g.object])
      <4>1. DueFrame(g.to, g.object)'
        BY <1>1, <2>1, <3>3 DEF DueFrame
      <4> QED
        BY <4>1 DEF Followed, Due
    <3> QED
      BY <1>7, <3>2, <3>3
  <2>2. ASSUME NEW d \in Endpoint, At(d, "apply")', NEW g, g = calls'[d].frame
        PROVE  Followed(g)'
    <3>1. At(d, "apply") /\ g = calls[d].frame
      BY <1>1, <2>2 DEF At
    <3>2. Faithful(g) /\ Followed(g) /\ g.to = d
      BY <1>1, <3>1, AnswersAt DEF OldIsFollowed
    <3>3. CASE g.revision = Len(history[g.object])
      <4>1. DueAnswer(d, g.object)'
        BY <1>1, <3>1, <3>3 DEF DueAnswer, At
      <4> QED
        BY <3>2, <4>1 DEF Followed, Due
    <3> QED
      BY <1>7, <3>2, <3>3
  <2> QED
    BY <2>1, <2>2 DEF OldIsFollowed
<1>9. InTurn'
  <2> SUFFICES ASSUME NEW i \in 1..Len(live'), NEW j \in 1..Len(live'), i < j,
                      live'[i].event = "object", live'[j].event = "object",
                      live'[i].to = live'[j].to, live'[i].object = live'[j].object
               PROVE  live'[i].revision <= live'[j].revision
    BY DEF InTurn
  <2>1. /\ i + 1 \in 1..Len(live) /\ live'[i] = live[i + 1]
        /\ j + 1 \in 1..Len(live) /\ live'[j] = live[j + 1] /\ i + 1 < j + 1
    BY <1>2
  <2> QED
    BY <1>1, <2>1 DEF InTurn
<1>10. JoinsInTime'
  <2> SUFFICES ASSUME NEW d \in Endpoint, NEW i \in 1..Len(live'),
                      calls[d] # None, calls[d].step \in Joining,
                      live'[i].event = "object", live'[i].to = d,
                      NEW j, j = calls[d].local, NEW q, q = live'[i].object, Known(j, q)'
               PROVE  DueFrame(d, q)'
    BY <1>1 DEF JoinsInTime, Joining
  <2>1. i + 1 \in 1..Len(live) /\ live'[i] = live[i + 1] /\ 1 < i + 1
    BY <1>2
  <2>2. Faithful(live[i + 1])
    BY <1>1, <2>1, LiveAt
  <2>3. j \in LocalId /\ content[j] # None /\ q \in Object
    BY <2>1, <2>2, JoiningAt DEF Faithful
  <2>4. Known(j, q)
    BY <1>4, <2>3
  <2>5. DueFrame(d, q)
    BY <1>1, <2>1, <2>4 DEF JoinsInTime, Joining
  <2>6. CASE f.to = d /\ f.object = q /\ f.revision = Len(history[q])
    <3>1. f.revision <= live[i + 1].revision
      <4>1. /\ live[1].event = "object" /\ live[i + 1].event = "object"
            /\ live[1].to = live[i + 1].to /\ live[1].object = live[i + 1].object
        BY <1>1, <1>2, <2>1, <2>6
      <4>2. live[1].revision <= live[i + 1].revision
        BY <1>1, <1>2, <2>1, <4>1 DEF InTurn
      <4> QED
        BY <1>2, <4>2
    <3>2. live[i + 1].revision = Len(history[q])
      BY <1>1, <2>1, <2>2, <2>6, <3>1, NoneNewer
    <3> QED
      BY <1>1, <2>1, <3>2 DEF DueFrame
  <2> QED
    BY <1>5, <2>5, <2>6
<1>11. ShownOrDue'
  <2> SUFFICES ASSUME NEW k \in LocalId, NEW o \in Object, Known(k, o)'
               PROVE  Shown(k, o)' \/ \E d \in Endpoint : Due(d, o)'
    BY DEF ShownOrDue
  <2> QED
    BY <1>4, <1>5, <1>6 DEF Due
<1>12. StartsEmpty'
  BY <1>1, ConnectedIf DEF StartsEmpty
<1> QED
  BY <1>8, <1>9, <1>10, <1>11, <1>12 DEF ContentOnTheWay

LEMMA ReceiveCaughtUpContent ==
  ASSUME Settling, ReceiveCaughtUp
  PROVE  ContentOnTheWay'
<1>1. /\ IInv /\ live # <<>> /\ live' = Tail(live) /\ Head(live).event = "caughtUp"
      /\ UNCHANGED <<history, content, row, connected, calls>>
      /\ OldIsFollowed /\ InTurn /\ JoinsInTime /\ ShownOrDue /\ StartsEmpty
  BY DEF ReceiveCaughtUp, Receiving, router, objects, bounds, Settling, OneEach, ContentOnTheWay
<1>2. /\ Head(live) = live[1] /\ Len(live) \in Nat
      /\ \A i \in 1..Len(live') : i + 1 \in 1..Len(live) /\ live'[i] = live[i + 1]
      /\ \A i \in 1..Len(live) : i = 1 \/ \E j \in 1..Len(live') : live'[j] = live[i]
  BY <1>1, TailAt
<1>3. ASSUME NEW d, NEW o, DueFrame(d, o) PROVE DueFrame(d, o)'
  <2>1. PICK i \in 1..Len(live) : /\ live[i].event = "object" /\ live[i].to = d
                                  /\ live[i].object = o /\ live[i].revision = Len(history[o])
    BY <1>3 DEF DueFrame
  <2>2. i # 1
    BY <1>1, <1>2, <2>1
  <2>3. PICK j \in 1..Len(live') : live'[j] = live[i]
    BY <1>2, <2>2
  <2>4. /\ live'[j].event = "object" /\ live'[j].to = d
        /\ live'[j].object = o /\ live'[j].revision = Len(history'[o])
    BY <1>1, <2>1, <2>3
  <2> QED
    BY <2>4 DEF DueFrame
<1>4. ASSUME NEW d, NEW o, Due(d, o) PROVE Due(d, o)'
  BY <1>1, <1>3, <1>4 DEF Due, DueAnswer, At
<1>5. ASSUME NEW g, Followed(g) PROVE Followed(g)'
  BY <1>1, <1>4, <1>5 DEF Followed, Overtaken, Holders, Bound
<1>6. OldIsFollowed'
  <2>1. ASSUME NEW i \in 1..Len(live'), live'[i].event = "object", NEW g, g = live'[i]
        PROVE  Followed(g)'
    BY <1>1, <1>2, <1>5, <2>1 DEF OldIsFollowed
  <2>2. ASSUME NEW d \in Endpoint, At(d, "apply")', NEW g, g = calls'[d].frame
        PROVE  Followed(g)'
    BY <1>1, <1>5, <2>2 DEF OldIsFollowed, At
  <2> QED
    BY <2>1, <2>2 DEF OldIsFollowed
<1>7. InTurn'
  <2> SUFFICES ASSUME NEW i \in 1..Len(live'), NEW j \in 1..Len(live'), i < j,
                      live'[i].event = "object", live'[j].event = "object",
                      live'[i].to = live'[j].to, live'[i].object = live'[j].object
               PROVE  live'[i].revision <= live'[j].revision
    BY DEF InTurn
  <2>1. /\ i + 1 \in 1..Len(live) /\ live'[i] = live[i + 1]
        /\ j + 1 \in 1..Len(live) /\ live'[j] = live[j + 1] /\ i + 1 < j + 1
    BY <1>2
  <2> QED
    BY <1>1, <2>1 DEF InTurn
<1>8. JoinsInTime'
  <2> SUFFICES ASSUME NEW d \in Endpoint, NEW i \in 1..Len(live'),
                      calls[d] # None, calls[d].step \in Joining,
                      live'[i].event = "object", live'[i].to = d,
                      Known(calls[d].local, live'[i].object)
               PROVE  \A q : q = live'[i].object => DueFrame(d, q)'
    BY <1>1 DEF JoinsInTime, Joining, Known, Bound
  <2>1. DueFrame(d, live'[i].object)
    BY <1>1, <1>2 DEF JoinsInTime, Joining
  <2> QED
    BY <1>3, <2>1
<1>9. ShownOrDue'
  <2> SUFFICES ASSUME NEW k \in LocalId, NEW o \in Object, Known(k, o)
               PROVE  Shown(k, o) \/ \E d \in Endpoint : Due(d, o)'
    BY <1>1 DEF ShownOrDue, Known, Bound, Shown, Current
  <2> QED
    BY <1>1, <1>4 DEF ShownOrDue
<1>10. StartsEmpty'
  BY <1>1, ConnectedIf DEF StartsEmpty
<1> QED
  BY <1>6, <1>7, <1>8, <1>9, <1>10 DEF ContentOnTheWay

LEMMA FaultContent ==
  ASSUME CountsOK, Disconnect \/ Crash
  PROVE  ContentOnTheWay'
BY DEF Disconnect, Crash, Fault, CountsOK, ContentOnTheWay

LEMMA InitContent == Init => ContentOnTheWay
<1> SUFFICES ASSUME Init PROVE ContentOnTheWay
  OBVIOUS
<1>1. /\ live = <<>> /\ \A e \in Endpoint : calls[e] = None
      /\ \A e \in Endpoint, l \in LocalId : ~Bound(e, l)
  BY DEF Init, Bound
<1>2. ~\E i \in 1..Len(live) : TRUE
  BY <1>1
<1> QED
  BY <1>1, <1>2 DEF ContentOnTheWay, OldIsFollowed, InTurn, JoinsInTime, ShownOrDue, StartsEmpty,
                    At, Known

LEMMA NextContent ==
  ASSUME OneEach, ContentOnTheWay, IInv', CountsOK, [Next]_vars, Unassisted'
  PROVE  ContentOnTheWay'
<1>1. CASE Disconnect \/ Crash
  BY <1>1, FaultContent
<1>2. CASE ~(Disconnect \/ Crash)
  <2>1. UNCHANGED faults
    BY <1>2, Counting, CountsStep
  <2>2. CASE faults # 0
    BY <2>1, <2>2 DEF ContentOnTheWay
  <2>3. CASE faults = 0
    <3>1. Settling
      BY <2>3 DEF Settling
    <3>2. CASE \E o \in Object : OtherWrite(o)
      BY <3>1, <3>2, OtherWriteContent
    <3>3. CASE Connect
      BY <3>1, <3>3, ConnectContent
    <3>4. CASE Receive
      BY <3>1, <3>4, ReceiveObjectContent, ReceiveCaughtUpContent, BindContent DEF Receive
    <3>5. ASSUME NEW e \in Endpoint, Send(e) PROVE ContentOnTheWay'
      BY <3>1, <3>5, SendReadContent, SiblingReadContent, SiblingBindContent, SiblingStoreContent,
         SendRefusedContent, NeverCreates, SendKeptContent, SendRevisesContent, SendApplyContent
         DEF Send
    <3>6. ASSUME NEW e \in Endpoint, Correct(e) PROVE FALSE
      BY <3>6, NothingCorrected
    <3>7. ASSUME NEW e \in Endpoint, User(e) PROVE ContentOnTheWay'
      BY <3>1, <3>7, CountsStep, BeginSendContent DEF User
    <3>8. ~AddRecord
      BY CountsStep
    <3>9. CASE \E l \in LocalId : EditRecord(l)
      BY <3>1, <3>9, EditRecordContent
    <3>10. CASE UNCHANGED vars
      BY <3>1, <3>10, StutterContent
    <3> QED
      BY <1>2, <3>2, <3>3, <3>4, <3>5, <3>6, <3>7, <3>8, <3>9, <3>10 DEF Next
  <2> QED
    BY <2>2, <2>3
<1> QED
  BY <1>1, <1>2

LEMMA ContentFollows == Spec => [](Unassisted => ContentOnTheWay)
<1> DEFINE Inv == UnassistedInv /\ (Unassisted => ContentOnTheWay)
<1>1. Init => (Unassisted => ContentOnTheWay)
  BY InitContent
<1>2. /\ UnassistedInv /\ UnassistedInv' /\ (Unassisted => ContentOnTheWay) /\ [Next]_vars
      => (Unassisted => ContentOnTheWay)'
  <2> SUFFICES ASSUME UnassistedInv, UnassistedInv', Unassisted => ContentOnTheWay, [Next]_vars,
                      Unassisted'
               PROVE  ContentOnTheWay'
    OBVIOUS
  <2>1. Unassisted
    BY CountsStep DEF UnassistedInv
  <2> QED
    BY <2>1, NextContent DEF UnassistedInv, OneEach
<1> QED
  BY <1>1, <1>2, OneEachHolds, PTL DEF Spec

\* Under the same condition, and while nothing breaks, every record shows at rest
\* its object as it stands, through each of its pairs, unless a user has edited
\* it since: a frame or an answer applied late, or a pair taken over from a
\* sibling, never leaves an older revision behind (apply in inbound.go, send and
\* bindAsSibling in outbound.go).
THEOREM ContentStands == Spec => [](Unassisted => ShowsWhatStands)
<1>1. UnassistedInv /\ (Unassisted => ContentOnTheWay) => (Unassisted => ShowsWhatStands)
  <2> SUFFICES ASSUME UnassistedInv, ContentOnTheWay, AtRest,
                      NEW e \in Endpoint, NEW l \in LocalId, Bound(e, l),
                      NEW o, o = row[e][l].object
               PROVE  Shown(l, o)
    BY DEF ShowsWhatStands, Shown
  <2>1. o \in Object /\ Known(l, o)
    BY PairOf DEF Known, UnassistedInv
  <2>2. ~\E i \in 1..Len(live) : TRUE
    BY DEF AtRest
  <2>3. \A d \in Endpoint : ~Due(d, o)
    BY <2>2 DEF AtRest, Due, DueFrame, DueAnswer, At
  <2> QED
    BY <2>1, <2>3 DEF AtRest, ContentOnTheWay, ShownOrDue
<1> QED
  BY <1>1, OneEachHolds, ContentFollows, PTL

=============================================================================
