-------------------------- MODULE TranscriptProofs --------------------------
(***************************************************************************)
(* Proofs about TranscriptMirror, for any number of messages, epochs,      *)
(* stops and faults and for chains and streams of any length.              *)
(*                                                                         *)
(* Three strands carry the properties.  What the export that runs has read *)
(* covers what the mirror holds of the conversation; it covers what the    *)
(* object was told of unless the dirty flag is up; and an idle stop past   *)
(* its drain is over a conversation nobody can add to.                     *)
(***************************************************************************)
EXTENDS TranscriptMirror, SequenceTheorems, WellFoundedInduction, TLAPS

-----------------------------------------------------------------------------
\* The shape of the state

Exports == [reason : Reasons, epoch : Nat, at : {"read", "put", "store"}, messages : SUBSET Nat]
StreamEvents == [kind : {"activity", "ask", "stop"}, msg : Nat]
Subscriptions ==
    [epoch : Nat, target : Nat, open : BOOLEAN, turn : BOOLEAN, stream : Seq(StreamEvents)]
Boxes == [up : BOOLEAN, conv : SUBSET Nat, busy : BOOLEAN]
Stops == [kind : {"none", "idle", "force", "purge"}, at : StopSteps, failed : BOOLEAN]
Counters == [messages : Nat, epoch : Nat, stops : Nat, faults : Nat]

Shape ==
    /\ gate \in [phase : Phases, epoch : Nat]
    /\ believed \in BOOLEAN /\ dirty \in BOOLEAN /\ summary \in BOOLEAN
    /\ observed \in BOOLEAN /\ announced \in BOOLEAN
    /\ box \in Boxes
    /\ target \in Nat
    /\ live \in Subscriptions
    /\ timer \in Nat
    /\ chain \in Seq(Exports)
    /\ stop \in Stops
    /\ saved \in SUBSET Nat /\ r2 \in SUBSET Nat /\ noticed \in SUBSET Nat
    /\ used \in Counters

-----------------------------------------------------------------------------
\* The inductive invariant

Written == 1..used.messages

\* Nothing names a message that was not written, and only a conversation that
\* has a target is written to.
WrittenSound ==
    /\ saved \subseteq box.conv /\ box.conv \subseteq Written /\ noticed \subseteq Written
    /\ r2 \subseteq 0..used.messages
    /\ used.messages > 0 => target > 0
    /\ box.busy => used.messages > 0

\* Only the first export of the chain has begun, and what it is about to put
\* covers what the mirror holds of the conversation.
ChainSound ==
    /\ \A i \in DOMAIN chain : i > 1 => chain[i].at = "read"
    /\ Running("put") =>
          (r2 \cap box.conv) \subseteq Head(chain).messages /\ Head(chain).messages \subseteq Written

\* A stop's step and the gate agree, a purge goes its own way, and the object
\* knows of a container that is up.
StopSound ==
    /\ box.up => believed
    /\ stop.kind = "none" => stop.at = "none" /\ gate.phase \in {"running", "sleeping"}
    /\ stop.kind = "purge" <=> stop.at \in {"remove", "sweep", "purged"}
    /\ stop.at = "drain" => gate.phase = "quiescing"
    /\ stop.at \in {"export", "checkpoint"} => gate.phase = "checkpointing"
    /\ stop.at = "terminate" => gate.phase = "stopping"

\* The exports of a stop, which are for no epoch.
Own(e) == e.reason = "stop"
HasOwn == \E i \in DOMAIN chain : Own(chain[i])

\* An idle stop past its drain, over a container that is up.
IdleStop == stop.kind = "idle" /\ gate.phase \in {"checkpointing", "stopping"} /\ box.up

\* There nothing is written any more, so the stop's own export, for as long as
\* it has not failed, covers all there is.
ExportSound ==
    /\ \A i \in DOMAIN chain : Own(chain[i]) => stop.at = "checkpoint" /\ chain[i].epoch = NoEpoch
    /\ IdleStop =>
          /\ ~box.busy
          /\ Running("put") /\ Own(Head(chain)) => box.conv \subseteq Head(chain).messages
          /\ Running("store") /\ Own(Head(chain)) => box.conv \subseteq r2
          /\ stop.at = "checkpoint" /\ ~stop.failed => HasOwn \/ box.conv \subseteq r2
          /\ stop.at = "terminate" /\ ~stop.failed => box.conv \subseteq r2

Told == noticed \cap box.conv

\* With the flag down, what the object was told of is in the mirror or in the
\* export that goes there.
FlagSound ==
    ~dirty /\ ~Purging =>
        /\ Running("put") => Told \subseteq Head(chain).messages
        /\ Running("store") => Told \subseteq r2
        /\ chain = <<>> => Told \subseteq r2

\* Whether a run counts as observed before the k-th event of a stream, when it
\* does (o) or not before the first.
Before(o, stream, k) ==
    \/ o /\ \A i \in 1..k-1 : stream[i].kind = "ask"
    \/ \E j \in 1..k-1 :
          stream[j].kind = "activity" /\ \A i \in j+1..k-1 : stream[i].kind = "ask"

\* Whether a stop that was observed has been announced (a) or is still to be read.
Heard(o, a, stream) ==
    a \/ \E k \in DOMAIN stream : stream[k].kind = "stop" /\ Before(o, stream, k)

\* A turn begun on the open stream is observed by the time its events are read,
\* or its stop has been announced or is still to be read by one who observed it.
TurnSound ==
    /\ live.turn => live.open /\ used.messages > 0
    /\ live.epoch <= used.epoch /\ gate.epoch <= used.epoch
    /\ \A k \in DOMAIN live.stream : live.stream[k].msg <= used.messages
    /\ live.turn /\ live.target = target /\ box.up =>
          IF box.busy THEN Before(observed, live.stream, Len(live.stream) + 1)
          ELSE Heard(observed, announced, live.stream)

Inv == Shape /\ WrittenSound /\ ChainSound /\ StopSound /\ ExportSound /\ FlagSound /\ TurnSound

-----------------------------------------------------------------------------
\* Constants and sequences

\* The bounds are natural numbers.
LEMMA Bounds ==
    /\ MaxCreates \in Nat /\ MaxMessages \in Nat /\ MaxEpoch \in Nat
    /\ MaxChain \in Nat /\ MaxStops \in Nat /\ MaxFaults \in Nat
  BY TranscriptAssumption DEF TranscriptAssumption

\* The values nothing is known by have the types of those that are.
LEMMA NothingType == NoLive \in Subscriptions /\ NoStop \in Stops
<1>1. <<>> \in Seq(StreamEvents)
  BY EmptySeq
<1>2. NoLive \in Subscriptions
  BY <1>1 DEF NoLive, Subscriptions, NoEpoch, NoTarget
<1>3. NoStop \in Stops
  BY DEF NoStop, Stops, StopSteps
<1> QED
  BY <1>2, <1>3

\* A new export has still to be read.
LEMMA NewExportType ==
  ASSUME NEW reason \in Reasons, NEW epoch \in Nat
  PROVE  /\ NewExport(reason, epoch) \in Exports
         /\ NewExport(reason, epoch).at = "read"
         /\ NewExport(reason, epoch).reason = reason
         /\ NewExport(reason, epoch).epoch = epoch
  BY DEF NewExport, Exports

\* A set of natural numbers that is not empty has a least one.
LEMMA Least ==
  ASSUME NEW S \in SUBSET Nat, S # {}
  PROVE  \E m \in S : \A j \in S : m <= j
<1>1. PICK m \in S : \A j \in S : ~(<<j, m>> \in OpToRel(<, Nat))
  <2> DEFINE R == OpToRel(<, Nat)
  <2>1. IsWellFoundedOn(R, Nat)
    BY NatLessThanWellFounded
  <2> HIDE DEF R
  <2>2. \E x \in S : \A y \in S : ~(<<y, x>> \in R)
    BY <2>1, WFMin
  <2> QED
    BY <2>2 DEF R
<1>2. ASSUME NEW j \in S  PROVE m <= j
  <2>1. ~(<<j, m>> \in {ss \in Nat \X Nat : ss[1] < ss[2]})
    BY <1>1 DEF OpToRel
  <2>2. ~(j < m)
    BY <2>1
  <2> QED
    BY <2>2
<1> QED
  BY <1>2

\* A queue whose exports have all still to be read.
Fresh(q) == \A i \in DOMAIN q : q[i].at = "read"

\* The chain goes on with exports that were in the queue, and drops none that has
\* something to say.
LEMMA AdvanceFacts ==
  ASSUME NEW q \in Seq(Exports)
  PROVE  /\ Advance(q) \in Seq(Exports)
         /\ \A i \in DOMAIN Advance(q) : \E j \in DOMAIN q : Advance(q)[i] = q[j]
         /\ \A j \in DOMAIN q : MayExport(q[j]) => \E i \in DOMAIN Advance(q) : Advance(q)[i] = q[j]
<1> DEFINE able == {i \in DOMAIN q : MayExport(q[i])}
<1>0. DOMAIN q = 1..Len(q) /\ Len(q) \in Nat
  BY LenProperties
<1>1. CASE able = {}
  <2>1. Advance(q) = <<>>
    BY <1>1 DEF Advance
  <2>2. <<>> \in Seq(Exports) /\ DOMAIN <<>> = {}
    BY EmptySeq
  <2> QED
    BY <1>1, <2>1, <2>2
<1>2. CASE able # {}
  <2> DEFINE m == CHOOSE i \in able : \A j \in able : i <= j
  <2>0. able \in SUBSET Nat
    BY <1>0
  <2>1. \E i \in able : \A j \in able : i <= j
    <3> HIDE DEF able
    <3> QED
      BY <1>2, <2>0, Least
  <2>2. m \in able /\ \A j \in able : m <= j
    BY <2>1
  <2>3. Advance(q) = SubSeq(q, m, Len(q))
    BY <1>2 DEF Advance
  <2>4. m \in 1..Len(q)
    BY <1>0, <2>2
  <2> HIDE DEF m
  <2>5. \A i \in m..Len(q) : q[i] \in Exports
    BY <1>0, <2>4, ElementOfSeq
  <2> DEFINE a == SubSeq(q, m, Len(q))
  <2>6. /\ a \in Seq(Exports)
        /\ Len(a) = Len(q) - m + 1
        /\ \A i \in 1..Len(q) - m + 1 : a[i] = q[m + i - 1]
    BY <1>0, <2>4, <2>5, SubSeqProperties
  <2>7. DOMAIN a = 1..Len(q) - m + 1
    BY <2>6, LenProperties
  <2> HIDE DEF a
  <2>8. ASSUME NEW i \in DOMAIN a  PROVE \E j \in DOMAIN q : a[i] = q[j]
    <3>1. m + i - 1 \in 1..Len(q)
      BY <1>0, <2>4, <2>7
    <3> QED
      BY <1>0, <2>6, <2>7, <3>1
  <2>9. ASSUME NEW j \in DOMAIN q, MayExport(q[j])
        PROVE  \E i \in DOMAIN a : a[i] = q[j]
    <3>1. j \in able
      BY <2>9
    <3>2. m <= j
      BY <2>2, <3>1
    <3>3. j - m + 1 \in 1..Len(q) - m + 1 /\ m + (j - m + 1) - 1 = j
      BY <1>0, <2>4, <3>2
    <3>4. a[j - m + 1] = q[j]
      BY <2>6, <3>3
    <3> QED
      BY <2>7, <3>3, <3>4
  <2> QED
    BY <2>3, <2>6, <2>8, <2>9 DEF a
<1> QED
  BY <1>1, <1>2

\* Of a queue that is fresh, it goes on fresh.
LEMMA AdvanceFresh ==
  ASSUME NEW q \in Seq(Exports), Fresh(q)
  PROVE  Fresh(Advance(q))
  BY AdvanceFacts DEF Fresh

\* A queue of one export.
LEMMA Single ==
  ASSUME NEW e \in Exports
  PROVE  <<e>> \in Seq(Exports) /\ DOMAIN <<e>> = {1} /\ <<e>>[1] = e
  OBVIOUS

-----------------------------------------------------------------------------
\* How the chain moves

\* Another export is chained to the one that runs.
Chained ==
    /\ chain # <<>>
    /\ \E reason \in Reasons, epoch \in Nat : chain' = Append(chain, NewExport(reason, epoch))

\* Nothing has begun to be exported.
Begun == chain' \in Seq(Exports) /\ Fresh(chain')

\* An export that begins takes the flag down; otherwise it is what it is told.
FlagMoves(flag) == dirty' \in BOOLEAN /\ (dirty' = flag \/ chain' # <<>>)

\* mirrorTranscript leaves the chain, chains to it or begins it.
LEMMA MirrorMoves ==
  ASSUME Shape, NEW reason \in Reasons, NEW epoch \in Nat, NEW flag \in BOOLEAN,
         MirrorTranscript(reason, epoch, flag)
  PROVE  \/ (chain' = chain \/ Chained) /\ dirty' = flag
         \/ chain = <<>> /\ Begun /\ FlagMoves(flag)
<1> DEFINE e == NewExport(reason, epoch)
<1>1. e \in Exports /\ e.at = "read"
  BY NewExportType
<1>2. <<e>> \in Seq(Exports) /\ Fresh(<<e>>)
  <2> HIDE DEF e
  <2> QED
    BY <1>1, Single DEF Fresh
<1>3. Advance(<<e>>) \in Seq(Exports) /\ Fresh(Advance(<<e>>))
  <2> HIDE DEF e
  <2> QED
    BY <1>2, AdvanceFacts, AdvanceFresh
<1>4. CASE Joins(reason)
  BY <1>4 DEF MirrorTranscript
<1>5. CASE ~Joins(reason) /\ chain # <<>>
  BY <1>5 DEF MirrorTranscript, Chained
<1>6. CASE ~Joins(reason) /\ chain = <<>>
  BY <1>3, <1>6 DEF MirrorTranscript, ClearDirty, Begun, FlagMoves
<1> QED
  BY <1>4, <1>5, <1>6

\* The end of an export begins the next.
LEMMA FinishMoves ==
  ASSUME Shape, ChainSound, chain # <<>>, NEW flag \in BOOLEAN, Finish(flag)
  PROVE  Begun /\ FlagMoves(flag)
<1>1. /\ Tail(chain) \in Seq(Exports)
      /\ Len(Tail(chain)) = Len(chain) - 1
      /\ \A i \in 1..Len(Tail(chain)) : Tail(chain)[i] = chain[i + 1]
  BY HeadTailProperties DEF Shape
<1>2. Len(chain) \in Nat /\ DOMAIN chain = 1..Len(chain)
  BY LenProperties DEF Shape
<1>3. DOMAIN Tail(chain) = 1..Len(Tail(chain))
  BY <1>1, LenProperties
<1>4. ASSUME NEW i \in DOMAIN Tail(chain)  PROVE Tail(chain)[i].at = "read"
  <2>1. i + 1 \in DOMAIN chain /\ i + 1 > 1
    BY <1>1, <1>2, <1>3
  <2> QED
    BY <1>1, <1>3, <2>1 DEF ChainSound
<1>5. Fresh(Tail(chain))
  BY <1>4 DEF Fresh
<1>6. Advance(Tail(chain)) \in Seq(Exports) /\ Fresh(Advance(Tail(chain)))
  BY <1>1, <1>5, AdvanceFacts, AdvanceFresh
<1> QED
  BY <1>6 DEF Finish, Begun, ClearDirty, FlagMoves

\* What a chain shows when another export is chained to it.
LEMMA ChainedFacts ==
  ASSUME Shape, Chained
  PROVE  /\ chain' \in Seq(Exports) /\ chain' # <<>>
         /\ Len(chain') = Len(chain) + 1
         /\ \A i \in 1..Len(chain) : chain'[i] = chain[i]
         /\ chain'[Len(chain) + 1].at = "read"
         /\ Head(chain') = Head(chain)
<1>1. PICK reason \in Reasons, epoch \in Nat : chain' = Append(chain, NewExport(reason, epoch))
  BY DEF Chained
<1> DEFINE e == NewExport(reason, epoch)
<1>2. e \in Exports /\ e.at = "read"
  BY NewExportType
<1> HIDE DEF e
<1>3. chain' = Append(chain, e)
  BY <1>1 DEF e
<1>4. Head(chain') = Head(chain)
  BY <1>3, HeadTailAppend DEF Shape, Chained
<1> QED
  BY <1>2, <1>3, <1>4, AppendProperties DEF Shape

\* The export that runs goes on to its next step.
LEMMA HeadReplaced ==
  ASSUME NEW q \in Seq(Exports), q # <<>>, NEW e \in Exports
  PROVE  LET p == [q EXCEPT ![1] = e]
         IN  /\ p \in Seq(Exports) /\ p # <<>>
             /\ DOMAIN p = DOMAIN q
             /\ p[1] = e /\ Head(p) = e
             /\ \A i \in DOMAIN q : i > 1 => p[i] = q[i]
<1> DEFINE p == [q EXCEPT ![1] = e]
<1>1. q \in [1..Len(q) -> Exports] /\ Len(q) \in Nat \ {0} /\ DOMAIN q = 1..Len(q)
  BY LenProperties, EmptySeq
<1>2. p \in [1..Len(q) -> Exports] /\ p[1] = e /\ DOMAIN p = DOMAIN q
      /\ \A i \in DOMAIN q : i > 1 => p[i] = q[i]
  BY <1>1
<1> HIDE DEF p
<1>3. p \in Seq(Exports)
  BY <1>1, <1>2, IsASeq
<1>4. p # <<>> /\ Head(p) = p[1]
  BY <1>1, <1>2, <1>3
<1> QED
  BY <1>2, <1>3, <1>4 DEF p

-----------------------------------------------------------------------------
\* The shape is kept

\* A call that may start an export keeps the types of the chain and the flag.
LEMMA MirrorShape ==
  ASSUME Shape, NEW reason \in Reasons, NEW epoch \in Nat, NEW flag \in BOOLEAN,
         MirrorTranscript(reason, epoch, flag)
  PROVE  chain' \in Seq(Exports) /\ dirty' \in BOOLEAN
<1>1. chain \in Seq(Exports)
  BY DEF Shape
<1> QED
  BY <1>1, MirrorMoves, ChainedFacts DEF Begun, FlagMoves

\* So does a refresh.
LEMMA RefreshShape ==
  ASSUME Shape, NEW throttled \in BOOLEAN, NEW flag \in BOOLEAN,
         ScheduleTranscriptRefresh(throttled, flag)
  PROVE  chain' \in Seq(Exports) /\ dirty' \in BOOLEAN
<1>1. gate.epoch \in Nat /\ chain \in Seq(Exports)
  BY DEF Shape
<1>2. "refresh" \in Reasons
  BY DEF Reasons
<1> QED
  BY <1>1, <1>2, MirrorShape DEF ScheduleTranscriptRefresh

\* The subscription that is started follows the target in this epoch.
LEMMA StartShape ==
  ASSUME Shape, target' \in Nat, NEW g \in [phase : Phases, epoch : Nat], NEW b \in BOOLEAN,
         StartLiveTranscriptEvents(g, b)
  PROVE  live' \in Subscriptions
<1>1. live \in Subscriptions
  BY DEF Shape
<1>2. <<>> \in Seq(StreamEvents)
  BY EmptySeq
<1>3. [epoch |-> g.epoch, target |-> target', open |-> FALSE, turn |-> FALSE, stream |-> <<>>]
        \in Subscriptions
  BY <1>2 DEF Subscriptions
<1> QED
  BY <1>1, <1>3 DEF StartLiveTranscriptEvents

\* An event is published on an open stream only.
LEMMA PublishShape ==
  ASSUME Shape, NEW kind \in {"activity", "ask", "stop"}, NEW msg \in Nat, NEW begins \in BOOLEAN,
         Publish(kind, msg, begins)
  PROVE  live' \in Subscriptions
<1>1. live \in Subscriptions
  BY DEF Shape
<1> DEFINE event == [kind |-> kind, msg |-> msg]
<1>2. event \in StreamEvents
  BY DEF StreamEvents
<1> HIDE DEF event
<1>3. Append(live.stream, event) \in Seq(StreamEvents)
  BY <1>1, <1>2, AppendProperties DEF Subscriptions
<1>4. live.turn \/ begins \in BOOLEAN
  BY <1>1 DEF Subscriptions
<1>5. [live EXCEPT !.stream = Append(@, event), !.turn = @ \/ begins] \in Subscriptions
  BY <1>1, <1>3, <1>4, Zenon DEF Subscriptions
<1> QED
  BY <1>1, <1>5 DEF Publish, event

\* The steps of the exports.
ExportStep ==
    ExportRead \/ PutTranscriptMirror \/ ExportStore \/ ExportFails \/ LiveMirrorFires
        \/ (\E throttled \in BOOLEAN : Probe(throttled)) \/ StopExports

\* The steps of the stream and of the conversation.
StreamStep == StreamOpens \/ StreamEnds \/ LiveEvent
TalkStep == CreateOpencodeSession \/ Prompt \/ OpenCodeWrites \/ OpenCodeAsks \/ OpenCodeRests

\* The steps of the container.
BoxStep ==
    Wake \/ (\E kind \in {"idle", "force"} : StopBegins(kind)) \/ StopDrained \/ StopCheckpoints
        \/ StopTerminates \/ PurgeBegins \/ PurgeRemoves \/ DeleteTranscriptMirror
        \/ ContainerDies \/ Restart

\* Those are all there are.
LEMMA StepKinds ==
  ASSUME [Next]_vars
  PROVE  ExportStep \/ StreamStep \/ TalkStep \/ BoxStep \/ UNCHANGED vars
  BY Zenon DEF Next, ExportStep, StreamStep, TalkStep, BoxStep

\* Exports keep the shape.
LEMMA ExportShape ==
  ASSUME Shape, ChainSound, ExportStep
  PROVE  Shape'
<1> USE DEF vars, container, following, exporting
<1>0. /\ chain \in Seq(Exports) /\ gate \in [phase : Phases, epoch : Nat] /\ box \in Boxes
      /\ stop \in Stops /\ used \in Counters /\ timer \in Nat /\ dirty \in BOOLEAN
  BY DEF Shape
<1>1. chain # <<>> => Head(chain) \in Exports /\ Tail(chain) \in Seq(Exports)
                        /\ Len(chain) \in Nat \ {0}
  BY <1>0, HeadTailProperties, EmptySeq
<1>2. CASE ExportRead
  <2>1. [chain[1] EXCEPT !.at = "put", !.messages = box.conv] \in Exports
    <3>1. chain[1] \in Exports /\ box.conv \in SUBSET Nat
      BY <1>0, <1>1, <1>2, ElementOfSeq DEF ExportRead, Running, Boxes
    <3> QED
      BY <3>1 DEF Exports
  <2>2. chain' \in Seq(Exports)
    <3> DEFINE e == [chain[1] EXCEPT !.at = "put", !.messages = box.conv]
    <3>1. chain' = [chain EXCEPT ![1] = e]
      BY <1>2 DEF ExportRead
    <3> HIDE DEF e
    <3>2. e \in Exports
      BY <2>1 DEF e
    <3>3. chain # <<>>
      BY <1>2 DEF ExportRead, Running
    <3> QED
      BY <1>0, <3>1, <3>2, <3>3, HeadReplaced
  <2> QED
    BY <1>2, <2>2 DEF ExportRead, Shape
<1>3. CASE PutTranscriptMirror
  <2>1. [chain[1] EXCEPT !.at = "store"] \in Exports
    <3>1. chain[1] \in Exports
      BY <1>0, <1>1, <1>3, ElementOfSeq DEF PutTranscriptMirror, Running
    <3> QED
      BY <3>1 DEF Exports
  <2>2. chain' \in Seq(Exports)
    <3> DEFINE e == [chain[1] EXCEPT !.at = "store"]
    <3>1. chain' = [chain EXCEPT ![1] = e]
      BY <1>3 DEF PutTranscriptMirror
    <3> HIDE DEF e
    <3>2. e \in Exports
      BY <2>1 DEF e
    <3>3. chain # <<>>
      BY <1>3 DEF PutTranscriptMirror, Running
    <3> QED
      BY <1>0, <3>1, <3>2, <3>3, HeadReplaced
  <2>3. r2' \in SUBSET Nat
    BY <1>1, <1>3 DEF PutTranscriptMirror, Running, Exports
  <2> QED
    BY <1>3, <2>2, <2>3 DEF PutTranscriptMirror, Shape
<1>4. CASE ExportStore
  <2>1. chain' \in Seq(Exports) /\ dirty' \in BOOLEAN
    BY <1>0, <1>4, FinishMoves DEF ExportStore, Running, Begun, FlagMoves
  <2> QED
    BY <1>4, <2>1 DEF ExportStore, Shape
<1>5. CASE ExportFails
  <2>1. chain' \in Seq(Exports) /\ dirty' \in BOOLEAN
    BY <1>0, <1>5, FinishMoves DEF ExportFails, Begun, FlagMoves
  <2>2. used' \in Counters
    BY <1>0, <1>5 DEF ExportFails, Fault, Spend, Counters
  <2>3. stop' \in Stops
    BY <1>0, <1>5 DEF ExportFails, Stops
  <2> QED
    BY <1>5, <2>1, <2>2, <2>3 DEF ExportFails, Shape
<1>6. CASE LiveMirrorFires
  <2>1. chain' \in Seq(Exports) /\ dirty' \in BOOLEAN
    <3>1. "live" \in Reasons
      BY DEF Reasons
    <3> QED
      BY <1>0, <1>6, <3>1, MirrorShape DEF LiveMirrorFires
  <2>2. timer' \in Nat
    BY <1>6 DEF LiveMirrorFires, NoEpoch
  <2> QED
    BY <1>6, <2>1, <2>2 DEF LiveMirrorFires, Shape
<1>7. ASSUME NEW throttled \in BOOLEAN, Probe(throttled)  PROVE Shape'
  <2>1. chain' \in Seq(Exports) /\ dirty' \in BOOLEAN
    <3> DEFINE flag == dirty \/ (box.up /\ box.busy)
    <3>1. flag \in BOOLEAN
      BY <1>0
    <3>2. ScheduleTranscriptRefresh(throttled, flag)
      BY <1>7 DEF Probe
    <3> HIDE DEF flag
    <3> QED
      BY <3>1, <3>2, RefreshShape
  <2>2. live' \in Subscriptions
    BY <1>0, <1>7, StartShape DEF Probe, Shape
  <2> QED
    BY <1>7, <2>1, <2>2 DEF Probe, Shape
<1>8. CASE StopExports
  <2>1. chain' \in Seq(Exports) /\ dirty' \in BOOLEAN
    <3>1. "stop" \in Reasons /\ NoEpoch \in Nat
      BY DEF Reasons, NoEpoch
    <3> QED
      BY <1>0, <1>8, <3>1, MirrorShape DEF StopExports
  <2>2. stop' \in Stops
    BY <1>0, <1>8 DEF StopExports, Stops, StopSteps
  <2> QED
    BY <1>8, <2>1, <2>2 DEF StopExports, Shape
<1> QED
  BY <1>2, <1>3, <1>4, <1>5, <1>6, <1>7, <1>8 DEF ExportStep

\* The stream keeps it.
LEMMA StreamShape ==
  ASSUME Shape, StreamStep
  PROVE  Shape'
<1> USE DEF vars, container, following, exporting
<1>0. live \in Subscriptions /\ used \in Counters /\ timer \in Nat
  BY DEF Shape
<1>1. CASE StreamOpens
  <2>1. live' \in Subscriptions
    BY <1>0, <1>1 DEF StreamOpens, Subscriptions
  <2> QED
    BY <1>1, <2>1 DEF StreamOpens, Shape
<1>2. CASE StreamEnds
  <2>1. used' \in Counters
    BY <1>0, <1>2 DEF StreamEnds, Fault, Spend, Counters
  <2> QED
    BY <1>2, <2>1, NothingType DEF StreamEnds, StopLiveTranscriptEvents, Shape
<1>3. CASE LiveEvent
  <2>1. /\ Head(live.stream) \in StreamEvents
        /\ Tail(live.stream) \in Seq(StreamEvents)
    BY <1>0, <1>3, HeadTailProperties DEF LiveEvent, Subscriptions
  <2>2. live' \in Subscriptions
    BY <1>0, <1>3, <2>1 DEF LiveEvent, Subscriptions
  <2>3. timer' \in Nat
    BY <1>0, <1>3 DEF LiveEvent, NoteLiveTranscriptEvent, Subscriptions
  <2>4. noticed' \in SUBSET Nat
    BY <1>3, <2>1 DEF LiveEvent, StreamEvents, Shape
  <2>5. dirty' \in BOOLEAN /\ announced' \in BOOLEAN /\ observed' \in BOOLEAN
    BY <1>3 DEF LiveEvent, NoteLiveTranscriptEvent, NoteSessionUnread, ObservedAfter, Shape
  <2> QED
    BY <1>3, <2>2, <2>3, <2>4, <2>5 DEF LiveEvent, Shape
<1> QED
  BY <1>1, <1>2, <1>3 DEF StreamStep

\* The conversation keeps it.
LEMMA TalkShape ==
  ASSUME Shape, TalkStep
  PROVE  Shape'
<1> USE DEF vars, container, following, exporting
<1>0. /\ live \in Subscriptions /\ used \in Counters /\ box \in Boxes /\ target \in Nat
      /\ gate \in [phase : Phases, epoch : Nat] /\ believed \in BOOLEAN
  BY DEF Shape
<1>1. CASE CreateOpencodeSession
  <2>1. target' \in Nat
    BY <1>0, <1>1 DEF CreateOpencodeSession
  <2>2. live' \in Subscriptions
    BY <1>0, <1>1, <2>1, StartShape DEF CreateOpencodeSession
  <2> QED
    BY <1>1, <2>1, <2>2 DEF CreateOpencodeSession, Shape
<1>2. CASE Prompt
  <2>1. used' \in Counters /\ used.messages + 1 \in Nat
    BY <1>0, <1>2 DEF Prompt, Spend, Counters
  <2>2. box' \in Boxes
    BY <1>0, <1>2, <2>1 DEF Prompt, Boxes
  <2>3. live' \in Subscriptions
    BY <1>2, <2>1, PublishShape DEF Prompt
  <2>4. noticed' \in SUBSET Nat
    BY <1>2, <2>1 DEF Prompt, Shape
  <2> QED
    BY <1>2, <2>1, <2>2, <2>3, <2>4 DEF Prompt, Shape
<1>3. CASE OpenCodeWrites
  <2>1. used' \in Counters /\ used.messages + 1 \in Nat
    BY <1>0, <1>3 DEF OpenCodeWrites, Spend, Counters
  <2>2. box' \in Boxes
    BY <1>0, <1>3, <2>1 DEF OpenCodeWrites, Boxes
  <2>3. live' \in Subscriptions
    BY <1>3, <2>1, PublishShape DEF OpenCodeWrites
  <2> QED
    BY <1>3, <2>1, <2>2, <2>3 DEF OpenCodeWrites, Shape
<1>4. CASE OpenCodeAsks
  <2>1. live' \in Subscriptions
    BY <1>4, PublishShape DEF OpenCodeAsks
  <2> QED
    BY <1>4, <2>1 DEF OpenCodeAsks, Shape
<1>5. CASE OpenCodeRests
  <2>1. live' \in Subscriptions
    BY <1>5, PublishShape DEF OpenCodeRests
  <2>2. box' \in Boxes
    BY <1>0, <1>5 DEF OpenCodeRests, Boxes
  <2> QED
    BY <1>5, <2>1, <2>2 DEF OpenCodeRests, Shape
<1> QED
  BY <1>1, <1>2, <1>3, <1>4, <1>5 DEF TalkStep

\* Wakes, stops, purges and faults keep it.
LEMMA BoxShape ==
  ASSUME Shape, BoxStep
  PROVE  Shape'
<1> USE DEF vars, container, following, exporting
<1>0. /\ used \in Counters /\ box \in Boxes /\ target \in Nat /\ stop \in Stops
      /\ gate \in [phase : Phases, epoch : Nat] /\ believed \in BOOLEAN /\ saved \in SUBSET Nat
      /\ chain \in Seq(Exports)
  BY DEF Shape
<1>1. ASSUME NEW phase \in Phases  PROVE [phase |-> phase, epoch |-> NoEpoch] \in [phase : Phases, epoch : Nat]
  BY DEF NoEpoch
<1>2. ASSUME NEW phase \in Phases
      PROVE  [gate EXCEPT !.phase = phase] \in [phase : Phases, epoch : Nat]
  BY <1>0
<1>3. {"running", "quiescing", "checkpointing", "stopping", "sleeping"} \subseteq Phases
  BY DEF Phases
<1>4. CASE Wake
  <2>1. used' \in Counters
    BY <1>0, <1>4 DEF Wake, Spend, Counters
  <2>2. gate' \in [phase : Phases, epoch : Nat]
    BY <1>0, <1>3, <1>4 DEF Wake, Counters
  <2>3. box' \in Boxes
    BY <1>0, <1>4 DEF Wake, Boxes
  <2>4. live' \in Subscriptions
    BY <1>0, <1>4, <2>2, StartShape DEF Wake
  <2> QED
    BY <1>4, <2>1, <2>2, <2>3, <2>4 DEF Wake, Shape
<1>5. ASSUME NEW kind \in {"idle", "force"}, StopBegins(kind)  PROVE Shape'
  <2>1. used' \in Counters
    BY <1>0, <1>5 DEF StopBegins, Counters
  <2>2. gate' \in [phase : Phases, epoch : Nat] /\ believed' \in BOOLEAN
    BY <1>0, <1>1, <1>2, <1>3, <1>5 DEF StopBegins
  <2>3. stop' \in Stops
    <3> DEFINE step == CASE gate'.phase = "quiescing" -> "drain"
                         [] gate'.phase = "checkpointing" -> "export"
                         [] OTHER -> "terminate"
               broken == gate.phase = "stopping"
    <3>1. step \in StopSteps
      BY DEF StopSteps
    <3>2. broken \in BOOLEAN /\ kind \in {"none", "idle", "force", "purge"}
      OBVIOUS
    <3>3. box.up => stop' = [kind |-> kind, failed |-> broken, at |-> step]
      BY <1>5 DEF StopBegins
    <3>4. ~box.up => stop' = NoStop
      BY <1>5 DEF StopBegins
    <3> HIDE DEF step, broken
    <3>5. [kind |-> kind, failed |-> broken, at |-> step] \in Stops
      BY <3>1, <3>2 DEF Stops
    <3> QED
      BY <3>3, <3>4, <3>5, NothingType
  <2> QED
    BY <1>5, <2>1, <2>2, <2>3, NothingType DEF StopBegins, StopLiveTranscriptEvents, Shape
<1>6. CASE StopDrained
  <2>1. gate' \in [phase : Phases, epoch : Nat]
    BY <1>2, <1>3, <1>6 DEF StopDrained
  <2>2. stop' \in Stops
    BY <1>0, <1>6, NothingType DEF StopDrained, Stops, StopSteps
  <2>3. live' \in Subscriptions
    BY <1>0, <1>6, <2>1, StartShape, NothingType DEF StopDrained, StopLiveTranscriptEvents
  <2> QED
    BY <1>6, <2>1, <2>2, <2>3 DEF StopDrained, Shape
<1>7. CASE StopCheckpoints
  <2>1. used' \in Counters
    BY <1>0, <1>7 DEF StopCheckpoints, Fault, Spend, Counters
  <2>2. gate' \in [phase : Phases, epoch : Nat]
    BY <1>1, <1>2, <1>3, <1>7 DEF StopCheckpoints
  <2>3. stop' \in Stops
    BY <1>0, <1>7, NothingType DEF StopCheckpoints, Stops, StopSteps
  <2>4. live' \in Subscriptions
    BY <1>0, <1>7, <2>2, StartShape, NothingType DEF StopCheckpoints, StopLiveTranscriptEvents
  <2>5. saved' \in SUBSET Nat
    BY <1>0, <1>7 DEF StopCheckpoints, Boxes
  <2> QED
    BY <1>7, <2>1, <2>2, <2>3, <2>4, <2>5 DEF StopCheckpoints, Shape
<1>8. CASE StopTerminates
  <2>1. box' \in Boxes
    BY <1>0, <1>8 DEF StopTerminates, Boxes
  <2>2. gate' \in [phase : Phases, epoch : Nat]
    BY <1>1, <1>3, <1>8 DEF StopTerminates
  <2> QED
    BY <1>8, <2>1, <2>2, NothingType DEF StopTerminates, StopLiveTranscriptEvents, Shape
<1>9. CASE PurgeBegins
  <2>1. stop' \in Stops
    BY <1>9 DEF PurgeBegins, Stops, StopSteps
  <2> QED
    BY <1>9, <2>1, NothingType DEF PurgeBegins, StopLiveTranscriptEvents, Shape
<1>10. CASE PurgeRemoves
  <2>1. stop' \in Stops
    BY <1>0, <1>10 DEF PurgeRemoves, Stops, StopSteps
  <2>2. box' \in Boxes
    BY <1>10 DEF PurgeRemoves, Boxes
  <2> QED
    BY <1>10, <2>1, <2>2 DEF PurgeRemoves, Shape
<1>11. CASE DeleteTranscriptMirror
  <2>1. stop' \in Stops
    BY <1>0, <1>11 DEF DeleteTranscriptMirror, Stops, StopSteps
  <2>2. r2' \in SUBSET Nat
    BY <1>11 DEF DeleteTranscriptMirror, Absent
  <2> QED
    BY <1>11, <2>1, <2>2 DEF DeleteTranscriptMirror, Shape
<1>12. CASE ContainerDies
  <2>1. box' \in Boxes
    BY <1>0, <1>12 DEF ContainerDies, Boxes
  <2>2. used' \in Counters
    BY <1>0, <1>12 DEF ContainerDies, Fault, Spend, Counters
  <2> QED
    BY <1>12, <2>1, <2>2 DEF ContainerDies, Shape
<1>13. CASE Restart
  <2>1. used' \in Counters
    BY <1>0, <1>13 DEF Restart, Fault, Spend, Counters
  <2>2. stop' \in Stops
    BY <1>0, <1>13 DEF Restart, Stops, StopSteps
  <2>3. r2' \in SUBSET Nat
    <3>1. Running("put") => Head(chain) \in Exports
      BY <1>0, HeadTailProperties DEF Running
    <3>2. Running("put") => Head(chain).messages \in SUBSET Nat
      BY <3>1 DEF Exports
    <3> QED
      BY <1>13, <3>2 DEF Restart, Shape
  <2>4. chain' \in Seq(Exports)
    BY <1>13, EmptySeq DEF Restart
  <2> QED
    BY <1>13, <2>1, <2>2, <2>3, <2>4, NothingType DEF Restart, Shape, NoEpoch
<1> QED
  BY <1>4, <1>5, <1>6, <1>7, <1>8, <1>9, <1>10, <1>11, <1>12, <1>13 DEF BoxStep

\* Every step keeps the shape.
LEMMA ShapeKept ==
  ASSUME Shape, ChainSound, [Next]_vars
  PROVE  Shape'
<1>1. CASE UNCHANGED vars
  BY <1>1 DEF vars, Shape
<1> QED
  BY <1>1, StepKinds, ExportShape, StreamShape, TalkShape, BoxShape

-----------------------------------------------------------------------------
\* What is written

\* A counter that is spent leaves the others.
LEMMA SpendFacts ==
  ASSUME Shape
  PROVE  /\ Spend("faults") => used'.messages = used.messages /\ used'.epoch = used.epoch
         /\ Spend("epoch") => used'.messages = used.messages /\ used'.epoch = used.epoch + 1
         /\ Spend("messages") => used'.messages = used.messages + 1 /\ used'.epoch = used.epoch
         /\ used.messages \in Nat /\ used.epoch \in Nat
  BY DEF Shape, Spend, Counters

\* Numbers up to one bound are numbers up to the next.
LEMMA OneMore ==
  ASSUME NEW n \in Nat, NEW S, S \subseteq 1..n
  PROVE  /\ S \subseteq 0..n /\ S \subseteq 1..n+1 /\ S \cup {n + 1} \subseteq 1..n+1
         /\ \A m \in 0..n : S \cup ({m} \ {0}) \subseteq 1..n
  OBVIOUS

\* Nothing is about messages that were not written, after any step.
LEMMA WrittenKept ==
  ASSUME Inv, [Next]_vars
  PROVE  WrittenSound'
<1> USE DEF vars, container, following, exporting
<1>0. /\ Shape /\ WrittenSound /\ ChainSound /\ StopSound /\ TurnSound
      /\ used.messages \in Nat /\ target \in Nat
      /\ box.conv \in SUBSET Nat /\ saved \in SUBSET Nat /\ noticed \in SUBSET Nat
      /\ r2 \in SUBSET Nat
  BY SpendFacts DEF Inv, Shape, Boxes
<1>1. ASSUME UNCHANGED <<saved, box, noticed, r2, target>>, used'.messages = used.messages
      PROVE  WrittenSound'
  BY <1>0, <1>1 DEF WrittenSound, Written
<1>2. CASE ExportStep
  <2>1. CASE PutTranscriptMirror
    <3>1. Running("put") /\ r2' = Head(chain).messages
          /\ UNCHANGED <<saved, box, noticed, target, used>>
      BY <2>1 DEF PutTranscriptMirror
    <3>2. r2' \subseteq 0..used.messages
      BY <1>0, <3>1 DEF ChainSound, Written
    <3> QED
      BY <1>0, <3>1, <3>2 DEF WrittenSound, Written
  <2>2. CASE ExportFails
    BY <1>0, <1>1, <2>2, SpendFacts DEF ExportFails, Fault
  <2>3. ASSUME NEW throttled \in BOOLEAN, Probe(throttled)  PROVE WrittenSound'
    BY <1>1, <2>3 DEF Probe
  <2> QED
    BY <1>1, <1>2, <2>1, <2>2, <2>3
    DEF ExportStep, ExportRead, ExportStore, LiveMirrorFires, StopExports
<1>3. CASE StreamStep
  <2>1. CASE StreamOpens
    BY <1>1, <2>1 DEF StreamOpens
  <2>2. CASE StreamEnds
    BY <1>0, <1>1, <2>2, SpendFacts DEF StreamEnds, Fault
  <2>3. CASE LiveEvent
    <3>1. UNCHANGED <<saved, box, r2, target, used>>
      BY <2>3 DEF LiveEvent
    <3>2. Head(live.stream).msg \in 0..used.messages
      <4>1. live.stream \in Seq(StreamEvents) /\ live.stream # <<>>
        BY <1>0, <2>3 DEF LiveEvent, Shape, Subscriptions
      <4>2. Head(live.stream) \in StreamEvents /\ Head(live.stream) = live.stream[1]
            /\ 1 \in DOMAIN live.stream
        BY <4>1, HeadTailProperties, LenProperties, EmptySeq
      <4> QED
        BY <1>0, <4>2 DEF TurnSound, StreamEvents
    <3>3. noticed' \subseteq Written
      <4> DEFINE m == Head(live.stream).msg
      <4>1. noticed' = noticed \/ noticed' = noticed \cup ({m} \ {0})
        BY <2>3 DEF LiveEvent
      <4>2. m \in 0..used.messages
        BY <3>2
      <4> HIDE DEF m
      <4> QED
        BY <1>0, <4>1, <4>2, OneMore DEF WrittenSound, Written
    <3> QED
      BY <1>0, <3>1, <3>3 DEF WrittenSound, Written
  <2> QED
    BY <1>3, <2>1, <2>2, <2>3 DEF StreamStep
<1>4. CASE TalkStep
  <2>1. CASE CreateOpencodeSession
    BY <1>0, <2>1 DEF CreateOpencodeSession, WrittenSound, Written
  <2>2. CASE Prompt
    <3>1. /\ used'.messages = used.messages + 1 /\ target > 0
          /\ box'.conv = box.conv \cup {used.messages + 1}
          /\ noticed' = noticed \cup {used.messages + 1}
          /\ UNCHANGED <<saved, target, r2>>
      BY <1>0, <2>2, SpendFacts DEF Prompt, NoTarget, Shape, Boxes
    <3>2. /\ box'.conv \subseteq 1..used.messages + 1 /\ noticed' \subseteq 1..used.messages + 1
          /\ saved \subseteq box'.conv
      <4>1. box.conv \subseteq 1..used.messages /\ noticed \subseteq 1..used.messages
            /\ saved \subseteq box.conv
        BY <1>0 DEF WrittenSound, Written
      <4>2. ASSUME NEW S, S \subseteq 1..used.messages
            PROVE  S \cup {used.messages + 1} \subseteq 1..used.messages + 1
        <5> DEFINE n == used.messages
        <5>1. n \in Nat /\ S \subseteq 1..n
          BY <1>0, <4>2
        <5> HIDE DEF n
        <5>2. S \cup {n + 1} \subseteq 1..n + 1
          BY <5>1, OneMore
        <5> QED
          BY <5>2 DEF n
      <4>3. box'.conv \subseteq 1..used.messages + 1
        BY <3>1, <4>1, <4>2, Zenon
      <4>4. noticed' \subseteq 1..used.messages + 1
        BY <3>1, <4>1, <4>2, Zenon
      <4> QED
        BY <3>1, <4>1, <4>3, <4>4
    <3>3. r2 \subseteq 0..used.messages + 1
      BY <1>0 DEF WrittenSound
    <3> QED
      BY <3>1, <3>2, <3>3 DEF WrittenSound, Written
  <2>3. CASE OpenCodeWrites
    <3>1. /\ used'.messages = used.messages + 1 /\ box.busy
          /\ box'.conv = box.conv \cup {used.messages + 1}
          /\ UNCHANGED <<saved, target, r2, noticed>>
      BY <1>0, <2>3, SpendFacts DEF OpenCodeWrites, Shape, Boxes
    <3> QED
      BY <1>0, <3>1 DEF WrittenSound, Written
  <2>4. CASE OpenCodeAsks
    BY <1>1, <2>4 DEF OpenCodeAsks
  <2>5. CASE OpenCodeRests
    <3>1. box'.conv = box.conv /\ ~box'.busy
      BY <1>0, <2>5 DEF OpenCodeRests, Shape, Boxes
    <3> QED
      BY <1>0, <2>5, <3>1 DEF OpenCodeRests, WrittenSound, Written
  <2> QED
    BY <1>4, <2>1, <2>2, <2>3, <2>4, <2>5 DEF TalkStep
<1>5. CASE BoxStep
  <2>1. CASE Wake
    <3>1. used'.messages = used.messages /\ box'.conv = saved /\ ~box'.busy
          /\ UNCHANGED <<saved, target, r2, noticed>>
      BY <1>0, <2>1, SpendFacts DEF Wake
    <3> QED
      BY <1>0, <3>1 DEF WrittenSound, Written
  <2>2. ASSUME NEW kind \in {"idle", "force"}, StopBegins(kind)  PROVE WrittenSound'
    <3>1. used'.messages = used.messages
      BY <1>0, <2>2 DEF StopBegins, Shape, Counters
    <3> QED
      BY <1>1, <2>2, <3>1 DEF StopBegins
  <2>3. CASE StopDrained
    BY <1>1, <2>3 DEF StopDrained
  <2>4. CASE StopCheckpoints
    <3>1. used'.messages = used.messages /\ (saved' = saved \/ saved' = box.conv)
          /\ UNCHANGED <<box, noticed, r2, target>>
      BY <1>0, <2>4, SpendFacts DEF StopCheckpoints, Fault
    <3> QED
      BY <1>0, <3>1 DEF WrittenSound, Written
  <2>5. CASE StopTerminates
    <3>1. box'.conv = box.conv /\ ~box'.busy
      BY <1>0, <2>5 DEF StopTerminates, Shape, Boxes
    <3> QED
      BY <1>0, <2>5, <3>1 DEF StopTerminates, WrittenSound, Written
  <2>6. CASE PurgeBegins
    BY <1>1, <2>6 DEF PurgeBegins
  <2>7. CASE PurgeRemoves
    <3>1. box'.conv = {} /\ ~box'.busy /\ saved' = {}
      BY <2>7 DEF PurgeRemoves
    <3> QED
      BY <1>0, <2>7, <3>1 DEF PurgeRemoves, WrittenSound, Written
  <2>8. CASE DeleteTranscriptMirror
    BY <1>0, <2>8 DEF DeleteTranscriptMirror, Absent, WrittenSound, Written
  <2>9. CASE ContainerDies
    <3>1. box'.conv = box.conv /\ ~box'.busy /\ used'.messages = used.messages
      BY <1>0, <2>9, SpendFacts DEF ContainerDies, Fault, Shape, Boxes
    <3> QED
      BY <1>0, <2>9, <3>1 DEF ContainerDies, WrittenSound, Written
  <2>10. CASE Restart
    <3>1. used'.messages = used.messages /\ UNCHANGED <<saved, box, noticed, target>>
      BY <1>0, <2>10, SpendFacts DEF Restart, Fault
    <3>2. r2' = r2 \/ (Running("put") /\ r2' = Head(chain).messages)
      BY <2>10 DEF Restart
    <3>3. r2' \subseteq 0..used.messages
      BY <1>0, <3>2, OneMore DEF ChainSound, WrittenSound, Written
    <3> QED
      BY <1>0, <3>1, <3>3 DEF WrittenSound, Written
  <2> QED
    BY <1>5, <2>1, <2>2, <2>3, <2>4, <2>5, <2>6, <2>7, <2>8, <2>9, <2>10 DEF BoxStep
<1>6. CASE UNCHANGED vars
  BY <1>1, <1>6
<1> QED
  BY <1>2, <1>3, <1>4, <1>5, <1>6, StepKinds

-----------------------------------------------------------------------------
\* The steps of a stop

\* A stop's step and the gate agree after any step.
LEMMA StopKept ==
  ASSUME Inv, [Next]_vars
  PROVE  StopSound'
<1> USE DEF vars, container, following, exporting
<1>0. StopSound /\ stop \in Stops /\ box \in Boxes /\ gate \in [phase : Phases, epoch : Nat]
  BY DEF Inv, Shape
<1>1. ASSUME UNCHANGED <<gate, believed>>, stop' = stop \/ stop' = [stop EXCEPT !.failed = TRUE],
             box'.up => box.up
      PROVE  StopSound'
  <2>1. stop'.kind = stop.kind /\ stop'.at = stop.at
    BY <1>0, <1>1 DEF Stops
  <2> QED
    BY <1>0, <1>1, <2>1 DEF StopSound
<1>2. CASE ExportStep
  <2>1. CASE StopExports
    <3>1. stop.at = "export" /\ stop'.at = "checkpoint" /\ stop'.kind = stop.kind
          /\ UNCHANGED <<gate, believed, box>>
      BY <1>0, <2>1 DEF StopExports, Stops
    <3> QED
      BY <1>0, <3>1 DEF StopSound
  <2>2. CASE ExportFails
    BY <1>1, <2>2 DEF ExportFails
  <2>3. ASSUME NEW throttled \in BOOLEAN, Probe(throttled)  PROVE StopSound'
    BY <1>1, <2>3 DEF Probe
  <2> QED
    BY <1>1, <1>2, <2>1, <2>2, <2>3
    DEF ExportStep, ExportRead, PutTranscriptMirror, ExportStore, LiveMirrorFires
<1>3. CASE StreamStep
  BY <1>1, <1>3 DEF StreamStep, StreamOpens, StreamEnds, LiveEvent
<1>4. CASE TalkStep
  <2>1. UNCHANGED <<gate, believed, stop>> /\ (box'.up => box.up)
    BY <1>0, <1>4 DEF TalkStep, CreateOpencodeSession, Prompt, OpenCodeWrites, OpenCodeAsks,
                      OpenCodeRests
  <2> QED
    BY <1>1, <2>1
<1>5. CASE BoxStep
  <2>1. CASE Wake
    BY <1>0, <2>1 DEF Wake, StopSound
  <2>2. ASSUME NEW kind \in {"idle", "force"}, StopBegins(kind)  PROVE StopSound'
    <3>1. CASE box.up
      <4> DEFINE step == CASE gate'.phase = "quiescing" -> "drain"
                           [] gate'.phase = "checkpointing" -> "export"
                           [] OTHER -> "terminate"
      <4>1. stop'.kind = kind /\ stop'.at = step
        BY <2>2, <3>1 DEF StopBegins
      <4>2. gate'.phase \in {"quiescing", "checkpointing", "stopping"}
        BY <1>0, <2>2, <3>1 DEF StopBegins, Phases
      <4>3. \/ gate'.phase = "quiescing" /\ step = "drain"
            \/ gate'.phase = "checkpointing" /\ step = "export"
            \/ gate'.phase = "stopping" /\ step = "terminate"
        BY <4>2
      <4>4. UNCHANGED <<box, believed>> /\ kind # "none" /\ kind # "purge"
        BY <2>2, <3>1 DEF StopBegins
      <4> HIDE DEF step
      <4> QED
        BY <1>0, <4>1, <4>3, <4>4 DEF StopSound
    <3>2. CASE ~box.up
      <4>1. gate'.phase = "sleeping" /\ stop'.kind = "none" /\ stop'.at = "none" /\ ~box'.up
        BY <2>2, <3>2 DEF StopBegins, NoStop
      <4> QED
        BY <4>1 DEF StopSound
    <3> QED
      BY <3>1, <3>2
  <2>3. CASE StopDrained
    <3>1. UNCHANGED <<box, believed>> /\ stop.at = "drain"
      BY <2>3 DEF StopDrained
    <3>2. \/ gate'.phase = "running" /\ stop' = NoStop
          \/ gate'.phase = "checkpointing" /\ stop'.at = "export" /\ stop'.kind = stop.kind
      BY <1>0, <2>3 DEF StopDrained, Stops
    <3> QED
      BY <1>0, <3>1, <3>2 DEF StopSound, NoStop
  <2>4. CASE StopCheckpoints
    <3>1. UNCHANGED <<box, believed>> /\ stop.at = "checkpoint"
      BY <2>4 DEF StopCheckpoints
    <3>2. \/ gate'.phase = "running" /\ stop' = NoStop
          \/ gate'.phase = "stopping" /\ stop'.at = "terminate" /\ stop'.kind = stop.kind
      BY <1>0, <2>4 DEF StopCheckpoints, Stops
    <3> QED
      BY <1>0, <3>1, <3>2 DEF StopSound, NoStop
  <2>5. CASE StopTerminates
    <3>1. gate'.phase = "sleeping" /\ stop'.kind = "none" /\ stop'.at = "none" /\ ~box'.up
      BY <1>0, <2>5 DEF StopTerminates, NoStop, Boxes
    <3> QED
      BY <3>1 DEF StopSound
  <2>6. CASE PurgeBegins
    BY <1>0, <2>6 DEF PurgeBegins, StopSound
  <2>7. CASE PurgeRemoves
    <3>1. stop.at = "remove" /\ stop'.at = "sweep" /\ stop'.kind = stop.kind /\ ~box'.up
      BY <1>0, <2>7 DEF PurgeRemoves, Stops
    <3> QED
      BY <1>0, <3>1 DEF StopSound
  <2>8. CASE DeleteTranscriptMirror
    <3>1. stop.at = "sweep" /\ stop'.at = "purged" /\ stop'.kind = stop.kind
          /\ UNCHANGED <<box, believed>>
      BY <1>0, <2>8 DEF DeleteTranscriptMirror, Stops
    <3> QED
      BY <1>0, <3>1 DEF StopSound
  <2>9. CASE ContainerDies
    <3>1. ~box'.up
      BY <1>0, <2>9 DEF ContainerDies, Boxes
    <3> QED
      BY <1>1, <2>9, <3>1 DEF ContainerDies
  <2>10. CASE Restart
    <3>1. stop.kind # "purge" /\ stop'.at = "none" /\ stop'.kind = stop.kind
          /\ UNCHANGED <<gate, box, believed>>
      BY <1>0, <2>10 DEF Restart, Stops
    <3> QED
      BY <1>0, <3>1 DEF StopSound
  <2> QED
    BY <1>5, <2>1, <2>2, <2>3, <2>4, <2>5, <2>6, <2>7, <2>8, <2>9, <2>10 DEF BoxStep
<1>6. CASE UNCHANGED vars
  BY <1>1, <1>6
<1> QED
  BY <1>2, <1>3, <1>4, <1>5, <1>6, StepKinds

-----------------------------------------------------------------------------
\* What the running export covers

\* A refresh moves the chain as mirrorTranscript does, or not at all.
LEMMA RefreshMoves ==
  ASSUME Shape, NEW throttled \in BOOLEAN, NEW flag \in BOOLEAN,
         ScheduleTranscriptRefresh(throttled, flag)
  PROVE  \/ (chain' = chain \/ Chained) /\ dirty' = flag
         \/ chain = <<>> /\ Begun /\ FlagMoves(flag)
<1>1. gate.epoch \in Nat /\ "refresh" \in Reasons
  BY DEF Shape, Reasons
<1>2. CASE MirrorTranscript("refresh", gate.epoch, flag)
  BY <1>1, <1>2, MirrorMoves
<1> QED
  BY <1>2 DEF ScheduleTranscriptRefresh

\* In a chain that has begun nothing, nothing is put or stored.
LEMMA BegunFacts ==
  ASSUME Begun
  PROVE  /\ ~Running("put")' /\ ~Running("store")'
         /\ \A i \in DOMAIN chain' : chain'[i].at = "read"
<1>1. chain' \in Seq(Exports) /\ \A i \in DOMAIN chain' : chain'[i].at = "read"
  BY DEF Begun, Fresh
<1>2. chain' # <<>> => Head(chain') = chain'[1] /\ 1 \in DOMAIN chain'
  BY <1>1, HeadTailProperties, LenProperties, EmptySeq
<1> QED
  BY <1>1, <1>2 DEF Running

\* While it stays or grows the same export runs.
LEMMA SameRuns ==
  ASSUME Shape, chain' = chain \/ Chained
  PROVE  /\ \A step \in {"put", "store"} : Running(step)' = Running(step)
         /\ chain # <<>> => Head(chain') = Head(chain)
         /\ chain' = <<>> => chain = <<>>
         /\ \A i \in DOMAIN chain' :
               \/ i \in DOMAIN chain /\ chain'[i] = chain[i]
               \/ chain'[i].at = "read"
<1>1. CASE chain' = chain
  BY <1>1 DEF Running
<1>2. CASE Chained
  <2>1. /\ chain' \in Seq(Exports) /\ chain' # <<>> /\ chain # <<>>
        /\ Len(chain') = Len(chain) + 1
        /\ \A i \in 1..Len(chain) : chain'[i] = chain[i]
        /\ chain'[Len(chain) + 1].at = "read"
        /\ Head(chain') = Head(chain)
    BY <1>2, ChainedFacts DEF Chained
  <2>2. DOMAIN chain = 1..Len(chain) /\ Len(chain) \in Nat /\ DOMAIN chain' = 1..Len(chain')
    BY <2>1, LenProperties DEF Shape
  <2>3. \A i \in DOMAIN chain' : i \in DOMAIN chain \/ i = Len(chain) + 1
    BY <2>1, <2>2
  <2>4. \A step \in {"put", "store"} : Running(step)' = Running(step)
    BY <2>1 DEF Running
  <2> QED
    BY <2>1, <2>2, <2>3, <2>4
<1> QED
  BY <1>1, <1>2

\* What an export covers it still covers when the mirror stays and the
\* conversation grows by new messages only.
LEMMA ChainStays ==
  ASSUME Inv, chain' = chain \/ Chained, (r2' \cap box'.conv) \subseteq (r2 \cap box.conv),
         Written \subseteq Written'
  PROVE  ChainSound'
<1>0. Shape /\ ChainSound
  BY DEF Inv
<1>1. \A i \in DOMAIN chain' : i > 1 => chain'[i].at = "read"
  BY <1>0, SameRuns DEF ChainSound
<1>2. ASSUME Running("put")'
      PROVE  /\ (r2' \cap box'.conv) \subseteq Head(chain').messages
             /\ Head(chain').messages \subseteq Written'
  <2>1. Running("put") /\ Head(chain') = Head(chain)
    BY <1>0, <1>2, SameRuns DEF Running
  <2> QED
    BY <1>0, <2>1 DEF ChainSound
<1> QED
  BY <1>1, <1>2 DEF ChainSound

\* The step that begins a read and the one that puts what was read.
LEMMA HeadMoves ==
  ASSUME Shape, ExportRead \/ PutTranscriptMirror
  PROVE  /\ chain # <<>> /\ chain' # <<>> /\ DOMAIN chain' = DOMAIN chain /\ 1 \in DOMAIN chain
         /\ \A i \in DOMAIN chain : i > 1 => chain'[i] = chain[i]
         /\ Head(chain) = chain[1] /\ Head(chain') = chain'[1]
         /\ chain'[1].reason = chain[1].reason /\ chain'[1].epoch = chain[1].epoch
         /\ ExportRead => chain'[1].at = "put" /\ chain'[1].messages = box.conv
         /\ PutTranscriptMirror => chain'[1].at = "store"
<1>1. chain \in Seq(Exports) /\ chain # <<>>
  BY DEF Shape, ExportRead, PutTranscriptMirror, Running
<1>2. chain[1] \in Exports /\ 1 \in DOMAIN chain /\ Head(chain) = chain[1]
  BY <1>1, ElementOfSeq, EmptySeq, LenProperties
<1> DEFINE read == [chain[1] EXCEPT !.at = "put", !.messages = box.conv]
           put == [chain[1] EXCEPT !.at = "store"]
<1>3. /\ read \in Exports /\ read.at = "put" /\ read.messages = box.conv
      /\ read.reason = chain[1].reason /\ read.epoch = chain[1].epoch
  BY <1>2 DEF Exports, Shape, Boxes
<1>4. put \in Exports /\ put.at = "store" /\ put.reason = chain[1].reason
      /\ put.epoch = chain[1].epoch
  BY <1>2 DEF Exports
<1>5. ExportRead => chain' = [chain EXCEPT ![1] = read]
  BY DEF ExportRead
<1>6. PutTranscriptMirror => chain' = [chain EXCEPT ![1] = put]
  BY DEF PutTranscriptMirror
<1> HIDE DEF read, put
<1>7. CASE ExportRead
  <2>1. ~PutTranscriptMirror
    BY <1>7 DEF ExportRead, PutTranscriptMirror, Running
  <2> QED
    BY <1>1, <1>2, <1>3, <1>5, <1>7, <2>1, HeadReplaced
<1>8. CASE PutTranscriptMirror
  <2>1. ~ExportRead
    BY <1>8 DEF ExportRead, PutTranscriptMirror, Running
  <2> QED
    BY <1>1, <1>2, <1>4, <1>6, <1>8, <2>1, HeadReplaced
<1> QED
  BY <1>7, <1>8

\* A step that leaves the exports as they are, or chains to them.
Waiting ==
    (chain' = chain \/ Chained) /\ r2' = r2 /\ (~dirty' => ~dirty)

\* A step that begins an export, if any.
Starting ==
    chain = <<>> /\ Begun /\ r2' = r2 /\ dirty' \in BOOLEAN /\ (~dirty' => ~dirty \/ chain' # <<>>)

\* What a step may do to the exports.
LEMMA ChainSteps ==
  ASSUME Inv, [Next]_vars
  PROVE  \/ ExportRead \/ PutTranscriptMirror \/ ExportStore \/ ExportFails
         \/ Waiting \/ Starting \/ DeleteTranscriptMirror \/ Restart
<1> USE DEF vars, container, following, exporting
<1>0. Shape /\ dirty \in BOOLEAN /\ timer \in Nat /\ box \in Boxes
  BY DEF Inv, Shape
<1>1. ASSUME NEW reason \in Reasons, NEW epoch \in Nat, MirrorTranscript(reason, epoch, dirty),
             r2' = r2
      PROVE  Waiting \/ Starting
  BY <1>0, <1>1, MirrorMoves DEF Waiting, Starting, FlagMoves
<1>2. ASSUME NEW throttled \in BOOLEAN, Probe(throttled)  PROVE Waiting \/ Starting
  <2> DEFINE flag == dirty \/ (box.up /\ box.busy)
  <2>1. flag \in BOOLEAN /\ (~flag => ~dirty)
    BY <1>0
  <2>2. ScheduleTranscriptRefresh(throttled, flag) /\ r2' = r2
    BY <1>2 DEF Probe
  <2> HIDE DEF flag
  <2>3. \/ (chain' = chain \/ Chained) /\ dirty' = flag
        \/ chain = <<>> /\ Begun /\ FlagMoves(flag)
    BY <1>0, <2>1, <2>2, RefreshMoves
  <2> QED
    BY <2>1, <2>2, <2>3 DEF Waiting, Starting, FlagMoves
<1>3. "live" \in Reasons /\ "stop" \in Reasons /\ NoEpoch \in Nat
  BY DEF Reasons, NoEpoch
<1>4. LiveMirrorFires => Waiting \/ Starting
  BY <1>0, <1>1, <1>3 DEF LiveMirrorFires
<1>5. StopExports => Waiting \/ Starting
  BY <1>1, <1>3 DEF StopExports
<1>6. ASSUME UNCHANGED <<chain, r2>>, dirty' = dirty \/ dirty' = TRUE  PROVE Waiting
  BY <1>6 DEF Waiting
<1>7. CASE ExportStep
  BY <1>2, <1>4, <1>5, <1>7 DEF ExportStep
<1>8. CASE StreamStep
  <2>1. UNCHANGED <<chain, r2>> /\ (dirty' = dirty \/ dirty' = TRUE)
    BY <1>8 DEF StreamStep, StreamOpens, StreamEnds, LiveEvent, NoteLiveTranscriptEvent
  <2> QED
    BY <1>6, <2>1
<1>9. CASE TalkStep
  <2>1. UNCHANGED <<chain, r2>> /\ (dirty' = dirty \/ dirty' = TRUE)
    BY <1>9 DEF TalkStep, CreateOpencodeSession, Prompt, OpenCodeWrites, OpenCodeAsks, OpenCodeRests
  <2> QED
    BY <1>6, <2>1
<1>10. CASE BoxStep
  <2>1. DeleteTranscriptMirror \/ Restart \/ (UNCHANGED <<chain, r2>> /\ dirty' = dirty)
    BY <1>10 DEF BoxStep, Wake, StopBegins, StopDrained, StopCheckpoints, StopTerminates,
                 PurgeBegins, PurgeRemoves, ContainerDies
  <2> QED
    BY <1>6, <2>1
<1>11. CASE UNCHANGED vars
  BY <1>6, <1>11
<1> QED
  BY <1>7, <1>8, <1>9, <1>10, <1>11, StepKinds

\* The conversation grows by new messages only, and what the object is told of
\* puts the flag up.
LEMMA ConvSteps ==
  ASSUME Inv, [Next]_vars
  PROVE  /\ Written \subseteq Written'
         /\ (box'.conv \cap Written) \subseteq box.conv
         /\ noticed' = noticed \/ dirty'
<1> USE DEF vars, container, following, exporting
<1>0. Shape /\ WrittenSound /\ box \in Boxes /\ used \in Counters /\ used.messages \in Nat
  BY SpendFacts DEF Inv, Shape
<1>1. ASSUME used'.messages = used.messages, box'.conv \subseteq box.conv,
             noticed' = noticed \/ dirty'
      PROVE  /\ Written \subseteq Written'
             /\ (box'.conv \cap Written) \subseteq box.conv
             /\ noticed' = noticed \/ dirty'
  BY <1>1 DEF Written
<1>2. CASE ExportStep
  <2>1. used'.messages = used.messages /\ box' = box /\ noticed' = noticed
    BY <1>0, <1>2, SpendFacts
    DEF ExportStep, ExportRead, PutTranscriptMirror, ExportStore, ExportFails, LiveMirrorFires,
        Probe, StopExports, Fault
  <2> QED
    BY <1>1, <2>1
<1>3. CASE StreamStep
  <2>1. used'.messages = used.messages /\ box' = box /\ (noticed' = noticed \/ dirty')
    BY <1>0, <1>3, SpendFacts
    DEF StreamStep, StreamOpens, StreamEnds, LiveEvent, NoteLiveTranscriptEvent, Fault
  <2> QED
    BY <1>1, <2>1
<1>4. CASE TalkStep
  <2>1. CASE Prompt \/ OpenCodeWrites
    <3>1. /\ used'.messages = used.messages + 1
          /\ box'.conv = box.conv \cup {used.messages + 1}
          /\ noticed' = noticed \/ dirty'
      BY <1>0, <2>1, SpendFacts DEF Prompt, OpenCodeWrites, Boxes
    <3>2. ~(used.messages + 1 \in Written)
      BY <1>0 DEF Written
    <3>3. Written \subseteq Written'
      BY <1>0, <3>1 DEF Written
    <3> QED
      BY <3>1, <3>2, <3>3
  <2>2. CASE CreateOpencodeSession \/ OpenCodeAsks \/ OpenCodeRests
    <3>1. used'.messages = used.messages /\ box'.conv = box.conv /\ noticed' = noticed
      BY <1>0, <2>2 DEF CreateOpencodeSession, OpenCodeAsks, OpenCodeRests, Boxes
    <3> QED
      BY <1>1, <3>1
  <2> QED
    BY <1>4, <2>1, <2>2 DEF TalkStep
<1>5. CASE BoxStep
  <2>1. noticed' = noticed
    BY <1>5 DEF BoxStep, Wake, StopBegins, StopDrained, StopCheckpoints, StopTerminates,
                PurgeBegins, PurgeRemoves, DeleteTranscriptMirror, ContainerDies, Restart
  <2>2. used'.messages = used.messages
    <3>1. ASSUME NEW kind \in {"idle", "force"}, StopBegins(kind)
          PROVE  used'.messages = used.messages
      BY <1>0, <3>1 DEF StopBegins, Counters
    <3> QED
      BY <1>0, <1>5, <3>1, SpendFacts
      DEF BoxStep, Wake, StopDrained, StopCheckpoints, StopTerminates,
          PurgeBegins, PurgeRemoves, DeleteTranscriptMirror, ContainerDies, Restart, Fault
  <2>3. box'.conv \subseteq box.conv
    <3>1. Wake => box'.conv \subseteq box.conv
      BY <1>0 DEF Wake, WrittenSound
    <3>2. StopTerminates \/ ContainerDies => box'.conv = box.conv
      BY <1>0 DEF StopTerminates, ContainerDies, Boxes
    <3>3. PurgeRemoves => box'.conv = {}
      BY DEF PurgeRemoves
    <3> QED
      BY <1>5, <3>1, <3>2, <3>3
      DEF BoxStep, StopBegins, StopDrained, StopCheckpoints, PurgeBegins, DeleteTranscriptMirror,
          Restart
  <2> QED
    BY <1>1, <2>1, <2>2, <2>3
<1>6. CASE UNCHANGED vars
  BY <1>1, <1>6
<1> QED
  BY <1>2, <1>3, <1>4, <1>5, <1>6, StepKinds

\* What an export covers, it covers after any step.
LEMMA ChainKept ==
  ASSUME Inv, [Next]_vars
  PROVE  ChainSound'
<1>0. Shape /\ WrittenSound /\ ChainSound /\ WrittenSound'
  BY WrittenKept DEF Inv
<1>1. /\ Written \subseteq Written'
      /\ (box'.conv \cap Written) \subseteq box.conv
  BY ConvSteps
<1>2. (r2 \cap box'.conv) \subseteq (r2 \cap box.conv)
  <2>1. ASSUME NEW m \in r2, m \in box'.conv  PROVE m \in Written
    <3>1. m \in 0..used.messages /\ m \in 1..used'.messages
      BY <1>0, <2>1 DEF WrittenSound, Written
    <3> QED
      BY <3>1 DEF Written
  <2> QED
    BY <1>1, <2>1
<1>3. ASSUME Begun  PROVE ChainSound'
  BY <1>3, BegunFacts DEF ChainSound
<1>4. CASE ExportRead
  <2>1. UNCHANGED <<r2, box, used>>
    BY <1>4 DEF ExportRead, container
  <2> QED
    BY <1>0, <1>4, <2>1, HeadMoves DEF ChainSound, WrittenSound, Running, Written
<1>5. CASE PutTranscriptMirror
  BY <1>0, <1>5, HeadMoves DEF ChainSound, Running
<1>6. CASE ExportStore \/ ExportFails
  <2>1. chain # <<>> /\ \E flag \in BOOLEAN : Finish(flag)
    <3>1. dirty \in BOOLEAN
      BY <1>0 DEF Shape
    <3> QED
      BY <1>6, <3>1 DEF ExportStore, ExportFails, Running
  <2>2. Begun
    BY <1>0, <2>1, FinishMoves
  <2> QED
    BY <1>3, <2>2
<1>7. CASE Waiting
  BY <1>1, <1>2, <1>7, ChainStays DEF Waiting
<1>8. CASE Starting
  BY <1>3, <1>8 DEF Starting
<1>9. CASE DeleteTranscriptMirror
  <2>1. chain' = chain /\ r2' = {0}
    BY <1>9 DEF DeleteTranscriptMirror, Absent
  <2>2. (r2' \cap box'.conv) \subseteq (r2 \cap box.conv)
    BY <1>0, <2>1 DEF WrittenSound, Written
  <2> QED
    BY <1>1, <2>1, <2>2, ChainStays
<1>10. CASE Restart
  <2>1. Begun
    BY <1>10, EmptySeq DEF Restart, Begun, Fresh
  <2> QED
    BY <1>3, <2>1
<1> QED
  BY <1>4, <1>5, <1>6, <1>7, <1>8, <1>9, <1>10, ChainSteps

\* A purge stays a purge.
LEMMA PurgeStays ==
  ASSUME Inv, [Next]_vars, Purging
  PROVE  Purging'
<1> USE DEF vars, container, following, exporting
<1>0. stop.at \in {"remove", "sweep", "purged"} /\ stop.kind = "purge" /\ stop \in Stops
  BY DEF Inv, Shape, StopSound, Purging
<1>1. CASE ExportStep
  BY <1>0, <1>1
  DEF ExportStep, ExportRead, PutTranscriptMirror, ExportStore, ExportFails, LiveMirrorFires,
      Probe, StopExports, Purging, Stops
<1>2. CASE StreamStep \/ TalkStep
  BY <1>0, <1>2
  DEF StreamStep, StreamOpens, StreamEnds, LiveEvent, TalkStep, CreateOpencodeSession, Prompt,
      OpenCodeWrites, OpenCodeAsks, OpenCodeRests, Purging
<1>3. CASE BoxStep
  BY <1>0, <1>3
  DEF BoxStep, Wake, StopBegins, StopDrained, StopCheckpoints, StopTerminates, PurgeBegins,
      PurgeRemoves, DeleteTranscriptMirror, ContainerDies, Restart, Purging, Stops
<1> QED
  BY <1>0, <1>1, <1>2, <1>3, StepKinds DEF Purging

\* With the flag down, what the object was told of is covered after any step.
LEMMA FlagKept ==
  ASSUME Inv, [Next]_vars
  PROVE  FlagSound'
<1> SUFFICES ASSUME ~dirty', ~Purging'
             PROVE  /\ Running("put")' => Told' \subseteq Head(chain').messages
                    /\ Running("store")' => Told' \subseteq r2'
                    /\ chain' = <<>> => Told' \subseteq r2'
  BY DEF FlagSound
<1>0. Shape /\ ChainSound /\ WrittenSound /\ FlagSound /\ ~Purging /\ dirty \in BOOLEAN
  BY PurgeStays DEF Inv, Shape
<1>1. Told' \subseteq Told
  <2>1. noticed' = noticed /\ (box'.conv \cap Written) \subseteq box.conv
    BY ConvSteps
  <2> QED
    BY <1>0, <2>1 DEF Told, WrittenSound
<1>2. CASE ExportRead
  <2>1. UNCHANGED <<box, noticed>>
    BY <1>2 DEF ExportRead, container
  <2> QED
    BY <1>2, <2>1, HeadMoves, <1>0 DEF Told, Running
<1>3. CASE PutTranscriptMirror
  <2>1. ~dirty /\ Running("put") /\ r2' = Head(chain).messages
    BY <1>3 DEF PutTranscriptMirror
  <2>2. Told \subseteq r2'
    BY <1>0, <2>1 DEF FlagSound
  <2> QED
    BY <1>0, <1>1, <1>3, <2>2, HeadMoves DEF Running
<1>4. CASE ExportStore
  <2>1. Begun /\ FlagMoves(dirty) /\ r2' = r2 /\ Running("store")
    BY <1>0, <1>4, FinishMoves DEF ExportStore, Running
  <2>2. chain' = <<>> => ~dirty
    BY <2>1 DEF FlagMoves
  <2>3. chain' = <<>> => Told \subseteq r2
    BY <1>0, <2>1, <2>2 DEF FlagSound
  <2> QED
    BY <1>1, <2>1, <2>3, BegunFacts
<1>5. CASE ExportFails
  <2>1. Begun /\ FlagMoves(TRUE)
    BY <1>0, <1>5, FinishMoves DEF ExportFails
  <2> QED
    BY <2>1, BegunFacts DEF FlagMoves
<1>6. CASE Waiting
  <2>1. ~dirty /\ r2' = r2 /\ (chain' = chain \/ Chained)
    BY <1>6 DEF Waiting
  <2>2. /\ Running("put")' => Running("put") /\ Head(chain') = Head(chain)
        /\ Running("store")' => Running("store")
        /\ chain' = <<>> => chain = <<>>
    BY <1>0, <2>1, SameRuns DEF Running
  <2> QED
    BY <1>0, <1>1, <2>1, <2>2 DEF FlagSound
<1>7. CASE Starting
  <2>1. chain' = <<>> => Told \subseteq r2
    BY <1>0, <1>7 DEF Starting, FlagSound
  <2> QED
    BY <1>1, <1>7, <2>1, BegunFacts DEF Starting
<1>8. CASE DeleteTranscriptMirror
  BY <1>0, <1>8 DEF DeleteTranscriptMirror, Inv, StopSound, Purging
<1>9. CASE Restart
  BY <1>9 DEF Restart
<1> QED
  BY <1>2, <1>3, <1>4, <1>5, <1>6, <1>7, <1>8, <1>9, ChainSteps

-----------------------------------------------------------------------------
\* The export of a stop

\* What mirrorTranscript adds is for the caller's reason and epoch.
LEMMA MirrorOrigins ==
  ASSUME Shape, NEW reason \in Reasons, NEW epoch \in Nat, NEW flag \in BOOLEAN,
         MirrorTranscript(reason, epoch, flag), NEW i \in DOMAIN chain'
  PROVE  \/ chain'[i].reason = reason /\ chain'[i].epoch = epoch
         \/ \E j \in DOMAIN chain : chain'[i] = chain[j]
<1> DEFINE e == NewExport(reason, epoch)
<1>1. e \in Exports /\ e.reason = reason /\ e.epoch = epoch
  BY NewExportType
<1>2. chain \in Seq(Exports) /\ DOMAIN chain = 1..Len(chain) /\ Len(chain) \in Nat
  BY LenProperties DEF Shape
<1>3. CASE Joins(reason)
  BY <1>3 DEF MirrorTranscript
<1>4. CASE ~Joins(reason) /\ chain # <<>>
  <2>1. chain' = Append(chain, e)
    BY <1>4 DEF MirrorTranscript
  <2> HIDE DEF e
  <2>2. /\ chain' \in Seq(Exports) /\ Len(chain') = Len(chain) + 1
        /\ \A k \in 1..Len(chain) : chain'[k] = chain[k]
        /\ chain'[Len(chain) + 1] = e
    BY <1>1, <1>2, <2>1, AppendProperties
  <2>3. i \in 1..Len(chain) \/ i = Len(chain) + 1
    BY <1>2, <2>2, LenProperties
  <2> QED
    BY <1>1, <1>2, <2>2, <2>3
<1>5. CASE ~Joins(reason) /\ chain = <<>>
  <2>1. chain' = Advance(<<e>>)
    BY <1>5 DEF MirrorTranscript
  <2> HIDE DEF e
  <2>2. PICK j \in DOMAIN <<e>> : chain'[i] = <<e>>[j]
    BY <1>1, <2>1, Single, AdvanceFacts
  <2> QED
    BY <1>1, <2>2, Single
<1> QED
  BY <1>3, <1>4, <1>5

\* The end of an export keeps those behind it that have something to say.
LEMMA FinishOrigins ==
  ASSUME Shape, chain # <<>>, NEW flag \in BOOLEAN, Finish(flag)
  PROVE  /\ \A i \in DOMAIN chain' : \E j \in DOMAIN chain : j > 1 /\ chain'[i] = chain[j]
         /\ \A j \in DOMAIN chain : j > 1 /\ MayExport(chain[j]) =>
               \E i \in DOMAIN chain' : chain'[i] = chain[j]
<1> DEFINE t == Tail(chain)
<1>1. /\ t \in Seq(Exports) /\ Len(t) = Len(chain) - 1
      /\ \A i \in 1..Len(t) : t[i] = chain[i + 1]
  BY HeadTailProperties DEF Shape
<1>2. /\ Len(chain) \in Nat /\ DOMAIN chain = 1..Len(chain) /\ DOMAIN t = 1..Len(t)
  BY <1>1, LenProperties DEF Shape
<1>3. chain' = Advance(t)
  BY DEF Finish
<1> HIDE DEF t
<1>4. ASSUME NEW i \in DOMAIN chain'
      PROVE  \E j \in DOMAIN chain : j > 1 /\ chain'[i] = chain[j]
  <2>1. PICK k \in DOMAIN t : chain'[i] = t[k]
    BY <1>1, <1>3, AdvanceFacts
  <2>2. k + 1 \in DOMAIN chain /\ k + 1 > 1 /\ t[k] = chain[k + 1]
    BY <1>1, <1>2
  <2> QED
    BY <2>1, <2>2
<1>5. ASSUME NEW j \in DOMAIN chain, j > 1, MayExport(chain[j])
      PROVE  \E i \in DOMAIN chain' : chain'[i] = chain[j]
  <2>1. j - 1 \in DOMAIN t /\ t[j - 1] = chain[j]
    BY <1>1, <1>2, <1>5
  <2>2. MayExport(t[j - 1])
    BY <1>5, <2>1
  <2> QED
    BY <1>1, <1>3, <2>1, <2>2, AdvanceFacts
<1> QED
  BY <1>4, <1>5

\* Only a stop adds an export of its own, and a restart leaves none.
LEMMA Origins ==
  ASSUME Inv, [Next]_vars, NEW i \in DOMAIN chain', Own(chain'[i])
  PROVE  \/ StopExports /\ chain'[i].epoch = NoEpoch
         \/ ~Restart /\ \E j \in DOMAIN chain : Own(chain[j]) /\ chain'[i].epoch = chain[j].epoch
<1> USE DEF vars, container, following, exporting
<1>0. Shape /\ chain'[i].reason = "stop" /\ dirty \in BOOLEAN /\ timer \in Nat /\ gate.epoch \in Nat
  BY DEF Inv, Shape, Own
<1>1. ASSUME ~Restart, \E j \in DOMAIN chain : chain'[i] = chain[j]
      PROVE  ~Restart /\ \E j \in DOMAIN chain : Own(chain[j]) /\ chain'[i].epoch = chain[j].epoch
  BY <1>0, <1>1 DEF Own
<1>2. ~Restart
  BY DEF Restart
<1>3. CASE chain' = chain
  BY <1>1, <1>2, <1>3
<1>4. CASE ExportRead \/ PutTranscriptMirror
  <2>1. DOMAIN chain' = DOMAIN chain /\ chain'[1].reason = chain[1].reason
        /\ chain'[1].epoch = chain[1].epoch
        /\ \A k \in DOMAIN chain : k > 1 => chain'[k] = chain[k]
    BY <1>0, <1>4, HeadMoves
  <2>2. i = 1 \/ i > 1
    BY <1>0, <2>1, LenProperties DEF Shape
  <2> QED
    BY <1>0, <1>2, <2>1, <2>2 DEF Own
<1>5. CASE ExportStore \/ ExportFails
  <2>1. chain # <<>> /\ \E flag \in BOOLEAN : Finish(flag)
    BY <1>0, <1>5 DEF ExportStore, ExportFails, Running
  <2>2. \E j \in DOMAIN chain : chain'[i] = chain[j]
    BY <1>0, <2>1, FinishOrigins
  <2> QED
    BY <1>1, <1>2, <2>2
<1>6. CASE LiveMirrorFires
  <2>1. \E j \in DOMAIN chain : chain'[i] = chain[j]
    BY <1>0, <1>6, MirrorOrigins DEF LiveMirrorFires, Reasons
  <2> QED
    BY <1>1, <1>2, <2>1
<1>7. ASSUME NEW throttled \in BOOLEAN, Probe(throttled), chain' # chain
      PROVE  \E j \in DOMAIN chain : chain'[i] = chain[j]
  <2> DEFINE flag == dirty \/ (box.up /\ box.busy)
  <2>1. flag \in BOOLEAN /\ MirrorTranscript("refresh", gate.epoch, flag)
    BY <1>0, <1>7 DEF Probe, ScheduleTranscriptRefresh, Shape, Boxes
  <2> HIDE DEF flag
  <2> QED
    BY <1>0, <2>1, MirrorOrigins DEF Reasons
<1>8. CASE StopExports
  <2>1. \/ chain'[i].epoch = NoEpoch
        \/ \E j \in DOMAIN chain : chain'[i] = chain[j]
    BY <1>0, <1>8, MirrorOrigins DEF StopExports, Reasons, NoEpoch
  <2> QED
    BY <1>1, <1>2, <1>8, <2>1
<1>9. CASE ExportStep
  BY <1>1, <1>2, <1>3, <1>4, <1>5, <1>6, <1>7, <1>8, <1>9 DEF ExportStep
<1>10. CASE StreamStep \/ TalkStep
  BY <1>3, <1>10
  DEF StreamStep, StreamOpens, StreamEnds, LiveEvent, TalkStep, CreateOpencodeSession, Prompt,
      OpenCodeWrites, OpenCodeAsks, OpenCodeRests
<1>11. CASE BoxStep
  BY <1>2, <1>3, <1>11
  DEF BoxStep, Wake, StopBegins, StopDrained, StopCheckpoints, StopTerminates, PurgeBegins,
      PurgeRemoves, DeleteTranscriptMirror, ContainerDies
<1> QED
  BY <1>3, <1>9, <1>10, <1>11, StepKinds

\* Past its drain, an idle stop leaves the container alone, and comes there only
\* over one that rests.
LEMMA IdleStays ==
  ASSUME Inv, [Next]_vars, IdleStop'
  PROVE  \/ StopDrained /\ stop'.at = "export" /\ ~box'.busy
         \/ IdleStop /\ box' = box /\ target' = target /\ believed'
<1> USE DEF vars, container, following, exporting
<1>0. /\ stop'.kind = "idle" /\ gate'.phase \in {"checkpointing", "stopping"} /\ box'.up
      /\ stop \in Stops /\ box \in Boxes /\ gate \in [phase : Phases, epoch : Nat]
      /\ StopSound /\ believed' \in BOOLEAN
  <2>1. Shape'
    BY ShapeKept DEF Inv
  <2> QED
    BY <2>1 DEF IdleStop, Inv, Shape
<1>1. ASSUME UNCHANGED <<gate, box, believed, target>>, stop'.kind = stop.kind
      PROVE  IdleStop /\ box' = box /\ target' = target /\ believed'
  BY <1>0, <1>1 DEF IdleStop, StopSound
<1>2. CASE ExportStep
  <2>1. UNCHANGED <<gate, box, believed, target>>
    BY <1>2 DEF ExportStep, ExportRead, PutTranscriptMirror, ExportStore, ExportFails,
                LiveMirrorFires, Probe, StopExports
  <2>2. stop'.kind = stop.kind
    BY <1>0, <1>2 DEF ExportStep, ExportRead, PutTranscriptMirror, ExportStore, ExportFails,
                LiveMirrorFires, Probe, StopExports, Stops
  <2> QED
    BY <1>1, <2>1, <2>2
<1>3. CASE StreamStep
  BY <1>1, <1>3 DEF StreamStep, StreamOpens, StreamEnds, LiveEvent
<1>4. CASE TalkStep
  <2>1. UNCHANGED <<gate, stop>>
    BY <1>4 DEF TalkStep, CreateOpencodeSession, Prompt, OpenCodeWrites, OpenCodeAsks, OpenCodeRests
  <2>2. box.up
    BY <1>0, <1>4 DEF TalkStep, CreateOpencodeSession, Prompt, OpenCodeWrites, OpenCodeAsks,
                      OpenCodeRests
  <2>3. IdleStop /\ ~box.busy /\ gate.phase # "running"
    BY <1>0, <2>1, <2>2 DEF IdleStop, Inv, ExportSound
  <2> QED
    BY <1>1, <1>4, <2>3 DEF TalkStep, CreateOpencodeSession, Prompt, OpenCodeWrites, OpenCodeAsks,
                      OpenCodeRests
<1>5. CASE BoxStep
  <2>1. CASE Wake
    BY <1>0, <2>1 DEF Wake
  <2>2. ASSUME NEW kind \in {"idle", "force"}, StopBegins(kind)
        PROVE  IdleStop /\ box' = box /\ target' = target /\ believed'
    <3>1. box.up
      BY <1>0, <2>2 DEF StopBegins
    <3>2. gate.phase # "running" /\ UNCHANGED <<box, believed, target>>
      BY <1>0, <2>2, <3>1 DEF StopBegins
    <3>3. gate' = gate
      BY <2>2, <3>1, <3>2 DEF StopBegins
    <3>4. stop'.kind = kind /\ stop.kind \in {"none", kind}
      BY <2>2, <3>1 DEF StopBegins
    <3>5. stop.kind = "idle"
      BY <1>0, <3>3, <3>4 DEF StopSound
    <3> QED
      BY <1>0, <1>1, <3>2, <3>3, <3>5
  <2>3. CASE StopDrained
    <3>1. UNCHANGED <<box, believed, target>>
      BY <2>3 DEF StopDrained
    <3>2. ~(stop.kind = "idle" /\ (~box.up \/ box.busy))
      BY <1>0, <2>3 DEF StopDrained, NoStop
    <3>3. stop'.kind = stop.kind /\ stop'.at = "export"
      BY <1>0, <2>3, <3>2 DEF StopDrained, Stops
    <3> QED
      BY <1>0, <2>3, <3>1, <3>2, <3>3
  <2>4. CASE StopCheckpoints
    <3>1. UNCHANGED <<box, believed, target>> /\ gate.phase = "checkpointing"
      BY <1>0, <2>4 DEF StopCheckpoints, StopSound
    <3>2. stop'.kind = stop.kind
      BY <1>0, <2>4 DEF StopCheckpoints, Stops, NoStop
    <3> QED
      BY <1>0, <3>1, <3>2 DEF IdleStop, StopSound
  <2>5. CASE StopTerminates
    BY <1>0, <2>5 DEF StopTerminates
  <2>6. CASE PurgeBegins
    BY <1>0, <2>6 DEF PurgeBegins
  <2>7. CASE PurgeRemoves
    BY <1>0, <2>7 DEF PurgeRemoves
  <2>8. CASE DeleteTranscriptMirror \/ Restart
    <3>1. UNCHANGED <<gate, box, believed, target>>
      BY <2>8 DEF DeleteTranscriptMirror, Restart
    <3>2. stop'.kind = stop.kind
      BY <1>0, <2>8 DEF DeleteTranscriptMirror, Restart, Stops
    <3> QED
      BY <1>1, <3>1, <3>2
  <2>9. CASE ContainerDies
    BY <1>0, <2>9 DEF ContainerDies, Boxes
  <2> QED
    BY <1>5, <2>1, <2>2, <2>3, <2>4, <2>5, <2>6, <2>7, <2>8, <2>9 DEF BoxStep
<1>6. CASE UNCHANGED vars
  BY <1>1, <1>6
<1> QED
  BY <1>2, <1>3, <1>4, <1>5, <1>6, StepKinds

\* A stop at its checkpoint stays there until it ends or is forgotten.
LEMMA CheckpointStays ==
  ASSUME Inv, [Next]_vars, stop.at = "checkpoint"
  PROVE  stop'.at = "checkpoint" \/ StopCheckpoints \/ Restart
<1> USE DEF vars, container, following, exporting
<1>0. stop \in Stops
  BY DEF Inv, Shape
<1>1. CASE ExportStep
  BY <1>0, <1>1
  DEF ExportStep, ExportRead, PutTranscriptMirror, ExportStore, ExportFails, LiveMirrorFires,
      Probe, StopExports, Stops
<1>2. CASE StreamStep \/ TalkStep
  BY <1>0, <1>2
  DEF StreamStep, StreamOpens, StreamEnds, LiveEvent, TalkStep, CreateOpencodeSession, Prompt,
      OpenCodeWrites, OpenCodeAsks, OpenCodeRests
<1>3. CASE BoxStep
  <2>1. ~Wake
    BY DEF Wake, Inv, StopSound
  <2> QED
    BY <1>0, <1>3, <2>1
    DEF BoxStep, StopBegins, StopDrained, StopTerminates, PurgeBegins, PurgeRemoves,
        DeleteTranscriptMirror, ContainerDies
<1> QED
  BY <1>1, <1>2, <1>3, StepKinds

\* A stop's own export is there only at its checkpoint, and for no epoch.
LEMMA OwnKept ==
  ASSUME Inv, [Next]_vars, NEW i \in DOMAIN chain', Own(chain'[i])
  PROVE  stop'.at = "checkpoint" /\ chain'[i].epoch = NoEpoch
<1>1. CASE StopExports /\ chain'[i].epoch = NoEpoch
  BY <1>1 DEF StopExports, Inv, Shape, Stops
<1>2. ASSUME ~Restart, NEW j \in DOMAIN chain, Own(chain[j]), chain'[i].epoch = chain[j].epoch
      PROVE  stop'.at = "checkpoint" /\ chain'[i].epoch = NoEpoch
  <2>1. stop.at = "checkpoint" /\ chain[j].epoch = NoEpoch
    BY <1>2 DEF Inv, ExportSound
  <2>2. ~StopCheckpoints
    BY <1>2 DEF StopCheckpoints, StopAwaits, Own
  <2> QED
    BY <1>2, <2>1, <2>2, CheckpointStays
<1> QED
  BY <1>1, <1>2, Origins

\* A conversation that is not empty has a target.
LEMMA ConvHasTarget ==
  ASSUME Inv, box.conv # {}
  PROVE  target # NoTarget
<1>1. PICK m \in box.conv : TRUE
  OBVIOUS
<1>2. m \in 1..used.messages /\ used.messages \in Nat
  BY SpendFacts DEF Inv, WrittenSound, Written
<1> QED
  BY <1>2 DEF Inv, WrittenSound, NoTarget

\* The stop's own export waits its turn and gets it.
LEMMA OwnSurvives ==
  ASSUME Inv, IdleStop, believed', box.conv # {}, chain # <<>>,
         NEW flag \in BOOLEAN, Finish(flag), NEW j \in DOMAIN chain, j > 1, Own(chain[j])
  PROVE  HasOwn'
<1>1. MayExport(chain[j])
  BY ConvHasTarget DEF MayExport, Inv, ExportSound, IdleStop, Purging
<1>2. \E i \in DOMAIN chain' : chain'[i] = chain[j]
  BY <1>1, FinishOrigins DEF Inv
<1> QED
  BY <1>2 DEF HasOwn

\* A mirror that holds the whole conversation goes on to hold it.
LEMMA CoverKept ==
  ASSUME Inv, [Next]_vars, IdleStop, box' = box, box.conv \subseteq r2
  PROVE  box'.conv \subseteq r2'
<1>0. ChainSound
  BY DEF Inv
<1>1. CASE PutTranscriptMirror
  BY <1>0, <1>1 DEF PutTranscriptMirror, ChainSound
<1>2. CASE Restart
  <2>1. r2' = r2 \/ (Running("put") /\ r2' = Head(chain).messages)
    BY <1>2 DEF Restart
  <2> QED
    BY <1>0, <2>1 DEF ChainSound
<1>3. CASE DeleteTranscriptMirror
  BY <1>3 DEF DeleteTranscriptMirror, IdleStop, Inv, StopSound
<1>4. CASE ExportRead \/ ExportStore \/ ExportFails \/ Waiting \/ Starting
  BY <1>4 DEF ExportRead, ExportStore, ExportFails, Waiting, Starting
<1> QED
  BY <1>1, <1>2, <1>3, <1>4, ChainSteps

\* What an idle stop's own export covers past the drain.
LEMMA OwnCovers ==
  ASSUME Inv, [Next]_vars, IdleStop, box' = box
  PROVE  /\ Running("put")' /\ Own(Head(chain')) => box'.conv \subseteq Head(chain').messages
         /\ Running("store")' /\ Own(Head(chain')) => box'.conv \subseteq r2'
<1>0. /\ Shape /\ ChainSound
      /\ Running("put") /\ Own(Head(chain)) => box.conv \subseteq Head(chain).messages
      /\ Running("store") /\ Own(Head(chain)) => box.conv \subseteq r2
  BY DEF Inv, ExportSound
<1>1. CASE ExportRead
  BY <1>0, <1>1, HeadMoves DEF Running
<1>2. CASE PutTranscriptMirror
  <2>1. /\ Running("put") /\ r2' = Head(chain).messages
        /\ ~Running("put")' /\ (Own(Head(chain')) => Own(Head(chain)))
    BY <1>0, <1>2, HeadMoves DEF PutTranscriptMirror, Running, Own
  <2> QED
    BY <1>0, <2>1
<1>3. CASE ExportStore \/ ExportFails
  <2>1. chain # <<>> /\ \E flag \in BOOLEAN : Finish(flag)
    BY <1>0, <1>3 DEF ExportStore, ExportFails, Running, Shape
  <2>2. Begun
    BY <1>0, <2>1, FinishMoves
  <2> QED
    BY <2>2, BegunFacts
<1>4. CASE Waiting
  <2>1. r2' = r2 /\ (chain' = chain \/ Chained)
    BY <1>4 DEF Waiting
  <2>2. /\ Running("put")' => Running("put") /\ Head(chain') = Head(chain)
        /\ Running("store")' => Running("store") /\ Head(chain') = Head(chain)
    BY <1>0, <2>1, SameRuns DEF Running
  <2> QED
    BY <1>0, <2>1, <2>2
<1>5. CASE Starting
  BY <1>5, BegunFacts DEF Starting
<1>6. CASE DeleteTranscriptMirror
  BY <1>6 DEF DeleteTranscriptMirror, IdleStop, Inv, StopSound
<1>7. CASE Restart
  BY <1>7, BegunFacts, EmptySeq DEF Restart, Begun, Fresh
<1> QED
  BY <1>1, <1>2, <1>3, <1>4, <1>5, <1>6, <1>7, ChainSteps

\* At its checkpoint an idle stop's own export is to come or has put it all.
LEMMA CheckpointCovers ==
  ASSUME Inv, [Next]_vars, IdleStop, box' = box, believed', stop.at = "checkpoint",
         stop'.at = "checkpoint", ~stop'.failed
  PROVE  HasOwn' \/ box'.conv \subseteq r2'
<1>0. Shape /\ ChainSound /\ ExportSound /\ stop \in Stops /\ dirty \in BOOLEAN
  BY DEF Inv, Shape
<1>1. ~stop.failed
  <2>1. stop'.failed = stop.failed \/ stop'.failed = TRUE
    <3>1. stop' = stop \/ stop'.failed = TRUE
      <4>1. CASE ExportStep
        BY <1>0, <4>1
        DEF ExportStep, ExportRead, PutTranscriptMirror, ExportStore, ExportFails,
            LiveMirrorFires, Probe, StopExports, Stops
      <4>2. CASE StreamStep \/ TalkStep
        BY <4>2
        DEF StreamStep, StreamOpens, StreamEnds, LiveEvent, TalkStep, CreateOpencodeSession,
            Prompt, OpenCodeWrites, OpenCodeAsks, OpenCodeRests
      <4>3. CASE BoxStep
        <5>1. ~Wake
          BY DEF Wake, IdleStop
        <5>2. ~StopCheckpoints
          <6>1. StopCheckpoints => stop' = NoStop \/ stop' = [stop EXCEPT !.at = "terminate"]
            BY DEF StopCheckpoints
          <6>2. stop' = [stop EXCEPT !.at = "terminate"] => stop'.at = "terminate"
            BY <1>0 DEF Stops
          <6> QED
            BY <6>1, <6>2 DEF NoStop
        <5>3. ~Restart
          BY <1>0 DEF Restart, Stops
        <5> QED
          BY <4>3, <5>1, <5>2, <5>3
          DEF BoxStep, StopBegins, StopDrained, StopTerminates, PurgeBegins, PurgeRemoves,
              DeleteTranscriptMirror, ContainerDies
      <4> QED
        BY <4>1, <4>2, <4>3, StepKinds DEF vars
    <3> QED
      BY <3>1
  <2> QED
    BY <2>1
<1>2. HasOwn \/ box.conv \subseteq r2
  BY <1>0, <1>1 DEF ExportSound
<1>3. CASE box.conv \subseteq r2
  BY <1>3, CoverKept
<1>4. CASE HasOwn /\ box.conv # {}
  <2>1. PICK j \in DOMAIN chain : Own(chain[j])
    BY <1>4 DEF HasOwn
  <2>2. j \in 1..Len(chain) /\ Len(chain) \in Nat /\ chain # <<>>
    BY <1>0, <2>1, LenProperties, EmptySeq DEF Shape
  <2>3. CASE ExportRead \/ PutTranscriptMirror
    <3>1. DOMAIN chain' = DOMAIN chain /\ chain'[1].reason = chain[1].reason
          /\ \A k \in DOMAIN chain : k > 1 => chain'[k] = chain[k]
      BY <1>0, <2>3, HeadMoves
    <3>2. j \in DOMAIN chain' /\ Own(chain'[j])
      BY <2>1, <2>2, <3>1 DEF Own
    <3> QED
      BY <3>2 DEF HasOwn
  <2>4. CASE ExportStore \/ ExportFails
    <3>1. \E flag \in BOOLEAN : Finish(flag)
      BY <1>0, <2>4 DEF ExportStore, ExportFails
    <3>2. CASE j > 1
      BY <1>4, <2>1, <2>2, <3>1, <3>2, OwnSurvives
    <3>3. CASE j = 1
      <4>1. Own(Head(chain))
        BY <1>0, <2>1, <2>2, <3>3 DEF Shape
      <4>2. ~ExportFails
        BY <1>0, <4>1 DEF ExportFails, Own, Stops
      <4>3. box.conv \subseteq r2
        BY <1>0, <2>4, <4>1, <4>2 DEF ExportStore, ExportSound
      <4> QED
        BY <4>3, CoverKept
    <3> QED
      BY <2>2, <3>2, <3>3
  <2>5. CASE Waiting
    <3>1. CASE chain' = chain
      BY <2>1, <3>1 DEF HasOwn
    <3>2. CASE Chained
      <4>1. chain'[j] = chain[j] /\ j \in DOMAIN chain'
        BY <1>0, <2>2, <3>2, ChainedFacts, LenProperties
      <4> QED
        BY <2>1, <4>1 DEF HasOwn
    <3> QED
      BY <2>5, <3>1, <3>2 DEF Waiting
  <2>6. CASE Starting
    BY <2>2, <2>6 DEF Starting
  <2>7. CASE DeleteTranscriptMirror
    BY <2>7 DEF DeleteTranscriptMirror
  <2>8. CASE Restart
    BY <1>0, <2>8 DEF Restart, Stops
  <2> QED
    BY <2>3, <2>4, <2>5, <2>6, <2>7, <2>8, ChainSteps
<1> QED
  BY <1>2, <1>3, <1>4

\* What an idle stop takes down is in the mirror.
LEMMA TerminateCovers ==
  ASSUME Inv, [Next]_vars, IdleStop, box' = box, stop'.at = "terminate", ~stop'.failed
  PROVE  box'.conv \subseteq r2'
<1> USE DEF vars, container, following, exporting
<1>0. ExportSound /\ stop \in Stops
  BY DEF Inv, Shape
<1>1. ASSUME stop.at = "terminate", ~stop.failed  PROVE box'.conv \subseteq r2'
  <2>1. box.conv \subseteq r2
    BY <1>0, <1>1 DEF ExportSound
  <2> QED
    BY <2>1, CoverKept
<1>2. CASE ExportStep
  <2>1. CASE ExportFails
    BY <1>0, <1>1, <2>1 DEF ExportFails, Stops
  <2>2. CASE StopExports
    BY <1>0, <2>2 DEF StopExports, Stops
  <2> QED
    BY <1>1, <1>2, <2>1, <2>2
    DEF ExportStep, ExportRead, PutTranscriptMirror, ExportStore, LiveMirrorFires, Probe
<1>3. CASE StreamStep \/ TalkStep
  BY <1>1, <1>3
  DEF StreamStep, StreamOpens, StreamEnds, LiveEvent, TalkStep, CreateOpencodeSession, Prompt,
      OpenCodeWrites, OpenCodeAsks, OpenCodeRests
<1>4. CASE BoxStep
  <2>1. ASSUME NEW kind \in {"idle", "force"}, StopBegins(kind)  PROVE FALSE
    <3>1. box.up /\ gate.phase \in {"checkpointing", "stopping"}
      BY DEF IdleStop
    <3>2. gate' = gate
      BY <2>1, <3>1 DEF StopBegins
    <3>3. gate.phase # "checkpointing"
      BY <2>1, <3>1, <3>2 DEF StopBegins
    <3> DEFINE step == CASE gate'.phase = "quiescing" -> "drain"
                         [] gate'.phase = "checkpointing" -> "export"
                         [] OTHER -> "terminate"
               broken == gate.phase = "stopping"
    <3>4. broken
      BY <3>1, <3>3
    <3>5. stop' = [kind |-> kind, failed |-> broken, at |-> step]
      BY <2>1, <3>1 DEF StopBegins
    <3> HIDE DEF step, broken
    <3>6. stop'.failed = broken
      BY <3>5, Zenon
    <3> QED
      BY <3>4, <3>6
  <2>2. CASE StopCheckpoints
    <3>1. stop.at = "checkpoint" /\ StopAwaits /\ ~stop.failed
      BY <1>0, <2>2 DEF StopCheckpoints, NoStop, Stops
    <3>2. ~HasOwn
      BY <3>1 DEF StopAwaits, HasOwn, Own
    <3>3. box.conv \subseteq r2
      BY <1>0, <3>1, <3>2 DEF ExportSound
    <3> QED
      BY <3>3, CoverKept
  <2>3. CASE StopDrained
    BY <1>0, <2>3 DEF StopDrained, NoStop, Stops
  <2>4. CASE Wake
    BY <2>4 DEF Wake, IdleStop
  <2>5. CASE StopTerminates \/ PurgeBegins
    BY <2>5 DEF StopTerminates, PurgeBegins, NoStop
  <2>6. CASE PurgeRemoves \/ DeleteTranscriptMirror \/ Restart
    BY <1>0, <2>6 DEF PurgeRemoves, DeleteTranscriptMirror, Restart, Stops
  <2>7. CASE ContainerDies
    BY <1>1, <2>7 DEF ContainerDies
  <2> QED
    BY <1>4, <2>1, <2>2, <2>3, <2>4, <2>5, <2>6, <2>7 DEF BoxStep
<1> QED
  BY <1>1, <1>2, <1>3, <1>4, StepKinds

\* A stop that goes to its checkpoint has chained its own export.
LEMMA StopExportOwn ==
  ASSUME Inv, IdleStop, StopExports, box' = box, believed'
  PROVE  HasOwn' \/ box.conv = {}
<1>0. Shape /\ chain \in Seq(Exports) /\ "stop" \in Reasons /\ NoEpoch \in Nat
  BY DEF Inv, Shape, Reasons, NoEpoch
<1> DEFINE e == NewExport("stop", NoEpoch)
<1>1. e \in Exports /\ Own(e) /\ e.epoch = NoEpoch
  BY <1>0, NewExportType DEF Own
<1>2. MirrorTranscript("stop", NoEpoch, dirty) /\ ~Joins("stop")
  BY DEF StopExports, Joins
<1>3. CASE chain # <<>>
  <2>1. chain' = Append(chain, e)
    BY <1>2, <1>3 DEF MirrorTranscript
  <2> HIDE DEF e
  <2>2. /\ Append(chain, e) \in Seq(Exports) /\ Len(Append(chain, e)) = Len(chain) + 1
        /\ Append(chain, e)[Len(chain) + 1] = e
    BY <1>0, <1>1, AppendProperties
  <2>3. Len(chain) + 1 \in DOMAIN chain' /\ Own(chain'[Len(chain) + 1])
    BY <1>0, <1>1, <2>1, <2>2, LenProperties
  <2> QED
    BY <2>3 DEF HasOwn
<1>4. CASE chain = <<>> /\ box.conv # {}
  <2>1. chain' = Advance(<<e>>)
    BY <1>2, <1>4 DEF MirrorTranscript
  <2>2. MayExport(e)
    <3> HIDE DEF e
    <3> QED
      BY <1>1, <1>4, ConvHasTarget DEF MayExport, IdleStop, Purging
  <2> HIDE DEF e
  <2>3. <<e>> \in Seq(Exports) /\ 1 \in DOMAIN <<e>> /\ <<e>>[1] = e
    BY <1>1, Single
  <2>4. \E i \in DOMAIN chain' : chain'[i] = e
    BY <2>1, <2>2, <2>3, AdvanceFacts
  <2> QED
    BY <1>1, <2>4 DEF HasOwn
<1> QED
  BY <1>3, <1>4

\* An idle stop is covered by its own export after any step.
LEMMA ExportKept ==
  ASSUME Inv, [Next]_vars
  PROVE  ExportSound'
<1>1. \A i \in DOMAIN chain' : Own(chain'[i]) => stop'.at = "checkpoint" /\ chain'[i].epoch = NoEpoch
  BY OwnKept
<1>2. ASSUME IdleStop', StopDrained, stop'.at = "export", ~box'.busy
      PROVE  /\ ~box'.busy
             /\ Running("put")' => ~Own(Head(chain'))
             /\ Running("store")' => ~Own(Head(chain'))
  <2>1. chain' \in Seq(Exports)
    BY ShapeKept DEF Inv, Shape
  <2>2. chain' # <<>> => 1 \in DOMAIN chain' /\ Head(chain') = chain'[1]
    BY <2>1, LenProperties, EmptySeq
  <2> QED
    BY <1>1, <1>2, <2>2 DEF Running
<1>3. ASSUME IdleStop', IdleStop, box' = box, target' = target, believed'
      PROVE  /\ ~box'.busy
             /\ Running("put")' /\ Own(Head(chain')) => box'.conv \subseteq Head(chain').messages
             /\ Running("store")' /\ Own(Head(chain')) => box'.conv \subseteq r2'
             /\ stop'.at = "checkpoint" /\ ~stop'.failed => HasOwn' \/ box'.conv \subseteq r2'
             /\ stop'.at = "terminate" /\ ~stop'.failed => box'.conv \subseteq r2'
  <2>1. ~box'.busy
    BY <1>3 DEF Inv, ExportSound
  <2>2. ASSUME stop'.at = "checkpoint", ~stop'.failed
        PROVE  HasOwn' \/ box'.conv \subseteq r2'
    <3>1. stop.at = "checkpoint" \/ StopExports
      <4>0. stop \in Stops
        BY DEF Inv, Shape
      <4>1. CASE ExportStep
        BY <2>2, <4>0, <4>1
        DEF ExportStep, ExportRead, PutTranscriptMirror, ExportStore, ExportFails, LiveMirrorFires,
            Probe, Stops
      <4>2. CASE StreamStep \/ TalkStep
        BY <2>2, <4>2
        DEF StreamStep, StreamOpens, StreamEnds, LiveEvent, TalkStep, CreateOpencodeSession,
            Prompt, OpenCodeWrites, OpenCodeAsks, OpenCodeRests
      <4>3. CASE BoxStep
        <5>1. ASSUME NEW kind \in {"idle", "force"}, StopBegins(kind)  PROVE FALSE
          BY <2>2, <5>1 DEF StopBegins, NoStop
        <5>2. Wake \/ ContainerDies => stop' = stop
          BY DEF Wake, ContainerDies
        <5>3. StopDrained => stop' = NoStop \/ stop' = [stop EXCEPT !.at = "export"]
          BY DEF StopDrained
        <5>4. StopCheckpoints => stop' = NoStop \/ stop' = [stop EXCEPT !.at = "terminate"]
          BY DEF StopCheckpoints
        <5>5. StopTerminates \/ PurgeBegins => stop'.at # "checkpoint"
          BY DEF StopTerminates, PurgeBegins, NoStop
        <5>6. PurgeRemoves \/ DeleteTranscriptMirror \/ Restart => stop'.at # "checkpoint"
          BY <4>0 DEF PurgeRemoves, DeleteTranscriptMirror, Restart, Stops
        <5> QED
          BY <2>2, <4>0, <4>3, <5>1, <5>2, <5>3, <5>4, <5>5, <5>6 DEF BoxStep, NoStop, Stops
      <4> QED
        BY <2>2, <4>1, <4>2, <4>3, StepKinds DEF vars
    <3>2. CASE stop.at = "checkpoint"
      BY <1>3, <2>2, <3>2, CheckpointCovers
    <3>3. CASE StopExports
      BY <1>3, <3>3, StopExportOwn
    <3> QED
      BY <3>1, <3>2, <3>3
  <2>3. stop'.at = "terminate" /\ ~stop'.failed => box'.conv \subseteq r2'
    BY <1>3, TerminateCovers
  <2> QED
    BY <1>3, <2>1, <2>2, <2>3, OwnCovers
<1> QED
  BY <1>1, <1>2, <1>3, IdleStays DEF ExportSound

-----------------------------------------------------------------------------
\* What the stream still holds

\* What an event leaves of a run's being observed.
After(o, kind) == IF kind = "ask" THEN o ELSE kind = "activity"

\* An event at the end of a stream changes nothing before it.
LEMMA BeforeGrows ==
  ASSUME NEW o \in BOOLEAN, NEW q \in Seq(StreamEvents), NEW e \in StreamEvents
  PROVE  /\ Len(q) \in Nat /\ Len(Append(q, e)) = Len(q) + 1
         /\ \A k \in 1..Len(q) + 1 : Before(o, q, k) => Before(o, Append(q, e), k)
         /\ e.kind = "activity" => Before(o, Append(q, e), Len(q) + 2)
         /\ e.kind = "ask" /\ Before(o, q, Len(q) + 1) => Before(o, Append(q, e), Len(q) + 2)
<1> DEFINE p == Append(q, e)
<1>1. /\ Len(q) \in Nat /\ Len(p) = Len(q) + 1 /\ p \in Seq(StreamEvents)
      /\ \A i \in 1..Len(q) : p[i] = q[i]
      /\ p[Len(q) + 1] = e
  BY AppendProperties, LenProperties
<1> HIDE DEF p
<1>2. ASSUME NEW k \in 1..Len(q) + 1, Before(o, q, k)  PROVE Before(o, p, k)
  <2>1. \A i \in 1..k-1 : p[i] = q[i]
    BY <1>1
  <2>2. CASE o /\ \A i \in 1..k-1 : q[i].kind = "ask"
    BY <2>1, <2>2 DEF Before
  <2>3. ASSUME NEW j \in 1..k-1, q[j].kind = "activity", \A i \in j+1..k-1 : q[i].kind = "ask"
        PROVE  Before(o, p, k)
    <3>1. \A i \in j+1..k-1 : i \in 1..k-1
      BY <1>1
    <3> QED
      BY <2>1, <2>3, <3>1 DEF Before
  <2> QED
    BY <1>2, <2>2, <2>3 DEF Before
<1>3. ASSUME e.kind = "activity"  PROVE Before(o, p, Len(q) + 2)
  <2>1. Len(q) + 1 \in 1..(Len(q) + 2) - 1 /\ p[Len(q) + 1].kind = "activity"
    BY <1>1, <1>3
  <2>2. \A i \in (Len(q) + 1) + 1..(Len(q) + 2) - 1 : p[i].kind = "ask"
    BY <1>1
  <2> QED
    BY <2>1, <2>2 DEF Before
<1>4. ASSUME e.kind = "ask", Before(o, q, Len(q) + 1)  PROVE Before(o, p, Len(q) + 2)
  <2>0. Before(o, p, Len(q) + 1) /\ (Len(q) + 2) - 1 = Len(q) + 1 /\ (Len(q) + 1) - 1 = Len(q)
    BY <1>1, <1>2, <1>4
  <2>1. CASE o /\ \A i \in 1..(Len(q) + 1) - 1 : p[i].kind = "ask"
    <3>1. \A i \in 1..(Len(q) + 2) - 1 : p[i].kind = "ask"
      BY <1>1, <1>4, <2>1
    <3> QED
      BY <2>1, <3>1 DEF Before
  <2>2. ASSUME NEW j \in 1..(Len(q) + 1) - 1, p[j].kind = "activity",
               \A i \in j+1..(Len(q) + 1) - 1 : p[i].kind = "ask"
        PROVE  Before(o, p, Len(q) + 2)
    <3>1. j \in 1..(Len(q) + 2) - 1
      BY <1>1
    <3>2. \A i \in j+1..(Len(q) + 2) - 1 : p[i].kind = "ask"
      BY <1>1, <1>4, <2>2
    <3> QED
      BY <2>2, <3>1, <3>2 DEF Before
  <2> QED
    BY <2>0, <2>1, <2>2 DEF Before
<1> QED
  BY <1>1, <1>2, <1>3, <1>4 DEF p

\* The event that is read leaves the rest as it was.
LEMMA BeforeTail ==
  ASSUME NEW o \in BOOLEAN, NEW q \in Seq(StreamEvents), q # <<>>,
         NEW k \in 2..Len(q) + 1, Before(o, q, k)
  PROVE  Before(After(o, Head(q).kind), Tail(q), k - 1)
<1> DEFINE t == Tail(q)
           n == After(o, Head(q).kind)
<1>1. /\ Len(q) \in Nat \ {0} /\ Len(t) = Len(q) - 1
      /\ \A i \in 1..Len(t) : t[i] = q[i + 1]
      /\ Head(q) = q[1]
  BY HeadTailProperties, LenProperties, EmptySeq
<1> HIDE DEF t
<1>2. ASSUME NEW i \in Int, i >= 1, i <= (k - 1) - 1  PROVE t[i] = q[i + 1] /\ i + 1 \in 2..k - 1
  BY <1>1, <1>2
<1>3. CASE o /\ \A i \in 1..k-1 : q[i].kind = "ask"
  <2>1. n = o
    <3>1. 1 \in 1..k-1
      BY <1>1
    <3>2. Head(q).kind = "ask"
      BY <1>1, <1>3, <3>1
    <3> QED
      BY <3>2 DEF After
  <2>2. \A i \in 1..(k - 1) - 1 : t[i].kind = "ask"
    BY <1>1, <1>2, <1>3
  <2> QED
    BY <1>3, <2>1, <2>2 DEF Before, t
<1>4. ASSUME NEW j \in 1..k-1, q[j].kind = "activity", \A i \in j+1..k-1 : q[i].kind = "ask"
      PROVE  Before(n, t, k - 1)
  <2>1. CASE j = 1
    <3>1. n
      BY <1>1, <1>4, <2>1 DEF After
    <3>2. \A i \in 1..(k - 1) - 1 : t[i].kind = "ask"
      BY <1>1, <1>2, <1>4, <2>1
    <3> HIDE DEF n
    <3> QED
      BY <3>1, <3>2 DEF Before
  <2>2. CASE j > 1
    <3>1. j - 1 \in 1..(k - 1) - 1 /\ t[j - 1].kind = "activity"
      BY <1>1, <1>2, <1>4, <2>2
    <3>2. \A i \in (j - 1) + 1..(k - 1) - 1 : t[i].kind = "ask"
      BY <1>1, <1>2, <1>4, <2>2
    <3> HIDE DEF n
    <3> QED
      BY <3>1, <3>2 DEF Before
  <2> QED
    BY <2>1, <2>2
<1> QED
  BY <1>3, <1>4 DEF Before, t

\* An observed stop stays heard of when an event is read: either it is this one,
\* and it is announced, or it is still to be read.
LEMMA HeardTail ==
  ASSUME NEW o \in BOOLEAN, NEW a \in BOOLEAN, NEW b \in BOOLEAN, NEW q \in Seq(StreamEvents),
         q # <<>>, Heard(o, a, q), a => b, Head(q).kind = "stop" /\ o => b
  PROVE  Heard(After(o, Head(q).kind), b, Tail(q))
<1>1. /\ Len(q) \in Nat \ {0} /\ Len(Tail(q)) = Len(q) - 1 /\ Tail(q) \in Seq(StreamEvents)
      /\ \A i \in 1..Len(Tail(q)) : Tail(q)[i] = q[i + 1]
      /\ Head(q) = q[1]
      /\ DOMAIN q = 1..Len(q) /\ DOMAIN Tail(q) = 1..Len(Tail(q))
  BY HeadTailProperties, LenProperties, EmptySeq
<1>2. CASE b
  BY <1>2 DEF Heard
<1>3. ASSUME ~b, NEW k \in DOMAIN q, q[k].kind = "stop", Before(o, q, k)
      PROVE  Heard(After(o, Head(q).kind), b, Tail(q))
  <2>1. CASE k = 1
    <3>1. o
      BY <1>3, <2>1 DEF Before
    <3> QED
      BY <1>1, <1>3, <2>1, <3>1
  <2>2. CASE k > 1
    <3>1. k \in 2..Len(q) + 1 /\ k - 1 \in DOMAIN Tail(q) /\ Tail(q)[k - 1] = q[k]
      BY <1>1, <2>2
    <3>2. Before(After(o, Head(q).kind), Tail(q), k - 1)
      BY <1>3, <3>1, BeforeTail
    <3> QED
      BY <1>3, <3>1, <3>2 DEF Heard
  <2> QED
    BY <1>1, <2>1, <2>2
<1> QED
  BY <1>2, <1>3 DEF Heard

\* What publishing an event does to a stream.
LEMMA PublishFacts ==
  ASSUME Shape, NEW kind \in {"activity", "ask", "stop"}, NEW msg \in Nat, NEW begins \in BOOLEAN,
         Publish(kind, msg, begins)
  PROVE  LET e == [kind |-> kind, msg |-> msg]
         IN  /\ e \in StreamEvents /\ live.stream \in Seq(StreamEvents)
             /\ ~live.open => live' = live
             /\ live.open => /\ live'.stream = Append(live.stream, e)
                             /\ live'.turn = (live.turn \/ begins)
             /\ live'.epoch = live.epoch /\ live'.target = live.target /\ live'.open = live.open
<1>1. live \in Subscriptions
  BY DEF Shape
<1> DEFINE e == [kind |-> kind, msg |-> msg]
<1>2. e \in StreamEvents /\ live.stream \in Seq(StreamEvents)
  BY <1>1 DEF StreamEvents, Subscriptions
<1>3. CASE ~live.open
  BY <1>2, <1>3 DEF Publish
<1>4. CASE live.open
  <2>1. live' = [live EXCEPT !.stream = Append(@, e), !.turn = @ \/ begins]
    BY <1>4 DEF Publish
  <2> HIDE DEF e
  <2>2. /\ live'.stream = Append(live.stream, e)
        /\ live'.turn = (live.turn \/ begins)
        /\ live'.epoch = live.epoch /\ live'.target = live.target /\ live'.open = live.open
    BY <1>1, <2>1, Zenon DEF Subscriptions
  <2> QED
    BY <1>2, <1>4, <2>2 DEF e
<1> QED
  BY <1>3, <1>4

\* A step that leaves the stream, and the container if it is still up.
LEMMA TurnFrame ==
  ASSUME Inv, UNCHANGED <<live, target, observed, announced>>,
         used'.messages >= used.messages, used'.epoch >= used.epoch,
         used'.messages \in Nat, used'.epoch \in Nat,
         gate'.epoch <= used'.epoch, box'.up => box.up /\ box'.busy = box.busy
  PROVE  TurnSound'
<1>1. /\ TurnSound /\ used.messages \in Nat /\ used.epoch \in Nat
      /\ live.epoch \in Nat /\ live.stream \in Seq(StreamEvents)
  BY SpendFacts DEF Inv, Shape, Subscriptions
<1>2. ASSUME NEW k \in DOMAIN live.stream  PROVE live.stream[k].msg \in Nat
  <2>1. live.stream[k] \in StreamEvents
    BY <1>1, ElementOfSeq, LenProperties
  <2> QED
    BY <2>1 DEF StreamEvents
<1> QED
  BY <1>1, <1>2 DEF TurnSound

\* A subscription that is none, or has just begun, has seen no turn.
LEMMA TurnNew ==
  ASSUME live'.turn = FALSE, live'.stream = <<>>, live'.epoch <= used'.epoch,
         gate'.epoch <= used'.epoch
  PROVE  TurnSound'
  BY DEF TurnSound

\* Nor does it hold anything when it is stopped.
LEMMA TurnNone ==
  ASSUME live' = NoLive, used'.epoch \in Nat, gate'.epoch <= used'.epoch
  PROVE  TurnSound'
  BY TurnNew DEF NoLive, NoEpoch

\* A subscription that is started is new or the one there was.
LEMMA StartFacts ==
  ASSUME NEW g, NEW b, StartLiveTranscriptEvents(g, b)
  PROVE  \/ live' = live
         \/ live'.turn = FALSE /\ live'.stream = <<>> /\ live'.epoch = g.epoch
  BY DEF StartLiveTranscriptEvents

\* Reading an event keeps what is known of the turn.
LEMMA TurnRead ==
  ASSUME Inv, LiveEvent
  PROVE  TurnSound'
<1> DEFINE q == live.stream
<1>0. /\ TurnSound /\ live \in Subscriptions /\ observed \in BOOLEAN /\ announced \in BOOLEAN
      /\ announced' \in BOOLEAN /\ UNCHANGED <<gate, box, target, used>>
  <2>1. Shape'
    BY StreamShape DEF Inv, StreamStep
  <2> QED
    BY <2>1 DEF Inv, Shape, LiveEvent, container
<1>1. /\ q \in Seq(StreamEvents) /\ q # <<>> /\ Len(q) \in Nat \ {0}
      /\ Len(Tail(q)) = Len(q) - 1 /\ Tail(q) \in Seq(StreamEvents)
      /\ \A i \in 1..Len(Tail(q)) : Tail(q)[i] = q[i + 1]
      /\ DOMAIN q = 1..Len(q) /\ DOMAIN Tail(q) = 1..Len(Tail(q))
  <2>1. q \in Seq(StreamEvents) /\ q # <<>>
    BY <1>0 DEF Subscriptions, LiveEvent
  <2> HIDE DEF q
  <2> QED
    BY <2>1, HeadTailProperties, LenProperties, EmptySeq
<1>2. live'.stream = Tail(q) /\ live'.turn = live.turn /\ live'.open = live.open
      /\ live'.epoch = live.epoch /\ live'.target = live.target
  BY <1>0 DEF LiveEvent, Subscriptions
<1>3. \A k \in DOMAIN Tail(q) : Tail(q)[k].msg <= used.messages
  <2> SUFFICES ASSUME NEW k \in DOMAIN Tail(q)  PROVE Tail(q)[k].msg <= used.messages
    OBVIOUS
  <2>1. k + 1 \in DOMAIN q /\ Tail(q)[k] = q[k + 1]
    BY <1>1
  <2> QED
    BY <1>0, <2>1 DEF TurnSound
<1>4. ASSUME live.turn, live.target = target, box.up
      PROVE  IF box.busy THEN Before(observed', Tail(q), Len(Tail(q)) + 1)
             ELSE Heard(observed', announced', Tail(q))
  <2>1. observed' = After(observed, Head(q).kind)
    BY <1>4 DEF LiveEvent, ObservedAfter, After
  <2>2. announced' = announced \/ announced' = TRUE
    BY <1>4 DEF LiveEvent, NoteSessionUnread
  <2>3. Head(q).kind = "stop" /\ observed => announced'
    BY <1>4 DEF LiveEvent, NoteSessionUnread
  <2>4. CASE box.busy
    <3>1. Before(observed, q, Len(q) + 1)
      BY <1>0, <1>4, <2>4 DEF TurnSound
    <3>2. Len(q) + 1 \in 2..Len(q) + 1 /\ (Len(q) + 1) - 1 = Len(Tail(q)) + 1
      BY <1>1
    <3> HIDE DEF q
    <3>3. Before(After(observed, Head(q).kind), Tail(q), (Len(q) + 1) - 1)
      BY <1>0, <1>1, <3>1, <3>2, BeforeTail
    <3> QED
      BY <2>1, <2>4, <3>2, <3>3
  <2>5. CASE ~box.busy
    <3>1. Heard(observed, announced, q)
      BY <1>0, <1>4, <2>5 DEF TurnSound
    <3> HIDE DEF q
    <3>2. Heard(After(observed, Head(q).kind), announced', Tail(q))
      BY <1>0, <1>1, <2>2, <2>3, <3>1, HeardTail
    <3> QED
      BY <2>1, <2>5, <3>2
  <2> QED
    BY <2>4, <2>5
<1> QED
  BY <1>0, <1>2, <1>3, <1>4 DEF TurnSound

\* An event that is published keeps it when it does so for the turn.
LEMMA TurnPublish ==
  ASSUME Inv, NEW kind \in {"activity", "ask", "stop"}, NEW msg \in Nat, NEW begins \in BOOLEAN,
         Publish(kind, msg, begins), UNCHANGED <<gate, target>>, used'.epoch = used.epoch,
         used'.messages \in Nat, used.messages <= used'.messages, msg <= used'.messages,
         used'.messages > 0 \/ ~begins,
         ASSUME NEW e \in StreamEvents, e.kind = kind, live.turn \/ begins, live.target = target
         PROVE  IF box'.busy
                THEN Before(observed', Append(live.stream, e), Len(live.stream) + 2)
                ELSE Heard(observed', announced', Append(live.stream, e))
  PROVE  TurnSound'
<1> DEFINE q == live.stream
           e == [kind |-> kind, msg |-> msg]
<1>0. /\ Shape /\ TurnSound /\ used.messages \in Nat /\ used.epoch \in Nat
      /\ live.epoch <= used.epoch /\ gate.epoch <= used.epoch
  BY SpendFacts DEF Inv, TurnSound
<1>1. /\ e \in StreamEvents /\ q \in Seq(StreamEvents)
      /\ ~live.open => live' = live
      /\ live.open => live'.stream = Append(q, e) /\ live'.turn = (live.turn \/ begins)
      /\ live'.epoch = live.epoch /\ live'.target = live.target /\ live'.open = live.open
  BY <1>0, PublishFacts
<1>2. e.kind = kind /\ e.msg = msg
  OBVIOUS
<1>3. ASSUME NEW k \in DOMAIN q  PROVE q[k].msg <= used'.messages
  <2>1. q[k] \in StreamEvents
    BY <1>1, ElementOfSeq, LenProperties
  <2>2. q[k].msg \in Nat /\ q[k].msg <= used.messages
    BY <1>0, <2>1 DEF TurnSound, StreamEvents
  <2> QED
    BY <1>0, <2>2
<1>4. live'.epoch <= used'.epoch /\ gate'.epoch <= used'.epoch
  BY <1>0, <1>1
<1> HIDE DEF e
<1>5. CASE ~live.open
  <2>1. ~live.turn
    BY <1>0, <1>5 DEF TurnSound
  <2> QED
    BY <1>1, <1>3, <1>4, <1>5, <2>1 DEF TurnSound
<1>6. CASE live.open
  <2>1. /\ Append(q, e) \in Seq(StreamEvents) /\ Len(Append(q, e)) = Len(q) + 1 /\ Len(q) \in Nat
        /\ \A i \in 1..Len(q) : Append(q, e)[i] = q[i]
        /\ Append(q, e)[Len(q) + 1] = e
        /\ DOMAIN q = 1..Len(q)
    BY <1>1, AppendProperties, LenProperties
  <2>2. ASSUME NEW k \in DOMAIN Append(q, e)  PROVE Append(q, e)[k].msg <= used'.messages
    <3>1. k \in DOMAIN q \/ k = Len(q) + 1
      BY <2>1, LenProperties
    <3> QED
      BY <1>2, <1>3, <2>1, <3>1
  <2>3. live'.turn => used'.messages > 0
    <3>1. live.turn => used.messages > 0
      BY <1>0 DEF TurnSound
    <3>2. live.turn => used'.messages > 0
      BY <1>0, <3>1
    <3>3. live'.turn => live.turn \/ begins
      BY <1>1, <1>6
    <3> QED
      BY <3>2, <3>3
  <2>4. ASSUME live'.turn, live.target = target
        PROVE  IF box'.busy THEN Before(observed', Append(q, e), Len(Append(q, e)) + 1)
               ELSE Heard(observed', announced', Append(q, e))
    <3>1. Len(Append(q, e)) + 1 = Len(q) + 2
      BY <2>1
    <3>2. live.turn \/ begins
      BY <1>1, <1>6, <2>4
    <3>3. IF box'.busy THEN Before(observed', Append(q, e), Len(q) + 2)
          ELSE Heard(observed', announced', Append(q, e))
      BY <1>1, <1>2, <2>4, <3>2
    <3> QED
      BY <3>1, <3>3
  <2> QED
    BY <1>1, <1>4, <1>6, <2>2, <2>3, <2>4 DEF TurnSound
<1> QED
  BY <1>5, <1>6

\* Writing the conversation keeps it.
LEMMA TurnTalk ==
  ASSUME Inv, Prompt \/ OpenCodeWrites \/ OpenCodeAsks \/ OpenCodeRests
  PROVE  TurnSound'
<1> USE DEF vars, container, following, exporting
<1> DEFINE q == live.stream
<1>0. /\ Shape /\ TurnSound /\ box \in Boxes /\ observed \in BOOLEAN /\ used.messages \in Nat
      /\ q \in Seq(StreamEvents)
  BY SpendFacts DEF Inv, Shape, Subscriptions
<1>1. box.up /\ box'.up /\ UNCHANGED <<gate, target, observed>> /\ used'.epoch = used.epoch
  BY <1>0, SpendFacts DEF Prompt, OpenCodeWrites, OpenCodeAsks, OpenCodeRests, Boxes
<1>2. CASE Prompt \/ OpenCodeWrites
  <2>1. /\ used'.messages = used.messages + 1 /\ box'.busy
        /\ \E begins \in BOOLEAN : Publish("activity", used.messages + 1, begins)
    BY <1>0, <1>2, SpendFacts DEF Prompt, OpenCodeWrites, Boxes
  <2>2. PICK begins \in BOOLEAN : Publish("activity", used.messages + 1, begins)
    BY <2>1
  <2>3. ASSUME NEW e \in StreamEvents, e.kind = "activity"
        PROVE  Before(observed', Append(q, e), Len(q) + 2)
    BY <1>0, <1>1, <2>3, BeforeGrows
  <2>4. used.messages + 1 \in Nat /\ used'.messages > 0 /\ used.messages <= used'.messages
        /\ used.messages + 1 <= used'.messages /\ used'.messages \in Nat
    BY <1>0, <2>1
  <2> QED
    BY <1>1, <2>1, <2>2, <2>3, <2>4, TurnPublish
<1>3. CASE OpenCodeAsks
  <2>1. /\ used' = used /\ Publish("ask", 0, FALSE) /\ box' = box /\ box.busy /\ q = <<>>
    BY <1>3 DEF OpenCodeAsks
  <2>2. ASSUME NEW e \in StreamEvents, e.kind = "ask", live.turn, live.target = target
        PROVE  Before(observed', Append(q, e), Len(q) + 2)
    <3>1. Before(observed, q, Len(q) + 1)
      BY <1>0, <1>1, <2>1, <2>2 DEF TurnSound
    <3> QED
      BY <1>0, <1>1, <2>2, <3>1, BeforeGrows
  <2>3. 0 \in Nat /\ 0 <= used'.messages /\ used.messages <= used'.messages /\ used'.messages \in Nat
    BY <1>0, <2>1
  <2> QED
    BY <1>1, <2>1, <2>2, <2>3, TurnPublish
<1>4. CASE OpenCodeRests
  <2>1. /\ used' = used /\ Publish("stop", 0, FALSE) /\ box.busy /\ ~box'.busy
    BY <1>0, <1>4 DEF OpenCodeRests, Boxes
  <2>2. ASSUME NEW e \in StreamEvents, e.kind = "stop", live.turn, live.target = target
        PROVE  Heard(observed', announced', Append(q, e))
    <3>1. Before(observed, q, Len(q) + 1)
      BY <1>0, <1>1, <2>1, <2>2 DEF TurnSound
    <3>2. /\ Len(q) \in Nat /\ Len(Append(q, e)) = Len(q) + 1
          /\ Append(q, e) \in Seq(StreamEvents) /\ Append(q, e)[Len(q) + 1] = e
      BY <1>0, <2>2, AppendProperties, LenProperties
    <3>3. Before(observed, Append(q, e), Len(q) + 1)
      BY <1>0, <2>2, <3>1, <3>2, BeforeGrows
    <3>4. Len(q) + 1 \in DOMAIN Append(q, e)
      BY <3>2, LenProperties
    <3> QED
      BY <1>1, <2>2, <3>2, <3>3, <3>4 DEF Heard
  <2>3. 0 \in Nat /\ 0 <= used'.messages /\ used.messages <= used'.messages /\ used'.messages \in Nat
    BY <1>0, <2>1
  <2> QED
    BY <1>1, <2>1, <2>2, <2>3, TurnPublish
<1> QED
  BY <1>2, <1>3, <1>4

\* What is known of the turn is kept by every step.
LEMMA TurnKept ==
  ASSUME Inv, [Next]_vars
  PROVE  TurnSound'
<1> USE DEF vars, container, following, exporting
<1>0. /\ Shape /\ Shape' /\ TurnSound /\ WrittenSound /\ StopSound /\ live \in Subscriptions
      /\ box \in Boxes /\ used.messages \in Nat /\ used.epoch \in Nat /\ gate.epoch \in Nat
      /\ used'.messages \in Nat /\ used'.epoch \in Nat /\ live.epoch \in Nat
      /\ live.epoch <= used.epoch /\ gate.epoch <= used.epoch
  <2>1. Shape /\ Shape'
    BY ShapeKept DEF Inv
  <2>2. used' \in Counters
    BY <2>1 DEF Shape
  <2> QED
    BY <2>1, <2>2, SpendFacts DEF Inv, Shape, Subscriptions, Counters, TurnSound
<1>1. ASSUME UNCHANGED <<live, target, observed, announced>>,
             used'.messages = used.messages, used'.epoch = used.epoch,
             gate'.epoch <= used'.epoch, box'.up => box.up /\ box'.busy = box.busy
      PROVE  TurnSound'
  <2>1. used'.messages >= used.messages /\ used'.epoch >= used.epoch
    BY <1>0, <1>1
  <2> QED
    BY <1>0, <1>1, <2>1, TurnFrame
<1>2. ASSUME NEW g, NEW b, StartLiveTranscriptEvents(g, b), g.epoch <= used'.epoch,
             UNCHANGED <<target, observed, announced, box>>,
             used'.messages = used.messages, used'.epoch = used.epoch,
             gate'.epoch <= used'.epoch
      PROVE  TurnSound'
  <2>1. CASE live' = live
    BY <1>1, <1>2, <2>1
  <2>2. CASE live'.turn = FALSE /\ live'.stream = <<>> /\ live'.epoch = g.epoch
    BY <1>2, <2>2, TurnNew
  <2> QED
    BY <1>2, <2>1, <2>2, StartFacts
<1>3. CASE ExportStep
  <2>1. ASSUME NEW throttled \in BOOLEAN, Probe(throttled)  PROVE TurnSound'
    BY <1>0, <1>2, <2>1 DEF Probe
  <2>2. CASE ~\E throttled \in BOOLEAN : Probe(throttled)
    <3>1. UNCHANGED <<live, target, observed, announced, gate, box>>
      BY <1>3, <2>2 DEF ExportStep, ExportRead, PutTranscriptMirror, ExportStore, ExportFails,
                        LiveMirrorFires, StopExports
    <3>2. used'.messages = used.messages /\ used'.epoch = used.epoch
      BY <1>0, <1>3, <2>2, SpendFacts
      DEF ExportStep, ExportRead, PutTranscriptMirror, ExportStore, ExportFails,
          LiveMirrorFires, StopExports, Fault
    <3> QED
      BY <1>0, <1>1, <3>1, <3>2
  <2> QED
    BY <2>1, <2>2
<1>4. CASE StreamStep
  <2>1. CASE StreamOpens
    <3>1. ~live.turn
      BY <1>0, <2>1 DEF StreamOpens, TurnSound
    <3>2. /\ live'.turn = live.turn /\ live'.stream = live.stream /\ live'.epoch = live.epoch
          /\ UNCHANGED <<used, gate>>
      BY <1>0, <2>1 DEF StreamOpens, Subscriptions
    <3> QED
      BY <1>0, <3>1, <3>2 DEF TurnSound
  <2>2. CASE StreamEnds
    <3>1. used'.epoch = used.epoch /\ gate' = gate /\ live' = NoLive
      BY <1>0, <2>2, SpendFacts DEF StreamEnds, Fault, StopLiveTranscriptEvents
    <3> QED
      BY <1>0, <3>1, TurnNone
  <2>3. CASE LiveEvent
    BY <2>3, TurnRead
  <2> QED
    BY <1>4, <2>1, <2>2, <2>3 DEF StreamStep
<1>5. CASE TalkStep
  <2>1. CASE CreateOpencodeSession
    <3>1. /\ UNCHANGED <<gate, used, box>> /\ used.messages = 0
          /\ StartLiveTranscriptEvents(gate, believed)
      BY <2>1 DEF CreateOpencodeSession
    <3>2. ~live.turn
      BY <1>0, <3>1 DEF TurnSound
    <3>3. CASE live' = live
      BY <1>0, <3>1, <3>2, <3>3 DEF TurnSound
    <3>4. CASE live'.turn = FALSE /\ live'.stream = <<>> /\ live'.epoch = gate.epoch
      BY <1>0, <3>1, <3>4, TurnNew
    <3> QED
      BY <3>1, <3>3, <3>4, StartFacts
  <2> QED
    BY <1>5, <2>1, TurnTalk DEF TalkStep
<1>6. CASE BoxStep
  <2>1. CASE Wake
    <3>1. /\ used'.messages = used.messages /\ used'.epoch = used.epoch + 1
          /\ gate'.epoch = used.epoch + 1 /\ gate'.phase = "running" /\ ~Purging /\ target' = target
          /\ StartLiveTranscriptEvents(gate', TRUE)
      BY <1>0, <2>1, SpendFacts DEF Wake, Purging
    <3>2. CASE live' = live
      <4>1. live.epoch # gate'.epoch
        BY <1>0, <3>1
      <4>2. live.turn => target = NoTarget \/ live'.epoch = gate'.epoch
        BY <3>1, <4>1 DEF StartLiveTranscriptEvents
      <4>3. ~live.turn
        BY <1>0, <3>2, <4>1, <4>2 DEF TurnSound, WrittenSound, NoTarget
      <4>4. live.epoch <= used'.epoch /\ gate'.epoch <= used'.epoch
        BY <1>0, <3>1
      <4> QED
        BY <1>0, <3>1, <3>2, <4>3, <4>4 DEF TurnSound
    <3>3. CASE live'.turn = FALSE /\ live'.stream = <<>> /\ live'.epoch = gate'.epoch
      <4>1. gate'.epoch <= used'.epoch
        BY <1>0, <3>1
      <4>2. live'.epoch <= used'.epoch
        BY <3>3, <4>1
      <4> QED
        BY <3>3, <4>1, <4>2, TurnNew
    <3> QED
      BY <3>1, <3>2, <3>3, StartFacts
  <2>2. ASSUME NEW kind \in {"idle", "force"}, StopBegins(kind)  PROVE TurnSound'
    <3>1. used'.epoch = used.epoch
      BY <1>0, <2>2 DEF StopBegins, Shape, Counters
    <3>2. gate'.epoch = gate.epoch \/ gate'.epoch = 0
      BY <1>0, <2>2 DEF StopBegins, NoEpoch, Shape
    <3> QED
      BY <1>0, <2>2, <3>1, <3>2, TurnNone DEF StopBegins, StopLiveTranscriptEvents
  <2>3. CASE StopDrained
    <3>1. gate'.epoch = gate.epoch /\ UNCHANGED <<used, target, observed, announced, box>>
      BY <1>0, <2>3 DEF StopDrained, Shape
    <3>2. live' = NoLive \/ StartLiveTranscriptEvents(gate', believed)
      BY <2>3 DEF StopDrained, StopLiveTranscriptEvents
    <3> QED
      BY <1>0, <1>2, <3>1, <3>2, TurnNone
  <2>4. CASE StopCheckpoints
    <3>1. gate'.epoch = gate.epoch \/ gate'.epoch = 0
      BY <1>0, <2>4 DEF StopCheckpoints, NoEpoch, Shape
    <3>2. used'.messages = used.messages /\ used'.epoch = used.epoch
      BY <1>0, <2>4, SpendFacts DEF StopCheckpoints, Fault
    <3>3. UNCHANGED <<target, observed, announced, box>>
      BY <2>4 DEF StopCheckpoints
    <3>4. live' = NoLive \/ StartLiveTranscriptEvents(gate', believed)
      BY <2>4 DEF StopCheckpoints, StopLiveTranscriptEvents
    <3>5. gate'.epoch <= used'.epoch
      BY <1>0, <3>1, <3>2
    <3> QED
      BY <1>0, <1>2, <3>2, <3>3, <3>4, <3>5, TurnNone
  <2>5. CASE StopTerminates \/ PurgeBegins
    <3>1. used' = used /\ live' = NoLive /\ (gate'.epoch = 0 \/ gate' = gate)
      BY <2>5 DEF StopTerminates, PurgeBegins, StopLiveTranscriptEvents, NoEpoch
    <3> QED
      BY <1>0, <3>1, TurnNone
  <2>6. CASE PurgeRemoves \/ DeleteTranscriptMirror
    <3>1. UNCHANGED <<live, target, observed, announced, used, gate>>
          /\ (box'.up => box' = box)
      BY <2>6 DEF PurgeRemoves, DeleteTranscriptMirror
    <3> QED
      BY <1>0, <1>1, <3>1
  <2>7. CASE ContainerDies
    <3>1. UNCHANGED <<live, target, observed, announced, gate>> /\ ~box'.up
      BY <1>0, <2>7 DEF ContainerDies, Boxes
    <3>2. used'.messages = used.messages /\ used'.epoch = used.epoch
      BY <1>0, <2>7, SpendFacts DEF ContainerDies, Fault
    <3> QED
      BY <1>0, <1>1, <3>1, <3>2
  <2>8. CASE Restart
    <3>1. live' = NoLive /\ used'.epoch = used.epoch /\ gate' = gate
      BY <1>0, <2>8, SpendFacts DEF Restart, Fault
    <3> QED
      BY <1>0, <3>1, TurnNone
  <2> QED
    BY <1>6, <2>1, <2>2, <2>3, <2>4, <2>5, <2>6, <2>7, <2>8 DEF BoxStep
<1>7. CASE UNCHANGED vars
  BY <1>0, <1>1, <1>7
<1> QED
  BY <1>3, <1>4, <1>5, <1>6, <1>7, StepKinds

-----------------------------------------------------------------------------
\* The theorems

\* The invariant holds initially.
LEMMA InitInv == Init => Inv
<1> SUFFICES ASSUME Init  PROVE Inv
  OBVIOUS
<1>1. Shape
  <2>1. chain \in Seq(Exports)
    BY EmptySeq DEF Init
  <2>2. gate \in [phase : Phases, epoch : Nat] /\ box \in Boxes /\ used \in Counters
    BY DEF Init, Phases, NoEpoch, Boxes, Counters
  <2> QED
    BY <2>1, <2>2, NothingType DEF Init, Shape, NoTarget, NoEpoch, Absent
<1>2. WrittenSound /\ ChainSound /\ StopSound /\ FlagSound
  BY DEF Init, WrittenSound, ChainSound, StopSound, FlagSound, Running, NoStop, Absent, Written,
         NoTarget
<1>3. ExportSound
  BY EmptySeq DEF Init, ExportSound, IdleStop, NoStop
<1>4. TurnSound
  <2>1. live.turn = FALSE /\ live.stream = <<>> /\ live.epoch = 0
    BY DEF Init, NoLive, NoEpoch
  <2> QED
    BY <2>1 DEF Init, TurnSound, NoEpoch
<1> QED
  BY <1>1, <1>2, <1>3, <1>4 DEF Inv

\* The invariant holds in every reachable state of the mirror.
THEOREM InvHolds == Spec => []Inv
<1>1. ASSUME Inv, [Next]_vars  PROVE Inv'
  <2>1. Shape'
    BY <1>1, ShapeKept DEF Inv
  <2> QED
    BY <1>1, <2>1, WrittenKept, ChainKept, StopKept, ExportKept, FlagKept, TurnKept DEF Inv
<1> QED
  BY <1>1, InitInv, PTL DEF Spec

\* An export never takes a message of the conversation out of the mirror
\* (mirrorTranscript chains them), for chains of any length and any order of
\* events, timers, probes, stops and faults.
THEOREM MirrorNeverGoesBackHolds == Spec => MirrorNeverGoesBack
<1>1. ASSUME Inv, [Next]_vars
      PROVE  [r2' # r2 /\ r2' # Absent => (r2 \cap box.conv) \subseteq r2']_vars
  <2>1. ASSUME r2' # r2, r2' # Absent  PROVE (r2 \cap box.conv) \subseteq r2'
    <3>0. Running("put") => (r2 \cap box.conv) \subseteq Head(chain).messages
      BY <1>1 DEF Inv, ChainSound
    <3>1. CASE PutTranscriptMirror
      BY <3>0, <3>1 DEF PutTranscriptMirror
    <3>2. CASE Restart
      <4>1. Running("put") /\ r2' = Head(chain).messages
        BY <2>1, <3>2 DEF Restart
      <4> QED
        BY <3>0, <4>1
    <3>3. CASE DeleteTranscriptMirror
      BY <2>1, <3>3 DEF DeleteTranscriptMirror
    <3>4. CASE ExportRead \/ ExportStore \/ ExportFails \/ Waiting \/ Starting
      BY <2>1, <3>4 DEF ExportRead, ExportStore, ExportFails, Waiting, Starting
    <3> QED
      BY <1>1, <3>1, <3>2, <3>3, <3>4, ChainSteps
  <2> QED
    BY <2>1
<1> QED
  BY <1>1, InvHolds, PTL DEF Spec, MirrorNeverGoesBack

\* An idle stop whose export succeeded lets the container go only with the
\* whole conversation in the mirror, however many exports are chained before it.
THEOREM IdleExportIsCompleteHolds == Spec => []IdleExportIsComplete
<1>1. Inv => IdleExportIsComplete
  BY DEF Inv, ExportSound, StopSound, IdleStop, IdleExportIsComplete
<1> QED
  BY <1>1, InvHolds, PTL

\* What the event stream told the object is not forgotten (transcriptDirty), and
\* a turn whose events have been read is announced (unreadRunObserved), for
\* streams of any length.
THEOREM NoticedIsRememberedHolds == Spec => []NoticedIsRemembered
<1>1. Inv => NoticedIsRemembered
  <2> SUFFICES ASSUME Inv  PROVE NoticedIsRemembered
    OBVIOUS
  <2>1. chain = <<>> /\ ~Purging /\ ~((noticed \cap box.conv) \subseteq r2) => dirty
    BY DEF Inv, FlagSound, Told
  <2>2. ASSUME live.turn, live.target = target, box.up, ~box.busy, live.stream = <<>>
        PROVE  announced
    <3>1. Heard(observed, announced, live.stream)
      BY <2>2 DEF Inv, TurnSound
    <3> QED
      BY <2>2, <3>1, EmptySeq DEF Heard
  <2> QED
    BY <2>1, <2>2 DEF NoticedIsRemembered
<1> QED
  BY <1>1, InvHolds, PTL
=============================================================================
