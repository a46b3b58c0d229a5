------------------------------ MODULE HostProofs ------------------------------
(***************************************************************************)
(* Proofs about the hosts.                                                 *)
(*                                                                         *)
(* HostAgent, for any number of sessions, requests and calls: both results *)
(* rest on the lock.  Only the first call of a session's queue has begun,  *)
(* so what its step has established about the container still holds when   *)
(* the next step uses it.                                                  *)
(*                                                                         *)
(* HostProtocol, for any set of requests with a body as deep as a batch of *)
(* files and any container: the two route tables name the same operation,  *)
(* each check of a body accepts what its counterpart accepts, and route by *)
(* route the two hosts end in the same answer.                             *)
(***************************************************************************)
EXTENDS HostAgent, HostProtocol, FiniteSetTheorems, TLAPS


\* Every call behind the first one waits for its turn.
Waits(q) == \A i \in 2..Len(q) : q[i].at = "begin"

\* The call that holds the lock of a session is at this step.
Running(q, op, step) == q # <<>> /\ q[1].op = op /\ q[1].at = step

Box == [exists : BOOLEAN, running : BOOLEAN, image : Images \cup {"none"}, port : Nat,
        servers : 0..1, ready : BOOLEAN]

\* A container that runs is there, and only a running one has a server.
BoxSound(b) == (b.running => b.exists) /\ (b.servers > 0 => b.running)

\* A start about to spawn found no server, and none can appear but by its hand.
SpawnSound(b, q) == Running(q, "start", "spawn") => b.servers = 0

\* A removal that goes on to the volume has taken the container away.
RemovalSound(b, q) == Running(q, "remove", "volume") => ~b.exists

\* What was answered as removed is gone, and no ensure is under way.
GoneSound(b, v, q) ==
    /\ ~b.exists /\ ~v
    /\ ~Running(q, "ensure", "container") /\ ~Running(q, "ensure", "check")

SessionSound(s) ==
    /\ Waits(queue[s])
    /\ BoxSound(box[s])
    /\ SpawnSound(box[s], queue[s])
    /\ RemovalSound(box[s], queue[s])
    /\ s \in removed => GoneSound(box[s], volume[s], queue[s])

Shape ==
    /\ box \in [Sessions -> Box]
    /\ volume \in [Sessions -> BOOLEAN]
    /\ queue \in [Sessions -> Seq(Call)]
    /\ removed \subseteq Sessions
    /\ used \in [calls : Nat, proxied : Nat, ports : Nat, faults : Nat]

\* The inductive invariant.
Inv == Shape /\ served /\ \A s \in Sessions : SessionSound(s)

-----------------------------------------------------------------------------
\* The queue

\* What is left of a queue when its first call has settled: the calls behind it.
LEMMA SettledIsTail ==
  ASSUME NEW q \in Seq(Call), q # <<>>
  PROVE  SubSeq(q, 1, 1 - 1) \o SubSeq(q, 1 + 1, Len(q)) = Tail(q)
<1>1. SubSeq(q, 1, 1 - 1) = <<>>
  OBVIOUS
<1>2. SubSeq(q, 1 + 1, Len(q)) \in Seq(Call) /\ SubSeq(q, 1 + 1, Len(q)) = Tail(q)
  OBVIOUS
<1> QED
  BY <1>1, <1>2

\* The call that comes to the front of the queue has not begun.
LEMMA TailWaits ==
  ASSUME NEW q \in Seq(Call), q # <<>>, Waits(q)
  PROVE  /\ Tail(q) \in Seq(Call)
         /\ Waits(Tail(q))
         /\ \A op, step : step # "begin" => ~Running(Tail(q), op, step)
<1>1. /\ Tail(q) \in Seq(Call) /\ Len(Tail(q)) = Len(q) - 1
      /\ \A i \in 1..Len(Tail(q)) : Tail(q)[i] = q[i + 1]
  OBVIOUS
<1>2. \A i \in 1..Len(Tail(q)) : Tail(q)[i].at = "begin"
  BY <1>1 DEF Waits
<1> QED
  BY <1>1, <1>2 DEF Waits, Running

\* A call that joins the queue begins only when it is alone there.
LEMMA AppendWaits ==
  ASSUME NEW q \in Seq(Call), NEW c \in Call, c.at = "begin", Waits(q)
  PROVE  /\ Append(q, c) \in Seq(Call)
         /\ Waits(Append(q, c))
         /\ \A op, step : step # "begin" => (Running(Append(q, c), op, step) <=> Running(q, op, step))
<1>1. /\ Append(q, c) \in Seq(Call) /\ Len(Append(q, c)) = Len(q) + 1
      /\ \A i \in 1..Len(q) : Append(q, c)[i] = q[i]
      /\ Append(q, c)[Len(q) + 1] = c
  OBVIOUS
<1>2. Waits(Append(q, c))
  BY <1>1 DEF Waits
<1>3. CASE q = <<>>
  BY <1>1, <1>2, <1>3 DEF Running
<1>4. CASE q # <<>>
  BY <1>1, <1>2, <1>4 DEF Running
<1> QED
  BY <1>3, <1>4

-----------------------------------------------------------------------------
\* What a step does to the queue

\* The step of a call touches one session only: the others stay sound.
LEMMA OneSession ==
  ASSUME Inv, NEW s \in Sessions, Shape', served', SessionSound(s)',
         \A t \in Sessions \ {s} :
             /\ box'[t] = box[t] /\ volume'[t] = volume[t] /\ queue'[t] = queue[t]
             /\ t \in removed' <=> t \in removed
  PROVE  Inv'
<1>1. ASSUME NEW t \in Sessions
      PROVE  SessionSound(t)'
  <2>1. CASE t = s
    BY <2>1
  <2>2. CASE t # s
    BY <2>2 DEF Inv, SessionSound
  <2> QED
    BY <2>1, <2>2
<1> QED
  BY <1>1 DEF Inv

\* A call that answers or throws (Settles): the next one comes to the front.
LEMMA SettlesQueue ==
  ASSUME Inv, NEW s \in Sessions, NEW i \in 1..MaxCalls, HoldsLock(s, i), Settles(s, i)
  PROVE  /\ queue' \in [Sessions -> Seq(Call)]
         /\ \A t \in Sessions \ {s} : queue'[t] = queue[t]
         /\ Waits(queue'[s])
         /\ \A op, step : step # "begin" => ~Running(queue'[s], op, step)
<1>1. /\ queue \in [Sessions -> Seq(Call)] /\ queue[s] \in Seq(Call) /\ Waits(queue[s])
      /\ queue[s] # <<>> /\ i = 1
  BY DEF Inv, Shape, SessionSound, HoldsLock
<1>2. queue' = [queue EXCEPT ![s] = Tail(queue[s])]
  <2>1. queue' = [queue EXCEPT ![s] = SubSeq(queue[s], 1, 1 - 1) \o SubSeq(queue[s], 1 + 1, Len(queue[s]))]
    BY <1>1, Zenon DEF Settles
  <2> QED
    BY <1>1, <2>1, SettledIsTail, Zenon
<1>3. Tail(queue[s]) \in Seq(Call)
  BY <1>1, TailWaits
<1>4. queue'[s] = Tail(queue[s])
  BY <1>1, <1>2
<1> QED
  BY <1>1, <1>2, <1>3, <1>4, TailWaits

\* Going on changes where a call is, not what it does.
LEMMA NextStep ==
  ASSUME NEW c \in Call, NEW step \in Steps
  PROVE  /\ [c EXCEPT !.at = step] \in Call
         /\ [c EXCEPT !.at = step].op = c.op /\ [c EXCEPT !.at = step].at = step
  BY DEF Call

\* A call that goes on (Goes) is at its next step and nowhere else.
LEMMA GoesQueue ==
  ASSUME Inv, NEW s \in Sessions, NEW i \in 1..MaxCalls, HoldsLock(s, i),
         NEW step \in Steps, Goes(s, i, step)
  PROVE  /\ queue' \in [Sessions -> Seq(Call)]
         /\ \A t \in Sessions \ {s} : queue'[t] = queue[t]
         /\ Waits(queue'[s])
         /\ queue'[s] # <<>> /\ queue'[s][1].op = queue[s][i].op /\ queue'[s][1].at = step
<1>1. /\ queue \in [Sessions -> Seq(Call)] /\ queue[s] \in Seq(Call) /\ Waits(queue[s])
      /\ queue[s] # <<>> /\ i = 1 /\ 1 \in 1..Len(queue[s])
  BY DEF Inv, Shape, SessionSound, HoldsLock
<1> DEFINE c == [queue[s][1] EXCEPT !.at = step]
           q == [queue[s] EXCEPT ![1] = c]
<1>2. queue' = [queue EXCEPT ![s] = q]
  BY <1>1 DEF Goes
<1>3. c \in Call /\ c.op = queue[s][1].op /\ c.at = step
  <2>1. queue[s][1] \in Call
    BY <1>1
  <2> QED
    BY <2>1, NextStep, Zenon
<1> HIDE DEF c
<1>4. /\ q \in Seq(Call) /\ Len(q) = Len(queue[s]) /\ q[1] = c /\ q # <<>>
      /\ \A k \in 2..Len(q) : q[k] = queue[s][k]
  BY <1>1, <1>3
<1> HIDE DEF q
<1>5. Waits(q)
  BY <1>1, <1>4 DEF Waits
<1>6. queue'[s] = q
  BY <1>1, <1>2
<1> QED
  BY <1>1, <1>2, <1>3, <1>4, <1>5, <1>6

\* The counters stay counters.
LEMMA SpendUsed ==
  ASSUME Shape, NEW c \in {"calls", "proxied", "ports", "faults"}, Spend(c)
  PROVE  used' \in [calls : Nat, proxied : Nat, ports : Nat, faults : Nat]
  BY DEF Shape, Spend

\* A failed command spends one of the faults and nothing else.
LEMMA FaultUsed ==
  ASSUME Shape, Fault \/ UNCHANGED used
  PROVE  used' \in [calls : Nat, proxied : Nat, ports : Nat, faults : Nat]
  BY SpendUsed DEF Shape, Fault

\* A new call (Called) waits behind the others.
LEMMA CalledInv ==
  ASSUME Inv, NEW s \in Sessions, NEW op \in Ops, NEW image \in Images \cup {"none"},
         Called(s, op, image)
  PROVE  Inv'
<1> DEFINE c == [op |-> op, at |-> "begin", image |-> image]
<1>1. c \in Call /\ c.at = "begin"
  BY DEF Call, Steps
<1>2. queue \in [Sessions -> Seq(Call)] /\ queue[s] \in Seq(Call) /\ Waits(queue[s])
  BY DEF Inv, Shape, SessionSound
<1>3. queue' = [queue EXCEPT ![s] = Append(queue[s], c)]
  BY DEF Called
<1> HIDE DEF c
<1>4. /\ queue' \in [Sessions -> Seq(Call)]
      /\ queue'[s] = Append(queue[s], c)
      /\ \A t \in Sessions \ {s} : queue'[t] = queue[t]
  BY <1>1, <1>2, <1>3, AppendWaits
<1>5. Waits(queue'[s]) /\ \A o, step : step # "begin" => (Running(queue'[s], o, step) <=> Running(queue[s], o, step))
  BY <1>1, <1>2, <1>4, AppendWaits
<1>6. Shape' /\ served'
  <2>1. used' \in [calls : Nat, proxied : Nat, ports : Nat, faults : Nat]
    BY SpendUsed DEF Inv, Called
  <2> QED
    BY <1>4, <2>1 DEF Inv, Shape, Called
<1>7. SessionSound(s)'
  BY <1>5 DEF Inv, SessionSound, SpawnSound, RemovalSound, GoneSound, Called
<1> QED
  BY <1>4, <1>6, <1>7, OneSession DEF Called

\* A call that ends without touching the container leaves everything sound.
LEMMA SettledInv ==
  ASSUME Inv, NEW s \in Sessions, NEW i \in 1..MaxCalls, HoldsLock(s, i), Settles(s, i),
         UNCHANGED <<box, volume, removed>>, served', Fault \/ UNCHANGED used
  PROVE  Inv'
<1>1. /\ queue' \in [Sessions -> Seq(Call)]
      /\ \A t \in Sessions \ {s} : queue'[t] = queue[t]
      /\ Waits(queue'[s])
      /\ \A op, step : step # "begin" => ~Running(queue'[s], op, step)
  BY SettlesQueue
<1>2. Shape' /\ served'
  BY <1>1, FaultUsed DEF Inv, Shape
<1>3. SessionSound(s)'
  BY <1>1 DEF Inv, SessionSound, SpawnSound, RemovalSound, GoneSound, Running
<1> QED
  BY <1>1, <1>2, <1>3, OneSession

-----------------------------------------------------------------------------
\* ensureSession

\* Ensuring a session makes it one that may exist again, before its volume is made.
LEMMA EnsureVolumeInv ==
  ASSUME Inv, NEW s \in Sessions, NEW i \in 1..MaxCalls, EnsureVolume(s, i)
  PROVE  Inv'
<1>1. HoldsLock(s, i) /\ queue[s][i].op = "ensure" /\ removed' = removed \ {s}
  BY DEF EnsureVolume, At
<1>2. used' \in [calls : Nat, proxied : Nat, ports : Nat, faults : Nat]
  BY FaultUsed DEF EnsureVolume, Inv
<1>3. Goes(s, i, "container") \/ Settles(s, i)
  BY DEF EnsureVolume, Throws
<1>4. /\ queue' \in [Sessions -> Seq(Call)]
      /\ \A t \in Sessions \ {s} : queue'[t] = queue[t]
      /\ Waits(queue'[s])
      /\ ~Running(queue'[s], "start", "spawn") /\ ~Running(queue'[s], "remove", "volume")
  BY <1>1, <1>3, GoesQueue, SettlesQueue DEF Steps, Running
<1>5. /\ volume' \in [Sessions -> BOOLEAN] /\ UNCHANGED <<box, served>>
      /\ \A t \in Sessions \ {s} : volume'[t] = volume[t]
  BY DEF Inv, Shape, EnsureVolume
<1>6. Shape' /\ served'
  BY <1>1, <1>2, <1>4, <1>5 DEF Inv, Shape
<1>7. SessionSound(s)'
  BY <1>1, <1>4, <1>5 DEF Inv, SessionSound, SpawnSound, RemovalSound
<1> QED
  BY <1>1, <1>4, <1>5, <1>6, <1>7, OneSession

\* A container started by docker run, docker start or its restart policy has no server yet.
LEMMA StartedOnSound ==
  ASSUME NEW image \in Images \cup {"none"}, NEW port \in Nat
  PROVE  /\ StartedOn(image, port) \in Box /\ BoxSound(StartedOn(image, port))
         /\ StartedOn(image, port).servers = 0
  BY DEF StartedOn, Box, BoxSound

\* No container: nothing runs and no server.
LEMMA NoContainerSound ==
  /\ NoContainer \in Box /\ BoxSound(NoContainer)
  /\ ~NoContainer.exists /\ NoContainer.servers = 0
  BY DEF NoContainer, NoPort, Box, BoxSound

\* A stopped container keeps nothing running.
LEMMA DownSound ==
  ASSUME NEW b \in Box, BoxSound(b)
  PROVE  Down(b) \in Box /\ BoxSound(Down(b)) /\ Down(b).exists = b.exists
<1>1. /\ Down(b).exists = b.exists /\ ~Down(b).running /\ Down(b).image = b.image
      /\ Down(b).port = 0 /\ Down(b).servers = 0 /\ ~Down(b).ready
  BY DEF Down, NoPort, Box
<1>2. Down(b) \in Box
  <2>1. FALSE \in BOOLEAN /\ 0 \in Nat /\ 0 \in 0..1
    OBVIOUS
  <2> QED
    BY <2>1, Zenon DEF Down, NoPort, Box
<1> QED
  BY <1>1, <1>2 DEF BoxSound

\* A running container is adopted; otherwise one is started, which only an ensure does.
LEMMA EnsureContainerInv ==
  ASSUME Inv, NEW s \in Sessions, NEW i \in 1..MaxCalls, EnsureContainer(s, i)
  PROVE  Inv'
<1> DEFINE image == queue[s][i].image
<1>1. /\ HoldsLock(s, i) /\ queue[s][i].op = "ensure" /\ Running(queue[s], "ensure", "container")
      /\ UNCHANGED <<volume, removed, served>>
  BY DEF EnsureContainer, At, HoldsLock, Running
<1>2. image \in Images \cup {"none"} /\ box[s] \in Box /\ used.ports + 1 \in Nat
  <2>1. queue[s][i] \in Call
    BY <1>1 DEF Inv, Shape, HoldsLock
  <2> QED
    BY <2>1 DEF Inv, Shape, Call
<1>3. s \notin removed
  BY <1>1 DEF Inv, SessionSound, GoneSound
<1>4. /\ Settles(s, i) \/ Goes(s, i, "check")
      /\ \/ box' = box /\ (Fault \/ UNCHANGED used)
         \/ box' = [box EXCEPT ![s] = NoContainer] /\ Fault
         \/ /\ \E im \in {image, box[s].image} : box' = [box EXCEPT ![s] = StartedOn(im, used.ports + 1)]
            /\ Spend("ports")
  BY DEF EnsureContainer, Throws
<1>5. /\ queue' \in [Sessions -> Seq(Call)]
      /\ \A t \in Sessions \ {s} : queue'[t] = queue[t]
      /\ Waits(queue'[s])
      /\ ~Running(queue'[s], "start", "spawn") /\ ~Running(queue'[s], "remove", "volume")
  <2>1. CASE Settles(s, i)
    BY <1>1, <2>1, SettlesQueue
  <2>2. CASE Goes(s, i, "check")
    BY <1>1, <2>2, GoesQueue DEF Steps, Running
  <2> QED
    BY <1>4, <2>1, <2>2
<1>6. used' \in [calls : Nat, proxied : Nat, ports : Nat, faults : Nat]
  BY <1>4, SpendUsed, FaultUsed DEF Inv
<1>7. /\ box' \in [Sessions -> Box] /\ BoxSound(box'[s])
      /\ \A t \in Sessions \ {s} : box'[t] = box[t]
  <2>1. box \in [Sessions -> Box] /\ BoxSound(box[s])
    BY DEF Inv, Shape, SessionSound
  <2>2. box[s].image \in Images \cup {"none"}
    BY <1>2 DEF Box
  <2>3. CASE \E im \in {image, box[s].image} : box' = [box EXCEPT ![s] = StartedOn(im, used.ports + 1)]
    <3>1. PICK im \in {image, box[s].image} : box' = [box EXCEPT ![s] = StartedOn(im, used.ports + 1)]
      BY <2>3
    <3>2. StartedOn(im, used.ports + 1) \in Box /\ BoxSound(StartedOn(im, used.ports + 1))
      BY <1>2, <2>2, StartedOnSound
    <3> QED
      BY <2>1, <3>1, <3>2
  <2> QED
    BY <1>4, <2>1, <2>3, NoContainerSound
<1>8. Shape' /\ served'
  BY <1>1, <1>5, <1>6, <1>7 DEF Inv, Shape
<1>9. SessionSound(s)'
  BY <1>1, <1>3, <1>5, <1>7 DEF SessionSound, SpawnSound, RemovalSound
<1> QED
  BY <1>1, <1>5, <1>7, <1>8, <1>9, OneSession

\* The last look of an ensure changes no container.
LEMMA EnsureChecksInv ==
  ASSUME Inv, NEW s \in Sessions, NEW i \in 1..MaxCalls, EnsureChecks(s, i)
  PROVE  Inv'
<1>1. HoldsLock(s, i) /\ Settles(s, i) /\ UNCHANGED <<box, volume, removed, served, used>>
  BY DEF EnsureChecks, At, Throws
<1> QED
  BY <1>1, SettledInv DEF Inv

-----------------------------------------------------------------------------
\* stopSession and removeSession

\* A call that goes on without touching the container, when what its next step
\* relies on holds already.
LEMMA GoneOnInv ==
  ASSUME Inv, NEW s \in Sessions, NEW i \in 1..MaxCalls, HoldsLock(s, i),
         NEW step \in Steps, Goes(s, i, step),
         UNCHANGED <<box, volume, removed, served, used>>,
         queue[s][i].op = "start" /\ step = "spawn" => box[s].servers = 0,
         queue[s][i].op # "ensure" /\ step # "volume"
  PROVE  Inv'
<1>1. /\ queue' \in [Sessions -> Seq(Call)]
      /\ \A t \in Sessions \ {s} : queue'[t] = queue[t]
      /\ Waits(queue'[s])
      /\ queue'[s] # <<>> /\ queue'[s][1].op = queue[s][i].op /\ queue'[s][1].at = step
  BY GoesQueue
<1>2. Shape' /\ served'
  BY <1>1 DEF Inv, Shape
<1>3. SessionSound(s)'
  BY <1>1 DEF Inv, SessionSound, SpawnSound, RemovalSound, GoneSound, Running
<1> QED
  BY <1>1, <1>2, <1>3, OneSession

\* stopSession looks at the container first.
LEMMA StopInspectsInv ==
  ASSUME Inv, NEW s \in Sessions, NEW i \in 1..MaxCalls, StopInspects(s, i)
  PROVE  Inv'
<1>1. /\ HoldsLock(s, i) /\ queue[s][i].op = "stop" /\ UNCHANGED <<box, volume, removed, served, used>>
      /\ Goes(s, i, "stop") \/ Settles(s, i)
  BY DEF StopInspects, At
<1>2. CASE Settles(s, i)
  BY <1>1, <1>2, SettledInv DEF Inv
<1>3. CASE Goes(s, i, "stop")
  BY <1>1, <1>3, GoneOnInv DEF Steps
<1> QED
  BY <1>1, <1>2, <1>3

\* docker stop takes the server down with the container and creates nothing.
LEMMA StopStopsInv ==
  ASSUME Inv, NEW s \in Sessions, NEW i \in 1..MaxCalls, StopStops(s, i)
  PROVE  Inv'
<1>1. /\ HoldsLock(s, i) /\ Settles(s, i) /\ UNCHANGED <<volume, removed, served>>
      /\ Fault \/ UNCHANGED used
      /\ box' = box \/ box' = [box EXCEPT ![s] = Down(box[s])]
  BY DEF StopStops, At
<1>2. CASE box' = box
  BY <1>1, <1>2, SettledInv DEF Inv
<1>3. CASE box' = [box EXCEPT ![s] = Down(box[s])]
  <2>1. box \in [Sessions -> Box] /\ box[s] \in Box /\ BoxSound(box[s])
    BY DEF Inv, Shape, SessionSound
  <2>2. /\ box' \in [Sessions -> Box] /\ BoxSound(box'[s]) /\ box'[s].exists = box[s].exists
        /\ \A t \in Sessions \ {s} : box'[t] = box[t]
    BY <1>3, <2>1, DownSound
  <2>3. /\ queue' \in [Sessions -> Seq(Call)]
        /\ \A t \in Sessions \ {s} : queue'[t] = queue[t]
        /\ Waits(queue'[s])
        /\ \A op, step : step # "begin" => ~Running(queue'[s], op, step)
    BY <1>1, SettlesQueue
  <2>4. Shape' /\ served'
    BY <1>1, <2>2, <2>3, FaultUsed DEF Inv, Shape
  <2>5. SessionSound(s)'
    BY <1>1, <2>2, <2>3 DEF Inv, SessionSound, SpawnSound, RemovalSound, GoneSound, Running
  <2> QED
    BY <1>1, <2>2, <2>3, <2>4, <2>5, OneSession
<1> QED
  BY <1>1, <1>2, <1>3

\* removeSession forgets the port first.
LEMMA RemoveForgetsInv ==
  ASSUME Inv, NEW s \in Sessions, NEW i \in 1..MaxCalls, RemoveForgets(s, i)
  PROVE  Inv'
<1>1. /\ HoldsLock(s, i) /\ queue[s][i].op = "remove" /\ UNCHANGED <<box, volume, removed, served, used>>
      /\ Goes(s, i, "rm")
  BY DEF RemoveForgets, At
<1> QED
  BY <1>1, GoneOnInv DEF Steps

\* docker rm: the removal goes on to the volume only with the container gone.
LEMMA RemoveContainerInv ==
  ASSUME Inv, NEW s \in Sessions, NEW i \in 1..MaxCalls, RemoveContainer(s, i)
  PROVE  Inv'
<1>1. /\ HoldsLock(s, i) /\ queue[s][i].op = "remove" /\ UNCHANGED <<volume, removed, served>>
  BY DEF RemoveContainer, At
<1>2. CASE Throws(s, i) /\ Fault /\ UNCHANGED box
  BY <1>1, <1>2, SettledInv DEF Inv, Throws
<1>3. CASE Goes(s, i, "volume") /\ box' = [box EXCEPT ![s] = NoContainer] /\ UNCHANGED used
  <2>1. /\ box' \in [Sessions -> Box] /\ BoxSound(box'[s]) /\ ~box'[s].exists
        /\ \A t \in Sessions \ {s} : box'[t] = box[t]
    BY <1>3, NoContainerSound DEF Inv, Shape
  <2>2. /\ queue' \in [Sessions -> Seq(Call)]
        /\ \A t \in Sessions \ {s} : queue'[t] = queue[t]
        /\ Waits(queue'[s])
        /\ queue'[s][1].op = "remove" /\ queue'[s][1].at = "volume"
    BY <1>1, <1>3, GoesQueue DEF Steps
  <2>3. Shape' /\ served'
    BY <1>1, <1>3, <2>1, <2>2 DEF Inv, Shape
  <2>4. SessionSound(s)'
    BY <1>1, <2>1, <2>2 DEF Inv, SessionSound, SpawnSound, RemovalSound, GoneSound, Running
  <2> QED
    BY <1>1, <2>1, <2>2, <2>3, <2>4, OneSession
<1> QED
  BY <1>2, <1>3 DEF RemoveContainer

\* docker volume rm: the removal is answered when both are gone.
LEMMA RemoveVolumeInv ==
  ASSUME Inv, NEW s \in Sessions, NEW i \in 1..MaxCalls, RemoveVolume(s, i)
  PROVE  Inv'
<1>1. /\ HoldsLock(s, i) /\ UNCHANGED <<box, served>> /\ Settles(s, i)
      /\ Running(queue[s], "remove", "volume")
  BY DEF RemoveVolume, At, Throws, HoldsLock, Running
<1>2. CASE Fault /\ UNCHANGED <<volume, removed>>
  BY <1>1, <1>2, SettledInv DEF Inv
<1>3. CASE volume' = [volume EXCEPT ![s] = FALSE] /\ removed' = removed \cup {s} /\ UNCHANGED used
  <2>1. ~box[s].exists
    BY <1>1 DEF Inv, SessionSound, RemovalSound
  <2>2. /\ volume' \in [Sessions -> BOOLEAN] /\ ~volume'[s]
        /\ \A t \in Sessions \ {s} : volume'[t] = volume[t]
    BY <1>3 DEF Inv, Shape
  <2>3. /\ queue' \in [Sessions -> Seq(Call)]
        /\ \A t \in Sessions \ {s} : queue'[t] = queue[t]
        /\ Waits(queue'[s])
        /\ \A op, step : step # "begin" => ~Running(queue'[s], op, step)
    BY <1>1, SettlesQueue
  <2>4. Shape' /\ served'
    BY <1>1, <1>3, <2>2, <2>3 DEF Inv, Shape
  <2>5. SessionSound(s)'
    BY <1>1, <2>1, <2>2, <2>3 DEF Inv, SessionSound, SpawnSound, RemovalSound, GoneSound, Running
  <2> QED
    BY <1>1, <1>3, <2>2, <2>3, <2>4, <2>5, OneSession
<1> QED
  BY <1>2, <1>3 DEF RemoveVolume

-----------------------------------------------------------------------------
\* startOpencode

\* A start spawns only when it found no server.
LEMMA StartLooksInv ==
  ASSUME Inv, NEW s \in Sessions, NEW i \in 1..MaxCalls, StartLooks(s, i)
  PROVE  Inv'
<1>1. /\ HoldsLock(s, i) /\ queue[s][i].op = "start" /\ UNCHANGED <<box, volume, removed, served, used>>
      /\ Settles(s, i) \/ Goes(s, i, "wait") \/ (box[s].servers = 0 /\ Goes(s, i, "spawn"))
  <2>1. box[s].servers \in 0..1
    BY DEF Inv, Shape, Box
  <2>2. box[s].servers = 0 \/ ServerAlive(s)
    BY <2>1 DEF ServerAlive
  <2> QED
    BY <2>2 DEF StartLooks, At, Throws
<1>2. CASE Settles(s, i)
  BY <1>1, <1>2, SettledInv DEF Inv
<1>3. CASE Goes(s, i, "wait")
  BY <1>1, <1>3, GoneOnInv DEF Steps
<1>4. CASE box[s].servers = 0 /\ Goes(s, i, "spawn")
  BY <1>1, <1>4, GoneOnInv DEF Steps
<1> QED
  BY <1>1, <1>2, <1>3, <1>4

\* The detached exec: the server that is started is the only one.
LEMMA StartSpawnsInv ==
  ASSUME Inv, NEW s \in Sessions, NEW i \in 1..MaxCalls, StartSpawns(s, i)
  PROVE  Inv'
<1>1. /\ HoldsLock(s, i) /\ UNCHANGED <<volume, removed, served>>
      /\ queue[s][i].op = "start" /\ Running(queue[s], "start", "spawn")
  BY DEF StartSpawns, At, HoldsLock, Running
<1>2. CASE Throws(s, i) /\ UNCHANGED box /\ (Fault \/ UNCHANGED used)
  BY <1>1, <1>2, SettledInv DEF Inv, Throws
<1>3. CASE /\ box[s].running /\ Goes(s, i, "wait") /\ UNCHANGED used
           /\ box' = [box EXCEPT ![s].servers = IF @ < 2 THEN @ + 1 ELSE @]
  <2>1. box \in [Sessions -> Box] /\ box[s] \in Box /\ BoxSound(box[s]) /\ box[s].servers = 0
    BY <1>1 DEF Inv, Shape, SessionSound, SpawnSound
  <2>2. box' = [box EXCEPT ![s] = [box[s] EXCEPT !.servers = 1]]
    BY <1>3, <2>1
  <2>3. /\ [box[s] EXCEPT !.servers = 1] \in Box
        /\ [box[s] EXCEPT !.servers = 1].running = box[s].running
        /\ [box[s] EXCEPT !.servers = 1].exists = box[s].exists
    BY <2>1 DEF Box
  <2>4. /\ box' \in [Sessions -> Box] /\ box'[s].running /\ box'[s].exists
        /\ box[s].exists /\ BoxSound(box'[s])
        /\ \A t \in Sessions \ {s} : box'[t] = box[t]
    BY <1>3, <2>1, <2>2, <2>3 DEF BoxSound
  <2>5. /\ queue' \in [Sessions -> Seq(Call)]
        /\ \A t \in Sessions \ {s} : queue'[t] = queue[t]
        /\ Waits(queue'[s])
        /\ queue'[s][1].op = "start" /\ queue'[s][1].at = "wait"
    BY <1>1, <1>3, GoesQueue DEF Steps
  <2>6. Shape' /\ served'
    BY <1>1, <1>3, <2>4, <2>5 DEF Inv, Shape
  <2>7. SessionSound(s)'
    BY <1>1, <2>4, <2>5 DEF Inv, SessionSound, SpawnSound, RemovalSound, GoneSound, Running
  <2> QED
    BY <1>1, <2>4, <2>5, <2>6, <2>7, OneSession
<1> QED
  BY <1>2, <1>3 DEF StartSpawns

\* A start answers 'started' on a probe of the session's own server.
LEMMA StartWaitsInv ==
  ASSUME Inv, NEW s \in Sessions, NEW i \in 1..MaxCalls, StartWaits(s, i)
  PROVE  Inv'
<1>1. HoldsLock(s, i) /\ Settles(s, i) /\ UNCHANGED <<box, volume, removed, used>> /\ served'
  BY DEF Inv, StartWaits, At, Throws, ProbeReady
<1> QED
  BY <1>1, SettledInv

-----------------------------------------------------------------------------
\* The daemon

\* A server that comes up was there already.
LEMMA ServerAnswersInv ==
  ASSUME Inv, NEW s \in Sessions, ServerAnswers(s)
  PROVE  Inv'
<1>1. box \in [Sessions -> Box] /\ box[s] \in Box
  BY DEF Inv, Shape
<1>2. /\ box' = [box EXCEPT ![s] = [box[s] EXCEPT !.ready = TRUE]]
      /\ UNCHANGED <<volume, queue, removed, served, used>>
  BY DEF ServerAnswers
<1>3. /\ [box[s] EXCEPT !.ready = TRUE] \in Box
      /\ [box[s] EXCEPT !.ready = TRUE].running = box[s].running
      /\ [box[s] EXCEPT !.ready = TRUE].exists = box[s].exists
      /\ [box[s] EXCEPT !.ready = TRUE].servers = box[s].servers
  BY <1>1 DEF Box
<1>4. Shape' /\ served'
  BY <1>1, <1>2, <1>3 DEF Inv, Shape
<1>5. SessionSound(s)'
  BY <1>1, <1>2, <1>3 DEF Inv, SessionSound, BoxSound, SpawnSound, RemovalSound, GoneSound
<1> QED
  BY <1>1, <1>2, <1>4, <1>5, OneSession

\* A server that dies leaves the container up.
LEMMA ServerDiesInv ==
  ASSUME Inv, NEW s \in Sessions, ServerDies(s)
  PROVE  Inv'
<1>1. box \in [Sessions -> Box] /\ box[s] \in Box
  BY DEF Inv, Shape
<1> DEFINE b == [box[s] EXCEPT !.servers = 0, !.ready = FALSE]
<1>2. box' = [box EXCEPT ![s] = b] /\ UNCHANGED <<volume, queue, removed, served>> /\ Fault
  BY DEF ServerDies
<1>3. b.running = box[s].running /\ b.exists = box[s].exists /\ b.servers = 0
  BY <1>1 DEF Box
<1>4. b \in Box
  <2>1. FALSE \in BOOLEAN /\ 0 \in 0..1
    OBVIOUS
  <2> QED
    BY <1>1, <2>1, Zenon DEF Box
<1> HIDE DEF b
<1>5. Shape' /\ served'
  <2>1. used' \in [calls : Nat, proxied : Nat, ports : Nat, faults : Nat]
    BY <1>2, FaultUsed DEF Inv
  <2> QED
    BY <1>1, <1>2, <1>4, <2>1 DEF Inv, Shape
<1>6. SessionSound(s)'
  BY <1>1, <1>2, <1>3, <1>4 DEF Inv, SessionSound, BoxSound, SpawnSound, RemovalSound, GoneSound
<1> QED
  BY <1>1, <1>2, <1>5, <1>6, OneSession

\* A container that goes down and comes back was there, so nobody removed it.
LEMMA ContainerCrashesInv ==
  ASSUME Inv, NEW s \in Sessions, ContainerCrashes(s)
  PROVE  Inv'
<1>1. /\ box \in [Sessions -> Box] /\ box[s] \in Box /\ BoxSound(box[s])
      /\ used.ports + 1 \in Nat /\ box[s].image \in Images \cup {"none"}
  BY DEF Inv, Shape, SessionSound, Box
<1>2. /\ box' = [box EXCEPT ![s] = StartedOn(box[s].image, used.ports + 1)]
      /\ box[s].exists /\ UNCHANGED <<volume, queue, removed, served>>
  BY <1>1 DEF ContainerCrashes, BoxSound
<1>3. /\ StartedOn(box[s].image, used.ports + 1) \in Box
      /\ BoxSound(StartedOn(box[s].image, used.ports + 1))
      /\ StartedOn(box[s].image, used.ports + 1).servers = 0
      /\ StartedOn(box[s].image, used.ports + 1).exists
  BY <1>1, StartedOnSound DEF StartedOn
<1>4. used' \in [calls : Nat, proxied : Nat, ports : Nat, faults : Nat]
  <2>1. used.faults \in Nat /\ used.ports \in Nat
    BY DEF Inv, Shape
  <2>2. used.faults + 1 \in Nat /\ used.ports + 1 \in Nat
    BY <2>1
  <2> QED
    BY <2>2, Zenon DEF ContainerCrashes, Inv, Shape
<1>5. Shape' /\ served'
  BY <1>1, <1>2, <1>3, <1>4 DEF Inv, Shape
<1>6. SessionSound(s)'
  BY <1>1, <1>2, <1>3 DEF Inv, SessionSound, SpawnSound, RemovalSound, GoneSound
<1> QED
  BY <1>1, <1>2, <1>5, <1>6, OneSession

-----------------------------------------------------------------------------
\* The whole

\* Nothing exists before the first call.
LEMMA InitInv == Init => Inv
<1> SUFFICES ASSUME Init PROVE Inv
  OBVIOUS
<1>1. Shape
  BY NoContainerSound DEF Init, Shape
<1>2. ASSUME NEW s \in Sessions PROVE SessionSound(s)
  BY NoContainerSound DEF Init, SessionSound, Waits, SpawnSound, RemovalSound, Running
<1> QED
  BY <1>1, <1>2 DEF Init, Inv

\* The proxy and the clock touch no container and no queue.
LEMMA FrameInv ==
  ASSUME Inv, UNCHANGED <<box, volume, queue, removed, served>>,
         used' \in [calls : Nat, proxied : Nat, ports : Nat, faults : Nat]
  PROVE  Inv'
  BY DEF Inv, Shape, SessionSound

\* A step of a call.
LEMMA StepInv ==
  ASSUME Inv, NEW s \in Sessions, NEW i \in 1..MaxCalls, Step(s, i)
  PROVE  Inv'
  BY EnsureVolumeInv, EnsureContainerInv, EnsureChecksInv, StopInspectsInv, StopStopsInv,
     RemoveForgetsInv, RemoveContainerInv, RemoveVolumeInv, StartLooksInv, StartSpawnsInv,
     StartWaitsInv DEF Step

\* Every step preserves the invariant.
LEMMA NextInv == Inv /\ [Next]_vars => Inv'
<1> SUFFICES ASSUME Inv, [Next]_vars PROVE Inv'
  OBVIOUS
<1>1. CASE \E s \in Sessions, image \in Images : Called(s, "ensure", image)
  BY <1>1, CalledInv DEF Ops
<1>2. CASE \E s \in Sessions, op \in Ops \ {"ensure"} : Called(s, op, "none")
  BY <1>2, CalledInv
<1>3. CASE \E s \in Sessions, i \in 1..MaxCalls : Step(s, i)
  BY <1>3, StepInv
<1>4. CASE \E r \in Requests, s \in Sessions : ProxyBegins(r, s)
  BY <1>4, SpendUsed, FrameInv DEF ProxyBegins, Inv
<1>5. CASE \E r \in Requests : Proxy(r)
  BY <1>5, FrameInv DEF Proxy, ProxyLooksUp, ProxyRemembers, ProxySends, Inv, Shape
<1>6. CASE \E s \in Sessions : ServerAnswers(s) \/ ServerDies(s) \/ ContainerCrashes(s)
  BY <1>6, ServerAnswersInv, ServerDiesInv, ContainerCrashesInv
<1>7. CASE Tick
  BY <1>7, FrameInv DEF Tick, Inv, Shape
<1>8. CASE UNCHANGED vars
  BY <1>8, FrameInv DEF vars, Inv, Shape
<1> QED
  BY <1>1, <1>2, <1>3, <1>4, <1>5, <1>6, <1>7, <1>8 DEF Next

\* The invariant holds in every reachable state of the host.
THEOREM InvHolds == Spec => []Inv
  BY InitInv, NextInv, PTL DEF Spec

\* A container runs at most one OpenCode server, and 'started' is answered by
\* the session's own server, for any number of calls, crashes and failures
\* (startOpencode, serverAlive, awaitServerReady).
THEOREM OneServerHolds == Spec => []OneServer
<1>1. Inv => OneServer
  <2> SUFFICES ASSUME Inv PROVE OneServer
    OBVIOUS
  <2>1. \A s \in Sessions : box[s].servers \in 0..1
    BY DEF Inv, Shape, Box
  <2>2. \A s \in Sessions : box[s].servers <= 1
    <3>1. \A n \in 0..1 : n <= 1
      OBVIOUS
    <3> QED
      BY <2>1, <3>1
  <2> QED
    BY <2>2 DEF Inv, OneServer
<1> QED
  BY <1>1, InvHolds, PTL

\* What removeSession answered as removed stays away until an ensure: no queued
\* stop, start or restart policy brings the container or the volume back.
THEOREM RemovedStaysRemovedHolds == Spec => []RemovedStaysRemoved
<1>1. Inv => RemovedStaysRemoved
  BY DEF Inv, Shape, SessionSound, GoneSound, RemovedStaysRemoved
<1> QED
  BY <1>1, InvHolds, PTL

-----------------------------------------------------------------------------
(* The protocol: JSON values and the checks of a body *)

\* A JSON value has one type.
LEMMA OneType ==
  ASSUME NEW v, IsValue(v)
  PROVE  \E t \in JsonTypes :
            /\ \A s : IsA(v, s) <=> s = t
            /\ \A S : IsAny(v, S) <=> t \in S
<1>1. PICK t \in JsonTypes : DOMAIN v = {t}
  BY DEF IsValue
<1> QED
  BY <1>1 DEF IsA, IsAny

\* What is not there has the type of nothing.
LEMMA UndefinedIs == IsValue(Undefined) /\ ~IsA(Undefined, "object") /\ ~IsA(Undefined, "array")
  BY DEF Undefined, IsValue, JsonTypes, IsA

\* A field of a value whose parts are values is one.
LEMMA FieldIsValue ==
  ASSUME NEW v, \A p \in Parts(v) : IsValue(p), NEW f
  PROVE  IsValue(Field(v, f))
<1>1. IsA(v, "object") /\ f \in DOMAIN v.object => v.object[f] \in Parts(v)
  BY DEF Parts
<1> QED
  BY <1>1, UndefinedIs DEF Field

\* The same of its parts, and of theirs.
LEMMA FieldIsDeep ==
  ASSUME NEW body, IsJson(body), NEW f
  PROVE  LET v == Field(body, f) IN
         /\ IsValue(v) /\ \A p \in Parts(v) : IsValue(p) /\ \A q \in Parts(p) : IsValue(q)
<1>1. CASE IsA(body, "object") /\ f \in DOMAIN body.object
  <2>1. Field(body, f) = body.object[f] /\ body.object[f] \in Parts(body)
    BY <1>1 DEF Field, Parts
  <2> QED
    BY <2>1 DEF IsJson
<1>2. CASE ~(IsA(body, "object") /\ f \in DOMAIN body.object)
  <2>1. Field(body, f) = Undefined
    BY <1>2 DEF Field
  <2>2. Parts(Undefined) = {}
    BY UndefinedIs DEF Parts
  <2> QED
    BY <2>1, <2>2, UndefinedIs
<1> QED
  BY <1>1, <1>2

\* Both hosts read the same bodies as objects.
LEMMA BodiesAgree ==
  ASSUME NEW body, IsJson(body)
  PROVE  AgentReadJsonBody(body) <=> ReadJsonBody(body)
<1>1. PICK t \in JsonTypes : \A S : IsAny(body, S) <=> t \in S
  BY OneType DEF IsJson
<1> QED
  BY <1>1 DEF AgentReadJsonBody, ReadJsonBody, JsonTypes

\* What the agent complains of is what the Cloudflare host does not accept.
LEMMA StringsAgree ==
  ASSUME NEW body, NEW f
  PROVE  AgentBadString(body, f) <=> ~RequiredString(body, f)
  BY DEF AgentBadString, RequiredString

\* An optional field, of any type.
LEMMA OptionalsAgree ==
  ASSUME NEW body, NEW f, IsValue(Field(body, f)), NEW type
  PROVE  AgentBadOptional(body, f, type) <=> ~OptionalOf(body, f, type)
<1>1. PICK t \in JsonTypes :
         /\ \A s : IsA(Field(body, f), s) <=> s = t
         /\ \A S : IsAny(Field(body, f), S) <=> t \in S
  BY OneType
<1> QED
  BY <1>1 DEF AgentBadOptional, OptionalOf, Given

\* An optional number, which must be finite.
LEMMA NumbersAgree ==
  ASSUME NEW body, NEW f, IsValue(Field(body, f))
  PROVE  AgentBadNumber(body, f) <=> ~OptionalNumber(body, f)
<1>1. PICK t \in JsonTypes :
         /\ \A s : IsA(Field(body, f), s) <=> s = t
         /\ \A S : IsAny(Field(body, f), S) <=> t \in S
  BY OneType
<1> DEFINE infinite == Field(body, f).number = "Infinity"
<1> HIDE DEF infinite
<1>2. AgentBadNumber(body, f) <=> AgentBadOptional(body, f, "number") \/ (Given(body, f) /\ infinite)
  BY DEF AgentBadNumber, infinite
<1>3. OptionalNumber(body, f) <=> OptionalOf(body, f, "number") /\ (IsA(Field(body, f), "number") => ~infinite)
  BY DEF OptionalNumber, infinite
<1> QED
  BY <1>1, <1>2, <1>3 DEF AgentBadOptional, OptionalOf, Given

\* An optional map of strings.
LEMMA MapsAgree ==
  ASSUME NEW body, NEW f, IsValue(Field(body, f))
  PROVE  AgentBadMap(body, f) <=> ~StringMap(body, f)
<1>1. PICK t \in JsonTypes :
         /\ \A s : IsA(Field(body, f), s) <=> s = t
         /\ \A S : IsAny(Field(body, f), S) <=> t \in S
  BY OneType
<1> DEFINE strings == \A k \in DOMAIN Field(body, f).object : IsA(Field(body, f).object[k], "string")
<1>2. AgentBadMap(body, f) <=> Given(body, f) /\ (~IsA(Field(body, f), "object") \/ ~strings)
  BY DEF AgentBadMap
<1>3. StringMap(body, f) <=>
         IsAny(Field(body, f), {"undefined", "null"}) \/ (IsA(Field(body, f), "object") /\ strings)
  BY DEF StringMap
<1> HIDE DEF strings
<1> QED
  BY <1>1, <1>2, <1>3 DEF Given

\* parseWriteBatch, in both hosts.
FileAccepted(file) ==
    /\ IsA(file, "object")
    /\ RequiredString(file, "path") /\ Field(file, "path").string \in AbsolutePaths
    /\ IsA(Field(file, "content"), "string")
    /\ OptionalString(file, "encoding") /\ OptionalString(file, "mode")
    /\ IsA(Field(file, "encoding"), "string") => Field(file, "encoding").string \in Encodings
    /\ IsA(Field(file, "mode"), "string") => Field(file, "mode").string \in OctalModes

\* One file of a batch, every check of it.
LEMMA FilesAgree ==
  ASSUME NEW file, \A p \in Parts(file) : IsValue(p)
  PROVE  AgentBadFile(file) <=> ~FileAccepted(file)
<1>1. \A f : IsValue(Field(file, f))
  BY FieldIsValue
<1>2. PICK e \in JsonTypes :
         /\ \A s : IsA(Field(file, "encoding"), s) <=> s = e
         /\ \A S : IsAny(Field(file, "encoding"), S) <=> e \in S
  BY <1>1, OneType
<1>3. PICK m \in JsonTypes :
         /\ \A s : IsA(Field(file, "mode"), s) <=> s = m
         /\ \A S : IsAny(Field(file, "mode"), S) <=> m \in S
  BY <1>1, OneType
<1> DEFINE encoding == Field(file, "encoding").string \in Encodings
           mode == Field(file, "mode").string \in OctalModes
           path == Field(file, "path").string \in AbsolutePaths
<1>4. AgentBadFile(file) <=>
         \/ ~IsA(file, "object") \/ AgentBadString(file, "path") \/ ~path
         \/ ~IsA(Field(file, "content"), "string")
         \/ AgentBadOptional(file, "encoding", "string") \/ AgentBadOptional(file, "mode", "string")
         \/ Given(file, "encoding") /\ ~encoding
         \/ Given(file, "mode") /\ ~mode
  BY DEF AgentBadFile
<1>5. FileAccepted(file) <=>
         /\ IsA(file, "object") /\ RequiredString(file, "path") /\ path
         /\ IsA(Field(file, "content"), "string")
         /\ OptionalString(file, "encoding") /\ OptionalString(file, "mode")
         /\ IsA(Field(file, "encoding"), "string") => encoding
         /\ IsA(Field(file, "mode"), "string") => mode
  BY DEF FileAccepted
<1> HIDE DEF encoding, mode, path
<1>6. (AgentBadOptional(file, "encoding", "string") \/ (Given(file, "encoding") /\ ~encoding))
        <=> ~(OptionalString(file, "encoding") /\ (IsA(Field(file, "encoding"), "string") => encoding))
  BY <1>2 DEF AgentBadOptional, Given, OptionalString, OptionalOf
<1>7. (AgentBadOptional(file, "mode", "string") \/ (Given(file, "mode") /\ ~mode))
        <=> ~(OptionalString(file, "mode") /\ (IsA(Field(file, "mode"), "string") => mode))
  BY <1>3 DEF AgentBadOptional, Given, OptionalString, OptionalOf
<1> QED
  BY <1>4, <1>5, <1>6, <1>7, StringsAgree

\* The files of a batch.
LEMMA BatchesAgree ==
  ASSUME NEW body, IsJson(body)
  PROVE  AgentBadBatch(body) <=> ~ParseWriteBatch(body)
<1> DEFINE files == Field(body, "files")
<1>1. IsValue(files) /\ \A p \in Parts(files) : IsValue(p) /\ \A q \in Parts(p) : IsValue(q)
  BY FieldIsDeep
<1>2. ParseWriteBatch(body) <=>
         IsA(files, "array") /\ files.array # <<>>
         /\ \A i \in DOMAIN files.array : FileAccepted(files.array[i])
  BY DEF ParseWriteBatch, FileAccepted
<1>3. AgentBadBatch(body) <=>
         ~IsA(files, "array") \/ files.array = <<>>
         \/ \E i \in DOMAIN files.array : AgentBadFile(files.array[i])
  BY DEF AgentBadBatch
<1> HIDE DEF files
<1>4. ASSUME IsA(files, "array"), NEW i \in DOMAIN files.array
      PROVE  AgentBadFile(files.array[i]) <=> ~FileAccepted(files.array[i])
  <2>1. PICK t \in JsonTypes : \A s : IsA(files, s) <=> s = t
    BY <1>1, OneType
  <2>2. ~IsA(files, "object")
    BY <1>4, <2>1
  <2>3. files.array[i] \in Parts(files)
    BY <1>4, <2>2 DEF Parts
  <2> QED
    BY <1>1, <2>3, FilesAgree
<1> QED
  BY <1>2, <1>3, <1>4

\* The segments kept are a sequence.
LEMMA NonEmptyIsSeq ==
  ASSUME NEW T, NEW path \in Seq(T)
  PROVE  \E S : NonEmpty(path) \in Seq(S)
<1> DEFINE kept == {i \in DOMAIN path : path[i] # ""}
           Nth(k) == CHOOSE i \in kept : Cardinality({j \in kept : j <= i}) = k
           S == {path[Nth(k)] : k \in 1 .. Cardinality(kept)}
<1>1. DOMAIN path = 1 .. Len(path) /\ Len(path) \in Nat
  OBVIOUS
<1>2. IsFiniteSet(DOMAIN path)
  BY <1>1, FS_Interval
<1>3. Cardinality(kept) \in Nat
  BY <1>2, FS_Subset, FS_CardinalityType
<1>4. NonEmpty(path) = [k \in 1 .. Cardinality(kept) |-> path[Nth(k)]]
  BY DEF NonEmpty
<1>5. [k \in 1 .. Cardinality(kept) |-> path[Nth(k)]] \in [1 .. Cardinality(kept) -> S]
  OBVIOUS
<1>6. NonEmpty(path) \in [1 .. Cardinality(kept) -> S]
  BY <1>4, <1>5
<1>7. NonEmpty(path) \in Seq(S)
  <2> HIDE DEF kept, Nth, S
  <2> QED
    BY <1>3, <1>6
<1> QED
  BY <1>7

\* The numbers up to n are n.
LEMMA CountUpTo ==
  ASSUME NEW n \in Nat
  PROVE  IsFiniteSet(1 .. n) /\ Cardinality(1 .. n) = n
<1>1. 1 \in Int /\ n \in Int /\ (IF 1 > n THEN 0 ELSE n - 1 + 1) = n
  OBVIOUS
<1> QED
  BY <1>1, FS_Interval

\* A path without empty segments is read as it is.
Whole(path) == \A i \in DOMAIN path : path[i] # ""

\* Such a path is its own non-empty segments.
LEMMA NonEmptyKeeps ==
  ASSUME NEW T, NEW path \in Seq(T)
  PROVE  Whole(path) => NonEmpty(path) = path
<1> DEFINE kept == {i \in DOMAIN path : path[i] # ""}
           Nth(k) == CHOOSE i \in kept : Cardinality({j \in kept : j <= i}) = k
           n == Len(path)
<1>1. n \in Nat /\ DOMAIN path = 1 .. n /\ path = [k \in 1 .. n |-> path[k]]
  OBVIOUS
<1>2. NonEmpty(path) = [k \in 1 .. Cardinality(kept) |-> path[Nth(k)]]
  BY DEF NonEmpty
<1>3. ASSUME Whole(path)
      PROVE  kept = 1 .. n
  BY <1>1, <1>3 DEF Whole
<1> HIDE DEF kept, n
<1>4. ASSUME kept = 1 .. n
      PROVE  NonEmpty(path) = path
  <2>1. ASSUME NEW i \in 1 .. n
        PROVE  Cardinality({j \in kept : j <= i}) = i
    <3>1. {j \in kept : j <= i} = 1 .. i
      BY <1>1, <1>4
    <3>2. i \in Nat
      BY <1>1
    <3> QED
      BY <3>1, <3>2, CountUpTo
  <2>2. Cardinality(kept) = n
    BY <1>1, <1>4, CountUpTo
  <2>3. ASSUME NEW k \in 1 .. n
        PROVE  Nth(k) = k
    <3>1. k \in kept /\ Cardinality({j \in kept : j <= k}) = k
      BY <1>4, <2>1
    <3>2. \A i \in kept : Cardinality({j \in kept : j <= i}) = k => i = k
      BY <1>4, <2>1
    <3> QED
      BY <3>1, <3>2
  <2> HIDE DEF Nth
  <2> QED
    BY <1>1, <1>2, <2>2, <2>3
<1> QED
  BY <1>3, <1>4

\* A row of the agent's table is found by its path alone.
LEMMA RowIsFound ==
  ASSUME NEW row \in AgentRoutes
  PROVE  (CHOOSE r \in {r \in AgentRoutes : r[1] = row[1]} : TRUE) = row
<1>1. \A r \in AgentRoutes : r[1] = row[1] => r = row
  BY DEF AgentRoutes
<1>2. {r \in AgentRoutes : r[1] = row[1]} = {row}
  BY <1>1
<1> QED
  BY <1>2

\* The routes of the POST table, and what each is called.
RowRoutes == {"ensure", "stop", "exec", "write-batch", "read", "exists", "list",
              "opencode-start", "snapshot", "snapshot-restore"}
Routes == RowRoutes \cup {"state", "remove", "proxy"}

\* The Cloudflare host's conditional and the agent's table name the same route.
MatchRow(id, rest) ==
    CASE rest \in {<<"ensure">>, <<"stop">>, <<"exec">>, <<"snapshot">>} -> Matched(id, rest[1])
      [] rest = <<"files", "write-batch">> -> Matched(id, "write-batch")
      [] rest = <<"files", "read">> -> Matched(id, "read")
      [] rest = <<"files", "exists">> -> Matched(id, "exists")
      [] rest = <<"files", "list">> -> Matched(id, "list")
      [] rest = <<"opencode", "start">> -> Matched(id, "opencode-start")
      [] rest = <<"snapshot", "restore">> -> Matched(id, "snapshot-restore")
      [] OTHER -> NoMatch

\* The one's CASE is the other's lookup.
LEMMA RowsAgree ==
  ASSUME NEW id, NEW rest
  PROVE  LET rows == {r \in AgentRoutes : r[1] = rest} IN
         /\ MatchRow(id, rest) = IF rows # {} THEN Matched(id, (CHOOSE r \in rows : TRUE)[2]) ELSE NoMatch
         /\ rows # {} => (CHOOSE r \in rows : TRUE)[2] \in RowRoutes
<1> DEFINE rows == {r \in AgentRoutes : r[1] = rest}
<1>1. CASE rows = {}
  <2>1. \A r \in AgentRoutes : r[1] # rest
    BY <1>1
  <2>2. rest \notin {<<"ensure">>, <<"stop">>, <<"exec">>, <<"snapshot">>}
        /\ rest \notin {<<"files", "write-batch">>, <<"files", "read">>, <<"files", "exists">>, <<"files", "list">>}
        /\ rest \notin {<<"opencode", "start">>, <<"snapshot", "restore">>}
    BY <2>1 DEF AgentRoutes
  <2>3. MatchRow(id, rest) = NoMatch
    BY <2>2 DEF MatchRow
  <2> QED
    BY <1>1, <2>3
<1>2. CASE rows # {}
  <2>1. PICK row \in AgentRoutes : row[1] = rest
    BY <1>2
  <2>2. (CHOOSE r \in rows : TRUE) = row
    BY <2>1, RowIsFound
  <2>3. MatchRow(id, rest) = Matched(id, row[2]) /\ row[2] \in RowRoutes
    BY <2>1 DEF MatchRow, AgentRoutes, RowRoutes
  <2> QED
    BY <1>2, <2>2, <2>3
<1> QED
  BY <1>1, <1>2

\* What a session's path and verb name, by the segments after the session.
MatchOf(verb, id, rest) ==
    IF rest = <<>> THEN
         CASE verb = "GET" -> Matched(id, "state")
           [] verb = "DELETE" -> Matched(id, "remove")
           [] OTHER -> NoMatch
    ELSE IF rest[1] = "proxy" THEN [id |-> id, route |-> "proxy", proxyPath |-> SubSeq(rest, 2, Len(rest))]
    ELSE IF verb # "POST" THEN NoMatch ELSE MatchRow(id, rest)

\* matchSessionRoute, said by what follows the session.
LEMMA MatchIs ==
  ASSUME NEW verb, NEW path
  PROVE  LET parts == NonEmpty(path) IN
         MatchSessionRoute(verb, path) =
           IF Len(parts) < 2 \/ parts[1] # "sessions" THEN NoMatch
           ELSE IF parts[2] \notin Ids THEN NoMatch
           ELSE MatchOf(verb, parts[2], SubSeq(parts, 3, Len(parts)))
  BY Zenon DEF MatchSessionRoute, MatchRow, MatchOf

\* Either host finds the same operation, or none, for any verb and any path.
LEMMA MatchesAgree ==
  ASSUME NEW verb, NEW path \in Seq(STRING)
  PROVE  /\ AgentMatch(verb, path) = MatchSessionRoute(verb, path)
         /\ MatchSessionRoute(verb, path) = NoMatch \/ MatchSessionRoute(verb, path).route \in Routes
<1> DEFINE parts == NonEmpty(path)
           id == parts[2]
           rest == SubSeq(parts, 3, Len(parts))
           rows == {r \in AgentRoutes : r[1] = rest}
           rowsOf == {r \in AgentRoutes : verb = "POST" /\ r[1] = rest}
           forwarded == [id |-> id, route |-> "proxy", proxyPath |-> SubSeq(rest, 2, Len(rest))]
           site == Len(parts) >= 2 /\ parts[1] = "sessions" /\ id \in Ids
<1>1. PICK S : parts \in Seq(S)
  BY NonEmptyIsSeq
<1>2. Len(parts) \in Nat /\ (Len(parts) < 2 <=> ~(Len(parts) >= 2))
  BY <1>1
<1>3. rest \in Seq(S)
  BY <1>1
<1>4. rest # <<>> => Tail(rest) = SubSeq(rest, 2, Len(rest))
  BY <1>3
<1>5. MatchSessionRoute(verb, path) =
        IF Len(parts) < 2 \/ parts[1] # "sessions" THEN NoMatch
        ELSE IF id \notin Ids THEN NoMatch ELSE MatchOf(verb, id, rest)
  BY MatchIs, Zenon
<1>6. AgentMatch(verb, path) =
        IF ~site THEN NoMatch
        ELSE IF rest # <<>> /\ rest[1] = "proxy"
        THEN [id |-> id, route |-> "proxy", proxyPath |-> Tail(rest)]
        ELSE IF rest = <<>> /\ verb \in {"GET", "DELETE"}
        THEN Matched(id, IF verb = "GET" THEN "state" ELSE "remove")
        ELSE IF rowsOf # {} THEN Matched(id, (CHOOSE r \in rowsOf : TRUE)[2]) ELSE NoMatch
  BY DEF AgentMatch
<1>7. (verb = "POST" => rowsOf = rows) /\ (verb # "POST" => rowsOf = {})
  OBVIOUS
<1>8. MatchRow(id, rest) = (IF rows # {} THEN Matched(id, (CHOOSE r \in rows : TRUE)[2]) ELSE NoMatch)
      /\ (rows # {} => (CHOOSE r \in rows : TRUE)[2] \in RowRoutes)
  BY RowsAgree
<1>9. rest = <<>> => rows = {}
  <2>1. \A r \in AgentRoutes : Len(r[1]) \in {1, 2}
    BY DEF AgentRoutes
  <2>2. Len(<<>>) = 0
    OBVIOUS
  <2> HIDE DEF rest
  <2> QED
    BY <2>1, <2>2
<1>10. forwarded.route = "proxy" /\ \A r : Matched(id, r).route = r
  BY DEF Matched
<1>11. site <=> ~(Len(parts) < 2 \/ parts[1] # "sessions") /\ id \in Ids
  BY <1>2
<1> HIDE DEF parts, id, rest, rows, rowsOf, forwarded, site
<1>12. rest # <<>> => [id |-> id, route |-> "proxy", proxyPath |-> Tail(rest)] = forwarded
  BY <1>4 DEF forwarded
<1>13. MatchSessionRoute(verb, path) =
        IF ~site THEN NoMatch
        ELSE IF rest = <<>> THEN
             IF verb = "GET" THEN Matched(id, "state")
             ELSE IF verb = "DELETE" THEN Matched(id, "remove") ELSE NoMatch
        ELSE IF rest[1] = "proxy" THEN forwarded
        ELSE IF verb # "POST" THEN NoMatch ELSE MatchRow(id, rest)
  BY <1>5, <1>11 DEF MatchOf, forwarded
<1>14. AgentMatch(verb, path) = MatchSessionRoute(verb, path)
  <2>1. CASE ~site
    BY <2>1, <1>13, <1>6
  <2>2. CASE site /\ rest = <<>>
    BY <2>2, <1>13, <1>6, <1>7, <1>9
  <2>3. CASE site /\ rest # <<>> /\ rest[1] = "proxy"
    BY <2>3, <1>13, <1>6, <1>12
  <2>4. CASE site /\ rest # <<>> /\ rest[1] # "proxy" /\ verb = "POST"
    <3>1. MatchSessionRoute(verb, path) = MatchRow(id, rest)
      BY <2>4, <1>13
    <3>2. AgentMatch(verb, path) =
            IF rowsOf # {} THEN Matched(id, (CHOOSE r \in rowsOf : TRUE)[2]) ELSE NoMatch
      BY <2>4, <1>6
    <3> QED
      BY <2>4, <3>1, <3>2, <1>7, <1>8
  <2>5. CASE site /\ rest # <<>> /\ rest[1] # "proxy" /\ verb # "POST"
    BY <2>5, <1>13, <1>6, <1>7
  <2> QED
    BY <2>1, <2>2, <2>3, <2>4, <2>5
<1>15. MatchSessionRoute(verb, path) = NoMatch \/ MatchSessionRoute(verb, path).route \in Routes
  BY <1>13, <1>8, <1>10 DEF Routes
<1> QED
  BY <1>14, <1>15

\* docker exec reports a container that is not running as such, whatever ran.
LEMMA ReachedIfRunning ==
  ASSUME NEW container \in Boxes, NEW exit, NEW late, NEW out, NEW err, NEW answer
  PROVE  ~container.running =>
           Reached(RunDockerExec(container, exit, late, out, err), answer) = Err("CONTAINER_NOT_RUNNING")
<1> DEFINE result == RunDockerExec(container, exit, late, out, err)
<1>1. ASSUME ~container.running
      PROVE  result.code \in {1, 125} /\ result.stderr = "daemon"
  BY <1>1 DEF RunDockerExec
<1> HIDE DEF result
<1>2. ASSUME ~container.running
      PROVE  AssertContainerReached(result) = "CONTAINER_NOT_RUNNING"
  BY <1>1, <1>2 DEF AssertContainerReached, IsNoSuchObject
<1> QED
  BY <1>2 DEF Reached, result

\* A script of the agent's own is never mistaken for the daemon.
LEMMA ScriptIsReached ==
  ASSUME NEW container, container.running, NEW exit, NEW out
  PROVE  LET result == RunDockerExec(container, exit, "no", out, "plain") IN
         /\ result.code = exit /\ result.out = Collect(out)
         /\ \A answer : Reached(result, answer) = answer
  BY DEF RunDockerExec, Reached, AssertContainerReached, IsNoSuchObject

\* RunScript in a container that runs ends with the script's exit code.
LEMMA ScriptAgrees ==
  ASSUME NEW container, container.running, NEW exit
  PROVE  LET result == RunScript(container, exit) IN
         /\ result.code = exit
         /\ \A answer : Reached(result, answer) = answer
  BY ScriptIsReached DEF RunScript

\* What a command the container did run in time leaves.
Ended(exit, out, err) == [code |-> exit, stderr |-> err, late |-> FALSE, timedOut |-> FALSE, out |-> out]

\* A command that kept to its budget ends with its own exit code.
LEMMA ExecInTime ==
  ASSUME NEW container, container.running, NEW exit, NEW out, NEW err
  PROVE  RunDockerExec(container, exit, "no", out, err) = Ended(exit, Collect(out), err)
  BY DEF RunDockerExec, Ended

\* Its end is taken for the command's, unless the agent misreads it.
LEMMA EndedIsReached ==
  ASSUME NEW exit \in {0, 1, 124, 127, 137}, NEW out, NEW err,
         ~(exit = 1 /\ err = "daemon"), ~(exit = 127 /\ err = "missing")
  PROVE  AssertContainerReached(Ended(exit, out, err)) = "OK" /\ ~ExecTimedOut(Ended(exit, out, err))
<1> DEFINE result == Ended(exit, out, err)
<1>1. result.code = exit /\ result.stderr = err /\ result.late = FALSE /\ result.timedOut = FALSE
  BY DEF Ended
<1> HIDE DEF result
<1> QED
  BY <1>1 DEF AssertContainerReached, IsNoSuchObject, ExecTimedOut, result

\* What one that outlived its budget leaves.
LEMMA ExecTooLate ==
  ASSUME NEW container, container.running, NEW exit, NEW late \in {"term", "kill", "stuck"}, NEW out, NEW err
  PROVE  LET result == RunDockerExec(container, exit, late, out, err) IN
         AssertContainerReached(result) = "OK" /\ ExecTimedOut(result)
<1> DEFINE result == RunDockerExec(container, exit, late, out, err)
<1>1. result.late = TRUE
  BY DEF RunDockerExec
<1>2. result.code = 124 \/ result.code = 137 \/ (result.code = -1 /\ result.timedOut = TRUE)
  <2>1. CASE late = "term"
    BY <2>1 DEF RunDockerExec
  <2>2. CASE late = "kill"
    BY <2>2 DEF RunDockerExec
  <2>3. CASE late = "stuck"
    BY <2>3 DEF RunDockerExec
  <2> QED
    BY <2>1, <2>2, <2>3
<1> HIDE DEF result
<1>3. AssertContainerReached(result) = "OK"
  BY <1>2 DEF AssertContainerReached
<1>4. ExecTimedOut(result)
  BY <1>1, <1>2 DEF ExecTimedOut
<1> QED
  BY <1>3, <1>4 DEF result

\* POST exec: the same refusals, timeouts, exit codes and output.
LEMMA ExecAgrees ==
  ASSUME NEW body, IsJson(body), NEW container \in Boxes,
         ~Misread(container), ~(container.cmd.out > OutputLimit)
  PROVE  CfExecCommand(body, container) = AgentExecCommand(body, container)
<1>1. PICK cmd \in Commands : cmd = container.cmd
  BY DEF Boxes
<1> DEFINE refused == AgentBadString(body, "command") \/ AgentBadOptional(body, "cwd", "string")
                      \/ AgentBadMap(body, "env") \/ AgentBadNumber(body, "timeoutMs")
           result == RunDockerExec(container, cmd.exit, cmd.late, cmd.out, cmd.err)
           agent == IF ExecTimedOut(result) THEN Err("EXEC_TIMEOUT")
                    ELSE Ok([exit |-> result.code, out |-> CapOutput(result.out)])
<1>2. \A f : IsValue(Field(body, f))
  BY FieldIsDeep
<1>3. ~(RequiredString(body, "command") /\ OptionalString(body, "cwd") /\ StringMap(body, "env")
           /\ OptionalNumber(body, "timeoutMs")) <=> refused
  BY <1>2, StringsAgree, OptionalsAgree, MapsAgree, NumbersAgree DEF OptionalString
<1>4. AgentExecCommand(body, container) = IF refused THEN Invalid ELSE Reached(result, agent)
  BY <1>1 DEF AgentExecCommand
<1>5. CfExecCommand(body, container) =
        IF refused THEN Invalid
        ELSE IF ~container.running THEN Err("CONTAINER_NOT_RUNNING")
        ELSE IF cmd.late # "no" THEN Err("EXEC_TIMEOUT")
        ELSE Ok([exit |-> cmd.exit, out |-> CapOutput(cmd.out)])
  BY <1>1, <1>3 DEF CfExecCommand, IsExecTimeout
<1>6. CASE ~container.running
  BY <1>4, <1>5, <1>6, ReachedIfRunning
<1>7. CASE container.running /\ cmd.late # "no"
  <2>1. cmd.late \in {"term", "kill", "stuck"}
    BY <1>7 DEF Commands
  <2>2. AssertContainerReached(result) = "OK" /\ ExecTimedOut(result)
    BY <1>7, <2>1, ExecTooLate
  <2> HIDE DEF result
  <2>3. Reached(result, agent) = Err("EXEC_TIMEOUT")
    BY <2>2 DEF Reached
  <2> QED
    BY <1>4, <1>5, <1>7, <2>3
<1>8. CASE container.running /\ cmd.late = "no"
  <2>1. cmd.exit \in {0, 1, 124, 127, 137} /\ cmd.out \in {1, OutputLimit + 1}
    BY DEF Commands
  <2>2. Collect(cmd.out) = cmd.out
    BY <1>1, <2>1 DEF Collect, OutputLimit
  <2>3. result = Ended(cmd.exit, cmd.out, cmd.err)
    BY <1>8, <2>2, ExecInTime
  <2> HIDE DEF result
  <2>4. ~(cmd.exit = 1 /\ cmd.err = "daemon") /\ ~(cmd.exit = 127 /\ cmd.err = "missing")
    BY <1>1, <1>8 DEF Misread
  <2>5. AssertContainerReached(result) = "OK" /\ ~ExecTimedOut(result)
    BY <2>1, <2>3, <2>4, EndedIsReached
  <2>6. result.code = cmd.exit /\ result.out = cmd.out
    BY <2>3 DEF Ended
  <2>7. Reached(result, agent) = Ok([exit |-> cmd.exit, out |-> CapOutput(cmd.out)])
    BY <2>5, <2>6 DEF Reached
  <2> QED
    BY <1>4, <1>5, <1>8, <2>7
<1> QED
  BY <1>6, <1>7, <1>8

\* POST files/write-batch.
LEMMA WriteBatchAgrees ==
  ASSUME NEW body, IsJson(body), NEW container \in Boxes
  PROVE  CfWriteBatch(body, container) = AgentWriteBatch(body, container)
<1> DEFINE result == RunScript(container, IF container.writable THEN 0 ELSE 1)
           done == Ok(Len(Field(body, "files").array))
<1>1. AgentBadBatch(body) <=> ~ParseWriteBatch(body)
  BY BatchesAgree
<1>2. AgentWriteBatch(body, container) =
        IF AgentBadBatch(body) THEN Invalid
        ELSE Reached(result, IF result.code # 0 THEN Err("HOST_ERROR") ELSE done)
  BY DEF AgentWriteBatch
<1>3. CfWriteBatch(body, container) =
        IF AgentBadBatch(body) THEN Invalid
        ELSE IF ~container.running THEN Err("CONTAINER_NOT_RUNNING")
        ELSE IF ~container.writable THEN ErrorToResponse("mkdir", "write-batch") ELSE done
  BY <1>1 DEF CfWriteBatch
<1>4. ErrorToResponse("mkdir", "write-batch") = Err("HOST_ERROR")
  BY DEF ErrorToResponse, RouteErrorCodes, SdkErrorCodes
<1>5. ~container.running => \A answer : Reached(result, answer) = Err("CONTAINER_NOT_RUNNING")
  BY ReachedIfRunning DEF RunScript
<1>6. container.running =>
        result.code = (IF container.writable THEN 0 ELSE 1) /\ \A answer : Reached(result, answer) = answer
  BY ScriptAgrees
<1> HIDE DEF result, done
<1> QED
  BY <1>2, <1>3, <1>4, <1>5, <1>6

\* POST files/read, of a file within the cap.
LEMMA ReadAgrees ==
  ASSUME NEW body, NEW container \in Boxes, ~(container.size > OutputLimit)
  PROVE  CfReadSessionFile(body, container) = AgentReadSessionFile(body, container)
<1> DEFINE exit == CASE container.file = "none" -> 3 [] container.file = "unreadable" -> 1 [] OTHER -> 0
           result == RunDockerExec(container, exit, "no", container.size, "plain")
           encoding == IF container.file = "binary" THEN "base64" ELSE "utf-8"
<1>1. AgentReadSessionFile(body, container) =
        IF AgentBadString(body, "path") THEN Invalid
        ELSE Reached(result, IF result.code = 3 THEN Err("FILE_NOT_FOUND")
                             ELSE IF result.code # 0 THEN Err("HOST_ERROR")
                             ELSE Ok([size |-> result.out, encoding |-> encoding]))
  BY DEF AgentReadSessionFile
<1>2. CfReadSessionFile(body, container) =
        IF AgentBadString(body, "path") THEN Invalid
        ELSE IF ~container.running THEN Err("CONTAINER_NOT_RUNNING")
        ELSE IF container.file = "none" THEN ErrorToResponse("FILE_NOT_FOUND", "read")
        ELSE IF container.file = "unreadable" THEN ErrorToResponse("PERMISSION_DENIED", "read")
        ELSE Ok([size |-> container.size, encoding |-> encoding])
  BY StringsAgree DEF CfReadSessionFile
<1>3. /\ ErrorToResponse("FILE_NOT_FOUND", "read") = Err("FILE_NOT_FOUND")
      /\ ErrorToResponse("PERMISSION_DENIED", "read") = Err("HOST_ERROR")
  BY DEF ErrorToResponse, RouteErrorCodes, SdkErrorCodes
<1>4. Collect(container.size) = container.size
  BY DEF Collect, Boxes, OutputLimit
<1>5. exit = IF container.file = "none" THEN 3 ELSE IF container.file = "unreadable" THEN 1 ELSE 0
  OBVIOUS
<1> HIDE DEF exit
<1>6. ~container.running => \A answer : Reached(result, answer) = Err("CONTAINER_NOT_RUNNING")
  BY ReachedIfRunning
<1>7. container.running =>
        result.code = exit /\ result.out = container.size /\ \A answer : Reached(result, answer) = answer
  BY <1>4, ScriptIsReached
<1> HIDE DEF result, encoding
<1> QED
  BY <1>1, <1>2, <1>3, <1>5, <1>6, <1>7

\* POST files/exists.
LEMMA ExistsAgrees ==
  ASSUME NEW body, NEW container \in Boxes
  PROVE  CfFileExists(body, container) = AgentFileExists(body, container)
<1> DEFINE exit == IF container.file = "none" THEN 1 ELSE 0
           result == RunScript(container, exit)
<1>1. AgentFileExists(body, container) =
        IF AgentBadString(body, "path") THEN Invalid ELSE Reached(result, Ok(result.code = 0))
  BY DEF AgentFileExists
<1>2. CfFileExists(body, container) =
        IF AgentBadString(body, "path") THEN Invalid
        ELSE IF ~container.running THEN Err("CONTAINER_NOT_RUNNING") ELSE Ok(container.file # "none")
  BY StringsAgree DEF CfFileExists
<1>3. ~container.running => \A answer : Reached(result, answer) = Err("CONTAINER_NOT_RUNNING")
  BY ReachedIfRunning DEF RunScript
<1>4. container.running => result.code = exit /\ \A answer : Reached(result, answer) = answer
  BY ScriptAgrees
<1>5. (exit = 0) = (container.file # "none")
  OBVIOUS
<1> HIDE DEF result, exit
<1> QED
  BY <1>1, <1>2, <1>3, <1>4, <1>5

\* POST files/list: a path that is not a directory is DIR_NOT_FOUND.
LEMMA ListAgrees ==
  ASSUME NEW body, IsJson(body), NEW container \in Boxes
  PROVE  CfListSessionFiles(body, container) = AgentListSessionFiles(body, container)
<1> DEFINE refused == AgentBadString(body, "path") \/ AgentBadOptional(body, "includeHidden", "boolean")
           exit == IF container.dir = "dir" THEN 0 ELSE 3
           result == RunScript(container, exit)
           listed == Ok(ParseListing(container.entries, IncludeHidden(body)))
<1>1. \A f : IsValue(Field(body, f))
  BY FieldIsDeep
<1>2. ~(RequiredString(body, "path") /\ OptionalBoolean(body, "includeHidden")) <=> refused
  BY <1>1, StringsAgree, OptionalsAgree DEF OptionalBoolean
<1>3. AgentListSessionFiles(body, container) =
        IF refused THEN Invalid ELSE Reached(result, IF result.code = 3 THEN Err("DIR_NOT_FOUND") ELSE listed)
  BY DEF AgentListSessionFiles
<1>4. CfListSessionFiles(body, container) =
        IF refused THEN Invalid
        ELSE IF ~container.running THEN Err("CONTAINER_NOT_RUNNING")
        ELSE IF container.dir = "none" THEN ErrorToResponse("FILE_NOT_FOUND", "list")
        ELSE IF container.dir = "file" THEN ErrorToResponse("NOT_DIRECTORY", "list") ELSE listed
  BY <1>2 DEF CfListSessionFiles, ParseListing
<1>5. /\ ErrorToResponse("FILE_NOT_FOUND", "list") = Err("DIR_NOT_FOUND")
      /\ ErrorToResponse("NOT_DIRECTORY", "list") = Err("DIR_NOT_FOUND")
  BY DEF ErrorToResponse, RouteErrorCodes, SdkErrorCodes
<1>6. ~container.running => \A answer : Reached(result, answer) = Err("CONTAINER_NOT_RUNNING")
  BY ReachedIfRunning DEF RunScript
<1>7. container.running => result.code = exit /\ \A answer : Reached(result, answer) = answer
  BY ScriptAgrees
<1>8. container.dir \in {"none", "file", "dir"}
  BY DEF Boxes
<1> HIDE DEF refused, result, listed
<1> QED
  BY <1>3, <1>4, <1>5, <1>6, <1>7, <1>8

\* The names a shell cannot assign apart.
LEMMA StartAgrees ==
  ASSUME NEW body, IsJson(body), NEW container \in Boxes, ~AgentBadEnv(body)
  PROVE  CfStartOpencode(body, container) = AgentStartOpencode(body, container)
<1> DEFINE refused == AgentBadNumber(body, "port") \/ AgentBadOptional(body, "directory", "string")
           exit == IF container.server = "alive" THEN 0 ELSE 1
           result == RunScript(container, exit)
<1>1. \A f : IsValue(Field(body, f))
  BY FieldIsDeep
<1>2. StringMap(body, "env")
  BY <1>1, MapsAgree DEF AgentBadEnv
<1>3. ~(OptionalNumber(body, "port") /\ OptionalString(body, "directory") /\ StringMap(body, "env")) <=> refused
  BY <1>1, <1>2, NumbersAgree, OptionalsAgree DEF OptionalString
<1>4. AgentStartOpencode(body, container) =
        IF refused THEN Invalid
        ELSE Reached(result, IF container.boots THEN Ok(result.code = 0) ELSE Err("OPENCODE_START_FAILED"))
  BY DEF AgentStartOpencode
<1>5. CfStartOpencode(body, container) =
        IF refused THEN Invalid
        ELSE IF ~container.running THEN Err("CONTAINER_NOT_RUNNING")
        ELSE IF ~container.boots THEN Err("OPENCODE_START_FAILED") ELSE Ok(container.server = "alive")
  BY <1>3 DEF CfStartOpencode
<1>6. ~container.running => \A answer : Reached(result, answer) = Err("CONTAINER_NOT_RUNNING")
  BY ReachedIfRunning DEF RunScript
<1>7. container.running => result.code = exit /\ \A answer : Reached(result, answer) = answer
  BY ScriptAgrees
<1>8. (exit = 0) = (container.server = "alive")
  OBVIOUS
<1> HIDE DEF refused, result, exit
<1> QED
  BY <1>4, <1>5, <1>6, <1>7, <1>8

\* POST stop and DELETE: both escalate from TERM to KILL.
LEMMA StopAgrees ==
  ASSUME NEW body, IsJson(body), NEW container \in Boxes
  PROVE  /\ CfStopSession(body, container) = AgentStopSession(body, container)
         /\ CfRemoveSession(container) = AgentRemoveSession(container)
<1>1. AgentBadNumber(body, "timeoutSec") <=> ~OptionalNumber(body, "timeoutSec")
  BY FieldIsDeep, NumbersAgree
<1>2. container.dies \in {"term", "kill", "never"}
  BY DEF Boxes
<1>3. (CfSignalAndWait(container, 15) \/ CfSignalAndWait(container, 9))
        = (~container.running \/ container.dies # "never")
  BY <1>2 DEF CfSignalAndWait
<1>4. CfSignalAndWait(container, 9) = (~container.running \/ container.dies # "never")
  BY <1>2 DEF CfSignalAndWait
<1> QED
  BY <1>1, <1>3, <1>4 DEF CfStopSession, AgentStopSession, CfRemoveSession, AgentRemoveSession

\* Where the hosts are known to differ, for a route, a body and a container.
Differ(route, body, container) ==
    \/ route \in {"snapshot", "snapshot-restore"}
    \/ route \in {"state", "remove"} /\ ~AgentReadJsonBody(body)
    \/ route = "exec" /\ (Misread(container) \/ container.cmd.out > OutputLimit)
    \/ route = "read" /\ container.size > OutputLimit
    \/ route = "proxy" /\ container.running /\ container.server = "none"
    \/ route = "ensure" /\ AgentBadOptional(body, "image", "string")
    \/ route = "opencode-start" /\ AgentBadEnv(body)

\* Route by route, both hosts end in the same answer.
LEMMA AnswersAgree ==
  ASSUME NEW route \in Routes, NEW body, IsJson(body),
         NEW container \in Boxes, container.running => container.exists, ~Differ(route, body, container)
  PROVE  CfDispatch(route, body, container) = AgentDispatch(route, body, container)
<1>1. AgentReadJsonBody(body) <=> ReadJsonBody(body)
  BY BodiesAgree
<1>2. CASE route = "state"
  <2>1. AgentReadJsonBody(body)
    BY <1>2 DEF Differ
  <2>2. CfSessionState(container) = AgentSessionState(container)
    <3>1. (container.exists \/ container.running) = container.exists
      BY DEF Boxes
    <3> QED
      BY <3>1 DEF CfSessionState, AgentSessionState
  <2> QED
    BY <1>2, <2>1, <2>2 DEF CfDispatch, AgentDispatch
<1>3. CASE route = "remove"
  <2>1. AgentReadJsonBody(body)
    BY <1>3 DEF Differ
  <2> QED
    BY <1>3, <2>1, StopAgrees DEF CfDispatch, AgentDispatch
<1>4. CASE route = "proxy"
  <2>1. container.server \in {"none", "alive"} /\ ~(container.running /\ container.server = "none")
    BY <1>4 DEF Boxes, Differ
  <2>2. CfProxy(container) = AgentProxy(container)
    BY <2>1 DEF CfProxy, AgentProxy
  <2> QED
    BY <1>4, <2>2 DEF CfDispatch, AgentDispatch
<1>5. CASE route \notin {"state", "remove", "proxy"} /\ ~ReadJsonBody(body)
  BY <1>1, <1>5 DEF CfDispatch, AgentDispatch
<1>6. CASE ReadJsonBody(body) /\ route = "ensure"
  <2>1. ~AgentBadOptional(body, "image", "string")
    BY <1>6 DEF Differ
  <2>2. CfEnsureSession(container) = AgentEnsureSession(body, container)
    BY <2>1 DEF CfEnsureSession, AgentEnsureSession
  <2> QED
    BY <1>1, <1>6, <2>2 DEF CfDispatch, AgentDispatch
<1>7. CASE ReadJsonBody(body) /\ route = "stop"
  BY <1>1, <1>7, StopAgrees DEF CfDispatch, AgentDispatch
<1>8. CASE ReadJsonBody(body) /\ route = "exec"
  <2>1. CfExecCommand(body, container) = AgentExecCommand(body, container)
    BY <1>8, ExecAgrees DEF Differ
  <2> QED
    BY <1>1, <1>8, <2>1 DEF CfDispatch, AgentDispatch
<1>9. CASE ReadJsonBody(body) /\ route = "write-batch"
  BY <1>1, <1>9, WriteBatchAgrees DEF CfDispatch, AgentDispatch
<1>10. CASE ReadJsonBody(body) /\ route = "read"
  <2>1. CfReadSessionFile(body, container) = AgentReadSessionFile(body, container)
    BY <1>10, ReadAgrees DEF Differ
  <2> QED
    BY <1>1, <1>10, <2>1 DEF CfDispatch, AgentDispatch
<1>11. CASE ReadJsonBody(body) /\ route = "exists"
  BY <1>1, <1>11, ExistsAgrees DEF CfDispatch, AgentDispatch
<1>12. CASE ReadJsonBody(body) /\ route = "list"
  BY <1>1, <1>12, ListAgrees DEF CfDispatch, AgentDispatch
<1>13. CASE ReadJsonBody(body) /\ route = "opencode-start"
  <2>1. CfStartOpencode(body, container) = AgentStartOpencode(body, container)
    BY <1>13, StartAgrees DEF Differ
  <2> QED
    BY <1>1, <1>13, <2>1 DEF CfDispatch, AgentDispatch
<1>14. route \notin {"snapshot", "snapshot-restore"}
  BY DEF Differ
<1> QED
  BY <1>2, <1>3, <1>4, <1>5, <1>6, <1>7, <1>8, <1>9, <1>10, <1>11, <1>12, <1>13, <1>14 DEF Routes, RowRoutes

\* The codes of the protocol; "none" is not one.
Codes == DOMAIN ErrorStatus

\* Those the routes use, and the one status the client reads as gone.
LEMMA CodesAre ==
  /\ {"OK", "INVALID_REQUEST", "FILE_NOT_FOUND", "DIR_NOT_FOUND", "CONTAINER_NOT_RUNNING", "EXEC_TIMEOUT",
      "OPENCODE_START_FAILED", "SNAPSHOT_UNSUPPORTED", "SNAPSHOT_NOT_FOUND", "HOST_ERROR"} \subseteq Codes
  /\ "none" \notin Codes
  /\ \A c \in Codes : ErrorStatus[c] = 503 => c = "CONTAINER_NOT_RUNNING"
  BY DEF Codes, ErrorStatus

\* Ok and Err carry the code they are given.
LEMMA AnswerCodes ==
  /\ \A r : Ok(r).code = "OK"
  /\ \A c : Err(c).code = c
  /\ Invalid.code = "INVALID_REQUEST"
  BY DEF Ok, Err, Invalid

\* None of the SDK's errors a route lets through says the container is gone.
SdkErrors == {"mkdir", "connect", "PERMISSION_DENIED", "FILE_NOT_FOUND", "NOT_DIRECTORY", "BACKUP_NOT_FOUND"}

\* Each is translated to a code that says what was missing, or to HOST_ERROR.
LEMMA SdkCodes ==
  \A sdk \in SdkErrors : \A route : ErrorToResponse(sdk, route).code \in
      {"HOST_ERROR", "FILE_NOT_FOUND", "DIR_NOT_FOUND", "SNAPSHOT_NOT_FOUND"}
  BY AnswerCodes DEF SdkErrors, ErrorToResponse, RouteErrorCodes, SdkErrorCodes

\* The Cloudflare host says a container is gone only if it is.
LEMMA CfCodes ==
  ASSUME NEW route \in Routes, NEW body, NEW container
  PROVE  LET code == CfDispatch(route, body, container).code IN
         code \in Codes /\ (code = "CONTAINER_NOT_RUNNING" => ~container.running)
<1> DEFINE Fair(answer) == answer.code \in Codes /\ (answer.code = "CONTAINER_NOT_RUNNING" => ~container.running)
<1>1. Fair(Invalid) /\ \A r : Fair(Ok(r))
  BY CodesAre, AnswerCodes
<1>2. ~container.running => Fair(Err("CONTAINER_NOT_RUNNING"))
  BY CodesAre, AnswerCodes
<1>3. Fair(Err("EXEC_TIMEOUT")) /\ Fair(Err("OPENCODE_START_FAILED"))
  BY CodesAre, AnswerCodes
<1>4. \A sdk \in SdkErrors : \A r : Fair(ErrorToResponse(sdk, r))
  BY CodesAre, SdkCodes
<1> HIDE DEF Fair
<1>5. Fair(CfSessionState(container)) /\ Fair(CfRemoveSession(container)) /\ Fair(CfEnsureSession(container))
  BY <1>1 DEF CfSessionState, CfRemoveSession, CfEnsureSession
<1>6. Fair(CfProxy(container))
  BY <1>1, <1>2, <1>4 DEF CfProxy, SdkErrors
<1>7. Fair(CfStopSession(body, container))
  BY <1>1 DEF CfStopSession
<1>8. Fair(CfExecCommand(body, container))
  BY <1>1, <1>2, <1>3 DEF CfExecCommand
<1>9. Fair(CfWriteBatch(body, container))
  BY <1>1, <1>2, <1>4 DEF CfWriteBatch, SdkErrors
<1>10. Fair(CfReadSessionFile(body, container))
  BY <1>1, <1>2, <1>4 DEF CfReadSessionFile, SdkErrors
<1>11. Fair(CfFileExists(body, container))
  BY <1>1, <1>2 DEF CfFileExists
<1>12. Fair(CfListSessionFiles(body, container))
  BY <1>1, <1>2, <1>4 DEF CfListSessionFiles, SdkErrors
<1>13. Fair(CfStartOpencode(body, container))
  BY <1>1, <1>2, <1>3 DEF CfStartOpencode
<1>14. Fair(CfSnapshot(body, container)) /\ Fair(CfRestoreSnapshot(body, container))
  BY <1>1, <1>2, <1>4 DEF CfSnapshot, CfRestoreSnapshot, SdkErrors
<1>15. Fair(CfDispatch(route, body, container))
  BY <1>1, <1>5, <1>6, <1>7, <1>8, <1>9, <1>10, <1>11, <1>12, <1>13, <1>14 DEF CfDispatch, Routes, RowRoutes
<1> QED
  BY <1>15 DEF Fair

\* A command the container ran is not mistaken for the daemon, unless it is
\* one of those the agent misreads.
LEMMA CommandIsReached ==
  ASSUME NEW container \in Boxes, container.running, ~Misread(container)
  PROVE  LET result == RunDockerExec(container, container.cmd.exit, container.cmd.late,
                                         container.cmd.out, container.cmd.err) IN
         AssertContainerReached(result) = "OK"
<1>1. PICK cmd \in Commands : cmd = container.cmd
  BY DEF Boxes
<1> DEFINE result == RunDockerExec(container, cmd.exit, cmd.late, cmd.out, cmd.err)
<1>2. CASE cmd.late # "no"
  <2>1. cmd.late \in {"term", "kill", "stuck"}
    BY <1>2 DEF Commands
  <2> QED
    BY <1>1, <2>1, ExecTooLate
<1>3. CASE cmd.late = "no"
  <2>1. cmd.exit \in {0, 1, 124, 127, 137}
    BY DEF Commands
  <2>2. result = Ended(cmd.exit, Collect(cmd.out), cmd.err)
    BY <1>3, ExecInTime
  <2>3. ~(cmd.exit = 1 /\ cmd.err = "daemon") /\ ~(cmd.exit = 127 /\ cmd.err = "missing")
    BY <1>1, <1>3 DEF Misread
  <2> HIDE DEF result
  <2>4. AssertContainerReached(result) = "OK"
    BY <2>1, <2>2, <2>3, EndedIsReached
  <2> QED
    BY <1>1, <2>4 DEF result
<1> QED
  BY <1>2, <1>3

\* A run of the docker CLI that reaches no container gives a code all the same.
LEMMA ReachedCodes ==
  ASSUME NEW result, NEW answer, answer.code \in Codes
  PROVE  Reached(result, answer).code \in Codes
  BY CodesAre, AnswerCodes DEF Reached, AssertContainerReached

\* The agent says so of a container that is gone, that serves nothing to a
\* proxied request, or in which a command printed the daemon's words.
LEMMA AgentCodes ==
  ASSUME NEW route \in Routes, NEW body, IsJson(body), NEW container \in Boxes
  PROVE  LET code == AgentDispatch(route, body, container).code IN
         /\ code \in Codes
         /\ code = "CONTAINER_NOT_RUNNING" =>
              ~container.running \/ route = "proxy" \/ (route = "exec" /\ Misread(container))
<1> DEFINE Fair(answer) == answer.code \in Codes /\ (answer.code = "CONTAINER_NOT_RUNNING" => ~container.running)
<1>1. Fair(Invalid) /\ (\A r : Fair(Ok(r))) /\ Fair(Err("HOST_ERROR")) /\ Fair(Err("FILE_NOT_FOUND"))
      /\ Fair(Err("DIR_NOT_FOUND")) /\ Fair(Err("EXEC_TIMEOUT")) /\ Fair(Err("OPENCODE_START_FAILED"))
      /\ Fair(Err("SNAPSHOT_UNSUPPORTED"))
  BY CodesAre, AnswerCodes
<1>2. ~container.running => Fair(Err("CONTAINER_NOT_RUNNING"))
  BY CodesAre, AnswerCodes
<1>3. ASSUME NEW exit, NEW out, NEW answer, Fair(answer)
      PROVE  Fair(Reached(RunDockerExec(container, exit, "no", out, "plain"), answer))
  <2> HIDE DEF Fair
  <2> QED
    BY <1>2, <1>3, ReachedIfRunning, ScriptIsReached
<1> DEFINE Script(exit) == RunScript(container, exit)
<1>4. ASSUME NEW exit, NEW answer, Fair(answer)
      PROVE  Fair(Reached(Script(exit), answer))
  BY <1>3, <1>4 DEF RunScript
<1>5. AgentExecCommand(body, container).code \in Codes
  <2>1. \A result, a :
          Reached(result, IF ExecTimedOut(result) THEN Err("EXEC_TIMEOUT") ELSE Ok(a)).code \in Codes
    BY ReachedCodes, CodesAre, AnswerCodes
  <2> QED
    BY <2>1, CodesAre, AnswerCodes DEF AgentExecCommand
<1>6. ASSUME ~Misread(container)
      PROVE  Fair(AgentExecCommand(body, container))
  <2> DEFINE result == RunDockerExec(container, container.cmd.exit, container.cmd.late,
                                         container.cmd.out, container.cmd.err)
             agent == IF ExecTimedOut(result) THEN Err("EXEC_TIMEOUT")
                      ELSE Ok([exit |-> result.code, out |-> CapOutput(result.out)])
  <2>1. Fair(agent)
    <3> HIDE DEF result, Fair
    <3> QED
      BY <1>1
  <2>2. Fair(Reached(result, agent))
    <3>1. CASE ~container.running
      <4> HIDE DEF Fair, agent
      <4> QED
        BY <3>1, <1>2, ReachedIfRunning
    <3>2. CASE container.running
      <4>1. Reached(result, agent) = agent
        BY <3>2, <1>6, CommandIsReached DEF Reached
      <4> HIDE DEF Fair, agent, result
      <4> QED
        BY <2>1, <4>1
    <3> QED
      BY <3>1, <3>2
  <2> HIDE DEF Fair
  <2> QED
    BY <1>1, <2>2 DEF AgentExecCommand
<1> HIDE DEF Fair
<1>7. Fair(AgentSessionState(container)) /\ Fair(AgentRemoveSession(container))
  BY <1>1 DEF AgentSessionState, AgentRemoveSession
<1>8. Fair(AgentEnsureSession(body, container)) /\ Fair(AgentStopSession(body, container))
  BY <1>1 DEF AgentEnsureSession, AgentStopSession
<1>9. Fair(AgentWriteBatch(body, container))
  BY <1>1, <1>4 DEF AgentWriteBatch
<1>10. Fair(AgentReadSessionFile(body, container))
  BY <1>1, <1>3 DEF AgentReadSessionFile
<1>11. Fair(AgentFileExists(body, container))
  BY <1>1, <1>4 DEF AgentFileExists
<1>12. Fair(AgentListSessionFiles(body, container))
  BY <1>1, <1>4 DEF AgentListSessionFiles
<1>13. Fair(AgentStartOpencode(body, container))
  BY <1>1, <1>4 DEF AgentStartOpencode
<1>14. AgentProxy(container).code \in Codes
  BY CodesAre, AnswerCodes DEF AgentProxy
<1>15. CASE route \notin {"proxy", "exec"}
  <2>1. Fair(AgentDispatch(route, body, container))
    BY <1>1, <1>7, <1>8, <1>9, <1>10, <1>11, <1>12, <1>13, <1>15 DEF AgentDispatch, Routes, RowRoutes
  <2> QED
    BY <2>1 DEF Fair
<1>16. CASE route = "exec"
  <2>1. \/ AgentDispatch(route, body, container) = Invalid
        \/ AgentDispatch(route, body, container) = AgentExecCommand(body, container)
    BY <1>16 DEF AgentDispatch
  <2> QED
    BY <1>1, <1>5, <1>6, <1>16, <2>1 DEF Fair
<1>17. CASE route = "proxy"
  BY <1>14, <1>17 DEF AgentDispatch
<1> QED
  BY <1>15, <1>16, <1>17

\* A client's path is matched by what follows the session.
LEMMA MatchOfRest ==
  ASSUME NEW verb, NEW id \in Ids, NEW T, NEW rest \in Seq(T), Whole(rest)
  PROVE  MatchSessionRoute(verb, <<"sessions", id>> \o rest) = MatchOf(verb, id, rest)
<1> DEFINE path == <<"sessions", id>> \o rest
           S == T \cup {"sessions", id}
<1>1. id # "" /\ "sessions" # ""
  BY DEF Ids
<1>2. /\ path \in Seq(S) /\ Len(rest) \in Nat /\ Len(path) = Len(rest) + 2
      /\ path[1] = "sessions" /\ path[2] = id
      /\ \A i \in 3 .. Len(path) : path[i] = rest[i - 2]
  OBVIOUS
<1>3. Whole(path)
  <2>1. ASSUME NEW i \in DOMAIN path
        PROVE  i \notin {1, 2} => i \in 3 .. Len(path) /\ i - 2 \in DOMAIN rest
    OBVIOUS
  <2> HIDE DEF path
  <2> QED
    BY <1>1, <1>2, <2>1, Zenon DEF Whole
<1>4. NonEmpty(path) = path
  BY <1>2, <1>3, NonEmptyKeeps
<1>5. SubSeq(path, 3, Len(path)) = rest
  <2>1. Len(SubSeq(path, 3, Len(path))) = Len(rest)
    BY <1>2
  <2>2. \A i \in 1 .. Len(rest) : SubSeq(path, 3, Len(path))[i] = rest[i]
    BY <1>2
  <2>3. SubSeq(path, 3, Len(path)) \in Seq(S)
    BY <1>2
  <2> HIDE DEF path
  <2> QED
    BY <2>1, <2>2, <2>3
<1>6. ~(Len(path) < 2)
  BY <1>2
<1> HIDE DEF path
<1>7. MatchSessionRoute(verb, path) = MatchOf(verb, id, rest)
  BY <1>2, <1>4, <1>5, <1>6, MatchIs, Zenon
<1> QED
  BY <1>7 DEF path

\* The rest of a client's path is read as it stands.
LEMMA ShortRests ==
  ASSUME NEW a, NEW b
  PROVE  /\ a # "" => <<a>> \in Seq({a}) /\ Whole(<<a>>) /\ <<a>> # <<>> /\ <<a>>[1] = a
         /\ a # "" /\ b # "" =>
              <<a, b>> \in Seq({a, b}) /\ Whole(<<a, b>>) /\ <<a, b>> # <<>> /\ <<a, b>>[1] = a
<1>1. <<a>> \in Seq({a}) /\ <<a, b>> \in Seq({a, b})
  OBVIOUS
<1>2. <<a>> # <<>> /\ <<a>>[1] = a /\ <<a, b>> # <<>> /\ <<a, b>>[1] = a /\ <<a, b>>[2] = b
  OBVIOUS
<1>3. DOMAIN <<a>> = {1} /\ DOMAIN <<a, b>> = {1, 2}
  OBVIOUS
<1>4. a # "" => Whole(<<a>>)
  BY <1>2, <1>3, Zenon DEF Whole
<1>5. a # "" /\ b # "" => Whole(<<a, b>>)
  BY <1>2, <1>3, Zenon DEF Whole
<1> QED
  BY <1>1, <1>2, <1>4, <1>5, Zenon

\* The path a client method builds reaches the operation it means.
LEMMA ClientPath ==
  ASSUME NEW m \in DOMAIN ClientMethods, NEW id \in Ids
  PROVE  MatchSessionRoute(ClientMethods[m][1], SessionRoute(id, m)).route = ClientMethods[m][2]
<1>1. m \in {"state", "remove", "ensure", "stop", "exec", "writeBatch", "readFile", "exists", "listFiles",
             "opencodeStart", "proxy", "snapshot", "snapshotRestore"}
  BY DEF ClientMethods
<1>2. \A r : Matched(id, r).route = r
  BY DEF Matched
<1>3. ASSUME NEW a, a # "", a # "proxy"
      PROVE  MatchSessionRoute("POST", <<"sessions", id>> \o <<a>>) = MatchRow(id, <<a>>)
  <2>1. <<a>> \in Seq({a}) /\ Whole(<<a>>) /\ <<a>> # <<>> /\ <<a>>[1] = a
    BY <1>3, ShortRests, Zenon
  <2> DEFINE rest == <<a>>
  <2> HIDE DEF rest
  <2>2. MatchSessionRoute("POST", <<"sessions", id>> \o rest) = MatchOf("POST", id, rest)
    BY <2>1, MatchOfRest, Zenon DEF rest
  <2>3. MatchOf("POST", id, rest) = MatchRow(id, rest)
    BY <1>3, <2>1, Zenon DEF MatchOf, rest
  <2> QED
    BY <2>2, <2>3, Zenon DEF rest
<1>4. ASSUME NEW a, NEW b, a # "", b # "", a # "proxy"
      PROVE  MatchSessionRoute("POST", <<"sessions", id>> \o <<a, b>>) = MatchRow(id, <<a, b>>)
  <2>1. <<a, b>> \in Seq({a, b}) /\ Whole(<<a, b>>) /\ <<a, b>> # <<>> /\ <<a, b>>[1] = a
    BY <1>4, ShortRests, Zenon
  <2> DEFINE rest == <<a, b>>
  <2> HIDE DEF rest
  <2>2. MatchSessionRoute("POST", <<"sessions", id>> \o rest) = MatchOf("POST", id, rest)
    BY <2>1, MatchOfRest, Zenon DEF rest
  <2>3. MatchOf("POST", id, rest) = MatchRow(id, rest)
    BY <1>4, <2>1, Zenon DEF MatchOf, rest
  <2> QED
    BY <2>2, <2>3, Zenon DEF rest
<1>5. CASE m \in {"state", "remove"}
  <2>1. SessionRoute(id, m) = <<"sessions", id>> \o <<>>
    BY <1>5 DEF SessionRoute
  <2>2. ClientMethods[m] = IF m = "state" THEN <<"GET", "state">> ELSE <<"DELETE", "remove">>
    BY <1>5 DEF ClientMethods
  <2>3. <<>> \in Seq({}) /\ Whole(<<>>)
    BY DEF Whole
  <2>4. MatchSessionRoute(ClientMethods[m][1], SessionRoute(id, m)) = MatchOf(ClientMethods[m][1], id, <<>>)
    BY <2>1, <2>3, MatchOfRest
  <2> QED
    BY <1>2, <1>5, <2>2, <2>4 DEF MatchOf
<1>6. CASE m \in {"ensure", "stop", "exec", "snapshot"}
  <2>1. SessionRoute(id, m) = <<"sessions", id>> \o <<m>>
    BY <1>6 DEF SessionRoute
  <2>2. ClientMethods[m] = <<"POST", m>>
    BY <1>6 DEF ClientMethods
  <2>3. MatchRow(id, <<m>>) = Matched(id, m)
    BY <1>6 DEF MatchRow
  <2>4. m # "" /\ m # "proxy"
    BY <1>6
  <2> QED
    <3>1. MatchSessionRoute("POST", <<"sessions", id>> \o <<m>>) = MatchRow(id, <<m>>)
      BY <1>3, <2>4
    <3>2. ClientMethods[m][1] = "POST" /\ ClientMethods[m][2] = m
      BY <2>2
    <3> QED
      BY <1>2, <2>1, <2>3, <3>1, <3>2, Zenon
<1> DEFINE Row(a, b, r) == /\ SessionRoute(id, m) = <<"sessions", id>> \o <<a, b>>
                           /\ ClientMethods[m] = <<"POST", r>>
                           /\ MatchRow(id, <<a, b>>) = Matched(id, r)
<1>7. ASSUME NEW a, NEW b, NEW r, a # "", b # "", a # "proxy", Row(a, b, r)
      PROVE  MatchSessionRoute(ClientMethods[m][1], SessionRoute(id, m)).route = ClientMethods[m][2]
  <2>1. MatchSessionRoute("POST", <<"sessions", id>> \o <<a, b>>) = MatchRow(id, <<a, b>>)
    BY <1>4, <1>7, Zenon
  <2>2. ClientMethods[m][1] = "POST" /\ ClientMethods[m][2] = r
    <3>1. ClientMethods[m] = <<"POST", r>>
      BY <1>7, Zenon
    <3> QED
      BY <3>1
  <2> QED
    BY <1>2, <1>7, <2>1, <2>2, Zenon
<1>8. CASE m = "writeBatch"
  <2>1. Row("files", "write-batch", "write-batch")
    BY <1>8 DEF SessionRoute, ClientMethods, MatchRow
  <2>2. "files" # "" /\ "write-batch" # "" /\ "files" # "proxy"
    OBVIOUS
  <2> HIDE DEF Row
  <2> QED
    BY <1>7, <2>1, <2>2, Zenon
<1>9. CASE m = "readFile"
  <2>1. Row("files", "read", "read")
    BY <1>9 DEF SessionRoute, ClientMethods, MatchRow
  <2>2. "files" # "" /\ "read" # "" /\ "files" # "proxy"
    OBVIOUS
  <2> HIDE DEF Row
  <2> QED
    BY <1>7, <2>1, <2>2, Zenon
<1>10. CASE m = "exists"
  <2>1. Row("files", "exists", "exists")
    BY <1>10 DEF SessionRoute, ClientMethods, MatchRow
  <2>2. "files" # "" /\ "exists" # "" /\ "files" # "proxy"
    OBVIOUS
  <2> HIDE DEF Row
  <2> QED
    BY <1>7, <2>1, <2>2, Zenon
<1>11. CASE m = "listFiles"
  <2>1. Row("files", "list", "list")
    BY <1>11 DEF SessionRoute, ClientMethods, MatchRow
  <2>2. "files" # "" /\ "list" # "" /\ "files" # "proxy"
    OBVIOUS
  <2> HIDE DEF Row
  <2> QED
    BY <1>7, <2>1, <2>2, Zenon
<1>12. CASE m = "opencodeStart"
  <2>1. Row("opencode", "start", "opencode-start")
    BY <1>12 DEF SessionRoute, ClientMethods, MatchRow
  <2>2. "opencode" # "" /\ "start" # "" /\ "opencode" # "proxy"
    OBVIOUS
  <2> HIDE DEF Row
  <2> QED
    BY <1>7, <2>1, <2>2, Zenon
<1>13. CASE m = "snapshotRestore"
  <2>1. Row("snapshot", "restore", "snapshot-restore")
    BY <1>13 DEF SessionRoute, ClientMethods, MatchRow
  <2>2. "snapshot" # "" /\ "restore" # "" /\ "snapshot" # "proxy"
    OBVIOUS
  <2> HIDE DEF Row
  <2> QED
    BY <1>7, <2>1, <2>2, Zenon
<1>14. CASE m = "proxy"
  <2> DEFINE rest == <<"proxy", "session", "list">>
  <2>1. SessionRoute(id, m) = <<"sessions", id>> \o rest
    BY <1>14 DEF SessionRoute
  <2>2. ClientMethods[m] = <<"GET", "proxy">>
    BY <1>14 DEF ClientMethods
  <2>3. rest \in Seq({"proxy", "session", "list"}) /\ rest # <<>> /\ rest[1] = "proxy"
    OBVIOUS
  <2>4. Whole(rest)
    <3>1. DOMAIN rest = {1, 2, 3} /\ rest[2] = "session" /\ rest[3] = "list"
      OBVIOUS
    <3>2. "proxy" # "" /\ "session" # "" /\ "list" # ""
      OBVIOUS
    <3> HIDE DEF rest
    <3> QED
      BY <2>3, <3>1, <3>2, Zenon DEF Whole
  <2> HIDE DEF rest
  <2>5. MatchSessionRoute("GET", SessionRoute(id, m)) = MatchOf("GET", id, rest)
    BY <2>1, <2>3, <2>4, MatchOfRest, Zenon
  <2>6. MatchOf("GET", id, rest).route = "proxy"
    BY <2>3 DEF MatchOf
  <2> QED
    BY <2>2, <2>5, <2>6
<1> QED
  BY <1>1, <1>5, <1>6, <1>8, <1>9, <1>10, <1>11, <1>12, <1>13, <1>14

\* Both answers are the hosts' own, and what the client saw is what it reads
\* of them.
BothAnswers == [h \in Hosts |-> IF h = "cloudflare" THEN CfFetch(exchange) ELSE AgentHandle(exchange)]
BothRead == [h \in Hosts |-> ClientReads(answers[h], exchange.wire, Route)]

ProtocolInv ==
    /\ IsExchange(exchange)
    /\ answers \in {NoAnswers, BothAnswers}
    /\ seen = Unseen \/ (answers = BothAnswers /\ seen = BothRead)

\* The invariant holds from the start and every step keeps it.
LEMMA ProtocolInvHolds == ProtocolSpec => []ProtocolInv
<1>1. ProtocolInit => ProtocolInv
  BY ExchangesAssumption DEF ProtocolInit, ProtocolInv
<1>2. ProtocolInv /\ [ProtocolNext]_protocolVars => ProtocolInv'
  <2> SUFFICES ASSUME ProtocolInv, [ProtocolNext]_protocolVars
               PROVE  ProtocolInv'
    OBVIOUS
  <2>1. CASE HostsAnswer
    <3>1. exchange' = exchange /\ seen' = seen /\ answers = NoAnswers
      BY <2>1 DEF HostsAnswer
    <3>2. BothAnswers' = BothAnswers /\ answers' = BothAnswers
      BY <2>1, <3>1 DEF HostsAnswer, BothAnswers
    <3>3. NoAnswers' = NoAnswers /\ Unseen' = Unseen
      BY DEF NoAnswers, Unseen
    <3>4. seen = Unseen \/ (answers' = BothAnswers' /\ seen' = BothRead')
      <4>1. CASE seen = Unseen
        BY <4>1
      <4>2. CASE seen # Unseen
        <5>1. answers = BothAnswers /\ seen = BothRead
          BY <4>2 DEF ProtocolInv
        <5>2. BothRead' = BothRead
          BY <3>1, <3>2, <5>1 DEF BothRead, Route
        <5> QED
          BY <3>1, <3>2, <5>1, <5>2
      <4> QED
        BY <4>1, <4>2
    <3> QED
      BY <3>1, <3>2, <3>3, <3>4 DEF ProtocolInv
  <2>2. CASE ClientSees
    <3>1. exchange' = exchange /\ answers' = answers /\ answers # NoAnswers
      BY <2>2 DEF ClientSees
    <3>2. BothAnswers' = BothAnswers /\ answers = BothAnswers
      BY <3>1 DEF ProtocolInv, BothAnswers
    <3>3. NoAnswers' = NoAnswers /\ Unseen' = Unseen /\ BothRead' = BothRead
      BY <3>1 DEF NoAnswers, Unseen, BothRead, Route
    <3>4. seen' = BothRead
      BY <2>2 DEF ClientSees, BothRead
    <3> QED
      BY <3>1, <3>2, <3>3, <3>4 DEF ProtocolInv
  <2>3. CASE UNCHANGED protocolVars
    <3>1. exchange' = exchange /\ answers' = answers /\ seen' = seen
      BY <2>3 DEF protocolVars
    <3> QED
      BY <3>1 DEF ProtocolInv, BothAnswers, BothRead, Route, NoAnswers, Unseen
  <2> QED
    BY <2>1, <2>2, <2>3 DEF ProtocolNext
<1> QED
  BY <1>1, <1>2, PTL DEF ProtocolSpec

\* Outside the known differences both hosts answer an exchange alike.
LEMMA ExchangeAgrees ==
  ASSUME IsExchange(exchange), ~KnownDifference
  PROVE  CfFetch(exchange) = AgentHandle(exchange)
<1>1. exchange.path \in Seq(STRING) /\ IsJson(exchange.body) /\ exchange.box \in Boxes
      /\ (exchange.box.running => exchange.box.exists)
  BY DEF IsExchange
<1> DEFINE match == MatchSessionRoute(exchange.verb, exchange.path)
<1>2. AgentMatch(exchange.verb, exchange.path) = match /\ (match = NoMatch \/ match.route \in Routes)
  BY <1>1, MatchesAgree
<1>3. Route = match.route
  BY DEF Route
<1>4. CfFetch(exchange) =
        IF match = NoMatch THEN Invalid ELSE CfDispatch(match.route, exchange.body, exchange.box)
  BY DEF CfFetch
<1>5. AgentHandle(exchange) =
        IF match = NoMatch THEN Invalid ELSE AgentDispatch(match.route, exchange.body, exchange.box)
  BY <1>2, Zenon DEF AgentHandle
<1> HIDE DEF match
<1>6. ~Differ(match.route, exchange.body, exchange.box)
  BY <1>3 DEF KnownDifference, Differ
<1> QED
  BY <1>1, <1>2, <1>4, <1>5, <1>6, AnswersAgree

\* HostsAgree: whatever is asked of whatever container, both hosts answer it
\* alike, apart from the differences KnownDifference names.
THEOREM HostsAgreeHolds == ProtocolSpec => []HostsAgree
<1>1. ProtocolInv => HostsAgree
  <2> SUFFICES ASSUME ProtocolInv, Answered, ~KnownDifference
               PROVE  answers["cloudflare"] = answers["docker"]
    BY DEF HostsAgree
  <2>1. answers = BothAnswers
    BY DEF ProtocolInv, Answered
  <2>2. CfFetch(exchange) = AgentHandle(exchange)
    BY ExchangeAgrees DEF ProtocolInv
  <2> QED
    BY <2>1, <2>2 DEF BothAnswers, Hosts
<1> QED
  BY <1>1, ProtocolInvHolds, PTL

\* An answer says the container is gone only if it is, or if the agent misreads.
LEMMA ExchangeCodes ==
  ASSUME IsExchange(exchange)
  PROVE  /\ CfFetch(exchange).code \in Codes /\ AgentHandle(exchange).code \in Codes
         /\ CfFetch(exchange).code = "CONTAINER_NOT_RUNNING" => ~exchange.box.running
         /\ AgentHandle(exchange).code = "CONTAINER_NOT_RUNNING" =>
              ~exchange.box.running \/ Route = "proxy" \/ (Route = "exec" /\ Misread(exchange.box))
<1>1. exchange.path \in Seq(STRING) /\ IsJson(exchange.body) /\ exchange.box \in Boxes
  BY DEF IsExchange
<1> DEFINE match == MatchSessionRoute(exchange.verb, exchange.path)
<1>2. AgentMatch(exchange.verb, exchange.path) = match /\ (match = NoMatch \/ match.route \in Routes)
  BY <1>1, MatchesAgree
<1>3. Route = match.route
  BY DEF Route
<1>4. CfFetch(exchange) =
        IF match = NoMatch THEN Invalid ELSE CfDispatch(match.route, exchange.body, exchange.box)
  BY DEF CfFetch
<1>5. AgentHandle(exchange) =
        IF match = NoMatch THEN Invalid ELSE AgentDispatch(match.route, exchange.body, exchange.box)
  BY <1>2, Zenon DEF AgentHandle
<1>6. Invalid.code \in Codes /\ Invalid.code # "CONTAINER_NOT_RUNNING"
  BY CodesAre, AnswerCodes
<1> HIDE DEF match
<1>7. CASE match = NoMatch
  BY <1>4, <1>5, <1>6, <1>7
<1>8. CASE match # NoMatch
  <2>1. match.route \in Routes
    BY <1>2, <1>8
  <2> QED
    BY <1>1, <1>3, <1>4, <1>5, <1>8, <2>1, CfCodes, AgentCodes
<1> QED
  BY <1>7, <1>8

\* What the client makes of an answer whose code is one of the protocol's.
LEMMA ReadsAre ==
  ASSUME NEW answer, answer.code \in Codes, NEW wire \in Wires, NEW route
  PROVE  LET read == ClientReads(answer, wire, route) IN
         /\ read = "CONTAINER_NOT_RUNNING" =>
              route # "proxy" /\ (wire = "page503" \/ answer.code = "CONTAINER_NOT_RUNNING")
         /\ route # "proxy" =>
              IF wire = "clean" THEN read = answer.code
              ELSE read \in {"transport", "HOST_ERROR", "CONTAINER_NOT_RUNNING"}
<1>1. CASE wire = "clean"
  BY <1>1, CodesAre DEF ClientReads, HostErrorFrom
<1>2. CASE wire = "dropped"
  BY <1>2 DEF ClientReads
<1>3. CASE wire \in {"page503", "page502"}
  BY <1>3 DEF ClientReads, HostErrorFrom, Page
<1>4. CASE wire = "cut"
  BY <1>4, CodesAre DEF ClientReads, HostErrorFrom
<1> QED
  BY <1>1, <1>2, <1>3, <1>4 DEF Wires

\* ClientUnderstands: a client's path reaches its operation on either host, a
\* container is taken for gone only if it is (or a proxy says 503, or the agent
\* misreads), and an error arrives as the error it was.
THEOREM ClientUnderstandsHolds == ProtocolSpec => []ClientUnderstands
<1>1. ProtocolInv => ClientReachesItsRoute
  <2> SUFFICES ASSUME ProtocolInv, exchange.method # "raw"
               PROVE  /\ Route = ClientMethods[exchange.method][2]
                      /\ AgentMatch(exchange.verb, exchange.path) = MatchSessionRoute(exchange.verb, exchange.path)
    BY DEF ClientReachesItsRoute
  <2>1. IsExchange(exchange)
    BY DEF ProtocolInv
  <2>2. PICK id \in Ids : exchange.path = SessionRoute(id, exchange.method)
    BY <2>1 DEF IsExchange
  <2>3. exchange.method \in DOMAIN ClientMethods /\ exchange.verb = ClientMethods[exchange.method][1]
        /\ exchange.path \in Seq(STRING)
    BY <2>1 DEF IsExchange
  <2>4. Route = ClientMethods[exchange.method][2]
    BY <2>2, <2>3, ClientPath DEF Route
  <2> QED
    BY <2>3, <2>4, MatchesAgree
<1>2. ProtocolInv => GoneIsGone /\ ErrorsArrive
  <2> SUFFICES ASSUME ProtocolInv
               PROVE  GoneIsGone /\ ErrorsArrive
    OBVIOUS
  <2>1. CASE seen = Unseen
    <3>1. \A h \in Hosts : seen[h] = "none"
      BY <2>1 DEF Unseen
    <3> QED
      BY <3>1 DEF GoneIsGone, ErrorsArrive, IsContainerNotRunning
  <2>2. CASE seen # Unseen
    <3>1. answers = BothAnswers /\ seen = BothRead /\ IsExchange(exchange) /\ exchange.wire \in Wires
      BY <2>2 DEF ProtocolInv, IsExchange
    <3>2. ASSUME NEW h \in Hosts
          PROVE  /\ seen[h] = ClientReads(answers[h], exchange.wire, Route)
                 /\ answers[h].code \in Codes
                 /\ answers[h].code = "CONTAINER_NOT_RUNNING" =>
                      ~exchange.box.running \/ Route = "proxy"
                      \/ (h = "docker" /\ Route = "exec" /\ Misread(exchange.box))
      <4>1. seen[h] = ClientReads(answers[h], exchange.wire, Route)
        BY <3>1 DEF BothRead
      <4>2. answers[h] = IF h = "cloudflare" THEN CfFetch(exchange) ELSE AgentHandle(exchange)
        BY <3>1 DEF BothAnswers
      <4>3. h \in {"cloudflare", "docker"}
        BY DEF Hosts
      <4> QED
        BY <3>1, <4>1, <4>2, <4>3, ExchangeCodes
    <3>3. ASSUME NEW h \in Hosts
          PROVE  /\ seen[h] = "CONTAINER_NOT_RUNNING" =>
                      Route # "proxy" /\ (exchange.wire = "page503" \/ answers[h].code = "CONTAINER_NOT_RUNNING")
                 /\ Route # "proxy" =>
                      IF exchange.wire = "clean" THEN seen[h] = answers[h].code
                      ELSE seen[h] \in {"transport", "HOST_ERROR", "CONTAINER_NOT_RUNNING"}
      BY <3>1, <3>2, ReadsAre
    <3> QED
      BY <3>2, <3>3 DEF GoneIsGone, ErrorsArrive, IsContainerNotRunning
  <2> QED
    BY <2>1, <2>2
<1> QED
  BY <1>1, <1>2, ProtocolInvHolds, PTL DEF ClientUnderstands
=============================================================================
