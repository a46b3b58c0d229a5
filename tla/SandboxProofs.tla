---------------------------- MODULE SandboxProofs ----------------------------
(***************************************************************************)
(* Proofs about SandboxRuntime, for any requests, hosts, epochs, work,     *)
(* snapshots, faults and purges.                                           *)
(*                                                                         *)
(* The inductive invariant is layered: who has the turn and who waits for  *)
(* whom; what memory says of the identity, and how far a purge has come;   *)
(* which archives exist; which workspaces have been restored; what a stop  *)
(* may rely on past its drain.  The properties follow from its layers.     *)
(* Where a wake may restore beside a manual checkpoint (Overlaps), the     *)
(* workspace layer is false, as the run on MCSandboxMarker shows.          *)
(***************************************************************************)
EXTENDS SandboxRuntime, FiniteSetTheorems, TLAPS

-----------------------------------------------------------------------------
\* The shape of the state

Places ==
    {"start", "config", "restoring", "restored", "failed", "phase", "draining", "drained",
     "saving", "saved"}

\* A wake or a stop in its turn; the operation ids of forced stops are apart.
Mutations ==
    {m \in [kind : Kinds, epoch : Epochs, op : Nat] :
        m.op = IF m.kind = "force" THEN m.epoch + MaxEpoch ELSE m.epoch}

Handles == Handle \cup {NoBackup}
Memory == [ident : Identities, active : BOOLEAN, purge : BOOLEAN]
Restores ==
    [at : RestoreSteps, for : SUBSET {"wake", "checkpoint"}, fresh : BOOLEAN, handle : Handles]
Checkpoints == [at : CpSteps, known : SUBSET Handle, new : Handles]
OpSteps == {"none", "asked", "begun", "sent", "saving"}
Does == {"none", "session", "work", "abort", "read", "write", "checkpoint"}
Operations == [at : OpSteps, does : Does, epoch : Nat]
Purges == [at : PurgeSteps, known : SUBSET Handle]
Counters ==
    [work : Nat, snapshots : Nat, calls : Nat, epoch : Nat, faults : Nat, purges : Nat]

Shape ==
    /\ snapshots \in BOOLEAN
    /\ mem \in Memory
    /\ disk \in Disk
    /\ gate \in RuntimeGate
    /\ believed \in BOOLEAN
    /\ box \in Box
    /\ bucket \subseteq Handle
    /\ lock \in Seq(Mutations) /\ at \in Places
    /\ restore \in Restores
    /\ cp \in Checkpoints
    /\ cp.at \in {"put", "stale"} => cp.new \in Handle
    /\ ops \in [Callers -> Operations]
    /\ purge \in [PurgeKinds -> Purges]
    /\ outcome \in PurgeKinds \cup {"none"}
    /\ used \in Counters

-----------------------------------------------------------------------------
\* Turns and waiting

\* A wake that has its turn is behind a gate that says so, and so is a stop.
TurnSound ==
    /\ lock = <<>> => at = "start"
    /\ at # "start" =>
          \/ /\ call.kind = "wake" /\ gate.phase = "waking"
             /\ at \in {"config", "restoring", "restored", "failed"}
          \/ /\ call.kind \in Stops /\ gate.phase \in StopPhases /\ gate.op = call.op
             /\ at \in {"phase", "draining", "drained", "saving", "saved", "failed"}
    /\ at \in {"draining", "drained"} => gate.phase = "quiescing"
    /\ at \in {"saving", "saved"} => gate.phase = "checkpointing"

\* Whoever waits is served, and nothing is under way that nobody waits for.
WaitSound ==
    /\ WaitersAreServed
    /\ "wake" \in restore.for => at = "restoring"
    /\ "checkpoint" \in restore.for => cp.at = "restore"
    /\ restore.at # "none" => restore.for # {}
    /\ cp.at # "none" => at = "saving" \/ \E c \in Callers : ops[c].at = "saving"

-----------------------------------------------------------------------------
\* Identity, purge and cleanup

Quiet == lock = <<>> /\ Counted(ops) = {} /\ restore.at = "none" /\ cp.at = "none"

\* What memory says of the identity agrees with storage.
IdentSound ==
    /\ mem.active => mem.ident = "active" /\ ~mem.purge
    /\ mem.ident = "active" <=> disk.ident = "active"
    /\ mem.ident = "none" => disk.ident = "none"
    /\ disk.purge => mem.purge
    /\ disk.ident = "none" => Quiet /\ box = NoBox /\ bucket = {}
    /\ ~snapshots => bucket = {} /\ cp.at = "none" /\ disk.latest = NoBackup

\* How far a purge or a cleanup has come, and what it has left.
PurgeSound ==
    /\ \A k \in PurgeKinds :
          /\ purge[k].at # "none" => mem.purge
          /\ purge[k].at \in {"drain", "remove", "objects", "forget"} => mem.ident = "deleting"
          /\ purge[k].at \in {"remove", "objects", "forget"} =>
                Quiet /\ (snapshots => bucket \subseteq purge[k].known)
          /\ purge[k].at \in {"objects", "forget"} => box = NoBox
          /\ purge[k].at = "forget" => bucket = {}
    /\ outcome # "none" =>
          Quiet /\ box = NoBox /\ bucket = {} /\ mem.ident # "active" /\ disk.ident # "active"

-----------------------------------------------------------------------------
\* Archives

\* The archive that counts exists; a new one is apart from it until it is recorded.
BackupSound ==
    /\ disk.latest.id <= used.snapshots
    /\ cp.at = "put" =>
          cp.new \in bucket /\ cp.new.id = used.snapshots /\ disk.latest.id < used.snapshots
    /\ cp.at = "stale" => disk.latest = cp.new
    /\ ~disk.purge /\ disk.latest # NoBackup => disk.latest \in bucket
    /\ \A k \in PurgeKinds :
          purge[k].at \in {"drain", "remove", "objects", "forget"} /\ ~disk.purge =>
              disk.latest = NoBackup /\ Quiet

\* The workspace in the container is the archive that counts or newer, or there
\* is no such archive and a conversation that was there is recorded as lost.
Restored ==
    \/ disk.latest # NoBackup /\ box.content >= disk.latest.content
    \/ disk.latest = NoBackup /\ (box.content >= disk.target \/ disk.lost)

\* Work is numbered in order.
WorkBounded ==
    /\ box.content <= used.work /\ disk.target <= used.work
    /\ disk.latest.content <= used.work /\ cp.new.content <= used.work
    /\ restore.handle.content <= used.work

\* A workspace that carries the marker has been restored.
WorkSound ==
    /\ ~box.up /\ snapshots => box = NoBox
    /\ ~box.vol /\ ~snapshots => box = NoBox
    /\ restore.at # "none" => cp.at \in {"none", "restore"}
    /\ at = "restored" => restore.at = "none" /\ (box.up /\ snapshots => box.marker)
    /\ restore.at = "ensured" /\ restore.fresh /\ ~snapshots => ~box.marker
    /\ restore.at \in {"read", "unpack"} => ~box.marker
    /\ restore.at = "unpack" => restore.handle = disk.latest /\ disk.latest # NoBackup
    /\ restore.at = "mark" /\ box.up /\ ~box.marker => disk.latest = NoBackup
    /\ cp.at \in {"mark", "snap", "put", "stale"} /\ box.up => box.marker
    /\ snapshots /\ box.up /\ (box.marker \/ restore.at = "mark") => Restored
    /\ cp.at = "put" /\ box.up => box.content >= cp.new.content
    /\ cp.at = "put" /\ disk.latest # NoBackup => cp.new.content >= disk.latest.content
    /\ cp.at \in {"none", "restore", "mark", "snap"} => cp.new = NoBackup

-----------------------------------------------------------------------------
\* Stops

IdleStop == gate.op <= MaxEpoch

\* Past its drain a stop has no admitted request left, an idle one no turn of
\* OpenCode, and what it has archived is what is in the container.
StopSound ==
    /\ at = "drained" \/ gate.phase \in {"checkpointing", "stopping"} =>
          \A c \in Callers : ops[c].at \notin {"sent", "saving"}
    /\ gate.phase \in {"checkpointing", "stopping"} /\ IdleStop => ~box.working
    /\ gate.phase = "checkpointing" /\ IdleStop /\ box.up /\ cp.at \in {"put", "stale"} =>
          cp.new.content = box.content
    /\ (gate.phase = "stopping" \/ at = "saved") /\ snapshots /\ IdleStop /\ box.up =>
              disk.latest # NoBackup /\ disk.latest.content = box.content

-----------------------------------------------------------------------------
\* Values

\* What the assumption on the constants says of them.
LEMMA Bounds ==
  MaxEpoch \in Nat /\ Hosts \subseteq BOOLEAN /\ IsFiniteSet(Callers)
  BY SandboxAssumption

\* The gate that an action writes.
LEMMA GateType ==
  ASSUME NEW phase \in Phases, NEW epoch \in Nat, NEW op \in Nat
  PROVE  /\ Gate(phase, epoch, op) \in RuntimeGate
         /\ Gate(phase, epoch, op).phase = phase /\ Gate(phase, epoch, op).epoch = epoch
         /\ Gate(phase, epoch, op).op = op
  BY DEF Gate, RuntimeGate

\* The values that stand for nothing.
LEMMA NothingType ==
  /\ NoBackup \in Handles /\ NoBackup.id = 0 /\ NoBackup.content = 0 /\ NoBackup \notin Handle
  /\ NoGate \in RuntimeGate /\ NoGate.phase = "unset" /\ NoGate.op = 0
  /\ NoBox \in Box /\ ~NoBox.up /\ ~NoBox.vol /\ NoBox.content = 0 /\ ~NoBox.marker /\ ~NoBox.working
  /\ NoRestore \in Restores /\ NoRestore.at = "none" /\ NoRestore.for = {}
  /\ NoCp \in Checkpoints /\ NoCp.at = "none" /\ NoCp.new = NoBackup
  /\ NoOps \in Operations /\ NoOps.at = "none"
  /\ NoPurge \in Purges /\ NoPurge.at = "none"
  /\ Wiped \in Disk /\ Wiped.ident = "none" /\ ~Wiped.purge /\ Wiped.latest = NoBackup
  /\ Wiped.target = 0
<1>0. /\ FALSE \in BOOLEAN /\ TRUE \in BOOLEAN /\ 0 \in Nat /\ {} \in SUBSET Handle
      /\ {} \in SUBSET {"wake", "checkpoint"}
  OBVIOUS
<1>1. /\ NoBackup \in Handles /\ NoBackup.id = 0 /\ NoBackup.content = 0 /\ NoBackup \notin Handle
  BY DEF NoBackup, Handles, Handle
<1>2. NoGate \in RuntimeGate /\ NoGate.phase = "unset" /\ NoGate.op = 0
  BY GateType DEF NoGate, Phases, NoEpoch, NoOp
<1>3. /\ NoBox \in Box /\ ~NoBox.up /\ ~NoBox.vol /\ NoBox.content = 0 /\ ~NoBox.marker /\ ~NoBox.working
  BY DEF NoBox, Box
<1>4. NoRestore \in Restores /\ NoRestore.at = "none" /\ NoRestore.for = {}
  <2>1. "none" \in RestoreSteps
    BY DEF RestoreSteps
  <2> QED
    BY <1>0, <1>1, <2>1, Zenon DEF NoRestore, Restores
<1>5. NoCp \in Checkpoints /\ NoCp.at = "none" /\ NoCp.new = NoBackup
  <2>1. "none" \in CpSteps
    BY DEF CpSteps
  <2> QED
    BY <1>0, <1>1, <2>1, Zenon DEF NoCp, Checkpoints
<1>6. NoOps \in Operations /\ NoOps.at = "none"
  BY DEF NoOps, Operations, OpSteps, Does, NoEpoch
<1>7. NoPurge \in Purges /\ NoPurge.at = "none"
  BY DEF NoPurge, Purges, PurgeSteps
<1>8. /\ Wiped \in Disk /\ Wiped.ident = "none" /\ ~Wiped.purge /\ Wiped.latest = NoBackup
      /\ Wiped.target = 0
  <2>1. "none" \in Identities
    BY DEF Identities
  <2> QED
    BY <1>0, <1>1, <2>1, Zenon DEF Wiped, Disk, Handles
<1> QED
  BY <1>1, <1>2, <1>3, <1>4, <1>5, <1>6, <1>7, <1>8

\* A request into the container begins as one of a few kinds.
LEMMA RequestIs ==
  ASSUME NEW c \in Callers, NEW e \in Epochs, Requests(c, e)
  PROVE  \/ CheckpointWorkspace(c, e)
         \/ \E step \in {"asked", "begun", "sent"}, does \in Does :
               /\ Ask(c, step, does, e)
               /\ step # "asked" => Active
               /\ step = "sent" => CurrentRuntime(e)
<1>1. CASE \/ CreateOpencodeSession(c, e) \/ PromptOpencodeSessionAsync(c, e)
           \/ ReplyOpencodeQuestion(c, e) \/ RejectOpencodeQuestion(c, e)
           \/ AbortOpencodeSession(c, e) \/ ListOpencodeSessionMessages(c, e)
           \/ GetOpencodeSessionLineage(c, e) \/ ListOpencodeQuestions(c, e)
           \/ IsOpencodeSessionActive(c, e) \/ RunSdkTest(c, e)
  BY <1>1, Zenon
  DEF CreateOpencodeSession, PromptOpencodeSessionAsync, ReplyOpencodeQuestion,
      RejectOpencodeQuestion, AbortOpencodeSession, ListOpencodeSessionMessages,
      GetOpencodeSessionLineage, ListOpencodeQuestions, IsOpencodeSessionActive, RunSdkTest,
      ClientCall, Does
<1>2. CASE \/ ListWorkspaceDirectory(c, e) \/ ReadWorkspaceFile(c, e)
           \/ DownloadWorkspaceFile(c, e) \/ ReadSessionChanges(c, e)
           \/ WriteArtifactFile(c, e) \/ DeleteArtifactFile(c, e)
  BY <1>2, Zenon
  DEF ListWorkspaceDirectory, ReadWorkspaceFile, DownloadWorkspaceFile, ReadSessionChanges,
      WriteArtifactFile, DeleteArtifactFile, FileCall, Does
<1>3. CASE StreamOpencodeEvents(c, e)
  BY <1>3, Zenon DEF StreamOpencodeEvents, Does
<1> QED
  BY <1>1, <1>2, <1>3 DEF Requests

\* The call that has its turn, and the lock after it.
LEMMA CallType ==
  ASSUME Shape, lock # <<>>
  PROVE  /\ call \in Mutations /\ call.kind \in Kinds /\ call.epoch \in Nat /\ call.op \in Nat
         /\ call.epoch \in Epochs
         /\ Tail(lock) \in Seq(Mutations)
         /\ call.kind # "force" => call.op = call.epoch /\ call.op <= MaxEpoch
         /\ call.kind = "force" => call.op > MaxEpoch
<1>1. call \in Mutations /\ Tail(lock) \in Seq(Mutations)
  BY DEF Shape, call
<1>2. /\ call.kind \in Kinds /\ call.epoch \in Epochs /\ call.op \in Nat
      /\ call.op = IF call.kind = "force" THEN call.epoch + MaxEpoch ELSE call.epoch
  BY <1>1 DEF Mutations
<1> QED
  BY <1>1, <1>2, Bounds DEF Epochs

-----------------------------------------------------------------------------
\* Every step keeps the shape

\* The gate's owner, the container and the requests.
LEMMA ObjectShape ==
  ASSUME Shape,
         \/ InitializeInstance \/ Restart \/ GetInstanceRuntimeStatus
         \/ OpenCodeWorks \/ OpenCodeRests \/ ContainerDies
  PROVE  Shape'
<1>1. CASE InitializeInstance
  <2>1. mem' \in Memory
    <3>1. mem \in Memory /\ "active" \in Identities
      BY DEF Shape, Identities
    <3>2. [mem EXCEPT !.active = TRUE] \in Memory
      BY <3>1 DEF Memory
    <3>3. [ident |-> "active", active |-> TRUE, purge |-> FALSE] \in Memory
      BY <3>1 DEF Memory
    <3> QED
      BY <1>1, <3>2, <3>3, Zenon DEF InitializeInstance
  <2>2. disk' \in Disk
    BY <1>1 DEF InitializeInstance, Shape, Disk, Identities
  <2>3. gate' \in RuntimeGate
    <3>1. Gate("sleeping", NoEpoch, NoOp) \in RuntimeGate
      BY GateType DEF Phases, NoEpoch, NoOp
    <3> QED
      BY <1>1, <3>1, Zenon DEF InitializeInstance, Shape
  <2> QED
    BY <1>1, <2>1, <2>2, <2>3 DEF InitializeInstance, Shape
<1>2. CASE Restart
  <2>1. mem' \in Memory
    BY <1>2 DEF Restart, Shape, Memory, Disk
  <2>2. gate' \in RuntimeGate
    BY <1>2, NothingType DEF Restart, Shape
  <2>3. ops' \in [Callers -> Operations] /\ purge' \in [PurgeKinds -> Purges]
    BY <1>2, NothingType DEF Restart, Shape
  <2>4. lock' \in Seq(Mutations) /\ at' \in Places /\ restore' \in Restores /\ cp' \in Checkpoints
        /\ cp'.at = "none"
    BY <1>2, NothingType DEF Restart, Places
  <2>5. used' \in Counters
    BY <1>2 DEF Restart, Shape, Spend, Counters
  <2> QED
    BY <1>2, <2>1, <2>2, <2>3, <2>4, <2>5 DEF Restart, Shape
<1>3. CASE GetInstanceRuntimeStatus
  BY <1>3 DEF GetInstanceRuntimeStatus, Shape, Box
<1>4. CASE OpenCodeWorks
  <2>1. used' \in Counters
    BY <1>4 DEF OpenCodeWorks, Shape, Spend, Counters
  <2>2. box' \in Box
    BY <1>4 DEF OpenCodeWorks, Shape, Counters, Box
  <2> QED
    BY <1>4, <2>1, <2>2 DEF OpenCodeWorks, Shape
<1>5. CASE OpenCodeRests
  <2>1. box' \in Box
    BY <1>5 DEF OpenCodeRests, Shape, Box
  <2> QED
    BY <1>5, <2>1 DEF OpenCodeRests, Shape
<1>6. CASE ContainerDies
  <2>1. used' \in Counters
    BY <1>6 DEF ContainerDies, Shape, Spend, Counters
  <2>2. Stopped \in Box
    BY NothingType DEF Stopped, Shape, Box
  <2> QED
    BY <1>6, <2>1, <2>2, NothingType DEF ContainerDies, Shape
<1> QED
  BY <1>1, <1>2, <1>3, <1>4, <1>5, <1>6

\* A checkpoint that begins, unless there is one to join.
Begun ==
    /\ cp' = IF cp.at = "none" THEN [NoCp EXCEPT !.at = "restore"] ELSE cp
    /\ restore' = IF cp.at # "none" THEN restore
                  ELSE [restore EXCEPT !.at = IF @ = "none" THEN "ensure" ELSE @,
                                       !.for = @ \cup {"checkpoint"}]

\* What a checkpoint that begins, or is joined, leaves of the restore and of itself.
LEMMA BegunType ==
  ASSUME Shape, Begun
  PROVE  /\ cp' \in Checkpoints /\ restore' \in Restores
         /\ cp'.at # "none" /\ (cp.at # "none" => UNCHANGED <<cp, restore>>)
         /\ cp.at = "none" =>
               /\ cp'.at = "restore" /\ cp'.new = NoBackup
               /\ restore'.at # "none" /\ restore'.for = restore.for \cup {"checkpoint"}
               /\ restore'.at = IF restore.at = "none" THEN "ensure" ELSE restore.at
               /\ restore'.handle = restore.handle /\ restore'.fresh = restore.fresh
<1>1. restore \in Restores /\ cp \in Checkpoints
  BY DEF Shape
<1>2. CASE cp.at # "none"
  BY <1>1, <1>2 DEF Begun
<1>3. CASE cp.at = "none"
  <2> DEFINE step == IF restore.at = "none" THEN "ensure" ELSE restore.at
             for == restore.for \cup {"checkpoint"}
  <2>1. step \in RestoreSteps /\ step # "none" /\ for \in SUBSET {"wake", "checkpoint"}
    BY <1>1 DEF Restores, RestoreSteps
  <2>2. restore' = [restore EXCEPT !.at = step, !.for = for]
    BY <1>3 DEF Begun
  <2> HIDE DEF step, for
  <2>3. /\ restore' \in Restores /\ restore'.at = step /\ restore'.for = for
        /\ restore'.handle = restore.handle /\ restore'.fresh = restore.fresh
    BY <1>1, <2>1, <2>2, Zenon DEF Restores
  <2>4. /\ cp' \in Checkpoints /\ cp'.at = "restore" /\ cp'.new = NoBackup
    <3>1. cp' = [NoCp EXCEPT !.at = "restore"] /\ "restore" \in CpSteps
      BY <1>3 DEF Begun, CpSteps
    <3>2. cp' \in Checkpoints
      BY <3>1, NothingType, Zenon DEF Checkpoints
    <3> QED
      BY <3>1, <3>2 DEF NoCp
  <2> QED
    BY <1>3, <2>1, <2>3, <2>4 DEF step, for
<1> QED
  BY <1>2, <1>3

\* Requests into the container.
LEMMA RequestShape ==
  ASSUME Shape, NEW c \in Callers,
         \/ \E e \in Epochs : Requests(c, e)
         \/ OpStep(c)
  PROVE  Shape'
<1>1. ASSUME NEW e \in Epochs, NEW step \in {"asked", "begun", "sent"}, NEW does \in Does,
             Ask(c, step, does, e)
      PROVE  Shape'
  <2>1. ops' \in [Callers -> Operations]
    <3>1. e \in Nat /\ step \in OpSteps
      BY Bounds DEF Epochs, OpSteps
    <3>2. [at |-> step, does |-> does, epoch |-> e] \in Operations
      BY <3>1 DEF Operations
    <3> QED
      BY <1>1, <3>2 DEF Ask, Shape
  <2> QED
    BY <1>1, <2>1 DEF Ask, Shape
<1>2. ASSUME NEW e \in Epochs, CheckpointWorkspace(c, e)  PROVE Shape'
  <2>1. ops' \in [Callers -> Operations]
    <3>1. [at |-> "saving", does |-> "checkpoint", epoch |-> e] \in Operations
      BY Bounds DEF Epochs, OpSteps, Operations, Does
    <3> QED
      BY <1>2, <3>1 DEF CheckpointWorkspace, Shape
  <2>2. Begun
    BY <1>2 DEF CheckpointWorkspace, Begun
  <2>3. cp' \in Checkpoints /\ restore' \in Restores /\ (cp'.at \in {"put", "stale"} => UNCHANGED cp)
    BY <2>2, BegunType
  <2> QED
    BY <1>2, <2>1, <2>3 DEF CheckpointWorkspace, Shape
<1>3. CASE OpStep(c)
  <2>1. ops' \in [Callers -> Operations] /\ at' \in Places
    <3>1. ops[c] \in Operations /\ [ops[c] EXCEPT !.at = "sent"] \in Operations
      BY DEF Shape, Operations, OpSteps
    <3>2. \E next \in Operations : Leaves(c, next)
      BY <1>3, <3>1, NothingType DEF OpStep, ProxyOpencodeFetch, Answered, Unanswered
    <3> QED
      BY <3>2 DEF Leaves, Shape, Places
  <2>2. used' \in Counters /\ box' \in Box /\ disk' \in Disk
    <3>1. CASE UNCHANGED <<used, box, disk>>
      BY <3>1 DEF Shape
    <3>2. CASE UNCHANGED <<used, disk>> /\ \E w \in BOOLEAN : box' = [box EXCEPT !.working = w]
      BY <3>2 DEF Shape, Box
    <3>3. CASE /\ used.work < MaxWork /\ Spend("work") /\ box' = [box EXCEPT !.content = used.work + 1]
               /\ disk' = IF ops[c].does = "write" THEN disk
                          ELSE [disk EXCEPT !.target = used.work + 1]
      <4>1. used.work + 1 \in Nat /\ used' \in Counters
        <5>1. used \in Counters /\ used' = [used EXCEPT !["work"] = @ + 1]
          BY <3>3 DEF Spend, Shape
        <5> QED
          BY <5>1 DEF Counters
      <4>2. box' \in Box
        BY <3>3, <4>1 DEF Shape, Box
      <4>3. disk' \in Disk
        BY <3>3, <4>1 DEF Shape, Disk
      <4> QED
        BY <4>1, <4>2, <4>3
    <3> QED
      BY <1>3, <3>1, <3>2, <3>3 DEF OpStep, ProxyOpencodeFetch, Answered, Unanswered
  <2>3. UNCHANGED <<snapshots, mem, gate, bucket, lock, restore, cp, purge, outcome>>
        /\ believed' \in BOOLEAN
    BY <1>3 DEF OpStep, ProxyOpencodeFetch, Answered, Unanswered, Shape
  <2> QED
    BY <2>1, <2>2, <2>3 DEF Shape
<1> QED
  BY <1>1, <1>2, <1>3, RequestIs

\* A call waits for its turn, or is turned away at it.
LEMMA MutateShape ==
  ASSUME Shape, NEW kind \in Kinds, NEW e \in Epochs, Mutate(kind, e)
  PROVE  Shape'
<1>1. used' \in Counters
  <2>1. e \in Nat
    BY Bounds DEF Epochs
  <2> DEFINE epoch == IF e > used.epoch THEN e ELSE used.epoch
  <2>2. epoch \in Nat /\ used.calls + 1 \in Nat
    BY <2>1 DEF Shape, Counters
  <2>3. used' = [used EXCEPT !.calls = used.calls + 1, !.epoch = epoch]
    BY DEF Mutate
  <2> HIDE DEF epoch
  <2> QED
    BY <2>2, <2>3 DEF Shape, Counters
<1>2. lock' \in Seq(Mutations)
  <2> DEFINE m == [kind |-> kind, epoch |-> e, op |-> IF kind = "force" THEN e + MaxEpoch ELSE e]
  <2>1. m \in Mutations
    BY Bounds DEF Mutations, Epochs
  <2>2. lock' = Append(lock, m)
    BY DEF Mutate
  <2> HIDE DEF m
  <2> QED
    BY <2>1, <2>2 DEF Shape
<1> QED
  BY <1>1, <1>2 DEF Mutate, Shape

\* Wakes and stops.
LEMMA MutationShape ==
  ASSUME Shape, MutationStep
  PROVE  Shape'
<1>1. /\ lock # <<>> /\ UNCHANGED <<snapshots, mem, disk, bucket, ops, purge, outcome, used>>
  BY DEF MutationStep, MutationRefused, WakeStart, WakeRestore, WakeServe, WakeFails, StopStart,
         StopDrain, StopDrained, StopInspect, StopPersist, StopCloses, StopTerminate, StopFails, Holding
<1>2. /\ lock' \in Seq(Mutations) /\ at' \in Places
  <2>1. (lock' = Tail(lock) /\ at' = "start") \/ \E step \in Places : at' = step /\ lock' = lock
    BY DEF MutationStep, MutationRefused, WakeStart, WakeRestore, WakeServe, WakeFails, StopStart,
           StopDrain, StopDrained, StopInspect, StopPersist, StopCloses, StopTerminate, StopFails,
           Release, Goto, Places
  <2> QED
    BY <1>1, <2>1, CallType DEF Shape, Places
<1>3. gate' \in RuntimeGate
  <2>1. /\ call.epoch \in Nat /\ call.op \in Nat /\ NoEpoch \in Nat /\ NoOp \in Nat
        /\ PreviousEpoch \in Nat
    BY <1>1, CallType DEF NoEpoch, NoOp, PreviousEpoch, Shape, RuntimeGate
  <2>2. \/ UNCHANGED gate
        \/ \E phase \in Phases, epoch \in Nat, op \in Nat : gate' = Gate(phase, epoch, op)
    BY <2>1
    DEF MutationStep, MutationRefused, WakeStart, WakeRestore, WakeServe, WakeFails, StopStart,
        StopDrain, StopDrained, StopInspect, StopPersist, StopCloses, StopTerminate, StopFails, Phases
  <2> QED
    BY <2>2, GateType DEF Shape
<1>4. believed' \in BOOLEAN
  BY DEF MutationStep, MutationRefused, WakeStart, WakeRestore, WakeServe, WakeFails, StopStart,
         StopDrain, StopDrained, StopInspect, StopPersist, StopCloses, StopTerminate, StopFails,
         Shape, Box
<1>5. box' \in Box
  <2>1. Stopped \in Box
    BY NothingType DEF Stopped, Shape, Box
  <2> QED
    BY <2>1
    DEF MutationStep, MutationRefused, WakeStart, WakeRestore, WakeServe, WakeFails, StopStart,
        StopDrain, StopDrained, StopInspect, StopPersist, StopCloses, StopTerminate, StopFails, Shape
<1>6. restore' \in Restores /\ cp' \in Checkpoints /\ (cp'.at \in {"put", "stale"} => UNCHANGED cp)
  <2>1. \/ UNCHANGED <<restore, cp>>
        \/ Begun
        \/ UNCHANGED cp /\ restore' = [restore EXCEPT !.at = IF @ = "none" THEN "ensure" ELSE @,
                                                      !.for = @ \cup {"wake"}]
    BY DEF MutationStep, MutationRefused, WakeStart, WakeRestore, WakeServe, WakeFails, StopStart,
           StopDrain, StopDrained, StopInspect, StopPersist, StopCloses, StopTerminate, StopFails,
           Begun
  <2>2. CASE UNCHANGED cp /\ restore' = [restore EXCEPT !.at = IF @ = "none" THEN "ensure" ELSE @,
                                                        !.for = @ \cup {"wake"}]
    <3> DEFINE step == IF restore.at = "none" THEN "ensure" ELSE restore.at
               for == restore.for \cup {"wake"}
    <3>1. step \in RestoreSteps /\ for \in SUBSET {"wake", "checkpoint"}
      BY DEF Shape, Restores, RestoreSteps
    <3>2. restore' = [restore EXCEPT !.at = step, !.for = for]
      BY <2>2
    <3> HIDE DEF step, for
    <3>3. restore' \in Restores
      BY <3>1, <3>2, Zenon DEF Shape, Restores
    <3> QED
      BY <2>2, <3>3 DEF Shape
  <2> QED
    BY <2>1, <2>2, BegunType DEF Shape
<1> QED
  BY <1>1, <1>2, <1>3, <1>4, <1>5, <1>6 DEF Shape

\* What ends with a restore.
LEMMA RestoreEndsType ==
  ASSUME Shape, NEW ok \in BOOLEAN, RestoreEnds(ok)
  PROVE  /\ restore' \in Restores /\ at' \in Places /\ cp' \in Checkpoints
         /\ ops' \in [Callers -> Operations]
         /\ cp'.at \in {"put", "stale"} => UNCHANGED cp
<1>1. restore' \in Restores /\ restore' = NoRestore
  BY NothingType DEF RestoreEnds
<1>2. at' \in Places
  BY DEF RestoreEnds, CheckpointEnded, Shape, Places
<1>3. ops' \in [Callers -> Operations]
  BY NothingType DEF RestoreEnds, Shape
<1>4. cp' \in Checkpoints /\ (cp'.at \in {"put", "stale"} => UNCHANGED cp)
  <2>1. "mark" \in CpSteps /\ MergeBackupHandles(disk.ledger, disk.latest) \in SUBSET Handle
    BY DEF CpSteps, MergeBackupHandles, Shape, Disk
  <2>2. CASE cp' = [cp EXCEPT !.at = "mark", !.known = MergeBackupHandles(disk.ledger, disk.latest)]
    <3>1. cp' \in Checkpoints
      BY <2>1, <2>2, Zenon DEF Shape, Checkpoints
    <3>2. cp'.at = "mark"
      BY <2>2 DEF Shape, Checkpoints
    <3> QED
      BY <3>1, <3>2
  <2> QED
    BY <2>2, NothingType DEF RestoreEnds, Shape
<1> QED
  BY <1>1, <1>2, <1>3, <1>4

\* Restores.
LEMMA RestoreShape ==
  ASSUME Shape, RestoreStep
  PROVE  Shape'
<1>1. /\ restore' \in Restores /\ at' \in Places /\ cp' \in Checkpoints
      /\ ops' \in [Callers -> Operations]
      /\ cp'.at \in {"put", "stale"} => UNCHANGED cp
  <2>1. CASE RestoreEnds(TRUE) \/ RestoreEnds(FALSE)
    BY <2>1, RestoreEndsType
  <2>2. CASE UNCHANGED <<at, cp, ops>> /\ restore' \in Restores
    BY <2>2 DEF Shape
  <2>3. restore \in Restores /\ disk.latest \in Handles
    BY DEF Shape, Disk, Handles
  <2>4. CASE RestoreEnsure
    BY <2>2, <2>3, <2>4 DEF RestoreEnsure, Restores, RestoreSteps, Shape, Box
  <2>5. CASE RestoreCheck /\ ~Provisioned
    BY <2>2, <2>3, <2>5 DEF RestoreCheck, Restores, RestoreSteps
  <2>6. CASE RestoreRead
    <3>1. "mark" \in RestoreSteps /\ "unpack" \in RestoreSteps
      BY DEF RestoreSteps
    <3>2. /\ [restore EXCEPT !.at = "mark"] \in Restores
          /\ [restore EXCEPT !.at = "unpack", !.handle = disk.latest] \in Restores
      BY <2>3, <3>1, Zenon DEF Restores
    <3> QED
      BY <2>2, <2>6, <3>2 DEF RestoreRead
  <2>7. CASE RestoreUnpack
    BY <2>2, <2>3, <2>7 DEF RestoreUnpack, Restores, RestoreSteps
  <2> QED
    BY <2>1, <2>4, <2>5, <2>6, <2>7 DEF RestoreStep, RestoreCheck, RestoreMark, RestoreFails
<1>2. box' \in Box
  <2>1. restore.handle.content \in Nat
    BY NothingType DEF Shape, Restores, Handles, Handle
  <2> QED
    BY <2>1 DEF RestoreStep, RestoreEnsure, RestoreCheck, RestoreRead, RestoreUnpack, RestoreMark,
                RestoreFails, Shape, Box
<1>3. disk' \in Disk
  BY DEF RestoreStep, RestoreEnsure, RestoreCheck, RestoreRead, RestoreUnpack, RestoreMark,
         RestoreFails, RecordWorkspaceLoss, Shape, Disk
<1>4. believed' \in BOOLEAN /\ UNCHANGED <<snapshots, mem, gate, bucket, lock, purge, outcome, used>>
  BY DEF RestoreStep, RestoreEnsure, RestoreCheck, RestoreRead, RestoreUnpack, RestoreMark,
         RestoreFails, Shape, Box
<1> QED
  BY <1>1, <1>2, <1>3, <1>4 DEF Shape

\* Checkpoints.
LEMMA CpShape ==
  ASSUME Shape, CpStep
  PROVE  Shape'
<1>1. UNCHANGED <<snapshots, mem, gate, lock, restore, purge, outcome>> /\ believed' \in BOOLEAN
  BY DEF CpStep, CpMark, CpSnap, CpPut, CpStale, CpFails, Shape, Box
<1>2. ASSUME NEW ok \in BOOLEAN, CpEnds(ok)
      PROVE  /\ cp' \in Checkpoints /\ at' \in Places /\ ops' \in [Callers -> Operations]
             /\ cp'.at \notin {"put", "stale"}
  BY <1>2, NothingType DEF CpEnds, CheckpointEnded, Shape, Places
<1>3. CASE CpMark
  <2>1. cp' \in Checkpoints /\ cp'.at = "snap" /\ box' \in Box
    BY <1>3 DEF CpMark, Shape, Checkpoints, CpSteps, Box
  <2> QED
    BY <1>1, <1>3, <2>1 DEF CpMark, Shape
<1>4. CASE CpSnap
  <2> DEFINE new == [id |-> used.snapshots + 1, content |-> box.content]
  <2>1. new \in Handle
    BY DEF Shape, Counters, Box, Handle
  <2>2. used' \in Counters
    <3>1. used \in Counters /\ used' = [used EXCEPT !["snapshots"] = @ + 1]
      BY <1>4 DEF CpSnap, Spend, Shape
    <3> QED
      BY <3>1 DEF Counters
  <2>3. \/ /\ UNCHANGED <<at, ops>> /\ cp' = [cp EXCEPT !.at = "put", !.new = new]
        \/ CpEnds(FALSE)
    BY <1>4 DEF CpSnap
  <2>4. /\ bucket' = bucket \cup {new} /\ UNCHANGED <<box, disk>>
    BY <1>4 DEF CpSnap
  <2> HIDE DEF new
  <2>5. CASE UNCHANGED <<at, ops>> /\ cp' = [cp EXCEPT !.at = "put", !.new = new]
    <3>1. new \in Handles /\ "put" \in CpSteps
      BY <2>1 DEF Handles, CpSteps
    <3>2. cp' \in Checkpoints /\ cp'.new = new
      BY <2>5, <3>1, Zenon DEF Shape, Checkpoints
    <3> QED
      BY <1>1, <2>1, <2>2, <2>4, <2>5, <3>2 DEF Shape
  <2>6. CASE CpEnds(FALSE)
    BY <1>1, <1>2, <2>1, <2>2, <2>4, <2>6 DEF Shape
  <2> QED
    BY <2>3, <2>5, <2>6
<1>5. CASE CpPut
  <2>1. CASE /\ disk' = [disk EXCEPT !.latest = cp.new, !.ledger = @ \cup {cp.new}]
             /\ cp' = [cp EXCEPT !.at = "stale"]
             /\ UNCHANGED <<bucket, at, ops>>
    <3>1. cp.new \in Handle /\ cp.new \in Handles
      BY <1>5 DEF CpPut, Shape, Handles
    <3>2. disk.ledger \cup {cp.new} \in SUBSET Handle
      BY <3>1 DEF Shape, Disk
    <3>3. disk' \in Disk
      BY <2>1, <3>1, <3>2, Zenon DEF Shape, Disk, Handles
    <3>4. cp' \in Checkpoints /\ cp'.new = cp.new
      BY <2>1 DEF Shape, Checkpoints, CpSteps
    <3> QED
      BY <1>1, <1>5, <2>1, <3>1, <3>3, <3>4 DEF CpPut, Shape
  <2>2. CASE bucket' = bucket \ {cp.new} /\ CpEnds(FALSE) /\ UNCHANGED disk
    BY <1>1, <1>2, <1>5, <2>2 DEF CpPut, Shape
  <2> QED
    BY <1>5, <2>1, <2>2 DEF CpPut
<1>6. CASE CpStale
  <2>1. cp.new \in Handle /\ cp.known \in SUBSET Handle
    BY <1>6 DEF CpStale, Shape, Checkpoints
  <2>2. disk' \in Disk
    <3>1. PICK gone \in {cp.known, {}} : disk' \in {disk, [disk EXCEPT !.ledger = {cp.new} \cup (cp.known \ gone)]}
      BY <1>6 DEF CpStale, ReplaceBackupHandleLedger
    <3>2. {cp.new} \cup (cp.known \ gone) \in SUBSET Handle
      BY <2>1
    <3>3. [disk EXCEPT !.ledger = {cp.new} \cup (cp.known \ gone)] \in Disk
      BY <3>2, Zenon DEF Shape, Disk
    <3> QED
      BY <3>1, <3>3 DEF Shape
  <2> QED
    BY <1>1, <1>2, <1>6, <2>2 DEF CpStale, Shape
<1>7. CASE CpFails
  BY <1>1, <1>2, <1>7 DEF CpFails, Shape
<1> QED
  BY <1>3, <1>4, <1>5, <1>6, <1>7 DEF CpStep

\* Purges and cleanups.
LEMMA PurgeShape ==
  ASSUME Shape, NEW k \in PurgeKinds, PurgeInstance(k) \/ PurgeStep(k)
  PROVE  Shape'
<1>1. UNCHANGED <<snapshots, gate, lock, at, restore, cp, ops>>
  BY DEF PurgeStep, PurgeInstance, PurgeFlag, PurgeDrain, PurgeRemove, PurgeObjects, PurgeForget
<1>2. mem' \in Memory
  <2>1. /\ [mem EXCEPT !.purge = TRUE, !.active = FALSE] \in Memory
        /\ [mem EXCEPT !.ident = "deleting"] \in Memory
    BY DEF Shape, Memory, Identities
  <2> QED
    BY <2>1
    DEF PurgeStep, PurgeInstance, PurgeFlag, PurgeDrain, PurgeRemove, PurgeObjects, PurgeForget, Shape
<1>3. disk' \in Disk
  <2>1. [disk EXCEPT !.ident = "deleting", !.purge = TRUE] \in Disk
    BY DEF Shape, Disk, Identities
  <2>2. [disk EXCEPT !.latest = NoBackup, !.ledger = {}] \in Disk
    <3>1. NoBackup \in Handles /\ {} \in SUBSET Handle
      BY NothingType
    <3> QED
      BY <3>1, Zenon DEF Shape, Disk, Handles
  <2> QED
    BY <2>1, <2>2, NothingType
    DEF PurgeStep, PurgeInstance, PurgeFlag, PurgeDrain, PurgeRemove, PurgeObjects, PurgeForget, Shape
<1>4. purge' \in [PurgeKinds -> Purges]
  <2>1. purge \in [PurgeKinds -> Purges] /\ purge[k] \in Purges
    BY DEF Shape
  <2>2. CASE \E step \in PurgeSteps : purge' = [purge EXCEPT ![k].at = step]
    <3>1. PICK step \in PurgeSteps : purge' = [purge EXCEPT ![k].at = step]
      BY <2>2
    <3>2. [purge[k] EXCEPT !.at = step] \in Purges
      BY <2>1 DEF Purges
    <3>3. purge' = [purge EXCEPT ![k] = [purge[k] EXCEPT !.at = step]]
      BY <2>1, <3>1
    <3> QED
      BY <2>1, <3>2, <3>3
  <2>3. CASE PurgeDrain(k)
    <3> DEFINE known == MergeBackupHandles(disk.ledger, disk.latest)
                           \cup (IF snapshots THEN bucket ELSE {})
    <3>1. known \in SUBSET Handle
      BY DEF MergeBackupHandles, Shape, Disk
    <3>2. [at |-> "remove", known |-> known] \in Purges
      <4> HIDE DEF known
      <4> QED
        BY <3>1 DEF Purges, PurgeSteps
    <3> QED
      BY <2>1, <2>3, <3>2 DEF PurgeDrain
  <2>4. CASE PurgeEnds(k) \/ UNCHANGED purge
    BY <2>1, <2>4, NothingType DEF PurgeEnds
  <2> QED
    BY <2>2, <2>3, <2>4 DEF PurgeStep, PurgeInstance, PurgeFlag, PurgeRemove, PurgeObjects,
                            PurgeForget, PurgeGoto, PurgeSteps
<1>5. box' \in Box /\ believed' \in BOOLEAN /\ bucket' \subseteq Handle
  BY NothingType
  DEF PurgeStep, PurgeInstance, PurgeFlag, PurgeDrain, PurgeRemove, PurgeObjects, PurgeForget, Shape
<1>6. outcome' \in PurgeKinds \cup {"none"} /\ used' \in Counters
  BY DEF PurgeStep, PurgeInstance, PurgeFlag, PurgeDrain, PurgeRemove, PurgeObjects, PurgeForget, Shape,
         Spend, Counters
<1> QED
  BY <1>1, <1>2, <1>3, <1>4, <1>5, <1>6 DEF Shape

\* Every step keeps the shape.
LEMMA NextShape ==
  ASSUME Shape, [Next]_vars
  PROVE  Shape'
<1>1. CASE UNCHANGED vars
  BY <1>1 DEF vars, Shape
<1>2. CASE \E e \in Epochs :
              WakeForLifecycle(e) \/ QuiesceAndStopIfIdle(e) \/ ForceStopForLifecycle(e)
  BY <1>2, MutateShape DEF WakeForLifecycle, QuiesceAndStopIfIdle, ForceStopForLifecycle, Kinds
<1> QED
  BY <1>1, <1>2, ObjectShape, RequestShape, MutationShape, RestoreShape, CpShape, PurgeShape DEF Next

\* Initially there is nothing.
LEMMA InitShape == ASSUME Init PROVE Shape
<1>1. mem \in Memory /\ disk \in Disk /\ gate \in RuntimeGate /\ box \in Box
  BY NothingType DEF Init, Memory, Identities
<1>2. lock \in Seq(Mutations) /\ at \in Places
  BY DEF Init, Places
<1>3. restore \in Restores /\ cp \in Checkpoints /\ cp.at = "none"
  BY NothingType DEF Init
<1>4. ops \in [Callers -> Operations] /\ purge \in [PurgeKinds -> Purges]
  BY NothingType DEF Init
<1>5. used \in Counters
  BY DEF Init, Counters
<1> QED
  BY <1>1, <1>2, <1>3, <1>4, <1>5, Bounds DEF Init, Shape

\* The shape is an invariant of the Sandbox.
LEMMA ShapeHolds == Spec => []Shape
<1>1. Init => Shape
  BY InitShape
<1>2. Shape /\ [Next]_vars => Shape'
  BY NextShape
<1> QED
  BY <1>1, <1>2, PTL DEF Spec

-----------------------------------------------------------------------------
\* Turns

Turning == TurnSound /\ WaitSound /\ IdentSound /\ PurgeSound

\* The steps that leave the gate and the lock, and move the one whose turn it is
\* only when what it waits for ends.
ServedMove ==
    \/ at' = at
    \/ at = "draining" /\ at' = "drained"
    \/ at = "saving" /\ at' \in {"saved", "failed"}
    \/ at = "restoring" /\ at' \in {"restored", "failed"}

\* Such a step leaves the turn with whoever has it.
LEMMA ServedTurn ==
  ASSUME Shape, TurnSound, ServedMove, UNCHANGED <<lock, gate>>
  PROVE  TurnSound'
<1>1. UNCHANGED call
  BY DEF call
<1> QED
  BY <1>1 DEF TurnSound, ServedMove, Stops

\* Requests, restores and checkpoints move whoever waits for their end.
LEMMA EndsServe ==
  ASSUME Shape, WaitSound,
         \/ \E c \in Callers : OpStep(c)
         \/ RestoreStep \/ CpStep
  PROVE  ServedMove /\ UNCHANGED <<lock, gate>>
<1>1. UNCHANGED <<lock, gate>>
  BY DEF OpStep, ProxyOpencodeFetch, Answered, Unanswered, RestoreStep, RestoreEnsure, RestoreCheck,
         RestoreRead, RestoreUnpack, RestoreMark, RestoreFails, CpStep, CpMark, CpSnap, CpPut, CpStale,
         CpFails
<1>2. CASE \E c \in Callers : OpStep(c)
  BY <1>2 DEF OpStep, ProxyOpencodeFetch, Answered, Unanswered, Leaves, ServedMove
<1>3. ASSUME NEW ok \in BOOLEAN, RestoreEnds(ok) \/ CpEnds(ok)  PROVE ServedMove
  BY <1>3 DEF RestoreEnds, CpEnds, CheckpointEnded, ServedMove, WaitSound
<1>4. CASE RestoreStep
  BY <1>3, <1>4 DEF RestoreStep, RestoreEnsure, RestoreCheck, RestoreRead, RestoreUnpack,
                    RestoreMark, RestoreFails, ServedMove
<1>5. CASE CpStep
  BY <1>3, <1>5 DEF CpStep, CpMark, CpSnap, CpPut, CpStale, CpFails, ServedMove
<1> QED
  BY <1>1, <1>2, <1>4, <1>5

\* The gate that a stop writes.
LEMMA GateIs ==
  ASSUME Shape, NEW phase \in Phases, NEW epoch \in Nat, NEW op \in Nat,
         gate' = Gate(phase, epoch, op)
  PROVE  gate'.phase = phase /\ gate'.epoch = epoch /\ gate'.op = op
  BY GateType

\* The one whose turn it is moves on, or gives its turn away.
LEMMA MutationTurn ==
  ASSUME Shape, Turning, MutationStep
  PROVE  TurnSound'
<1>1. /\ lock # <<>> /\ call.kind \in Kinds /\ call.op \in Nat /\ call.epoch \in Nat
      /\ PreviousEpoch \in Nat /\ NoEpoch \in Nat /\ NoOp \in Nat
  <2>1. lock # <<>>
    BY DEF MutationStep, MutationRefused, WakeStart, WakeRestore, WakeServe, WakeFails, StopStart,
         StopDrain, StopDrained, StopInspect, StopPersist, StopCloses, StopTerminate, StopFails, Holding
  <2> QED
    BY <2>1, CallType DEF PreviousEpoch, Shape, RuntimeGate, NoEpoch, NoOp
<1>2. CASE Release
  BY <1>2 DEF Release, TurnSound
<1>3. CASE UNCHANGED lock
  <2>1. call' = call
    BY <1>3 DEF call
  <2>2. CASE WakeStart \/ WakeRestore
    <3>1. /\ (call.kind = "wake" /\ at' \in {"config", "restoring"}) \/ at' = "start"
          /\ at' # "start" => gate'.phase = "waking"
      <4>1. CASE WakeStart
        BY <1>1, <1>3, <4>1, GateType DEF WakeStart, Holding, Release, Goto, Phases
      <4>2. CASE WakeRestore
        BY <1>1, <4>2 DEF WakeRestore, Holding, Goto, Turning, TurnSound, Stops
      <4> QED
        BY <2>2, <4>1, <4>2
    <3> QED
      BY <1>1, <1>3, <2>1, <3>1 DEF TurnSound
  <2>3. CASE StopStart /\ ~Release
    <3>1. /\ call.kind \in Stops /\ at' = "phase" /\ gate'.phase \in StopPhases /\ gate'.op = call.op
      <4>1. call.kind \in Stops /\ at' = "phase"
        BY <2>3 DEF StopStart, Holding, Goto
      <4>2. gate' = IF Recovering THEN gate ELSE Gate("quiescing", PreviousEpoch, call.op)
        BY <2>3 DEF StopStart
      <4> QED
        BY <1>1, <4>1, <4>2, GateType DEF Recovering, StopPhases, Phases
    <3> QED
      BY <1>1, <1>3, <2>1, <3>1 DEF TurnSound
  <2>4. CASE StopDrain
    BY <1>1, <1>3, <2>1, <2>4
    DEF StopDrain, Holding, Goto, Turning, TurnSound, Stops
  <2>5. CASE StopDrained \/ (StopInspect /\ ~Release)
    <3>1. /\ call.kind \in Stops /\ at' = "phase" /\ gate'.phase = "checkpointing" /\ gate'.op = call.op
      <4>1. CASE StopDrained
        BY <1>1, <4>1, GateType DEF StopDrained, Holding, Goto, Stops, Phases
      <4>2. CASE StopInspect /\ ~Release
        BY <1>1, <4>2, GateType DEF StopInspect, Holding, Goto, Stops, Phases
      <4> QED
        BY <2>5, <4>1, <4>2
    <3> QED
      BY <1>1, <1>3, <2>1, <3>1 DEF TurnSound, StopPhases
  <2>6. CASE StopPersist
    BY <1>1, <1>3, <2>1, <2>6 DEF StopPersist, Holding, Goto, Turning, TurnSound, Stops
  <2>7. CASE StopCloses
    <3>1. /\ call.kind \in Stops /\ at' = "phase" /\ gate'.phase = "stopping" /\ gate'.op = call.op
      BY <1>1, <2>7, GateType DEF StopCloses, Holding, Goto, Stops, Phases
    <3> QED
      BY <1>1, <1>3, <2>1, <3>1 DEF TurnSound, StopPhases
  <2> QED
    BY <1>2, <2>2, <2>3, <2>4, <2>5, <2>6, <2>7
    DEF MutationStep, MutationRefused, WakeServe, WakeFails, StopTerminate, StopFails
<1> QED
  BY <1>2, <1>3
  DEF MutationStep, MutationRefused, WakeStart, WakeRestore, WakeServe, WakeFails, StopStart,
      StopDrain, StopDrained, StopInspect, StopPersist, StopCloses, StopTerminate, StopFails, Goto

\* Turns are taken in order.
LEMMA TurnKept ==
  ASSUME Shape, Turning, [Next]_vars
  PROVE  TurnSound'
<1>1. CASE UNCHANGED <<lock, at, gate>>
  BY <1>1, ServedTurn DEF ServedMove, Turning
<1>2. CASE InitializeInstance
  <2>1. UNCHANGED <<lock, at>>
    BY <1>2 DEF InitializeInstance
  <2>2. CASE at = "start"
    BY <2>1, <2>2 DEF TurnSound
  <2>3. CASE at # "start"
    <3>1. lock # <<>> /\ gate # NoGate
      BY <2>3, NothingType DEF Turning, TurnSound, StopPhases
    <3>2. mem.ident = "active"
      <4>1. mem.ident \notin {"none", "deleting"}
        BY <1>2, <3>1 DEF InitializeInstance, Turning, IdentSound, Quiet
      <4> QED
        BY <4>1 DEF Shape, Memory, Identities
    <3>3. UNCHANGED gate
      BY <1>2, <3>1, <3>2, Zenon DEF InitializeInstance
    <3> QED
      BY <2>1, <3>3, ServedTurn DEF ServedMove, Turning
  <2> QED
    BY <2>2, <2>3
<1>3. CASE Restart
  BY <1>3 DEF Restart, TurnSound
<1>4. CASE \E c \in Callers, e \in Epochs : Requests(c, e)
  BY <1>1, <1>4, RequestIs DEF Ask, CheckpointWorkspace
<1>5. CASE (\E c \in Callers : OpStep(c)) \/ RestoreStep \/ CpStep
  BY <1>5, EndsServe, ServedTurn DEF Turning
<1>6. ASSUME NEW kind \in Kinds, NEW e \in Epochs, Mutate(kind, e)  PROVE TurnSound'
  <2>1. UNCHANGED <<at, gate>> /\ lock' # <<>> /\ (lock # <<>> => call' = call)
    BY <1>6 DEF Mutate, call, Shape
  <2> QED
    BY <2>1 DEF Turning, TurnSound
<1>7. CASE \E k \in PurgeKinds : PurgeInstance(k) \/ PurgeStep(k)
  BY <1>1, <1>7 DEF PurgeInstance, PurgeStep, PurgeFlag, PurgeDrain, PurgeRemove, PurgeObjects, PurgeForget
<1>8. CASE GetInstanceRuntimeStatus \/ OpenCodeWorks \/ OpenCodeRests \/ ContainerDies \/ UNCHANGED vars
  BY <1>1, <1>8 DEF GetInstanceRuntimeStatus, OpenCodeWorks, OpenCodeRests, ContainerDies, vars
<1> QED
  BY <1>2, <1>3, <1>4, <1>5, <1>6, <1>7, <1>8, MutationTurn
  DEF Next, WakeForLifecycle, QuiesceAndStopIfIdle, ForceStopForLifecycle, Kinds

-----------------------------------------------------------------------------
\* Waiting

\* No request is counted exactly when the count is zero.
LEMMA NobodyCounted ==
  Counted(ops) = {} <=> ActiveOperations = 0
<1>1. IsFiniteSet(Counted(ops))
  BY Bounds, FS_Subset DEF Counted
<1> QED
  BY <1>1, FS_EmptySet DEF ActiveOperations

\* A restore that ends serves the wake and the checkpoint that wait for it.
LEMMA RestoreEndsServes ==
  ASSUME Shape, Shape', WaitSound, NEW ok \in BOOLEAN, RestoreEnds(ok)
  PROVE  WaitSound'
<1>1. /\ restore' = NoRestore /\ restore'.at = "none" /\ restore'.for = {}
      /\ cp \in Checkpoints /\ ops \in [Callers -> Operations]
  BY NothingType DEF RestoreEnds, Shape
<1>2. CASE "checkpoint" \notin restore.for \/ ok
  <2>1. UNCHANGED ops /\ (at' # at => at' \in {"restored", "failed"})
        /\ ("wake" \in restore.for <=> at = "restoring") /\ (at = "restoring" => at' # at)
    BY <1>2 DEF RestoreEnds, WaitSound, WaitersAreServed
  <2>2. /\ cp'.at # "restore"
        /\ cp'.at = "none" <=> cp.at = "none"
    <3>1. CASE "checkpoint" \notin restore.for
      BY <3>1 DEF RestoreEnds, WaitSound, WaitersAreServed
    <3>2. CASE "checkpoint" \in restore.for
      BY <1>1, <1>2, <3>2 DEF RestoreEnds, WaitSound, WaitersAreServed, Checkpoints
    <3> QED
      BY <3>1, <3>2
  <2>3. WaitersAreServed'
    BY <1>1, <2>1, <2>2 DEF WaitSound, WaitersAreServed, Counted
  <2>4. cp'.at # "none" => at' = "saving" \/ \E c \in Callers : ops'[c].at = "saving"
    <3>1. at = "saving" => at' = at
      BY <1>2 DEF RestoreEnds, WaitSound, CheckpointEnded
    <3> QED
      BY <2>1, <2>2, <3>1 DEF WaitSound
  <2> QED
    BY <1>1, <2>1, <2>2, <2>3, <2>4 DEF WaitSound
<1>3. CASE "checkpoint" \in restore.for /\ ~ok
  <2>1. cp' = NoCp /\ cp'.at = "none"
    BY <1>3, NothingType DEF RestoreEnds
  <2>2. \A c \in Callers : ops'[c] = IF ops[c].at = "saving" THEN NoOps ELSE ops[c]
    BY <1>3 DEF RestoreEnds
  <2>3. \A c \in Callers : ops'[c].at # "saving"
    BY <2>2, NothingType
  <2>4. at' \notin {"restoring", "saving"}
    BY <1>3 DEF RestoreEnds, CheckpointEnded, WaitSound, WaitersAreServed
  <2>5. at' = "draining" => Counted(ops') # {}
    <3> SUFFICES ASSUME at' = "draining"  PROVE Counted(ops') # {}
      OBVIOUS
    <3>1. at = "draining" /\ \E c \in Counted(ops) : ops[c].at # "saving"
      BY <1>3 DEF RestoreEnds, CheckpointEnded
    <3> QED
      BY <2>2, <3>1 DEF Counted
  <2> QED
    BY <1>1, <2>1, <2>3, <2>4, <2>5 DEF WaitSound, WaitersAreServed
<1> QED
  BY <1>2, <1>3

\* A checkpoint that ends serves the stop and the requests that wait for it.
LEMMA CpEndsServes ==
  ASSUME Shape, WaitSound, NEW ok \in BOOLEAN, CpEnds(ok), cp.at \notin {"none", "restore"},
         UNCHANGED restore
  PROVE  WaitSound'
<1>1. cp' = NoCp /\ cp'.at = "none" /\ "checkpoint" \notin restore.for
  BY NothingType DEF CpEnds, WaitSound
<1>2. \A c \in Callers : ops'[c] = IF ops[c].at = "saving" THEN NoOps ELSE ops[c]
  BY DEF CpEnds
<1>3. \A c \in Callers : ops'[c].at # "saving"
  BY <1>2, NothingType
<1>4. at' # "saving" /\ (at' = "restoring" <=> at = "restoring")
  BY DEF CpEnds, CheckpointEnded
<1>5. at' = "draining" => Counted(ops') # {}
  <2> SUFFICES ASSUME at' = "draining"  PROVE Counted(ops') # {}
    OBVIOUS
  <2>1. at = "draining" /\ \E c \in Counted(ops) : ops[c].at # "saving"
    BY DEF CpEnds, CheckpointEnded
  <2> QED
    BY <1>2, <2>1 DEF Counted
<1> QED
  BY <1>1, <1>3, <1>4, <1>5 DEF WaitSound, WaitersAreServed

\* A checkpoint that begins, or is joined, by one who waits for it.
LEMMA BegunServes ==
  ASSUME Shape, WaitSound, Begun,
         at' # at => at' = "saving" /\ at # "restoring",
         at' = "saving" \/ \E c \in Callers : ops'[c].at = "saving",
         \A c \in Callers : ops[c].at \notin {"none", "asked"} => ops'[c] = ops[c]
  PROVE  WaitSound'
<1>1. /\ cp'.at # "none" /\ (cp.at # "none" => UNCHANGED <<cp, restore>>)
      /\ cp.at = "none" =>
            /\ cp'.at = "restore" /\ restore'.at # "none"
            /\ restore'.for = restore.for \cup {"checkpoint"}
  BY BegunType
<1>2. at' = "draining" => Counted(ops') # {}
  BY DEF WaitSound, WaitersAreServed, Counted
<1> QED
  BY <1>1, <1>2 DEF WaitSound, WaitersAreServed

\* The one whose turn it is waits only for what it has set under way.
LEMMA MutationWait ==
  ASSUME Shape, Turning, MutationStep
  PROVE  WaitSound'
<1>1. UNCHANGED ops
  BY DEF MutationStep, MutationRefused, WakeStart, WakeRestore, WakeServe, WakeFails, StopStart,
         StopDrain, StopDrained, StopInspect, StopPersist, StopCloses, StopTerminate, StopFails
<1>2. CASE StopPersist /\ snapshots
  <2>1. Begun /\ at' = "saving" /\ at # "restoring"
    BY <1>2 DEF StopPersist, Begun, Goto, Holding
  <2> QED
    BY <1>1, <2>1, BegunServes DEF Turning
<1>3. CASE WakeRestore
  <2>1. /\ at = "config" /\ at' = "restoring" /\ UNCHANGED cp
        /\ restore'.at # "none" /\ restore'.for = restore.for \cup {"wake"}
    BY <1>3 DEF WakeRestore, Holding, Goto, Shape, Restores
  <2> QED
    BY <1>1, <2>1 DEF Turning, WaitSound, WaitersAreServed
<1>4. CASE StopDrain
  <2>1. UNCHANGED <<restore, cp>> /\ at = "phase" /\ at' \in {"drained", "draining"}
        /\ (at' = "draining" => ActiveOperations # 0)
    BY <1>4 DEF StopDrain, Holding, Goto
  <2> QED
    BY <1>1, <2>1, NobodyCounted DEF Turning, WaitSound, WaitersAreServed
<1>5. CASE ~WakeRestore /\ ~StopDrain /\ ~(StopPersist /\ snapshots)
  <2>1. UNCHANGED <<restore, cp>> /\ at \notin {"restoring", "saving"}
        /\ at' \notin {"restoring", "saving", "draining"}
    BY <1>5
    DEF MutationStep, MutationRefused, WakeStart, WakeServe, WakeFails, StopStart,
        StopDrained, StopInspect, StopPersist, StopCloses, StopTerminate, StopFails, Holding, Release, Goto
  <2> QED
    BY <1>1, <2>1 DEF Turning, WaitSound, WaitersAreServed
<1> QED
  BY <1>2, <1>3, <1>4, <1>5

\* Whoever waits goes on waiting for something that is under way.
LEMMA WaitKept ==
  ASSUME Shape, Shape', Turning, [Next]_vars
  PROVE  WaitSound'
<1>0. WaitSound /\ ops \in [Callers -> Operations]
  BY DEF Turning, Shape
<1>1. CASE UNCHANGED <<at, restore, cp, ops>>
  BY <1>0, <1>1 DEF WaitSound, WaitersAreServed, Counted
<1>2. CASE Restart
  BY <1>2, NothingType DEF Restart, WaitSound, WaitersAreServed
<1>3. ASSUME NEW c \in Callers, NEW e \in Epochs, Requests(c, e)  PROVE WaitSound'
  <2>1. CASE CheckpointWorkspace(c, e)
    <3>1. Begun /\ UNCHANGED at /\ ops[c].at = "none"
          /\ ops' = [ops EXCEPT ![c] = [at |-> "saving", does |-> "checkpoint", epoch |-> e]]
      BY <2>1 DEF CheckpointWorkspace, Begun
    <3> QED
      BY <1>0, <3>1, BegunServes
  <2>2. ASSUME NEW step \in {"asked", "begun", "sent"}, NEW does \in Does, Ask(c, step, does, e)
        PROVE  WaitSound'
    <3>1. /\ UNCHANGED <<at, restore, cp>> /\ ops[c].at = "none"
          /\ ops'[c].at # "saving" /\ \A d \in Callers \ {c} : ops'[d] = ops[d]
      BY <1>0, <2>2 DEF Ask
    <3>2. Counted(ops) \subseteq Counted(ops')
      BY <3>1 DEF Counted
    <3> QED
      BY <1>0, <3>1, <3>2 DEF WaitSound, WaitersAreServed
  <2> QED
    BY <1>3, <2>1, <2>2, RequestIs
<1>4. ASSUME NEW c \in Callers, OpStep(c)  PROVE WaitSound'
  <2>1. /\ UNCHANGED <<restore, cp>> /\ ops[c].at \notin {"none", "saving"}
        /\ \E next \in Operations : Leaves(c, next) /\ next.at \in {"none", "sent"}
    <3>1. [ops[c] EXCEPT !.at = "sent"] \in Operations /\ [ops[c] EXCEPT !.at = "sent"].at = "sent"
      BY <1>0 DEF Operations, OpSteps
    <3> QED
      BY <1>4, <3>1, NothingType DEF OpStep, ProxyOpencodeFetch, Answered, Unanswered
  <2>2. \A d \in Callers : ops'[d].at = "saving" <=> ops[d].at = "saving"
    BY <1>0, <2>1 DEF Leaves
  <2>3. /\ at' = "draining" => at = "draining" /\ Counted(ops') # {}
        /\ at' # at => at = "draining" /\ at' = "drained"
    BY <2>1 DEF Leaves
  <2> QED
    BY <1>0, <2>1, <2>2, <2>3 DEF WaitSound, WaitersAreServed
<1>5. CASE RestoreStep
  <2>1. CASE RestoreEnds(TRUE) \/ RestoreEnds(FALSE)
    BY <1>0, <2>1, RestoreEndsServes
  <2>2. ASSUME UNCHANGED <<at, cp, ops>>, restore'.for = restore.for,
               restore.at # "none", restore'.at # "none"
        PROVE  WaitSound'
    <3>1. WaitersAreServed'
      BY <1>0, <2>2 DEF WaitSound, WaitersAreServed, Counted
    <3> QED
      BY <1>0, <2>2, <3>1 DEF WaitSound
  <2>3. restore \in Restores
    BY DEF Shape
  <2>4. CASE RestoreEnsure \/ RestoreCheck \/ RestoreUnpack \/ RestoreRead
    <3>1. \/ RestoreEnds(TRUE)
          \/ /\ UNCHANGED <<at, cp, ops>> /\ restore'.for = restore.for
             /\ restore.at # "none" /\ restore'.at # "none"
      BY <2>3, <2>4 DEF RestoreEnsure, RestoreCheck, RestoreUnpack, RestoreRead, Restores
    <3> QED
      BY <2>1, <2>2, <3>1
  <2> QED
    BY <1>5, <2>1, <2>4 DEF RestoreStep, RestoreMark, RestoreFails
<1>6. CASE CpStep
  <2>1. cp.at \notin {"none", "restore"} /\ UNCHANGED restore
    BY <1>6 DEF CpStep, CpMark, CpSnap, CpPut, CpStale, CpFails
  <2>2. CASE CpEnds(TRUE) \/ CpEnds(FALSE)
    BY <1>0, <2>1, <2>2, CpEndsServes
  <2>3. ASSUME UNCHANGED <<at, ops>>, cp'.at \notin {"none", "restore"}
        PROVE  WaitSound'
    <3>1. WaitersAreServed'
      BY <1>0, <2>1, <2>3 DEF WaitSound, WaitersAreServed, Counted
    <3> QED
      BY <1>0, <2>1, <2>3, <3>1 DEF WaitSound
  <2>4. cp \in Checkpoints
    BY DEF Shape
  <2>5. \/ CpEnds(TRUE) \/ CpEnds(FALSE)
        \/ /\ UNCHANGED <<at, ops>>
           /\ cp'.at \notin {"none", "restore"}
    <3>1. CASE CpMark
      BY <2>4, <3>1 DEF CpMark, Checkpoints
    <3>2. CASE CpSnap
      BY <2>4, <3>2 DEF CpSnap, Checkpoints
    <3>3. CASE CpPut
      BY <2>4, <3>3 DEF CpPut, Checkpoints
    <3>4. CASE CpStale \/ CpFails
      BY <2>4, <3>4 DEF CpStale, CpFails, Checkpoints
    <3> QED
      BY <1>6, <3>1, <3>2, <3>3, <3>4 DEF CpStep
  <2> QED
    BY <2>2, <2>3, <2>5
<1>7. CASE \/ InitializeInstance
           \/ \E kind \in Kinds, e \in Epochs : Mutate(kind, e)
           \/ \E k \in PurgeKinds : PurgeInstance(k) \/ PurgeStep(k)
           \/ GetInstanceRuntimeStatus \/ OpenCodeWorks \/ OpenCodeRests \/ ContainerDies
           \/ UNCHANGED vars
  BY <1>1, <1>7
  DEF InitializeInstance, Mutate, PurgeInstance, PurgeStep, PurgeFlag, PurgeDrain, PurgeRemove,
      PurgeObjects, PurgeForget, GetInstanceRuntimeStatus, OpenCodeWorks, OpenCodeRests,
      ContainerDies, vars
<1> QED
  BY <1>2, <1>3, <1>4, <1>5, <1>6, <1>7, MutationWait
  DEF Next, WakeForLifecycle, QuiesceAndStopIfIdle, ForceStopForLifecycle, Kinds

-----------------------------------------------------------------------------
\* Identity, purges and cleanups

\* The steps that change what the object is.
IdentityStep ==
    InitializeInstance \/ Restart \/ \E k \in PurgeKinds : PurgeInstance(k) \/ PurgeStep(k)

\* Every other step leaves the identity and the purges alone.
LEMMA Elsewhere ==
  ASSUME Shape, [Next]_vars, ~IdentityStep
  PROVE  /\ UNCHANGED <<snapshots, mem, purge, outcome>>
         /\ disk'.ident = disk.ident /\ disk'.purge = disk.purge
<1>0. disk \in Disk
  BY DEF Shape
<1>1. CASE GetInstanceRuntimeStatus \/ OpenCodeWorks \/ OpenCodeRests \/ ContainerDies \/ UNCHANGED vars
  BY <1>1 DEF GetInstanceRuntimeStatus, OpenCodeWorks, OpenCodeRests, ContainerDies, vars
<1>2. CASE \E c \in Callers, e \in Epochs : Requests(c, e)
  BY <1>2, RequestIs DEF Ask, CheckpointWorkspace
<1>3. CASE \E c \in Callers : OpStep(c)
  BY <1>0, <1>3 DEF OpStep, ProxyOpencodeFetch, Answered, Unanswered, Disk
<1>4. CASE \E kind \in Kinds, e \in Epochs : Mutate(kind, e)
  BY <1>4 DEF Mutate
<1>5. CASE MutationStep
  BY <1>5
  DEF MutationStep, MutationRefused, WakeStart, WakeRestore, WakeServe, WakeFails, StopStart,
      StopDrain, StopDrained, StopInspect, StopPersist, StopCloses, StopTerminate, StopFails
<1>6. CASE RestoreStep
  BY <1>0, <1>6
  DEF RestoreStep, RestoreEnsure, RestoreCheck, RestoreRead, RestoreUnpack, RestoreMark, RestoreFails,
      RecordWorkspaceLoss, Disk
<1>7. CASE CpStep
  BY <1>0, <1>7
  DEF CpStep, CpMark, CpSnap, CpPut, CpStale, CpFails, ReplaceBackupHandleLedger, Disk
<1> QED
  BY <1>1, <1>2, <1>3, <1>4, <1>5, <1>6, <1>7
  DEF Next, IdentityStep, WakeForLifecycle, QuiesceAndStopIfIdle, ForceStopForLifecycle, Kinds

\* Where nothing is under way and the instance is not active, nothing begins.
LEMMA QuietStays ==
  ASSUME Shape, Quiet, ~mem.active, [Next]_vars
  PROVE  /\ Quiet' /\ bucket' \subseteq bucket
         /\ box = NoBox => box' = NoBox
<1>0. /\ lock = <<>> /\ restore.at = "none" /\ cp.at = "none" /\ ~Active
      /\ ops \in [Callers -> Operations]
      /\ \A c \in Callers : ops[c].at \in {"none", "asked"}
  BY DEF Quiet, Counted, Active, Shape
<1>1. CASE UNCHANGED <<lock, restore, cp, bucket, box>> /\ Counted(ops') = {}
  BY <1>0, <1>1 DEF Quiet
<1>2. CASE UNCHANGED <<lock, restore, cp, ops, bucket>> /\ (box = NoBox => box' = NoBox)
  BY <1>0, <1>2 DEF Quiet, Counted
<1>3. CASE Restart
  BY <1>3, NothingType DEF Restart, Quiet, Counted
<1>4. ASSUME NEW c \in Callers, NEW e \in Epochs, Requests(c, e)
      PROVE  UNCHANGED <<lock, restore, cp, bucket, box>> /\ Counted(ops') = {}
  BY <1>0, <1>4, RequestIs DEF CheckpointWorkspace, Ask, Counted
<1>5. ASSUME NEW c \in Callers, OpStep(c)
      PROVE  UNCHANGED <<lock, restore, cp, bucket, box>> /\ Counted(ops') = {}
  <2>1. ProxyOpencodeFetch(c)
    BY <1>0, <1>5 DEF OpStep, Answered, Unanswered
  <2>2. ops' = [ops EXCEPT ![c] = NoOps]
    BY <1>0, <2>1 DEF ProxyOpencodeFetch, Leaves
  <2> QED
    BY <1>0, <2>1, <2>2, NothingType DEF ProxyOpencodeFetch, Counted
<1>6. CASE InitializeInstance \/ GetInstanceRuntimeStatus \/ UNCHANGED vars
  BY <1>2, <1>6 DEF InitializeInstance, GetInstanceRuntimeStatus, vars
<1>7. CASE OpenCodeWorks \/ OpenCodeRests \/ ContainerDies
  BY <1>2, <1>7, NothingType DEF OpenCodeWorks, OpenCodeRests, ContainerDies
<1>8. ~(\E kind \in Kinds, e \in Epochs : Mutate(kind, e)) /\ ~MutationStep
  BY <1>0
  DEF Mutate, MutationStep, MutationRefused, WakeStart, WakeRestore, WakeServe, WakeFails, StopStart,
      StopDrain, StopDrained, StopInspect, StopPersist, StopCloses, StopTerminate, StopFails, Holding
<1>9. ~RestoreStep /\ ~CpStep
  BY <1>0
  DEF RestoreStep, RestoreEnsure, RestoreCheck, RestoreRead, RestoreUnpack, RestoreMark, RestoreFails,
      CpStep, CpMark, CpSnap, CpPut, CpStale, CpFails
<1>10. ASSUME NEW k \in PurgeKinds, PurgeInstance(k) \/ PurgeStep(k)
       PROVE  /\ UNCHANGED <<lock, restore, cp, ops>> /\ bucket' \subseteq bucket
              /\ box = NoBox => box' = NoBox
  BY <1>10
  DEF PurgeInstance, PurgeStep, PurgeFlag, PurgeDrain, PurgeRemove, PurgeObjects, PurgeForget
<1>11. CASE \E k \in PurgeKinds : PurgeInstance(k) \/ PurgeStep(k)
  BY <1>0, <1>10, <1>11 DEF Quiet, Counted
<1> QED
  BY <1>1, <1>3, <1>4, <1>5, <1>6, <1>7, <1>8, <1>9, <1>11
  DEF Next, WakeForLifecycle, QuiesceAndStopIfIdle, ForceStopForLifecycle, Kinds

\* A purge or a cleanup that has drained finds nothing under way.
LEMMA DrainedIsQuiet ==
  ASSUME Shape, Turning, ActiveOperations = 0, LifecycleOperations = 0
  PROVE  Quiet
<1>1. lock = <<>> /\ at = "start"
  BY DEF LifecycleOperations, Shape, Turning, TurnSound
<1>2. Counted(ops) = {}
  BY NobodyCounted
<1>3. cp.at = "none"
  BY <1>1, <1>2 DEF Turning, WaitSound, Counted
<1>4. restore.at = "none"
  <2>1. restore.for = {}
    <3>1. restore.for \in SUBSET {"wake", "checkpoint"}
      BY DEF Shape, Restores
    <3>2. "wake" \notin restore.for /\ "checkpoint" \notin restore.for
      BY <1>1, <1>3 DEF Turning, WaitSound
    <3> QED
      BY <3>1, <3>2
  <2> QED
    BY <2>1 DEF Turning, WaitSound
<1> QED
  BY <1>1, <1>2, <1>3, <1>4 DEF Quiet

\* A host without snapshots never has an archive.
LEMMA NoArchives ==
  ASSUME Shape, Turning, ~snapshots, [Next]_vars
  PROVE  ~snapshots' /\ bucket' = {} /\ cp'.at = "none" /\ disk'.latest = NoBackup
<1>0. bucket = {} /\ cp.at = "none" /\ disk.latest = NoBackup /\ disk \in Disk
      /\ "checkpoint" \notin restore.for
  BY DEF Turning, IdentSound, WaitSound, Shape
<1>1. CASE GetInstanceRuntimeStatus \/ OpenCodeWorks \/ OpenCodeRests \/ ContainerDies \/ UNCHANGED vars
  BY <1>0, <1>1 DEF GetInstanceRuntimeStatus, OpenCodeWorks, OpenCodeRests, ContainerDies, vars
<1>2. CASE \E c \in Callers, e \in Epochs : Requests(c, e)
  BY <1>0, <1>2, RequestIs DEF Ask, CheckpointWorkspace
<1>3. CASE \E c \in Callers : OpStep(c)
  BY <1>0, <1>3 DEF OpStep, ProxyOpencodeFetch, Answered, Unanswered, Disk
<1>4. CASE \E kind \in Kinds, e \in Epochs : Mutate(kind, e)
  BY <1>0, <1>4 DEF Mutate
<1>5. CASE MutationStep
  BY <1>0, <1>5
  DEF MutationStep, MutationRefused, WakeStart, WakeRestore, WakeServe, WakeFails, StopStart,
      StopDrain, StopDrained, StopInspect, StopPersist, StopCloses, StopTerminate, StopFails
<1>6. CASE RestoreStep
  BY <1>0, <1>6
  DEF RestoreStep, RestoreEnsure, RestoreCheck, RestoreRead, RestoreUnpack, RestoreMark, RestoreFails,
      RestoreEnds, RecordWorkspaceLoss, Disk
<1>7. ~CpStep
  BY <1>0 DEF CpStep, CpMark, CpSnap, CpPut, CpStale, CpFails
<1>8. ASSUME NEW k \in PurgeKinds, PurgeInstance(k) \/ PurgeStep(k)
      PROVE  ~snapshots' /\ bucket' = {} /\ cp'.at = "none" /\ disk'.latest = NoBackup
  <2>1. ~snapshots' /\ bucket' = {} /\ cp'.at = "none"
    BY <1>0, <1>8
    DEF PurgeInstance, PurgeStep, PurgeFlag, PurgeDrain, PurgeRemove, PurgeObjects, PurgeForget
  <2>2. [disk EXCEPT !.latest = NoBackup, !.ledger = {}].latest = NoBackup
        /\ [disk EXCEPT !.ident = "deleting", !.purge = TRUE].latest = NoBackup
    BY <1>0 DEF Disk
  <2>3. disk'.latest = NoBackup
    BY <1>0, <1>8, <2>2, NothingType
    DEF PurgeInstance, PurgeStep, PurgeFlag, PurgeDrain, PurgeRemove, PurgeObjects, PurgeForget
  <2> QED
    BY <2>1, <2>3
<1>9. CASE InitializeInstance \/ Restart
  BY <1>0, <1>9, NothingType DEF InitializeInstance, Restart, Disk
<1> QED
  BY <1>1, <1>2, <1>3, <1>4, <1>5, <1>6, <1>7, <1>8, <1>9
  DEF Next, WakeForLifecycle, QuiesceAndStopIfIdle, ForceStopForLifecycle, Kinds

\* What memory says of the identity stays what storage says.
LEMMA IdentKept ==
  ASSUME Shape, Shape', Turning, [Next]_vars
  PROVE  IdentSound'
<1>0. /\ mem \in Memory /\ disk \in Disk /\ IdentSound
  BY DEF Shape, Turning
<1>1. ~snapshots' => bucket' = {} /\ cp'.at = "none" /\ disk'.latest = NoBackup
  <2>1. UNCHANGED snapshots
    BY <1>0, Elsewhere
    DEF IdentityStep, InitializeInstance, Restart, PurgeInstance, PurgeStep, PurgeFlag, PurgeDrain,
        PurgeRemove, PurgeObjects, PurgeForget
  <2> QED
    BY <2>1, NoArchives
<1>2. disk.ident = "none" => Quiet' /\ box' = NoBox /\ bucket' = {}
  BY <1>0, QuietStays DEF IdentSound
<1>3. CASE ~IdentityStep
  BY <1>0, <1>1, <1>2, <1>3, Elsewhere DEF IdentSound
<1>4. CASE InitializeInstance
  <2>1. CASE mem.ident = "active"
    <3>1. mem' = [mem EXCEPT !.active = TRUE] /\ UNCHANGED disk /\ ~mem.purge
      BY <1>4, <2>1 DEF InitializeInstance
    <3>2. mem'.ident = "active" /\ mem'.purge = mem.purge /\ mem'.active
      BY <1>0, <2>1, <3>1 DEF Memory
    <3> QED
      BY <1>0, <1>1, <1>2, <2>1, <3>1, <3>2 DEF IdentSound
  <2>2. CASE mem.ident # "active"
    <3>1. /\ mem' = [ident |-> "active", active |-> TRUE, purge |-> FALSE] /\ ~mem.purge
          /\ disk' = [disk EXCEPT !.ident = "active"]
      BY <1>4, <2>2 DEF InitializeInstance
    <3>2. mem'.ident = "active" /\ ~mem'.purge /\ disk'.ident = "active" /\ disk'.purge = disk.purge
      BY <1>0, <3>1 DEF Disk
    <3> QED
      BY <1>0, <1>1, <3>1, <3>2 DEF IdentSound
  <2> QED
    BY <2>1, <2>2
<1>5. CASE Restart
  <2>1. /\ mem'.ident = disk.ident /\ mem'.purge = disk.purge
        /\ mem'.active = (disk.ident = "active" /\ ~disk.purge) /\ UNCHANGED disk
    BY <1>5 DEF Restart
  <2> QED
    BY <1>0, <1>1, <1>2, <2>1 DEF IdentSound
<1>6. ASSUME NEW k \in PurgeKinds, PurgeInstance(k) \/ PurgeStep(k)
      PROVE  IdentSound'
  <2>1. CASE PurgeInstance(k)
    <3>1. mem'.ident = mem.ident /\ mem'.purge /\ ~mem'.active
      BY <1>0, <2>1 DEF PurgeInstance, Memory
    <3>2. (mem.ident = "none" /\ disk' = Wiped) \/ UNCHANGED disk
      BY <2>1 DEF PurgeInstance
    <3> QED
      BY <1>0, <1>1, <1>2, <3>1, <3>2, NothingType DEF IdentSound
  <2>2. CASE PurgeFlag(k)
    <3>1. mem'.ident = "deleting" /\ disk'.ident = "deleting" /\ mem'.active = mem.active
          /\ mem'.purge = mem.purge /\ mem.purge
      BY <1>0, <2>2 DEF PurgeFlag, Memory, Disk, Turning, PurgeSound, Purging
    <3> QED
      BY <1>0, <1>1, <3>1 DEF IdentSound
  <2>3. CASE PurgeForget(k)
    <3>1. mem' = mem /\ mem.ident = "deleting" /\ mem.purge /\ Quiet /\ box = NoBox /\ bucket = {}
      BY <2>3 DEF PurgeForget, Turning, PurgeSound, Purging
    <3>2. Quiet' /\ box' = NoBox /\ bucket' = {}
      BY <1>0, <3>1, QuietStays DEF IdentSound
    <3>3. CASE k = "purge"
      <4>1. disk'.ident = "none" /\ ~disk'.purge
        BY <2>3, <3>3, NothingType DEF PurgeForget
      <4> QED
        BY <1>0, <1>1, <3>1, <3>2, <4>1 DEF IdentSound
    <3>4. CASE k # "purge"
      <4>1. disk'.ident = disk.ident /\ disk'.purge = disk.purge
        BY <1>0, <2>3, <3>4 DEF PurgeForget, Disk
      <4> QED
        BY <1>0, <1>1, <1>2, <3>1, <4>1 DEF IdentSound
    <3> QED
      BY <3>3, <3>4
  <2>4. CASE PurgeDrain(k) \/ PurgeRemove(k) \/ PurgeObjects(k)
    <3>1. UNCHANGED <<mem, disk>>
      BY <2>4 DEF PurgeDrain, PurgeRemove, PurgeObjects
    <3> QED
      BY <1>0, <1>1, <1>2, <3>1 DEF IdentSound
  <2> QED
    BY <1>6, <2>1, <2>2, <2>3, <2>4 DEF PurgeStep
<1> QED
  BY <1>3, <1>4, <1>5, <1>6 DEF IdentityStep

\* What a purge or a cleanup relies on at its steps, for one of them.
OnePurgeSound(k) ==
    /\ purge[k].at # "none" => mem.purge
    /\ purge[k].at \in {"drain", "remove", "objects", "forget"} => mem.ident = "deleting"
    /\ purge[k].at \in {"remove", "objects", "forget"} =>
          Quiet /\ (snapshots => bucket \subseteq purge[k].known)
    /\ purge[k].at \in {"objects", "forget"} => box = NoBox
    /\ purge[k].at = "forget" => bucket = {}

\* A purge that is not at its own step keeps what it relies on.
LEMMA OtherPurgeKept ==
  ASSUME Shape, Shape', Turning, [Next]_vars, NEW k \in PurgeKinds,
         UNCHANGED <<snapshots, purge[k]>>,
         purge[k].at # "none" => mem'.purge,
         mem.ident = "deleting" => mem'.ident = "deleting"
  PROVE  OnePurgeSound(k)'
<1>1. OnePurgeSound(k) /\ (mem.ident = "deleting" => ~mem.active)
  BY DEF Turning, PurgeSound, OnePurgeSound, IdentSound
<1>2. CASE purge[k].at \in {"remove", "objects", "forget"}
  <2>1. Quiet' /\ bucket' \subseteq bucket /\ (box = NoBox => box' = NoBox)
    BY <1>1, <1>2, QuietStays DEF OnePurgeSound
  <2> QED
    BY <1>1, <1>2, <2>1 DEF OnePurgeSound
<1>3. CASE purge[k].at \notin {"remove", "objects", "forget"}
  BY <1>1, <1>3 DEF OnePurgeSound
<1> QED
  BY <1>2, <1>3

\* A purge or a cleanup keeps what it relies on at its own step.
LEMMA OwnPurgeKept ==
  ASSUME Shape, Shape', Turning, [Next]_vars, NEW k \in PurgeKinds,
         PurgeInstance(k) \/ PurgeStep(k)
  PROVE  OnePurgeSound(k)'
<1>0. OnePurgeSound(k) /\ IdentSound /\ purge \in [PurgeKinds -> Purges] /\ mem \in Memory
  BY DEF Turning, PurgeSound, OnePurgeSound, Shape
<1>1. CASE PurgeInstance(k)
  <2>1. mem'.purge /\ mem'.ident = mem.ident /\ purge'[k].at \in {"none", "flag"}
    BY <1>0, <1>1 DEF PurgeInstance, PurgeGoto, Purging, Memory, Purges
  <2> QED
    BY <2>1 DEF OnePurgeSound
<1>2. CASE PurgeFlag(k)
  <2>1. mem'.purge /\ mem'.ident = "deleting" /\ purge'[k].at = "drain"
    BY <1>0, <1>2 DEF PurgeFlag, PurgeGoto, Purging, Memory, Purges, OnePurgeSound
  <2> QED
    BY <2>1 DEF OnePurgeSound
<1>3. CASE PurgeDrain(k)
  <2>1. Quiet
    BY <1>3, DrainedIsQuiet DEF PurgeDrain
  <2>2. /\ UNCHANGED <<mem, lock, ops, restore, cp, bucket, snapshots>> /\ mem.purge /\ mem.ident = "deleting"
        /\ purge'[k].at = "remove" /\ (snapshots => bucket \subseteq purge'[k].known)
    BY <1>0, <1>3 DEF PurgeDrain, Purging, OnePurgeSound
  <2>3. Quiet'
    BY <2>1, <2>2 DEF Quiet, Counted
  <2> QED
    BY <2>2, <2>3 DEF OnePurgeSound
<1>4. CASE PurgeEnds(k) /\ UNCHANGED mem
  <2>1. purge'[k].at = "none"
    BY <1>0, <1>4, NothingType DEF PurgeEnds
  <2> QED
    BY <1>4, <2>1 DEF OnePurgeSound
<1>5. CASE PurgeGoto(k, "objects") /\ box' = NoBox /\ PurgeRemove(k)
  <2>1. /\ UNCHANGED <<mem, lock, ops, restore, cp, bucket, snapshots>> /\ purge[k].at = "remove"
        /\ purge'[k].at = "objects" /\ purge'[k].known = purge[k].known
    BY <1>0, <1>5 DEF PurgeRemove, PurgeGoto, Purging, Purges
  <2> QED
    BY <1>0, <1>5, <2>1 DEF OnePurgeSound, Quiet, Counted
<1>6. CASE PurgeGoto(k, "forget") /\ PurgeObjects(k) /\ bucket' = bucket \ purge[k].known
  <2>1. /\ UNCHANGED <<mem, lock, ops, restore, cp, box, snapshots>> /\ purge[k].at = "objects"
        /\ purge'[k].at = "forget" /\ purge'[k].known = purge[k].known
    BY <1>0, <1>6 DEF PurgeObjects, PurgeGoto, Purging, Purges
  <2>2. bucket' = {}
    BY <1>0, <1>6, <2>1 DEF OnePurgeSound, IdentSound
  <2> QED
    BY <1>0, <2>1, <2>2 DEF OnePurgeSound, Quiet, Counted
<1> QED
  BY <1>1, <1>2, <1>3, <1>4, <1>5, <1>6 DEF PurgeStep, PurgeRemove, PurgeObjects, PurgeForget

\* What a purge has removed stays removed, until the object is given an identity.
LEMMA PurgeKept ==
  ASSUME Shape, Shape', Turning, [Next]_vars
  PROVE  PurgeSound'
<1>0. mem \in Memory /\ disk \in Disk /\ purge \in [PurgeKinds -> Purges] /\ IdentSound /\ PurgeSound
  BY DEF Shape, Turning
<1>1. ASSUME NEW k \in PurgeKinds  PROVE OnePurgeSound(k)'
  <2>1. CASE ~IdentityStep
    <3>1. UNCHANGED <<snapshots, purge, mem>>
      BY <2>1, Elsewhere
    <3> QED
      BY <1>0, <3>1, OtherPurgeKept DEF PurgeSound
  <2>2. CASE InitializeInstance
    <3>1. /\ UNCHANGED <<snapshots, purge>> /\ ~mem.purge /\ mem.ident # "deleting"
      BY <2>2 DEF InitializeInstance
    <3> QED
      BY <1>0, <3>1, OtherPurgeKept DEF PurgeSound
  <2>3. CASE Restart
    <3>1. purge'[k].at = "none"
      BY <1>0, <2>3, NothingType DEF Restart
    <3> QED
      BY <3>1 DEF OnePurgeSound
  <2>4. ASSUME NEW j \in PurgeKinds, PurgeInstance(j) \/ PurgeStep(j)
        PROVE  OnePurgeSound(k)'
    <3>1. CASE j = k
      BY <2>4, <3>1, OwnPurgeKept
    <3>2. CASE j # k
      <4>1. UNCHANGED <<snapshots, purge[k]>>
        BY <1>0, <2>4, <3>2
        DEF PurgeInstance, PurgeStep, PurgeFlag, PurgeDrain, PurgeRemove, PurgeObjects, PurgeForget,
            PurgeGoto, PurgeEnds
      <4>2. (mem.purge => mem'.purge) /\ (mem.ident = "deleting" => mem'.ident = "deleting")
        BY <1>0, <2>4
        DEF PurgeInstance, PurgeStep, PurgeFlag, PurgeDrain, PurgeRemove, PurgeObjects, PurgeForget,
            Memory
      <4> QED
        BY <1>0, <4>1, <4>2, OtherPurgeKept DEF PurgeSound
    <3> QED
      BY <3>1, <3>2
  <2> QED
    BY <2>1, <2>2, <2>3, <2>4 DEF IdentityStep
<1>2. ASSUME outcome' # "none"
      PROVE  Quiet' /\ box' = NoBox /\ bucket' = {} /\ mem'.ident # "active" /\ disk'.ident # "active"
  <2>1. IdentSound'
    BY IdentKept
  <2>2. CASE outcome # "none"
    <3>1. /\ Quiet /\ box = NoBox /\ bucket = {} /\ mem.ident # "active" /\ disk.ident # "active"
          /\ ~mem.active
      BY <1>0, <2>2 DEF PurgeSound, IdentSound
    <3>2. Quiet' /\ box' = NoBox /\ bucket' = {}
      BY <3>1, QuietStays
    <3>3. disk'.ident # "active"
      <4>1. CASE ~IdentityStep
        BY <3>1, <4>1, Elsewhere
      <4>2. CASE InitializeInstance
        BY <1>2, <3>1, <4>2 DEF InitializeInstance
      <4>3. CASE Restart
        BY <3>1, <4>3 DEF Restart
      <4>4. ASSUME NEW j \in PurgeKinds, PurgeInstance(j) \/ PurgeStep(j)
            PROVE  disk'.ident # "active"
        BY <1>0, <3>1, <4>4, NothingType
        DEF PurgeInstance, PurgeStep, PurgeFlag, PurgeDrain, PurgeRemove, PurgeObjects, PurgeForget,
            Disk
      <4> QED
        BY <4>1, <4>2, <4>3, <4>4 DEF IdentityStep
    <3> QED
      BY <2>1, <3>2, <3>3 DEF IdentSound
  <2>3. CASE outcome = "none"
    <3>1. PICK k \in PurgeKinds : PurgeInstance(k) \/ PurgeStep(k)
      BY <1>2, <2>3, Elsewhere DEF IdentityStep, InitializeInstance, Restart
    <3>2. CASE PurgeInstance(k)
      <4>1. mem.ident = "none" /\ disk'.ident = "none"
        BY <1>2, <2>3, <3>2, NothingType DEF PurgeInstance
      <4> QED
        BY <2>1, <4>1 DEF IdentSound
    <3>3. CASE PurgeForget(k)
      <4>1. /\ Quiet /\ box = NoBox /\ bucket = {} /\ mem.ident = "deleting" /\ ~mem.active
            /\ UNCHANGED mem
        BY <1>0, <3>3 DEF PurgeForget, Purging, PurgeSound, IdentSound
      <4>2. Quiet' /\ box' = NoBox /\ bucket' = {}
        BY <4>1, QuietStays
      <4> QED
        BY <2>1, <4>1, <4>2 DEF IdentSound
    <3> QED
      BY <1>2, <2>3, <3>1, <3>2, <3>3 DEF PurgeStep, PurgeFlag, PurgeDrain, PurgeRemove, PurgeObjects
  <2> QED
    BY <2>2, <2>3
<1> QED
  BY <1>1, <1>2 DEF PurgeSound, OnePurgeSound

\* Turns, waiting, identity and purges are sound in every state.
LEMMA TurningHolds == Spec => [](Shape /\ Turning)
<1>1. Init => Shape /\ Turning
  <2>1. ASSUME Init  PROVE TurnSound /\ WaitSound
    BY <2>1, NothingType DEF Init, TurnSound, WaitSound, WaitersAreServed, StopPhases
  <2>2. ASSUME Init  PROVE IdentSound
    BY <2>2, NothingType DEF Init, IdentSound, Quiet, Counted
  <2>3. ASSUME Init  PROVE PurgeSound
    BY <2>3, NothingType DEF Init, PurgeSound
  <2> QED
    BY <2>1, <2>2, <2>3, InitShape DEF Turning
<1>2. Shape /\ Turning /\ [Next]_vars => (Shape /\ Turning)'
  BY NextShape, TurnKept, WaitKept, IdentKept, PurgeKept DEF Turning
<1> QED
  BY <1>1, <1>2, PTL DEF Spec

\* Whoever awaits a restore, a checkpoint or the end of the last request awaits
\* something that is under way (WaitersAreServed).
THEOREM WaitersAreServedHolds == Spec => []WaitersAreServed
<1>1. Turning => WaitersAreServed
  BY DEF Turning, WaitSound
<1> QED
  BY <1>1, TurningHolds, PTL

\* A purge or a cleanup that has reported its end leaves no container, no volume
\* and no archive (PurgedLeavesNothing).
THEOREM PurgedLeavesNothingHolds == Spec => []PurgedLeavesNothing
<1>1. Turning => PurgedLeavesNothing
  BY DEF Turning, PurgeSound, PurgedLeavesNothing
<1> QED
  BY <1>1, TurningHolds, PTL

-----------------------------------------------------------------------------
\* Archives

PurgeMove == \E k \in PurgeKinds : PurgeInstance(k) \/ PurgeStep(k)

\* Outside checkpoints, purges and cleanups no archive comes or goes, and a
\* checkpoint has at most begun or been given up.
LEMMA NoArchiveMoves ==
  ASSUME Shape, Turning, [Next]_vars, ~CpStep, ~PurgeMove
  PROVE  /\ UNCHANGED bucket /\ disk'.latest = disk.latest /\ used'.snapshots = used.snapshots
         /\ \/ UNCHANGED cp
            \/ cp'.at \in {"none", "restore"} /\ (cp'.at = "restore" => cp' = [NoCp EXCEPT !.at = "restore"])
            \/ cp.at = "restore" /\ cp'.at = "mark" /\ cp'.new = cp.new
         /\ disk'.purge = disk.purge
<1>0. disk \in Disk /\ used \in Counters /\ cp \in Checkpoints
  BY DEF Shape
<1>1. CASE GetInstanceRuntimeStatus \/ OpenCodeWorks \/ OpenCodeRests \/ ContainerDies \/ UNCHANGED vars
  BY <1>0, <1>1
  DEF GetInstanceRuntimeStatus, OpenCodeWorks, OpenCodeRests, ContainerDies, vars, Spend, Counters
<1>2. CASE \E c \in Callers, e \in Epochs : Requests(c, e)
  BY <1>0, <1>2, RequestIs DEF Ask, CheckpointWorkspace, NoCp
<1>3. CASE \E c \in Callers : OpStep(c)
  BY <1>0, <1>3 DEF OpStep, ProxyOpencodeFetch, Answered, Unanswered, Disk, Spend, Counters
<1>4. CASE \E kind \in Kinds, e \in Epochs : Mutate(kind, e)
  BY <1>0, <1>4 DEF Mutate, Counters
<1>5. CASE MutationStep
  BY <1>0, <1>5
  DEF MutationStep, MutationRefused, WakeStart, WakeRestore, WakeServe, WakeFails, StopStart,
      StopDrain, StopDrained, StopInspect, StopPersist, StopCloses, StopTerminate, StopFails, NoCp
<1>6. CASE RestoreStep
  <2>1. UNCHANGED <<bucket, used>> /\ disk'.latest = disk.latest /\ disk'.purge = disk.purge
    BY <1>0, <1>6
    DEF RestoreStep, RestoreEnsure, RestoreCheck, RestoreRead, RestoreUnpack, RestoreMark,
        RestoreFails, RecordWorkspaceLoss, Disk
  <2>2. RestoreEnds(TRUE) \/ RestoreEnds(FALSE) \/ UNCHANGED cp
    BY <1>6
    DEF RestoreStep, RestoreEnsure, RestoreCheck, RestoreRead, RestoreUnpack, RestoreMark, RestoreFails
  <2>3. ASSUME NEW ok \in BOOLEAN, RestoreEnds(ok), ~UNCHANGED cp
        PROVE  \/ cp'.at = "none"
               \/ cp.at = "restore" /\ cp'.at = "mark" /\ cp'.new = cp.new
    BY <1>0, <2>3, NothingType DEF RestoreEnds, Checkpoints, Turning, WaitSound
  <2> QED
    BY <2>1, <2>2, <2>3
<1>7. CASE InitializeInstance \/ Restart
  BY <1>0, <1>7, NothingType DEF InitializeInstance, Restart, Disk, Spend, Counters
<1> QED
  BY <1>1, <1>2, <1>3, <1>4, <1>5, <1>6, <1>7
  DEF Next, PurgeMove, WakeForLifecycle, QuiesceAndStopIfIdle, ForceStopForLifecycle, Kinds

\* A purge or a cleanup that goes on after another has wiped the storage.
LEMMA WipedStays ==
  ASSUME Shape, Turning, BackupSound, [Next]_vars, NEW k \in PurgeKinds,
         purge[k].at \in {"drain", "remove", "objects", "forget"}, ~disk.purge
  PROVE  disk'.latest = NoBackup /\ Quiet'
<1>1. disk.latest = NoBackup /\ Quiet /\ ~mem.active
  BY DEF BackupSound, Turning, PurgeSound, IdentSound
<1>2. Quiet'
  BY <1>1, QuietStays
<1>3. ~CpStep
  BY <1>1 DEF Quiet, CpStep, CpMark, CpSnap, CpPut, CpStale, CpFails
<1>4. CASE PurgeMove
  BY <1>1, <1>2, <1>4, NothingType
  DEF PurgeMove, PurgeInstance, PurgeStep, PurgeFlag, PurgeDrain, PurgeRemove, PurgeObjects, PurgeForget,
      Shape, Disk
<1> QED
  BY <1>1, <1>2, <1>3, <1>4, NoArchiveMoves

\* What counts stays in the bucket, and what is new stays apart from it.
LEMMA BackupKept ==
  ASSUME Shape, Shape', Turning, Turning', BackupSound, [Next]_vars
  PROVE  BackupSound'
<1>0. /\ disk \in Disk /\ used \in Counters /\ cp \in Checkpoints /\ purge \in [PurgeKinds -> Purges]
      /\ disk.latest.id \in Nat /\ used.snapshots \in Nat /\ used'.snapshots \in Nat
  BY NothingType DEF Shape, Disk, Handle, Counters
<1>1. CASE ~CpStep /\ ~PurgeMove
  <2>1. ASSUME NEW k \in PurgeKinds, purge'[k].at \in {"drain", "remove", "objects", "forget"},
               ~disk'.purge
        PROVE  disk'.latest = NoBackup /\ Quiet'
    <3>1. purge'[k] = purge[k]
      <4>1. ~Restart
        BY <1>0, <2>1, NothingType DEF Restart
      <4> QED
        BY <1>1, <4>1, Elsewhere DEF IdentityStep, PurgeMove, InitializeInstance
    <3> QED
      BY <1>1, <2>1, <3>1, NoArchiveMoves, WipedStays
  <2>2. cp'.at \in {"put", "stale"} => UNCHANGED cp
    BY <1>1, NoArchiveMoves
  <2> QED
    BY <1>1, <2>1, <2>2, NoArchiveMoves DEF BackupSound
<1>2. CASE CpStep
  <2>1. UNCHANGED purge /\ disk'.purge = disk.purge
    BY <1>0, <1>2
    DEF CpStep, CpMark, CpSnap, CpPut, CpStale, CpFails, ReplaceBackupHandleLedger, Disk
  <2>2. \A k \in PurgeKinds :
          ~(purge'[k].at \in {"drain", "remove", "objects", "forget"} /\ ~disk'.purge)
    BY <1>2, <2>1
    DEF BackupSound, Quiet, CpStep, CpMark, CpSnap, CpPut, CpStale, CpFails
  <2>3. ASSUME NEW ok \in BOOLEAN, CpEnds(ok)  PROVE cp'.at = "none"
    BY <2>3, NothingType DEF CpEnds
  <2>4. CASE CpMark \/ CpFails
    <3>1. UNCHANGED <<bucket, disk, used>> /\ cp'.at \notin {"put", "stale"}
      BY <1>0, <2>3, <2>4 DEF CpMark, CpFails, Checkpoints
    <3> QED
      BY <2>2, <3>1 DEF BackupSound
  <2>5. CASE CpSnap
    <3> DEFINE new == [id |-> used.snapshots + 1, content |-> box.content]
    <3>1. /\ UNCHANGED disk /\ bucket' = bucket \cup {new} /\ used'.snapshots = used.snapshots + 1
          /\ new.id = used.snapshots + 1
          /\ cp' = [cp EXCEPT !.at = "put", !.new = new] \/ CpEnds(FALSE)
      BY <1>0, <2>5 DEF CpSnap, Spend, Counters
    <3> HIDE DEF new
    <3>2. cp'.at # "none" => cp'.at = "put" /\ cp'.new = new
      BY <1>0, <2>3, <3>1 DEF Checkpoints
    <3>3. cp'.at \in {"put", "none"}
      BY <1>0, <2>3, <3>1 DEF Checkpoints
    <3> QED
      BY <1>0, <2>2, <3>1, <3>2, <3>3 DEF BackupSound
  <2>6. CASE CpPut
    <3>1. cp.at = "put" /\ UNCHANGED used /\ cp.new \in Handle /\ cp.new # NoBackup
      BY <2>6, NothingType DEF CpPut, Shape
    <3>2. CASE /\ disk' = [disk EXCEPT !.latest = cp.new, !.ledger = @ \cup {cp.new}]
               /\ cp' = [cp EXCEPT !.at = "stale"] /\ UNCHANGED bucket
      <4>1. disk'.latest = cp.new /\ cp'.new = cp.new /\ cp'.at = "stale"
        BY <1>0, <3>2 DEF Disk, Checkpoints
      <4> QED
        BY <1>0, <2>2, <3>1, <3>2, <4>1 DEF BackupSound
    <3>3. CASE bucket' = bucket \ {cp.new} /\ CpEnds(FALSE) /\ UNCHANGED disk
      <4>1. cp'.at = "none" /\ disk.latest # cp.new
        <5>1. disk.latest.id < cp.new.id
          BY <3>1 DEF BackupSound
        <5>2. disk.latest.id # cp.new.id
          BY <1>0, <3>1, <5>1 DEF Handle
        <5> QED
          BY <2>3, <3>3, <5>2
      <4> QED
        BY <2>2, <3>1, <3>3, <4>1 DEF BackupSound
    <3> QED
      BY <2>6, <3>2, <3>3 DEF CpPut
  <2>7. CASE CpStale
    <3>1. cp.at = "stale" /\ UNCHANGED used /\ cp'.at = "none" /\ disk'.latest = disk.latest
          /\ (cp.new \in bucket => cp.new \in bucket')
      BY <1>0, <2>3, <2>7 DEF CpStale, ReplaceBackupHandleLedger, Disk
    <3> QED
      BY <2>1, <2>2, <3>1 DEF BackupSound
  <2> QED
    BY <1>2, <2>4, <2>5, <2>6, <2>7 DEF CpStep
<1>3. ASSUME NEW j \in PurgeKinds, PurgeInstance(j) \/ PurgeStep(j)
      PROVE  BackupSound'
  <2>1. UNCHANGED <<cp, lock, ops, restore>> /\ used'.snapshots = used.snapshots
    BY <1>0, <1>3
    DEF PurgeInstance, PurgeStep, PurgeFlag, PurgeDrain, PurgeRemove, PurgeObjects, PurgeForget, Spend,
        Counters
  <2>2. CASE PurgeInstance(j)
    <3>1. UNCHANGED bucket /\ (UNCHANGED disk \/ (mem.ident = "none" /\ disk' = Wiped))
      BY <2>2 DEF PurgeInstance
    <3>2. \A k \in PurgeKinds :
            purge'[k].at \in {"drain", "remove", "objects", "forget"} => purge'[k] = purge[k]
      BY <1>0, <2>2 DEF PurgeInstance, PurgeGoto, Purging, Purges
    <3>3. CASE UNCHANGED disk
      BY <2>1, <3>1, <3>2, <3>3 DEF BackupSound, Quiet, Counted
    <3>4. CASE mem.ident = "none" /\ disk' = Wiped
      <4>1. Quiet
        BY <3>4 DEF Turning, IdentSound
      <4>2. cp.at = "none" /\ Quiet'
        BY <2>1, <4>1 DEF Quiet, Counted
      <4> QED
        BY <1>0, <2>1, <3>4, <4>2, NothingType DEF BackupSound
    <3> QED
      BY <3>1, <3>3, <3>4
  <2>3. CASE PurgeFlag(j)
    <3>1. disk'.purge /\ disk'.latest = disk.latest /\ UNCHANGED bucket
      BY <1>0, <2>3 DEF PurgeFlag, Disk
    <3> QED
      BY <2>1, <3>1 DEF BackupSound
  <2>4. CASE PurgeDrain(j) \/ PurgeRemove(j)
    <3>1. UNCHANGED <<disk, bucket>>
      BY <2>4 DEF PurgeDrain, PurgeRemove
    <3>2. \A k \in PurgeKinds :
            purge'[k].at \in {"drain", "remove", "objects", "forget"} =>
                purge[k].at \in {"drain", "remove", "objects", "forget"}
      BY <1>0, <2>4 DEF PurgeDrain, PurgeRemove, PurgeGoto, PurgeEnds, Purging, Purges
    <3> QED
      BY <2>1, <3>1, <3>2 DEF BackupSound, Quiet, Counted
  <2>5. CASE PurgeObjects(j)
    <3>1. UNCHANGED disk /\ purge[j].at = "objects"
      BY <2>5 DEF PurgeObjects, Purging
    <3>2. \A k \in PurgeKinds :
            purge'[k].at \in {"drain", "remove", "objects", "forget"} =>
                purge[k].at \in {"drain", "remove", "objects", "forget"}
      BY <1>0, <2>5 DEF PurgeObjects, PurgeGoto, PurgeEnds, Purging, Purges
    <3>3. ~disk.purge => disk.latest = NoBackup
      BY <3>1 DEF BackupSound
    <3>4. cp.at = "none"
      BY <3>1 DEF Turning, PurgeSound, Quiet
    <3> QED
      BY <2>1, <3>1, <3>2, <3>3, <3>4 DEF BackupSound, Quiet, Counted
  <2>6. CASE PurgeForget(j)
    <3>1. purge[j].at = "forget" /\ Quiet
      BY <2>6 DEF PurgeForget, Purging, Turning, PurgeSound
    <3>2. disk'.latest = NoBackup
      BY <1>0, <2>6, NothingType DEF PurgeForget, Disk
    <3>3. Quiet' /\ cp'.at = "none"
      BY <2>1, <3>1 DEF Quiet, Counted
    <3> QED
      BY <1>0, <2>1, <3>2, <3>3, NothingType DEF BackupSound
  <2> QED
    BY <1>3, <2>2, <2>3, <2>4, <2>5, <2>6 DEF PurgeStep
<1> QED
  BY <1>1, <1>2, <1>3 DEF PurgeMove

\* Turns, waiting, identity, purges and archives are sound in every state.
Backing == Shape /\ Turning /\ BackupSound

\* These layers hold in every reachable state.
LEMMA BackingHolds == Spec => []Backing
<1>1. Init => BackupSound
  BY NothingType DEF Init, BackupSound
<1>2. Shape /\ Shape' /\ Turning /\ Turning' /\ BackupSound /\ [Next]_vars => BackupSound'
  BY BackupKept
<1> QED
  BY <1>1, <1>2, TurningHolds, PTL DEF Spec, Backing

\* The handle storage holds as the latest names an archive that exists, for as
\* long as the instance has not been asked to go (LatestBackupExists).
THEOREM LatestBackupExistsHolds == Spec => []LatestBackupExists
<1>1. Backing => LatestBackupExists
  BY DEF Backing, BackupSound, Turning, IdentSound, LatestBackupExists
<1> QED
  BY <1>1, BackingHolds, PTL

-----------------------------------------------------------------------------
\* Stops

\* A stop has closed the gate, and what has begun before has ended.
Closed == gate.phase \in {"checkpointing", "stopping"}
Stilled(os) == \A c \in Callers : os[c].at \notin {"sent", "saving"}

\* Unless the gate is open no request is sent to the container, and none asks
\* for a checkpoint.
LEMMA NoneSent ==
  ASSUME Shape, gate.phase # "running", Stilled(ops), [Next]_vars
  PROVE  Stilled(ops')
<1>0. ops \in [Callers -> Operations]
  BY DEF Shape
<1>1. CASE UNCHANGED ops
  BY <1>1 DEF Stilled
<1>2. ASSUME NEW c \in Callers, NEW e \in Epochs, Requests(c, e)  PROVE Stilled(ops')
  <2>1. ~CheckpointWorkspace(c, e)
    BY DEF CheckpointWorkspace, Admitted, CurrentRuntime
  <2>2. PICK step \in {"asked", "begun", "sent"}, does \in Does :
           Ask(c, step, does, e) /\ (step = "sent" => CurrentRuntime(e))
    BY <1>2, <2>1, RequestIs
  <2> QED
    BY <1>0, <2>2 DEF Ask, CurrentRuntime, Stilled
<1>3. ASSUME NEW c \in Callers, OpStep(c)  PROVE Stilled(ops')
  <2>1. ops' = [ops EXCEPT ![c] = NoOps]
    BY <1>3 DEF OpStep, ProxyOpencodeFetch, Answered, Unanswered, Leaves, Admitted, CurrentRuntime
  <2> QED
    BY <1>0, <2>1, NothingType DEF Stilled
<1>4. CASE RestoreStep \/ CpStep
  <2>1. UNCHANGED ops \/ ops' = [c \in Callers |-> IF ops[c].at = "saving" THEN NoOps ELSE ops[c]]
    BY <1>4
    DEF RestoreStep, RestoreEnsure, RestoreCheck, RestoreRead, RestoreUnpack, RestoreMark, RestoreFails,
        RestoreEnds, CpStep, CpMark, CpSnap, CpPut, CpStale, CpFails, CpEnds
  <2> QED
    BY <2>1 DEF Stilled
<1>5. CASE Restart
  BY <1>5, NothingType DEF Restart, Stilled
<1>6. CASE \/ InitializeInstance \/ GetInstanceRuntimeStatus \/ OpenCodeWorks \/ OpenCodeRests
           \/ ContainerDies \/ UNCHANGED vars
           \/ \E kind \in Kinds, e \in Epochs : Mutate(kind, e)
           \/ \E k \in PurgeKinds : PurgeInstance(k) \/ PurgeStep(k)
  BY <1>1, <1>6
  DEF InitializeInstance, GetInstanceRuntimeStatus, OpenCodeWorks, OpenCodeRests, ContainerDies, vars,
      Mutate, PurgeInstance, PurgeStep, PurgeFlag, PurgeDrain, PurgeRemove, PurgeObjects, PurgeForget
<1>7. CASE MutationStep
  BY <1>1, <1>7
  DEF MutationStep, MutationRefused, WakeStart, WakeRestore, WakeServe, WakeFails, StopStart,
      StopDrain, StopDrained, StopInspect, StopPersist, StopCloses, StopTerminate, StopFails
<1> QED
  BY <1>2, <1>3, <1>4, <1>5, <1>6, <1>7
  DEF Next, WakeForLifecycle, QuiesceAndStopIfIdle, ForceStopForLifecycle, Kinds

\* A stop that has waited for the drain goes on when nothing is counted.
LEMMA DrainedIsStilled ==
  ASSUME Shape, Turning, [Next]_vars, at # "drained", at' = "drained"
  PROVE  Stilled(ops')
<1>0. ops \in [Callers -> Operations]
  BY DEF Shape
<1>1. CASE StopDrain
  <2>1. Counted(ops) = {} /\ UNCHANGED ops
    BY <1>1, NobodyCounted DEF StopDrain, Goto
  <2> QED
    BY <2>1 DEF Counted, Stilled
<1>2. CASE \E c \in Callers : OpStep(c)
  <2>1. Counted(ops') = {}
    BY <1>2 DEF OpStep, ProxyOpencodeFetch, Answered, Unanswered, Leaves
  <2> QED
    BY <2>1 DEF Counted, Stilled
<1>3. CASE RestoreStep \/ CpStep
  <2>1. /\ ops' = [c \in Callers |-> IF ops[c].at = "saving" THEN NoOps ELSE ops[c]]
        /\ \A c \in Counted(ops) : ops[c].at = "saving"
    <3>1. \/ RestoreEnds(FALSE) \/ CpEnds(TRUE) \/ CpEnds(FALSE)
      BY <1>3
      DEF RestoreStep, RestoreEnsure, RestoreCheck, RestoreRead, RestoreUnpack, RestoreMark,
          RestoreFails, RestoreEnds, CpStep, CpMark, CpSnap, CpPut, CpStale, CpFails
    <3>2. CASE RestoreEnds(FALSE)
      BY <3>2 DEF RestoreEnds, CheckpointEnded
    <3>3. CASE CpEnds(TRUE) \/ CpEnds(FALSE)
      BY <3>3 DEF CpEnds, CheckpointEnded
    <3> QED
      BY <3>1, <3>2, <3>3
  <2> QED
    BY <2>1, NothingType DEF Counted, Stilled
<1>4. ~(\/ InitializeInstance \/ Restart \/ GetInstanceRuntimeStatus \/ OpenCodeWorks \/ OpenCodeRests
        \/ ContainerDies \/ UNCHANGED vars
        \/ \E kind \in Kinds, e \in Epochs : Mutate(kind, e)
        \/ \E k \in PurgeKinds : PurgeInstance(k) \/ PurgeStep(k))
  BY DEF InitializeInstance, Restart, GetInstanceRuntimeStatus, OpenCodeWorks, OpenCodeRests,
         ContainerDies, vars, Mutate, PurgeInstance, PurgeStep, PurgeFlag, PurgeDrain, PurgeRemove,
         PurgeObjects, PurgeForget
<1>5. ~(\E c \in Callers, e \in Epochs : Requests(c, e))
  BY RequestIs DEF Ask, CheckpointWorkspace
<1>6. MutationStep => StopDrain
  BY DEF MutationStep, MutationRefused, WakeStart, WakeRestore, WakeServe, WakeFails, StopStart,
         StopDrained, StopInspect, StopPersist, StopCloses, StopTerminate, StopFails, Release, Goto
<1> QED
  BY <1>1, <1>2, <1>3, <1>4, <1>5, <1>6
  DEF Next, WakeForLifecycle, QuiesceAndStopIfIdle, ForceStopForLifecycle, Kinds

\* Behind a closed gate a checkpoint is the stop's own, and a restore is that
\* checkpoint's.
LEMMA ClosedIsOwn ==
  ASSUME Shape, Turning, StopSound, Closed
  PROVE  /\ cp.at # "none" => at = "saving" /\ gate.phase = "checkpointing"
         /\ restore.at # "none" => cp.at = "restore"
<1>1. cp.at # "none" => at = "saving" /\ gate.phase = "checkpointing"
  BY DEF Closed, Turning, WaitSound, TurnSound, StopSound
<1>2. "wake" \notin restore.for
  BY DEF Closed, Turning, WaitSound, TurnSound, StopPhases
<1>3. restore.for \in SUBSET {"wake", "checkpoint"}
  BY DEF Shape, Restores
<1> QED
  BY <1>1, <1>2, <1>3 DEF Turning, WaitSound

\* Behind a closed gate OpenCode is given no turn, and if it has none the
\* workspace changes only where it is restored.
LEMMA ClosedIsStill ==
  ASSUME Shape, Turning, StopSound, Closed, [Next]_vars
  PROVE  /\ box'.working => box.working
         /\ ~box.working /\ box'.up /\ restore.at = "none" => box.up /\ box'.content = box.content
<1>0. box \in Box /\ Stilled(ops) /\ NoBox \in Box /\ ~NoBox.up /\ ~NoBox.working
  BY NothingType DEF Shape, StopSound, Closed, Stilled
<1>1. CASE UNCHANGED box
  BY <1>1
<1>2. CASE OpenCodeWorks \/ OpenCodeRests
  BY <1>0, <1>2 DEF OpenCodeWorks, OpenCodeRests, Box
<1>3. CASE ContainerDies
  BY <1>0, <1>3 DEF ContainerDies, Stopped, Box
<1>4. ASSUME NEW c \in Callers, OpStep(c)  PROVE UNCHANGED box
  BY <1>0, <1>4 DEF OpStep, ProxyOpencodeFetch, Answered, Unanswered, Stilled
<1>5. CASE RestoreStep
  BY <1>0, <1>5
  DEF RestoreStep, RestoreEnsure, RestoreCheck, RestoreRead, RestoreUnpack, RestoreMark, RestoreFails,
      Box
<1>6. CASE CpStep
  BY <1>0, <1>6 DEF CpStep, CpMark, CpSnap, CpPut, CpStale, CpFails, Box
<1>7. CASE MutationStep
  <2>1. UNCHANGED box \/ box' = Stopped
    BY <1>7
    DEF MutationStep, MutationRefused, WakeStart, WakeRestore, WakeServe, WakeFails, StopStart,
        StopDrain, StopDrained, StopInspect, StopPersist, StopCloses, StopTerminate, StopFails
  <2> QED
    BY <1>0, <2>1 DEF Stopped, Box
<1>8. CASE \E k \in PurgeKinds : PurgeInstance(k) \/ PurgeStep(k)
  <2>1. UNCHANGED box \/ box' = NoBox
    BY <1>8
    DEF PurgeInstance, PurgeStep, PurgeFlag, PurgeDrain, PurgeRemove, PurgeObjects, PurgeForget
  <2> QED
    BY <1>0, <2>1
<1>9. CASE \/ InitializeInstance \/ Restart \/ GetInstanceRuntimeStatus \/ UNCHANGED vars
           \/ \E kind \in Kinds, e \in Epochs : Mutate(kind, e)
  BY <1>1, <1>9 DEF InitializeInstance, Restart, GetInstanceRuntimeStatus, vars, Mutate
<1>10. CASE \E c \in Callers, e \in Epochs : Requests(c, e)
  BY <1>1, <1>10, RequestIs DEF Ask, CheckpointWorkspace
<1> QED
  BY <1>1, <1>2, <1>3, <1>4, <1>5, <1>6, <1>7, <1>8, <1>9, <1>10
  DEF Next, WakeForLifecycle, QuiesceAndStopIfIdle, ForceStopForLifecycle, Kinds

\* The gate is closed by a stop that has drained, and closed for good by one that
\* has saved.
LEMMA GateMoves ==
  ASSUME Shape, Turning, [Next]_vars, ~UNCHANGED gate, Closed'
  PROVE  /\ UNCHANGED <<box, ops, cp, disk, snapshots>> /\ at' = "phase"
         /\ \/ /\ at = "drained" /\ gate'.phase = "checkpointing"
               /\ IdleStop' => ~box.working
            \/ /\ at = "saved" /\ gate.phase = "checkpointing"
               /\ gate'.phase = "stopping" /\ gate'.op = gate.op
<1>1. ASSUME NEW epoch \in Nat, NEW op \in Nat, NEW phase \in {"sleeping", "waking", "running", "quiescing"},
             gate' = Gate(phase, epoch, op)
      PROVE  FALSE
  BY <1>1, GateType DEF Closed, Phases
<1>2. NoEpoch \in Nat /\ NoOp \in Nat /\ NoGate.phase = "unset"
  BY NothingType DEF NoEpoch, NoOp
<1>3. ~(InitializeInstance \/ Restart)
  BY <1>1, <1>2 DEF InitializeInstance, Restart, Closed
<1>4. MutationStep
  <2>1. ~(\E c \in Callers, e \in Epochs : Requests(c, e))
    BY RequestIs DEF Ask, CheckpointWorkspace
  <2>2. ~(\/ GetInstanceRuntimeStatus \/ OpenCodeWorks \/ OpenCodeRests \/ ContainerDies \/ UNCHANGED vars
          \/ \E c \in Callers : OpStep(c)
          \/ \E kind \in Kinds, e \in Epochs : Mutate(kind, e)
          \/ \E k \in PurgeKinds : PurgeInstance(k) \/ PurgeStep(k)
          \/ RestoreStep \/ CpStep)
    BY DEF GetInstanceRuntimeStatus, OpenCodeWorks, OpenCodeRests, ContainerDies, vars, OpStep,
         ProxyOpencodeFetch, Answered, Unanswered, Mutate, PurgeInstance, PurgeStep, PurgeFlag,
         PurgeDrain, PurgeRemove, PurgeObjects, PurgeForget, RestoreStep, RestoreEnsure, RestoreCheck,
         RestoreRead, RestoreUnpack, RestoreMark, RestoreFails, CpStep, CpMark, CpSnap, CpPut, CpStale,
         CpFails
  <2> QED
    BY <1>3, <2>1, <2>2
    DEF Next, WakeForLifecycle, QuiesceAndStopIfIdle, ForceStopForLifecycle, Kinds
<1>5. /\ lock # <<>> /\ call.kind \in Kinds /\ call.op \in Nat /\ call.epoch \in Nat
      /\ PreviousEpoch \in Nat /\ (call.kind = "force" => call.op > MaxEpoch)
  <2>1. lock # <<>>
    BY <1>4 DEF MutationStep, MutationRefused, WakeStart, WakeRestore, WakeServe, WakeFails, StopStart,
         StopDrain, StopDrained, StopInspect, StopPersist, StopCloses, StopTerminate, StopFails, Holding
  <2> QED
    BY <2>1, CallType DEF PreviousEpoch, Shape, RuntimeGate
<1>6. StopDrained \/ StopInspect \/ StopCloses
  <2>1. ~(WakeStart \/ WakeServe \/ WakeFails)
    BY <1>1, <1>2, <1>5 DEF WakeStart, WakeServe, WakeFails
  <2>2. ~(StopStart \/ StopTerminate \/ StopFails)
    BY <1>1, <1>2, <1>5 DEF StopStart, StopTerminate, StopFails
  <2> QED
    BY <1>4, <2>1, <2>2 DEF MutationStep, MutationRefused, WakeRestore, StopDrain, StopPersist
<1>7. CASE StopDrained
  <2>1. gate'.phase = "checkpointing" /\ gate'.op = call.op /\ call.op > MaxEpoch /\ at = "drained"
    BY <1>5, <1>7, GateType DEF StopDrained, Holding, Phases
  <2>2. ~IdleStop'
    BY <1>5, <2>1, Bounds DEF IdleStop
  <2> QED
    BY <1>7, <2>1, <2>2 DEF StopDrained, Goto
<1>8. CASE StopInspect
  <2>1. gate' = Gate("checkpointing", call.epoch, call.op) /\ ~box.working /\ at' = "phase"
    BY <1>1, <1>2, <1>5, <1>8 DEF StopInspect, Goto
  <2>2. gate'.phase = "checkpointing"
    BY <1>5, <2>1, GateType DEF Phases
  <2> QED
    BY <1>8, <2>1, <2>2 DEF StopInspect, Holding
<1>9. CASE StopCloses
  <2>1. gate'.phase = "stopping" /\ gate'.op = call.op
    BY <1>2, <1>5, <1>9, GateType DEF StopCloses, Phases
  <2>2. at = "saved" /\ gate.phase = "checkpointing" /\ gate.op = call.op
    BY <1>9 DEF StopCloses, Holding, Turning, TurnSound
  <2> QED
    BY <1>9, <2>1, <2>2 DEF StopCloses, Goto
<1> QED
  BY <1>6, <1>7, <1>8, <1>9

\* What a stop may rely on past its drain.
LEMMA StopKept ==
  ASSUME Shape, Shape', Turning, Turning', BackupSound, StopSound, [Next]_vars
  PROVE  StopSound'
<1>0. /\ box \in Box /\ cp \in Checkpoints /\ disk \in Disk
      /\ at = "drained" \/ Closed => Stilled(ops)
      /\ at = "drained" => gate.phase = "quiescing"
      /\ at = "saved" => gate.phase = "checkpointing"
  BY DEF Shape, StopSound, Closed, Stilled, Turning, TurnSound
<1>1. ASSUME at' = "drained" \/ Closed'  PROVE Stilled(ops')
  <2>1. CASE at' = "drained"
    BY <1>0, <2>1, DrainedIsStilled, NoneSent
  <2>2. CASE Closed' /\ UNCHANGED gate
    BY <1>0, <2>2, NoneSent DEF Closed
  <2>3. CASE Closed' /\ ~UNCHANGED gate
    BY <1>0, <2>3, GateMoves DEF Closed
  <2> QED
    BY <1>1, <2>1, <2>2, <2>3
<1>2. ASSUME Closed', IdleStop'  PROVE ~box'.working
  <2>1. CASE UNCHANGED gate
    BY <1>2, <2>1, ClosedIsStill DEF StopSound, Closed, IdleStop
  <2>2. CASE ~UNCHANGED gate
    BY <1>2, <2>2, GateMoves DEF StopSound, IdleStop
  <2> QED
    BY <2>1, <2>2
<1>3. ASSUME gate'.phase = "checkpointing", IdleStop', box'.up, cp'.at \in {"put", "stale"}
      PROVE  cp'.new.content = box'.content
  <2>1. CASE ~UNCHANGED gate
    <3>1. at = "drained" /\ UNCHANGED cp
      BY <1>0, <1>3, <2>1, GateMoves DEF Closed
    <3>2. cp.at = "none"
      BY <1>0, <3>1 DEF Turning, WaitSound, Stilled
    <3> QED
      BY <1>3, <3>1, <3>2
  <2>2. CASE UNCHANGED gate
    <3>1. Closed /\ ~box.working /\ gate.phase = "checkpointing" /\ IdleStop
      BY <1>3, <2>2 DEF StopSound, Closed, IdleStop
    <3>2. CASE CpSnap
      <4>1. cp'.new = [id |-> used.snapshots + 1, content |-> box.content] /\ UNCHANGED box
        BY <1>0, <1>3, <3>2, NothingType DEF CpSnap, CpEnds, Checkpoints
      <4> QED
        BY <4>1
    <3>3. CASE CpPut
      <4>1. cp.at = "put" /\ cp'.new = cp.new /\ UNCHANGED box
        BY <1>0, <1>3, <3>3, NothingType DEF CpPut, CpEnds, Checkpoints
      <4> QED
        BY <1>3, <3>1, <4>1 DEF StopSound
    <3>4. CASE ~CpSnap /\ ~CpPut
      <4>1. UNCHANGED cp
        <5>1. CASE CpStep
          BY <1>0, <1>3, <3>4, <5>1, NothingType
          DEF CpStep, CpMark, CpStale, CpFails, CpEnds, Checkpoints
        <5>2. CASE PurgeMove
          BY <5>2 DEF PurgeMove, PurgeInstance, PurgeStep, PurgeFlag, PurgeDrain, PurgeRemove,
                      PurgeObjects, PurgeForget
        <5> QED
          BY <1>3, <5>1, <5>2, NoArchiveMoves
      <4>2. restore.at = "none"
        BY <1>3, <3>1, <4>1, ClosedIsOwn
      <4> QED
        BY <1>3, <3>1, <4>1, <4>2, ClosedIsStill DEF StopSound
    <3> QED
      BY <3>2, <3>3, <3>4
  <2> QED
    BY <2>1, <2>2
<1>4. ASSUME gate'.phase = "stopping" \/ at' = "saved", snapshots', IdleStop', box'.up
      PROVE  disk'.latest # NoBackup /\ disk'.latest.content = box'.content
  <2>0. UNCHANGED snapshots
    BY Elsewhere
    DEF IdentityStep, InitializeInstance, Restart, PurgeInstance, PurgeStep, PurgeFlag, PurgeDrain,
        PurgeRemove, PurgeObjects, PurgeForget
  <2>1. CASE (gate.phase = "stopping" \/ at = "saved") /\ IdleStop
    <3>1. Closed /\ ~box.working /\ cp.at = "none" /\ restore.at = "none"
      BY <1>0, <2>1, ClosedIsOwn DEF StopSound, Closed
    <3>2. box.up /\ box'.content = box.content
      BY <1>4, <3>1, ClosedIsStill
    <3>3. disk.latest # NoBackup /\ disk.latest.content = box.content
      BY <1>4, <2>0, <2>1, <3>2 DEF StopSound
    <3>4. disk'.latest = disk.latest
      <4>1. ~CpStep
        BY <3>1 DEF CpStep, CpMark, CpSnap, CpPut, CpStale, CpFails
      <4>2. ASSUME NEW k \in PurgeKinds, PurgeInstance(k) \/ PurgeStep(k)
            PROVE  disk'.latest = disk.latest
        <5>1. disk.ident # "none" /\ purge[k].at # "forget"
          BY <3>2, NothingType DEF Turning, IdentSound, PurgeSound
        <5>2. UNCHANGED disk \/ disk' = [disk EXCEPT !.ident = "deleting", !.purge = TRUE]
          BY <4>2, <5>1
          DEF PurgeInstance, PurgeStep, PurgeFlag, PurgeDrain, PurgeRemove, PurgeObjects,
              PurgeForget, Purging, Turning, IdentSound
        <5> QED
          BY <1>0, <5>2 DEF Disk
      <4> QED
        BY <4>1, <4>2, NoArchiveMoves DEF PurgeMove
    <3> QED
      BY <3>2, <3>3, <3>4
  <2>2. CASE ~((gate.phase = "stopping" \/ at = "saved") /\ IdleStop)
    <3>1. UNCHANGED gate
      <4>1. Closed'
        BY <1>4 DEF Closed, Turning, TurnSound
      <4> QED
        BY <1>4, <2>2, <4>1, GateMoves DEF IdleStop
    <3>2. at # "saved" /\ at' = "saved" /\ IdleStop /\ gate.phase # "stopping"
      BY <1>4, <2>2, <3>1 DEF IdleStop
    <3>3. CpStale /\ at = "saving"
      <4>1. ~MutationStep
        BY <1>4, <2>0, <3>2
        DEF MutationStep, MutationRefused, WakeStart, WakeRestore, WakeServe, WakeFails, StopStart,
            StopDrain, StopDrained, StopInspect, StopPersist, StopCloses, StopTerminate, StopFails,
            Release, Goto
      <4>2. ~(\E c \in Callers, e \in Epochs : Requests(c, e))
        BY <3>2, RequestIs DEF Ask, CheckpointWorkspace
      <4>3. ~(\/ InitializeInstance \/ Restart \/ GetInstanceRuntimeStatus \/ OpenCodeWorks
              \/ OpenCodeRests \/ ContainerDies \/ UNCHANGED vars
              \/ \E c \in Callers : OpStep(c)
              \/ \E kind \in Kinds, e \in Epochs : Mutate(kind, e)
              \/ \E k \in PurgeKinds : PurgeInstance(k) \/ PurgeStep(k))
        BY <3>2
        DEF InitializeInstance, Restart, GetInstanceRuntimeStatus, OpenCodeWorks, OpenCodeRests,
            ContainerDies, vars, OpStep, ProxyOpencodeFetch, Answered, Unanswered, Leaves, Mutate,
            PurgeInstance, PurgeStep, PurgeFlag, PurgeDrain, PurgeRemove, PurgeObjects, PurgeForget
      <4>4. ~RestoreStep
        BY <3>2
        DEF RestoreStep, RestoreEnsure, RestoreCheck, RestoreRead, RestoreUnpack, RestoreMark,
            RestoreFails, RestoreEnds, CheckpointEnded
      <4>5. CpStep
        BY <4>1, <4>2, <4>3, <4>4
        DEF Next, WakeForLifecycle, QuiesceAndStopIfIdle, ForceStopForLifecycle, Kinds
      <4> QED
        BY <3>2, <4>5 DEF CpStep, CpMark, CpSnap, CpPut, CpStale, CpFails, CpEnds, CheckpointEnded
    <3>4. /\ UNCHANGED box /\ disk'.latest = disk.latest /\ disk.latest = cp.new /\ cp.new \in Handle
          /\ cp.at = "stale"
      BY <1>0, <3>3 DEF CpStale, ReplaceBackupHandleLedger, Disk, BackupSound, Shape
    <3>5. gate.phase = "checkpointing"
      BY <3>3 DEF Turning, TurnSound
    <3> QED
      BY <1>4, <3>2, <3>4, <3>5, NothingType DEF StopSound
  <2> QED
    BY <2>1, <2>2
<1> QED
  BY <1>1, <1>2, <1>3, <1>4 DEF StopSound, Closed, Stilled

\* What a stop relies on holds in every state.
LEMMA StopHolds == Spec => [](Backing /\ StopSound)
<1>1. Init => StopSound
  BY NothingType DEF Init, StopSound
<1>2. Backing /\ Backing' /\ StopSound /\ [Next]_vars => StopSound'
  BY StopKept DEF Backing
<1> QED
  BY <1>1, <1>2, BackingHolds, PTL DEF Spec

\* An idle stop takes the container down only when its whole workspace is in the
\* archive that counts (IdleStopKeepsWork).
THEOREM IdleStopKeepsWorkHolds == Spec => IdleStopKeepsWork
<1>1. ASSUME Backing, StopSound, [Next]_vars,
             Holding({"idle"}, "phase"), gate.phase = "stopping", box.up, ~box'.up, snapshots
      PROVE  /\ ~box.working
             /\ \A c \in Callers : ops[c].at # "sent"
             /\ disk.latest # NoBackup
             /\ disk.latest.content = box.content
  <2>1. gate.op = call.op /\ call.op <= MaxEpoch
    <3>1. lock # <<>> /\ at = "phase" /\ call.kind = "idle"
      BY <1>1 DEF Holding
    <3> QED
      BY <1>1, <3>1, CallType DEF Backing, Turning, TurnSound
  <2> QED
    BY <1>1, <2>1 DEF StopSound, IdleStop
<1> QED
  BY <1>1, StopHolds, PTL DEF Spec, IdleStopKeepsWork

-----------------------------------------------------------------------------
\* Workspaces

\* What the pieces of work are numbered with.
LEMMA WorkType ==
  ASSUME Shape
  PROVE  /\ box \in Box /\ box.content \in Nat /\ disk \in Disk /\ disk.target \in Nat
         /\ disk.latest \in Handles /\ disk.latest.content \in Nat
         /\ cp \in Checkpoints /\ cp.new \in Handles /\ cp.new.content \in Nat
         /\ restore \in Restores /\ restore.handle \in Handles /\ restore.handle.content \in Nat
         /\ used \in Counters /\ used.work \in Nat
<1>1. \A h \in Handles : h.content \in Nat
  BY NothingType DEF Handles, Handle
<1>2. box \in Box /\ box.content \in Nat
  BY DEF Shape, Box
<1>3. disk \in Disk /\ disk.target \in Nat /\ disk.latest \in Handles
  BY DEF Shape, Disk, Handles
<1>4. cp \in Checkpoints /\ cp.new \in Handles
  BY DEF Shape, Checkpoints
<1>5. restore \in Restores /\ restore.handle \in Handles
  BY DEF Shape, Restores
<1>6. used \in Counters /\ used.work \in Nat
  BY DEF Shape, Counters
<1> QED
  BY <1>1, <1>2, <1>3, <1>4, <1>5, <1>6

\* Every number in use has been drawn.
LEMMA BoundedKept ==
  ASSUME Shape, Shape', Turning, WorkBounded, [Next]_vars
  PROVE  WorkBounded'
<1>0. /\ box \in Box /\ disk \in Disk /\ cp \in Checkpoints /\ restore \in Restores /\ used \in Counters
      /\ {box.content, disk.target, disk.latest.content, cp.new.content, restore.handle.content,
          used.work} \subseteq Nat
      /\ NoBackup.content = 0 /\ NoBox.content = 0 /\ NoCp.new = NoBackup
      /\ NoRestore.handle.content = 0 /\ Wiped.latest = NoBackup /\ Wiped.target = 0
      /\ [NoCp EXCEPT !.at = "restore"].new = NoBackup
  BY WorkType, NothingType DEF NoRestore, NoCp
<1>1. ASSUME used'.work = used.work, box'.content = box.content, disk'.target = disk.target,
             disk'.latest = disk.latest, restore'.handle = restore.handle,
             cp'.new \in {cp.new, NoBackup}
      PROVE  WorkBounded'
  BY <1>0, <1>1 DEF WorkBounded
<1>2. CASE InitializeInstance \/ GetInstanceRuntimeStatus \/ OpenCodeRests \/ UNCHANGED vars
  BY <1>0, <1>1, <1>2 DEF InitializeInstance, GetInstanceRuntimeStatus, OpenCodeRests, vars, Box, Disk
<1>3. CASE Restart
  BY <1>0, <1>3 DEF Restart, WorkBounded, Spend, Counters
<1>4. CASE OpenCodeWorks
  BY <1>0, <1>4 DEF OpenCodeWorks, WorkBounded, Spend, Counters, Box
<1>5. CASE ContainerDies
  <2>1. box'.content \in {box.content, 0} /\ used'.work = used.work
    BY <1>0, <1>5 DEF ContainerDies, Stopped, Spend, Counters, Box
  <2> QED
    BY <1>0, <1>5, <2>1 DEF ContainerDies, WorkBounded
<1>6. CASE \E c \in Callers, e \in Epochs : Requests(c, e)
  <2>1. UNCHANGED <<used, box, disk>> /\ restore'.handle = restore.handle /\ cp'.new \in {cp.new, NoBackup}
    BY <1>0, <1>6, RequestIs DEF Ask, CheckpointWorkspace, Restores, Checkpoints
  <2> QED
    BY <1>1, <2>1
<1>7. ASSUME NEW c \in Callers, OpStep(c)  PROVE WorkBounded'
  <2>1. CASE ProxyOpencodeFetch(c) \/ Unanswered(c)
    BY <1>1, <2>1 DEF ProxyOpencodeFetch, Unanswered
  <2>2. CASE Answered(c)
    <3>1. UNCHANGED <<cp, restore>> /\ disk'.latest = disk.latest
      BY <1>0, <2>2 DEF Answered, Disk
    <3>2. \/ used'.work = used.work /\ box'.content = box.content /\ disk'.target = disk.target
          \/ /\ used'.work = used.work + 1 /\ box'.content = used.work + 1
             /\ disk'.target \in {disk.target, used.work + 1}
      BY <1>0, <2>2 DEF Answered, Disk, Box, Spend, Counters
    <3> QED
      BY <1>0, <3>1, <3>2 DEF WorkBounded
  <2> QED
    BY <1>7, <2>1, <2>2 DEF OpStep
<1>8. CASE \E kind \in Kinds, e \in Epochs : Mutate(kind, e)
  BY <1>0, <1>1, <1>8 DEF Mutate, Counters
<1>9. CASE MutationStep
  <2>1. UNCHANGED <<used, disk>> /\ box' \in {box, Stopped} /\ restore'.handle = restore.handle
        /\ cp'.new \in {cp.new, NoBackup}
    <3>1. CASE WakeRestore \/ StopPersist
      <4>1. UNCHANGED <<used, disk, box>> /\ restore'.handle = restore.handle
        BY <1>0, <3>1 DEF WakeRestore, StopPersist, Restores
      <4> QED
        BY <1>0, <3>1, <4>1 DEF WakeRestore, StopPersist
    <3> QED
      BY <1>9, <3>1
      DEF MutationStep, MutationRefused, WakeStart, WakeServe, WakeFails, StopStart, StopDrain,
          StopDrained, StopInspect, StopCloses, StopTerminate, StopFails
  <2>2. box'.content \in {box.content, 0}
    BY <1>0, <2>1 DEF Stopped, Box
  <2> QED
    BY <1>0, <2>1, <2>2 DEF WorkBounded
<1>10. CASE RestoreStep
  <2>1. UNCHANGED used /\ disk'.latest = disk.latest /\ disk'.target = disk.target
    BY <1>0, <1>10
    DEF RestoreStep, RestoreEnsure, RestoreCheck, RestoreRead, RestoreUnpack, RestoreMark, RestoreFails,
        RecordWorkspaceLoss, Disk
  <2>2. cp'.new \in {cp.new, NoBackup}
    BY <1>0, <1>10
    DEF RestoreStep, RestoreEnsure, RestoreCheck, RestoreRead, RestoreUnpack, RestoreMark, RestoreFails,
        RestoreEnds, Checkpoints
  <2>3. restore'.handle \in {restore.handle, disk.latest} \/ restore' = NoRestore
    BY <1>0, <1>10
    DEF RestoreStep, RestoreEnsure, RestoreCheck, RestoreRead, RestoreUnpack, RestoreMark, RestoreFails,
        RestoreEnds, Restores
  <2>4. box'.content \in {box.content, restore.handle.content}
    BY <1>0, <1>10
    DEF RestoreStep, RestoreEnsure, RestoreCheck, RestoreRead, RestoreUnpack, RestoreMark, RestoreFails,
        Box
  <2> QED
    BY <1>0, <2>1, <2>2, <2>3, <2>4 DEF WorkBounded
<1>11. CASE CpStep
  <2>1. used'.work = used.work /\ box'.content = box.content /\ UNCHANGED restore
        /\ disk'.target = disk.target
    BY <1>0, <1>11
    DEF CpStep, CpMark, CpSnap, CpPut, CpStale, CpFails, ReplaceBackupHandleLedger, Spend, Counters,
        Box, Disk
  <2>2. disk'.latest \in {disk.latest, cp.new}
    BY <1>0, <1>11
    DEF CpStep, CpMark, CpSnap, CpPut, CpStale, CpFails, ReplaceBackupHandleLedger, Disk
  <2>3. cp'.new \in {cp.new, NoBackup} \/ cp'.new.content = box.content
    <3>1. CASE CpSnap
      <4> DEFINE new == [id |-> used.snapshots + 1, content |-> box.content]
      <4>1. new.content = box.content
        OBVIOUS
      <4>2. cp' = [cp EXCEPT !.at = "put", !.new = new] \/ CpEnds(FALSE)
        BY <3>1 DEF CpSnap
      <4> HIDE DEF new
      <4> QED
        BY <1>0, <4>1, <4>2 DEF CpEnds, Checkpoints
    <3> QED
      BY <1>0, <1>11, <3>1 DEF CpStep, CpMark, CpPut, CpStale, CpFails, CpEnds, Checkpoints
  <2> QED
    BY <1>0, <2>1, <2>2, <2>3 DEF WorkBounded
<1>12. ASSUME NEW k \in PurgeKinds, PurgeInstance(k) \/ PurgeStep(k)
       PROVE  WorkBounded'
  <2>1. UNCHANGED <<restore, cp>> /\ used'.work = used.work
    BY <1>0, <1>12
    DEF PurgeInstance, PurgeStep, PurgeFlag, PurgeDrain, PurgeRemove, PurgeObjects, PurgeForget, Spend,
        Counters
  <2>2. box' \in {box, NoBox}
    BY <1>12
    DEF PurgeInstance, PurgeStep, PurgeFlag, PurgeDrain, PurgeRemove, PurgeObjects, PurgeForget
  <2>3. disk'.latest \in {disk.latest, NoBackup} /\ disk'.target \in {disk.target, 0}
    BY <1>0, <1>12
    DEF PurgeInstance, PurgeStep, PurgeFlag, PurgeDrain, PurgeRemove, PurgeObjects, PurgeForget, Disk
  <2> QED
    BY <1>0, <2>1, <2>2, <2>3 DEF WorkBounded
<1> QED
  BY <1>2, <1>3, <1>4, <1>5, <1>6, <1>7, <1>8, <1>9, <1>10, <1>11, <1>12
  DEF Next, WakeForLifecycle, QuiesceAndStopIfIdle, ForceStopForLifecycle, Kinds

\* The steps that neither touch a workspace or an archive, nor begin a restore or
\* a checkpoint, nor end one.
Calm ==
    /\ UNCHANGED <<snapshots, box, restore, cp>>
    /\ disk'.latest = disk.latest /\ disk'.target = disk.target /\ disk'.lost = disk.lost
    /\ at' = "restored" => at = "restored"

\* The steps that work on, rest, or take the container away.
BoxMove ==
    \/ OpenCodeWorks \/ OpenCodeRests \/ ContainerDies \/ StopTerminate
    \/ \E c \in Callers : Answered(c)

\* The steps that begin, or join, a restore or a checkpoint.
Begins ==
    \/ WakeRestore \/ StopPersist
    \/ \E c \in Callers, e \in Epochs : CheckpointWorkspace(c, e)

\* All other steps are calm.
LEMMA CalmSteps ==
  ASSUME Shape, [Next]_vars, ~BoxMove, ~Begins, ~RestoreStep, ~CpStep, ~PurgeMove, ~Restart
  PROVE  Calm
<1>0. disk \in Disk
  BY DEF Shape
<1>1. CASE InitializeInstance \/ GetInstanceRuntimeStatus \/ UNCHANGED vars
  BY <1>0, <1>1 DEF InitializeInstance, GetInstanceRuntimeStatus, vars, Calm, Disk
<1>2. CASE \E c \in Callers, e \in Epochs : Requests(c, e)
  BY <1>2, RequestIs DEF Begins, Ask, Calm
<1>3. ASSUME NEW c \in Callers, OpStep(c)  PROVE Calm
  BY <1>3 DEF BoxMove, OpStep, ProxyOpencodeFetch, Unanswered, Leaves, Calm
<1>4. CASE \E kind \in Kinds, e \in Epochs : Mutate(kind, e)
  BY <1>4 DEF Mutate, Calm
<1>5. CASE MutationStep
  BY <1>5
  DEF MutationStep, MutationRefused, WakeStart, WakeServe, WakeFails, StopStart, StopDrain,
      StopDrained, StopInspect, StopCloses, StopFails, Release, Goto, BoxMove, Begins, Calm
<1> QED
  BY <1>1, <1>2, <1>3, <1>4, <1>5
  DEF Next, BoxMove, PurgeMove, WakeForLifecycle, QuiesceAndStopIfIdle, ForceStopForLifecycle, Kinds

\* A container that works on has more in its workspace, and one that is gone has
\* left nothing, or its volume.
LEMMA BoxMoves ==
  ASSUME Shape, WorkBounded, WorkSound, BoxMove
  PROVE  /\ UNCHANGED <<snapshots, restore, cp>>
         /\ disk'.latest = disk.latest /\ disk'.lost = disk.lost
         /\ at' = "restored" => at = "restored"
         /\ \/ UNCHANGED box /\ disk'.target = disk.target
            \/ box' = NoBox /\ disk'.target = disk.target
            \/ ~snapshots /\ box' = [box EXCEPT !.up = FALSE, !.working = FALSE]
                          /\ disk'.target = disk.target
            \/ /\ box.up \/ ~snapshots
               /\ box.vol \/ snapshots
               /\ \E b \in BOOLEAN : box' = [box EXCEPT !.working = b]
               /\ disk'.target = disk.target
            \/ /\ box.up \/ ~snapshots
               /\ box.vol \/ snapshots
               /\ box' = [box EXCEPT !.content = used.work + 1]
               /\ disk'.target \in {disk.target, used.work + 1}
<1>0. /\ box \in Box /\ disk \in Disk
      /\ ~box.up /\ snapshots => box = NoBox
      /\ ~box.vol /\ ~snapshots => box = NoBox
      /\ ~NoBox.up /\ ~NoBox.working /\ snapshots \in BOOLEAN
  BY NothingType DEF Shape, WorkSound
<1>1. CASE OpenCodeWorks
  BY <1>0, <1>1 DEF OpenCodeWorks
<1>2. CASE OpenCodeRests
  BY <1>0, <1>2 DEF OpenCodeRests
<1>3. CASE ContainerDies
  BY <1>0, <1>3 DEF ContainerDies, Stopped
<1>4. CASE StopTerminate
  BY <1>0, <1>4 DEF StopTerminate, Stopped, Release
<1>5. ASSUME NEW c \in Callers, Answered(c)
      PROVE  /\ UNCHANGED <<snapshots, restore, cp>>
             /\ disk'.latest = disk.latest /\ disk'.lost = disk.lost
             /\ at' = "restored" => at = "restored"
             /\ \/ UNCHANGED box /\ disk'.target = disk.target
                \/ /\ box.up
                   /\ \E b \in BOOLEAN : box' = [box EXCEPT !.working = b]
                   /\ disk'.target = disk.target
                \/ /\ box.up
                   /\ box' = [box EXCEPT !.content = used.work + 1]
                   /\ disk'.target \in {disk.target, used.work + 1}
  BY <1>0, <1>5 DEF Answered, Leaves, Disk
<1>6. box.up => box.vol \/ snapshots
  BY <1>0
<1> QED
  BY <1>1, <1>2, <1>3, <1>4, <1>5, <1>6 DEF BoxMove

\* A restore or a checkpoint that begins.
LEMMA BeginsAre ==
  ASSUME Shape, Turning, WorkSound, Begins, Overlaps = FALSE
  PROVE  /\ UNCHANGED <<snapshots, box, disk>> /\ at # "restored" /\ at' # "restored"
         /\ \/ UNCHANGED <<cp, restore>>
            \/ /\ UNCHANGED restore \/ (restore.at = "none" /\ restore'.at = "ensure")
                  \/ (restore'.at = restore.at /\ restore'.handle = restore.handle
                                              /\ restore'.fresh = restore.fresh)
               /\ cp.at \in {"none", "restore"}
               /\ cp'.at \in {"none", "restore"} /\ cp'.new = NoBackup
<1>0. restore \in Restores /\ cp \in Checkpoints /\ [NoCp EXCEPT !.at = "restore"].new = NoBackup
      /\ [NoCp EXCEPT !.at = "restore"].at = "restore"
  BY DEF Shape, NoCp
<1>1. ASSUME NEW who \in {"wake", "checkpoint"},
             restore' = [restore EXCEPT !.at = IF @ = "none" THEN "ensure" ELSE @,
                                        !.for = @ \cup {who}]
      PROVE  \/ restore.at = "none" /\ restore'.at = "ensure"
             \/ restore'.at = restore.at /\ restore'.handle = restore.handle
                                         /\ restore'.fresh = restore.fresh
  BY <1>0, <1>1 DEF Restores
<1>2. CASE WakeRestore
  BY <1>0, <1>1, <1>2 DEF WakeRestore, Holding, Goto, WorkSound
<1>3. CASE StopPersist
  BY <1>0, <1>1, <1>3 DEF StopPersist, Holding, Goto
<1>4. ASSUME NEW c \in Callers, NEW e \in Epochs, CheckpointWorkspace(c, e)
      PROVE  /\ UNCHANGED <<snapshots, box, disk, at>> /\ gate.phase = "running"
             /\ \/ UNCHANGED <<cp, restore>>
                \/ /\ cp.at = "none" /\ cp' = [NoCp EXCEPT !.at = "restore"]
                   /\ restore' = [restore EXCEPT !.at = IF @ = "none" THEN "ensure" ELSE @,
                                                 !.for = @ \cup {"checkpoint"}]
  BY <1>4 DEF CheckpointWorkspace, Admitted, CurrentRuntime
<1>5. gate.phase = "running" => at = "start"
  BY DEF Turning, TurnSound, StopPhases
<1> QED
  BY <1>0, <1>1, <1>2, <1>3, <1>4, <1>5 DEF Begins

\* The properties of a workspace that a step outside restores, checkpoints and
\* purges has to keep.
LEMMA WorkKeptOutside ==
  ASSUME Shape, Shape', Turning, WorkBounded, WorkSound, Overlaps = FALSE, [Next]_vars,
         ~RestoreStep, ~CpStep, ~PurgeMove
  PROVE  WorkSound'
<1>0. /\ box \in Box /\ cp \in Checkpoints /\ restore \in Restores
      /\ snapshots \in BOOLEAN
      /\ box.content \in Nat /\ cp.new.content \in Nat /\ disk.latest.content \in Nat
      /\ disk.target \in Nat /\ used.work \in Nat
  BY WorkType DEF Shape
<1>1. CASE Calm
  BY <1>0, <1>1 DEF Calm, WorkSound, Restored
<1>2. CASE Restart
  BY <1>0, <1>2, NothingType DEF Restart, WorkSound, Restored
<1>3. CASE Begins
  <2>1. UNCHANGED <<snapshots, box, disk>> /\ at # "restored" /\ at' # "restored"
    BY <1>3, BeginsAre
  <2>2. CASE UNCHANGED <<cp, restore>>
    BY <2>1, <2>2 DEF WorkSound, Restored
  <2>3. CASE ~UNCHANGED <<cp, restore>>
    <3>1. /\ cp.at \in {"none", "restore"} /\ cp'.at \in {"none", "restore"} /\ cp'.new = NoBackup
          /\ \/ UNCHANGED restore
             \/ restore.at = "none" /\ restore'.at = "ensure"
             \/ /\ restore'.at = restore.at /\ restore'.handle = restore.handle
                /\ restore'.fresh = restore.fresh
      BY <1>3, <2>3, BeginsAre
    <3> QED
      BY <2>1, <3>1 DEF WorkSound, Restored
  <2> QED
    BY <2>2, <2>3
<1>4. CASE BoxMove
  <2>1. /\ UNCHANGED <<snapshots, restore, cp>>
        /\ disk'.latest = disk.latest /\ disk'.lost = disk.lost
        /\ at' = "restored" => at = "restored"
    BY <1>4, BoxMoves
  <2>2. CASE UNCHANGED box /\ disk'.target = disk.target
    BY <1>0, <2>1, <2>2 DEF WorkSound, Restored
  <2>3. CASE box' = NoBox /\ disk'.target = disk.target
    BY <1>0, <2>1, <2>3, NothingType DEF WorkSound, Restored
  <2>4. CASE ~snapshots /\ box' = [box EXCEPT !.up = FALSE, !.working = FALSE]
    <3>1. /\ ~box'.up /\ box'.vol = box.vol /\ box'.marker = box.marker
      BY <1>0, <2>4 DEF Box
    <3>2. ~box'.vol => box' = NoBox
      <4>1. ~box.vol => box = NoBox
        BY <2>4 DEF WorkSound
      <4>2. ~box.up /\ ~box.working => [box EXCEPT !.up = FALSE, !.working = FALSE] = box
        BY <1>0 DEF Box
      <4> QED
        BY <2>4, <3>1, <4>1, <4>2, NothingType
    <3> QED
      BY <1>0, <2>1, <2>4, <3>1, <3>2 DEF WorkSound, Restored
  <2>5. CASE /\ box.up \/ ~snapshots
             /\ box.vol \/ snapshots
             /\ \E b \in BOOLEAN : box' = [box EXCEPT !.working = b]
             /\ disk'.target = disk.target
    <3>1. box'.up = box.up /\ box'.vol = box.vol /\ box'.marker = box.marker /\ box'.content = box.content
      BY <1>0, <2>5 DEF Box
    <3> QED
      BY <1>0, <2>1, <2>5, <3>1 DEF WorkSound, Restored
  <2>6. CASE /\ box.up \/ ~snapshots
             /\ box.vol \/ snapshots
             /\ box' = [box EXCEPT !.content = used.work + 1]
             /\ disk'.target \in {disk.target, used.work + 1}
    <3>1. box'.up = box.up /\ box'.vol = box.vol /\ box'.marker = box.marker
      BY <1>0, <2>6 DEF Box
    <3>2. /\ box'.content = used.work + 1 /\ box'.content >= box.content
          /\ box'.content >= disk.latest.content
          /\ box'.content >= disk'.target /\ box'.content >= cp.new.content
      BY <1>0, <2>6 DEF Box, WorkBounded
    <3>3. Restored'
      BY <2>1, <3>2 DEF Restored
    <3> QED
      BY <1>0, <2>1, <2>6, <3>1, <3>2, <3>3 DEF WorkSound
  <2> QED
    BY <1>4, <2>2, <2>3, <2>4, <2>5, <2>6, BoxMoves
<1> QED
  BY <1>1, <1>2, <1>3, <1>4, CalmSteps

\* What a restore relies on, and what it leaves.
LEMMA WorkKeptByRestore ==
  ASSUME Shape, Shape', Turning, WorkBounded, WorkSound, RestoreStep
  PROVE  WorkSound'
<1>0. /\ box \in Box /\ cp \in Checkpoints /\ restore \in Restores /\ disk \in Disk
      /\ snapshots \in BOOLEAN
      /\ box.content \in Nat /\ cp.new.content \in Nat /\ disk.latest.content \in Nat
      /\ disk.target \in Nat /\ used.work \in Nat
  BY WorkType DEF Shape
<1>1. restore.at # "none" /\ cp.at \in {"none", "restore"} /\ cp.new = NoBackup /\ at # "restored"
      /\ UNCHANGED snapshots /\ (cp.at = "none" <=> "checkpoint" \notin restore.for)
  BY DEF RestoreStep, RestoreEnsure, RestoreCheck, RestoreRead, RestoreUnpack, RestoreMark,
         RestoreFails, WorkSound, Turning, WaitSound, WaitersAreServed
<1>2. ASSUME NEW ok \in BOOLEAN, RestoreEnds(ok)
      PROVE  /\ restore'.at = "none" /\ cp'.new = NoBackup
             /\ cp'.at \in {"none", "mark"}
             /\ cp'.at = "mark" => ok /\ cp.at = "restore"
             /\ at' = "restored" => ok
  BY <1>0, <1>1, <1>2, NothingType DEF RestoreEnds, Checkpoints, CheckpointEnded
<1>3. CASE RestoreEnsure
  <2>1. /\ box'.up /\ box'.vol = ~snapshots /\ box'.content = box.content /\ box'.marker = box.marker
        /\ restore'.at = "ensured" /\ restore'.fresh = ~box.vol
        /\ UNCHANGED <<cp, at, disk>>
    BY <1>0, <1>3 DEF RestoreEnsure, Box, Restores
  <2>2. snapshots /\ box'.marker => Restored
    BY <2>1, NothingType DEF WorkSound
  <2>3. ~box.vol /\ ~snapshots => ~box'.marker
    BY <2>1, NothingType DEF WorkSound
  <2> QED
    BY <1>0, <1>1, <2>1, <2>2, <2>3 DEF WorkSound, Restored
<1>4. CASE RestoreCheck
  <2>1. UNCHANGED <<box, disk>> /\ restore.at = "ensured" /\ (snapshots => box.up)
    BY <1>4 DEF RestoreCheck
  <2>2. CASE Provisioned
    <3>1. RestoreEnds(TRUE) /\ (snapshots => box.marker)
      BY <1>4, <2>2 DEF RestoreCheck, Provisioned
    <3>2. cp.at = "restore" => snapshots
      BY DEF Turning, IdentSound
    <3> QED
      BY <1>0, <1>1, <1>2, <2>1, <3>1, <3>2 DEF WorkSound, Restored
  <2>3. CASE ~Provisioned
    <3>1. restore' = [restore EXCEPT !.at = "read"] /\ UNCHANGED <<at, cp>>
      BY <1>4, <2>3 DEF RestoreCheck
    <3>2. restore'.at = "read"
      BY <1>0, <3>1 DEF Restores
    <3>3. ~box.marker
      BY <1>0, <2>1, <2>3 DEF Provisioned, WorkSound
    <3> QED
      BY <1>0, <1>1, <2>1, <3>1, <3>2, <3>3 DEF WorkSound, Restored
  <2> QED
    BY <2>2, <2>3
<1>5. CASE RestoreRead
  <2>1. UNCHANGED <<box, at, cp>> /\ restore.at = "read" /\ ~box.marker
    BY <1>5 DEF RestoreRead, WorkSound
  <2>2. CASE disk.latest = NoBackup
    <3>1. /\ disk'.latest = NoBackup /\ disk'.target = disk.target
          /\ disk'.lost = (disk.lost \/ disk.target # 0) /\ restore'.at = "mark"
      BY <1>0, <1>5, <2>2 DEF RestoreRead, RecordWorkspaceLoss, Disk, Restores
    <3>2. Restored'
      <4>1. CASE disk.target = 0
        BY <1>0, <2>1, <3>1, <4>1 DEF Restored
      <4>2. CASE disk.target # 0
        BY <3>1, <4>2 DEF Restored
      <4> QED
        BY <4>1, <4>2
    <3> QED
      BY <1>0, <1>1, <2>1, <3>1, <3>2 DEF WorkSound
  <2>3. CASE disk.latest # NoBackup
    <3>1. UNCHANGED disk /\ restore'.at = "unpack" /\ restore'.handle = disk.latest
      BY <1>0, <1>5, <2>3 DEF RestoreRead, Restores
    <3> QED
      BY <1>0, <1>1, <2>1, <2>3, <3>1 DEF WorkSound, Restored
  <2> QED
    BY <2>2, <2>3
<1>6. CASE RestoreUnpack
  <2>1. /\ restore.at = "unpack" /\ box.up /\ UNCHANGED <<at, cp, disk>> /\ restore'.at = "mark"
        /\ box'.content = disk.latest.content /\ box'.marker /\ box'.up /\ box'.vol = box.vol
        /\ disk.latest # NoBackup
    BY <1>0, <1>6 DEF RestoreUnpack, WorkSound, Restores, Box
  <2>2. Restored' /\ (~snapshots => box'.vol)
    BY <1>0, <2>1, NothingType DEF Restored, WorkSound
  <2> QED
    BY <1>0, <1>1, <2>1, <2>2 DEF WorkSound
<1>7. CASE RestoreMark
  <2>1. /\ restore.at = "mark" /\ box.up /\ UNCHANGED disk /\ RestoreEnds(TRUE)
        /\ box'.content = box.content /\ box'.marker /\ box'.up /\ box'.vol = box.vol
    BY <1>0, <1>7 DEF RestoreMark, Box
  <2>2. (snapshots => Restored') /\ (~snapshots => box'.vol)
    BY <1>0, <2>1, NothingType DEF Restored, WorkSound
  <2> QED
    BY <1>0, <1>1, <1>2, <2>1, <2>2 DEF WorkSound
<1>8. CASE RestoreFails
  <2>1. UNCHANGED <<box, disk>> /\ RestoreEnds(FALSE)
    BY <1>8 DEF RestoreFails
  <2> QED
    BY <1>0, <1>1, <1>2, <2>1 DEF WorkSound, Restored
<1> QED
  BY <1>3, <1>4, <1>5, <1>6, <1>7, <1>8 DEF RestoreStep

\* What a checkpoint relies on, and what it leaves.
LEMMA WorkKeptByCheckpoint ==
  ASSUME Shape, Shape', Turning, BackupSound, WorkBounded, WorkSound, CpStep
  PROVE  WorkSound'
<1>0. /\ box \in Box /\ cp \in Checkpoints /\ restore \in Restores /\ disk \in Disk
      /\ snapshots \in BOOLEAN
      /\ box.content \in Nat /\ cp.new.content \in Nat /\ disk.latest.content \in Nat
      /\ disk.target \in Nat /\ used.work \in Nat
  BY WorkType DEF Shape
<1>1. /\ restore.at = "none" /\ snapshots /\ UNCHANGED <<snapshots, restore>>
      /\ cp.at \notin {"none", "restore"}
  BY <1>0 DEF CpStep, CpMark, CpSnap, CpPut, CpStale, CpFails, WorkSound, Turning, IdentSound
<1>2. ASSUME NEW ok \in BOOLEAN, CpEnds(ok)
      PROVE  cp'.at = "none" /\ cp'.new = NoBackup /\ (at' = "restored" => at = "restored")
  BY <1>2, NothingType DEF CpEnds, CheckpointEnded
<1>3. CASE CpMark
  <2>1. /\ box'.up /\ box'.vol = box.vol /\ box'.marker /\ box'.content = box.content /\ box.marker
        /\ cp'.at = "snap" /\ cp'.new = cp.new /\ UNCHANGED <<disk, at>> /\ cp.at = "mark" /\ box.up
    BY <1>0, <1>3 DEF CpMark, Box, Checkpoints, WorkSound
  <2> QED
    BY <1>0, <1>1, <2>1 DEF WorkSound, Restored
<1>4. CASE CpSnap
  <2> DEFINE new == [id |-> used.snapshots + 1, content |-> box.content]
  <2>1. /\ UNCHANGED <<box, disk>> /\ new.content = box.content /\ cp.at = "snap" /\ box.up
        /\ box.marker /\ Restored
    BY <1>1, <1>4 DEF CpSnap, WorkSound
  <2>2. (cp' = [cp EXCEPT !.at = "put", !.new = new] /\ UNCHANGED at) \/ CpEnds(FALSE)
    BY <1>4 DEF CpSnap
  <2> HIDE DEF new
  <2>3. CASE cp' = [cp EXCEPT !.at = "put", !.new = new] /\ UNCHANGED at
    <3>1. cp'.at = "put" /\ cp'.new = new
      BY <1>0, <2>3 DEF Checkpoints
    <3>2. disk.latest # NoBackup => new.content >= disk.latest.content
      BY <2>1 DEF Restored
    <3> QED
      BY <1>0, <1>1, <2>1, <2>3, <3>1, <3>2 DEF WorkSound, Restored
  <2>4. CASE CpEnds(FALSE)
    BY <1>0, <1>1, <1>2, <2>1, <2>4 DEF WorkSound, Restored
  <2> QED
    BY <2>2, <2>3, <2>4
<1>5. CASE CpPut
  <2>1. UNCHANGED box /\ cp.at = "put" /\ cp.new # NoBackup
    BY <1>5, NothingType DEF CpPut, Shape
  <2>2. CASE /\ disk' = [disk EXCEPT !.latest = cp.new, !.ledger = @ \cup {cp.new}]
             /\ cp' = [cp EXCEPT !.at = "stale"] /\ UNCHANGED at
    <3>1. disk'.latest = cp.new /\ cp'.at = "stale" /\ cp'.new = cp.new
      BY <1>0, <2>2 DEF Disk, Checkpoints
    <3>2. box.up => Restored'
      BY <2>1, <3>1 DEF WorkSound, Restored
    <3> QED
      BY <1>0, <1>1, <2>1, <2>2, <3>1, <3>2 DEF WorkSound
  <2>3. CASE CpEnds(FALSE) /\ UNCHANGED disk
    BY <1>0, <1>1, <1>2, <2>1, <2>3 DEF WorkSound, Restored
  <2> QED
    BY <1>5, <2>2, <2>3 DEF CpPut
<1>6. CASE CpStale
  <2>1. UNCHANGED box /\ CpEnds(TRUE) /\ disk'.latest = disk.latest /\ disk'.target = disk.target
        /\ disk'.lost = disk.lost
    BY <1>0, <1>6 DEF CpStale, ReplaceBackupHandleLedger, Disk
  <2> QED
    BY <1>0, <1>1, <1>2, <2>1 DEF WorkSound, Restored
<1>7. CASE CpFails
  <2>1. UNCHANGED <<box, disk>> /\ CpEnds(FALSE)
    BY <1>7 DEF CpFails
  <2> QED
    BY <1>0, <1>1, <1>2, <2>1 DEF WorkSound, Restored
<1> QED
  BY <1>3, <1>4, <1>5, <1>6, <1>7 DEF CpStep

\* A purge or a cleanup forgets a workspace only when nothing is left of it.
LEMMA WorkKeptByPurge ==
  ASSUME Shape, Shape', Turning, WorkBounded, WorkSound, PurgeMove
  PROVE  WorkSound'
<1>0. /\ box \in Box /\ cp \in Checkpoints /\ restore \in Restores /\ disk \in Disk
      /\ snapshots \in BOOLEAN
  BY WorkType DEF Shape
<1>1. PICK k \in PurgeKinds : PurgeInstance(k) \/ PurgeStep(k)
  BY DEF PurgeMove
<1>2. UNCHANGED <<snapshots, restore, cp, at>>
  BY <1>1
  DEF PurgeInstance, PurgeStep, PurgeFlag, PurgeDrain, PurgeRemove, PurgeObjects, PurgeForget
<1>3. CASE UNCHANGED box /\ UNCHANGED <<disk.latest, disk.target, disk.lost>>
  BY <1>0, <1>2, <1>3 DEF WorkSound, Restored
<1>4. CASE box' = NoBox /\ UNCHANGED disk
  BY <1>0, <1>2, <1>4, NothingType DEF WorkSound, Restored
<1>5. CASE Quiet /\ box = NoBox /\ box' = NoBox
  <2>1. restore.at = "none" /\ cp.at = "none" /\ ~box'.up /\ ~box'.marker /\ cp.new = NoBackup
    BY <1>5, NothingType DEF Quiet, WorkSound
  <2> QED
    BY <1>0, <1>2, <1>5, <2>1 DEF WorkSound
<1>6. CASE PurgeInstance(k)
  <2>1. UNCHANGED box /\ (UNCHANGED disk \/ mem.ident = "none")
    BY <1>6 DEF PurgeInstance
  <2>2. mem.ident = "none" => Quiet /\ box = NoBox
    BY DEF Turning, IdentSound
  <2> QED
    BY <1>3, <1>5, <2>1, <2>2
<1>7. CASE PurgeFlag(k)
  BY <1>0, <1>3, <1>7 DEF PurgeFlag, Disk
<1>8. CASE PurgeForget(k)
  <2>1. UNCHANGED box /\ Quiet /\ box = NoBox
    BY <1>8 DEF PurgeForget, Purging, Turning, PurgeSound
  <2> QED
    BY <1>5, <2>1
<1>9. CASE PurgeDrain(k) \/ PurgeRemove(k) \/ PurgeObjects(k)
  BY <1>3, <1>4, <1>9 DEF PurgeDrain, PurgeRemove, PurgeObjects
<1> QED
  BY <1>1, <1>6, <1>7, <1>8, <1>9 DEF PurgeStep

\* Where a wake does not restore beside a checkpoint, workspaces are sound.
Working == WorkBounded /\ WorkSound

\* With them this layer holds in every reachable state.
LEMMA WorkingHolds ==
  ASSUME Overlaps = FALSE  PROVE Spec => [](Backing /\ Working)
<1>1. Init => Working
  <2>1. ASSUME Init  PROVE WorkBounded
    BY <2>1, NothingType DEF Init, WorkBounded, NoRestore
  <2>2. ASSUME Init  PROVE WorkSound
    BY <2>2, NothingType DEF Init, WorkSound
  <2> QED
    BY <2>1, <2>2 DEF Working
<1>2. Backing /\ Backing' /\ Working /\ [Next]_vars => Working'
  <2> SUFFICES ASSUME Backing, Backing', Working, [Next]_vars  PROVE Working'
    OBVIOUS
  <2>1. WorkBounded'
    BY BoundedKept DEF Backing, Working
  <2>2. WorkSound'
    BY WorkKeptOutside, WorkKeptByRestore, WorkKeptByCheckpoint, WorkKeptByPurge DEF Backing, Working
  <2> QED
    BY <2>1, <2>2 DEF Working
<1> QED
  BY <1>1, <1>2, BackingHolds, PTL DEF Spec

\* The gate opens over a container only when the workspace in it is the archive
\* that counts or newer, or there is none and a loss is recorded
\* (WakeOpensRestored).
THEOREM WakeOpensRestoredHolds ==
  ASSUME Overlaps = FALSE  PROVE Spec => WakeOpensRestored
<1>1. ASSUME Backing, Working, [Next]_vars,
             gate.phase = "waking", gate'.phase = "running", snapshots
      PROVE  Restored
  <2>1. WakeServe
    <3>1. NoGate.phase = "unset" /\ gate \in RuntimeGate
      BY <1>1, NothingType DEF Backing, Shape
    <3>2. ~(InitializeInstance \/ Restart)
      <4>1. Gate("sleeping", NoEpoch, NoOp).phase = "sleeping"
        BY GateType DEF Phases, NoEpoch, NoOp
      <4> QED
        BY <1>1, <3>1, <4>1 DEF InitializeInstance, Restart
    <3>3. UNCHANGED gate \/ MutationStep
      <4>1. (\E c \in Callers, e \in Epochs : Requests(c, e)) => UNCHANGED gate
        BY RequestIs DEF Ask, CheckpointWorkspace
      <4> QED
        BY <1>1, <3>2, <4>1
        DEF Next, GetInstanceRuntimeStatus, OpenCodeWorks, OpenCodeRests, ContainerDies, vars, OpStep,
            ProxyOpencodeFetch, Answered, Unanswered, WakeForLifecycle, QuiesceAndStopIfIdle,
            ForceStopForLifecycle, Mutate, PurgeInstance, PurgeStep, PurgeFlag, PurgeDrain,
            PurgeRemove, PurgeObjects, PurgeForget, RestoreStep, RestoreEnsure, RestoreCheck,
            RestoreRead, RestoreUnpack, RestoreMark, RestoreFails, CpStep, CpMark, CpSnap, CpPut,
            CpStale, CpFails
    <3>4. MutationStep
      BY <1>1, <3>3
    <3>5. lock # <<>> /\ (call.kind = "wake" \/ at = "start")
      <4>1. lock # <<>>
        BY <3>4
        DEF MutationStep, MutationRefused, WakeStart, WakeRestore, WakeServe, WakeFails, StopStart,
            StopDrain, StopDrained, StopInspect, StopPersist, StopCloses, StopTerminate, StopFails,
            Holding
      <4> QED
        BY <1>1, <4>1 DEF Backing, Turning, TurnSound, StopPhases
    <3>6. ~(StopDrain \/ StopDrained \/ StopInspect \/ StopPersist \/ StopCloses \/ StopTerminate
            \/ StopFails)
      BY <3>5
      DEF StopDrain, StopDrained, StopInspect, StopPersist, StopCloses, StopTerminate, StopFails,
          Holding, Stops
    <3>7. call.epoch \in Nat /\ call.op \in Nat /\ PreviousEpoch \in Nat /\ NoEpoch \in Nat /\ NoOp \in Nat
      BY <1>1, <3>1, <3>5, CallType DEF Backing, PreviousEpoch, RuntimeGate, NoEpoch, NoOp
    <3>8. ~(WakeStart \/ WakeFails \/ StopStart)
      <4>1. ASSUME NEW phase \in {"waking", "sleeping", "quiescing"}, NEW epoch \in Nat,
                   NEW op \in Nat, gate' = Gate(phase, epoch, op)
            PROVE  FALSE
        BY <1>1, <4>1, GateType DEF Phases
      <4>2. ~WakeStart /\ ~WakeFails
        BY <1>1, <3>7, <4>1 DEF WakeStart, WakeFails
      <4>3. ~StopStart
        BY <1>1, <3>7, <4>1 DEF StopStart
      <4> QED
        BY <4>2, <4>3
    <3> QED
      BY <1>1, <3>4, <3>6, <3>8 DEF MutationStep, MutationRefused, WakeRestore
  <2>2. box.up /\ at = "restored"
    BY <2>1 DEF WakeServe, Holding
  <2> QED
    BY <1>1, <2>2 DEF Working, WorkSound
<1>2. ASSUME Backing, Working, [Next]_vars
      PROVE  gate.phase = "waking" /\ gate'.phase = "running" /\ snapshots => Restored
  BY <1>1, <1>2
<1> QED
  BY <1>2, WorkingHolds, PTL DEF Spec, WakeOpensRestored, Restored

-----------------------------------------------------------------------------
\* What DurableWorkspace promises

Live == IF box.marker /\ (box.up \/ ~snapshots) THEN box.content ELSE -1

\* A handle is worth its content, and no handle is worth nothing.
LEMMA ContentIs ==
  ASSUME Shape
  PROVE  /\ Content(NoBackup) = -1 /\ NoBackup \notin Handle
         /\ \A h \in Handle : Content(h) = h.content /\ Content(h) \in Nat
         /\ Content(cp.new) \in Nat \cup {-1} /\ Content(disk.latest) \in Nat \cup {-1}
         /\ Live \in Nat \cup {-1}
<1>1. \A h \in Handle : h # NoBackup /\ h.content \in Nat
  BY NothingType DEF Handle
<1>2. \A h \in Handle : Content(h) = h.content /\ Content(h) \in Nat
  BY <1>1 DEF Content
<1>3. Content(NoBackup) = -1
  BY DEF Content
<1>4. cp.new \in Handle \cup {NoBackup} /\ disk.latest \in Handle \cup {NoBackup}
  BY WorkType DEF Handles
<1>5. Live \in Nat \cup {-1}
  BY WorkType DEF Live
<1> QED
  BY <1>1, <1>2, <1>3, <1>4, <1>5

Shown == <<Live, Content(cp.new), Content(disk.latest)>>

\* A step that leaves what is shown, or takes it away, or forgets it.
LEMMA ShownAction ==
  ASSUME \/ UNCHANGED Shown
         \/ Live' = -1 /\ UNCHANGED <<cp.new, disk.latest>>
         \/ Content(cp.new)' = -1 /\ UNCHANGED <<box, snapshots, disk.latest>>
         \/ Content(disk.latest)' = -1 /\ UNCHANGED <<box, snapshots, cp.new>>
  PROVE  [Workspace!Next]_(Workspace!vars)
<1>1. CASE UNCHANGED Shown
  BY <1>1 DEF Shown, Live, Workspace!vars
<1>2. CASE Live' = -1 /\ UNCHANGED <<cp.new, disk.latest>>
  BY <1>2 DEF Workspace!Next, Workspace!Vanish, Workspace!None, Live, Content
<1>3. CASE Content(cp.new)' = -1 /\ UNCHANGED <<box, snapshots, disk.latest>>
  BY <1>3 DEF Workspace!Next, Workspace!Drop, Workspace!None, Content
<1>4. CASE Content(disk.latest)' = -1 /\ UNCHANGED <<box, snapshots, cp.new>>
  BY <1>4 DEF Workspace!Next, Workspace!Forget, Workspace!None, Content
<1> QED
  BY <1>1, <1>2, <1>3, <1>4

\* Every step of a Sandbox is a step of DurableWorkspace, or none.
LEMMA WorkspaceStep ==
  ASSUME Backing, Backing', Working, Working', Overlaps = FALSE, [Next]_vars
  PROVE  [Workspace!Next]_(Workspace!vars)
<1>0. /\ Shape /\ Turning /\ BackupSound /\ WorkBounded /\ WorkSound
      /\ box \in Box /\ cp \in Checkpoints /\ restore \in Restores /\ disk \in Disk
      /\ snapshots \in BOOLEAN
      /\ box.content \in Nat /\ cp.new.content \in Nat /\ disk.latest.content \in Nat
      /\ used.work \in Nat
  BY WorkType DEF Backing, Working, Shape
<1>1. CASE Calm
  BY <1>1, ShownAction DEF Calm, Shown, Live, Content
<1>2. CASE Restart
  <2>1. cp'.new = NoBackup /\ UNCHANGED <<box, snapshots, disk>>
    BY <1>2, NothingType DEF Restart
  <2>2. Content(cp.new)' = -1
    BY <2>1 DEF Content
  <2> QED
    BY <2>1, <2>2, ShownAction
<1>3. CASE Begins
  <2>1. UNCHANGED <<snapshots, box, disk>> /\ (UNCHANGED cp \/ cp'.new = NoBackup)
    BY <1>0, <1>3, BeginsAre
  <2>2. cp'.new = NoBackup => Content(cp.new)' = -1
    BY DEF Content
  <2>3. UNCHANGED cp => UNCHANGED Shown
    BY <2>1 DEF Shown, Live, Content
  <2> QED
    BY <2>1, <2>2, <2>3, ShownAction
<1>4. CASE BoxMove
  <2>1. /\ UNCHANGED <<snapshots, cp>> /\ disk'.latest = disk.latest
    BY <1>0, <1>4, BoxMoves
  <2>2. CASE UNCHANGED box
    BY <2>1, <2>2, ShownAction DEF Shown, Live, Content
  <2>3. CASE box' = NoBox
    <3>1. Live' = -1
      BY <2>3, NothingType DEF Live
    <3> QED
      BY <2>1, <3>1, ShownAction
  <2>4. CASE \/ ~snapshots /\ box' = [box EXCEPT !.up = FALSE, !.working = FALSE]
             \/ \E b \in BOOLEAN : box' = [box EXCEPT !.working = b]
    <3>1. /\ box'.marker = box.marker /\ box'.content = box.content
          /\ ~snapshots \/ box'.up = box.up
      BY <1>0, <2>4 DEF Box
    <3>2. Live' = Live
      BY <2>1, <3>1 DEF Live
    <3> QED
      BY <2>1, <3>2, ShownAction DEF Shown, Content
  <2>5. CASE box' = [box EXCEPT !.content = used.work + 1]
    <3>1. /\ box'.marker = box.marker /\ box'.up = box.up /\ box'.content = used.work + 1
          /\ used.work + 1 > box.content
      BY <1>0, <2>5 DEF Box, WorkBounded
    <3>2. CASE ~(box.marker /\ (box.up \/ ~snapshots))
      <4>1. Live' = -1
        BY <2>1, <3>1, <3>2 DEF Live
      <4> QED
        BY <2>1, <4>1, ShownAction
    <3>3. CASE box.marker /\ (box.up \/ ~snapshots)
      <4>1. Live = box.content /\ Live' = used.work + 1
        BY <2>1, <3>1, <3>3 DEF Live
      <4>2. Live # -1 /\ Live' > Live
        BY <1>0, <3>1, <4>1
      <4> QED
        BY <2>1, <4>2 DEF Workspace!Next, Workspace!Work, Workspace!None, Live, Content
    <3> QED
      BY <3>2, <3>3
  <2> QED
    BY <1>0, <1>4, <2>2, <2>3, <2>4, <2>5, BoxMoves
<1>5. CASE RestoreStep
  <2>1. /\ UNCHANGED snapshots /\ disk'.latest = disk.latest /\ cp.new = NoBackup /\ cp'.new = NoBackup
    <3>1. disk'.latest = disk.latest
      BY <1>0, <1>5
      DEF RestoreStep, RestoreEnsure, RestoreCheck, RestoreRead, RestoreUnpack, RestoreMark,
          RestoreFails, RecordWorkspaceLoss, Disk
    <3>2. restore.at # "none" /\ UNCHANGED snapshots
      BY <1>5
      DEF RestoreStep, RestoreEnsure, RestoreCheck, RestoreRead, RestoreUnpack, RestoreMark, RestoreFails
    <3>3. cp.new = NoBackup
      BY <1>0, <3>2 DEF WorkSound
    <3>4. cp'.new \in {cp.new, NoBackup}
      BY <1>0, <1>5, NothingType
      DEF RestoreStep, RestoreEnsure, RestoreCheck, RestoreRead, RestoreUnpack, RestoreMark,
          RestoreFails, RestoreEnds, Checkpoints
    <3> QED
      BY <3>1, <3>2, <3>3, <3>4
  <2>2. CASE UNCHANGED box
    BY <2>1, <2>2, ShownAction DEF Shown, Live, Content
  <2>3. CASE RestoreEnsure
    <3>1. box'.marker = box.marker /\ box'.content = box.content /\ box'.up
      BY <1>0, <2>3 DEF RestoreEnsure, Box
    <3>2. snapshots /\ box.marker => box.up
      BY <1>0, NothingType DEF WorkSound
    <3>3. Live' = Live
      BY <1>0, <2>1, <3>1, <3>2 DEF Live
    <3> QED
      BY <2>1, <3>3, ShownAction DEF Shown, Content
  <2>4. CASE RestoreUnpack
    <3>1. /\ restore.at = "unpack" /\ box'.content = disk.latest.content /\ box'.marker /\ box'.up
          /\ disk.latest # NoBackup /\ ~box.marker
      BY <1>0, <2>4 DEF RestoreUnpack, WorkSound, Box
    <3>2. /\ Live = -1 /\ Live' = disk.latest.content /\ Content(disk.latest) = disk.latest.content
          /\ Content(disk.latest) # -1
      BY <1>0, <3>1 DEF Live, Content
    <3> QED
      BY <2>1, <3>2 DEF Workspace!Next, Workspace!Resume, Workspace!None, Live, Content
  <2>5. CASE RestoreMark
    <3>1. restore.at = "mark" /\ box.up /\ box'.marker /\ box'.up /\ box'.content = box.content
      BY <1>0, <2>5 DEF RestoreMark, Box
    <3>2. CASE box.marker
      BY <2>1, <3>1, <3>2, ShownAction DEF Shown, Live, Content
    <3>3. CASE ~box.marker
      <4>1. disk.latest = NoBackup
        BY <1>0, <3>1, <3>3 DEF WorkSound
      <4>2. Live = -1 /\ Live' >= 0 /\ Content(disk.latest) = -1
        BY <1>0, <3>1, <3>3, <4>1 DEF Live, Content
      <4> QED
        BY <2>1, <4>2
        DEF Workspace!Next, Workspace!Resume, Workspace!None, Workspace!Empty, Live, Content
    <3> QED
      BY <3>2, <3>3
  <2> QED
    BY <1>5, <2>2, <2>3, <2>4, <2>5 DEF RestoreStep, RestoreCheck, RestoreRead, RestoreFails
<1>6. CASE CpStep
  <2>1. ASSUME NEW ok \in BOOLEAN, CpEnds(ok)  PROVE Content(cp.new)' = -1
    BY <2>1, NothingType DEF CpEnds, Content
  <2>2. UNCHANGED snapshots
    BY <1>6 DEF CpStep, CpMark, CpSnap, CpPut, CpStale, CpFails
  <2>3. CASE CpMark
    <3>1. /\ box'.up = box.up /\ box'.marker /\ box'.content = box.content /\ box.marker
          /\ cp'.new = cp.new /\ UNCHANGED disk
      BY <1>0, <2>3 DEF CpMark, Box, Checkpoints, WorkSound
    <3> QED
      BY <2>2, <3>1, ShownAction DEF Shown, Live, Content
  <2>4. CASE CpSnap
    <3> DEFINE new == [id |-> used.snapshots + 1, content |-> box.content]
    <3>1. /\ UNCHANGED <<box, disk>> /\ new.content = box.content /\ box.up /\ box.marker
          /\ new # NoBackup
      <4>1. used.snapshots + 1 # 0
        BY <1>0 DEF Shape, Counters
      <4> QED
        BY <1>0, <2>4, <4>1 DEF CpSnap, WorkSound, NoBackup
    <3>2. cp' = [cp EXCEPT !.at = "put", !.new = new] \/ CpEnds(FALSE)
      BY <2>4 DEF CpSnap
    <3> HIDE DEF new
    <3>3. CASE cp' = [cp EXCEPT !.at = "put", !.new = new]
      <4>1. cp'.new = new
        BY <1>0, <3>3 DEF Checkpoints
      <4>2. Content(cp.new)' = Live /\ Live # -1
        BY <1>0, <3>1, <4>1 DEF Content, Live
      <4> QED
        BY <2>2, <3>1, <4>2 DEF Workspace!Next, Workspace!Take, Workspace!None, Live, Content
    <3> QED
      BY <2>1, <2>2, <3>1, <3>2, <3>3, ShownAction
  <2>5. CASE CpPut
    <3>1. UNCHANGED box /\ cp.at = "put" /\ cp.new \in Handle /\ cp.new # NoBackup
      BY <2>5, <1>0, NothingType DEF CpPut, Shape
    <3>2. CASE /\ disk' = [disk EXCEPT !.latest = cp.new, !.ledger = @ \cup {cp.new}]
               /\ cp' = [cp EXCEPT !.at = "stale"]
      <4>1. disk'.latest = cp.new /\ cp'.new = cp.new
        BY <1>0, <3>2 DEF Disk, Checkpoints
      <4>2. /\ Content(cp.new) = cp.new.content /\ Content(cp.new) # -1
            /\ Content(cp.new) >= Content(disk.latest)
        BY <1>0, <3>1 DEF Content, WorkSound
      <4> QED
        BY <2>2, <3>1, <4>1, <4>2 DEF Workspace!Next, Workspace!Save, Workspace!None, Live, Content
    <3> QED
      BY <2>1, <2>2, <2>5, <3>1, <3>2, ShownAction DEF CpPut
  <2>6. CASE CpStale
    <3>1. UNCHANGED box /\ CpEnds(TRUE) /\ disk'.latest = disk.latest
      BY <1>0, <2>6 DEF CpStale, ReplaceBackupHandleLedger, Disk
    <3> QED
      BY <2>1, <2>2, <3>1, ShownAction
  <2>7. CASE CpFails
    BY <2>1, <2>2, <2>7, ShownAction DEF CpFails
  <2> QED
    BY <1>6, <2>3, <2>4, <2>5, <2>6, <2>7 DEF CpStep
<1>7. ASSUME NEW k \in PurgeKinds, PurgeInstance(k) \/ PurgeStep(k)
      PROVE  [Workspace!Next]_(Workspace!vars)
  <2>1. UNCHANGED <<snapshots, cp>> /\ (UNCHANGED box \/ (box' = NoBox /\ UNCHANGED disk))
    BY <1>7
    DEF PurgeInstance, PurgeStep, PurgeFlag, PurgeDrain, PurgeRemove, PurgeObjects, PurgeForget
  <2>2. disk'.latest \in {disk.latest, NoBackup}
    BY <1>0, <1>7, NothingType
    DEF PurgeInstance, PurgeStep, PurgeFlag, PurgeDrain, PurgeRemove, PurgeObjects, PurgeForget, Disk
  <2>3. CASE box' = NoBox /\ UNCHANGED disk
    <3>1. Live' = -1
      BY <2>3, NothingType DEF Live
    <3> QED
      BY <2>1, <2>3, <3>1, ShownAction
  <2>4. CASE UNCHANGED box
    <3>1. CASE disk'.latest = disk.latest
      BY <2>1, <2>4, <3>1, ShownAction DEF Shown, Live, Content
    <3>2. CASE disk'.latest = NoBackup
      <4>1. Content(disk.latest)' = -1
        BY <3>2 DEF Content
      <4> QED
        BY <2>1, <2>4, <4>1, ShownAction
    <3> QED
      BY <2>2, <3>1, <3>2
  <2> QED
    BY <2>1, <2>3, <2>4
<1> QED
  BY <1>0, <1>1, <1>2, <1>3, <1>4, <1>5, <1>6, <1>7, CalmSteps DEF PurgeMove

\* The Sandbox implements DurableWorkspace: no archive that counts is replaced by
\* an older one, and a workspace comes back only as the archive that counts
\* (WorkspaceIsDurable).
THEOREM WorkspaceIsDurableHolds ==
  ASSUME Overlaps = FALSE  PROVE Spec => WorkspaceIsDurable
<1>1. Init => Workspace!Init
  BY NothingType DEF Init, Workspace!Init, Workspace!None, Content
<1>2. Backing /\ Backing' /\ Working /\ Working' /\ [Next]_vars => [Workspace!Next]_(Workspace!vars)
  BY WorkspaceStep
<1> QED
  BY <1>1, <1>2, WorkingHolds, PTL DEF Spec, WorkspaceIsDurable, Workspace!Spec
=============================================================================
