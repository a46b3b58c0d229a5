--------------------------- MODULE SandboxRuntime ---------------------------
(***************************************************************************)
(* The Sandbox object (src/src/sandbox.ts): one per session, it owns the   *)
(* session's container on a sandbox host, the workspace inside it and the  *)
(* snapshots of that workspace.                                            *)
(*                                                                         *)
(* Every RPC of the object runs beside every other and gives way at each   *)
(* await, so each action is what happens between two awaits that matter.   *)
(* Wakes and stops take turns behind a lock; requests into the container   *)
(* are admitted by the runtime gate and counted; restoring, checkpointing, *)
(* purging and cleaning are single-flight promises that others join.       *)
(*                                                                         *)
(* A workspace is known by the last piece of work it contains, a number.   *)
(* Revisions, timestamps, timings and error texts are left out; the        *)
(* transcript is in TranscriptMirror.                                      *)
(***************************************************************************)
EXTENDS Integers, Sequences, FiniteSets

CONSTANTS
    Callers,       \* concurrent requests into the container
    Hosts,         \* whether the session's host takes snapshots: a subset of BOOLEAN
    Overlaps,      \* whether a wake may restore while a manual checkpoint archives
    MaxEpoch,      \* bound: runtime epochs the coordinator draws
    MaxCalls,      \* bound: wakes and stops ever called
    MaxQueued,     \* bound: wakes and stops waiting for each other
    MaxWork,       \* bound: pieces of work
    MaxSnapshots,  \* bound: snapshots taken
    MaxFaults,     \* bound: containers that die on their own, restarts of the object
    MaxPurges      \* bound: purges and cleanups called

ASSUME SandboxAssumption ==
    /\ IsFiniteSet(Callers)
    /\ Hosts \subseteq BOOLEAN /\ Hosts # {}
    /\ Overlaps \in BOOLEAN
    /\ {MaxEpoch, MaxCalls, MaxQueued, MaxWork, MaxSnapshots, MaxFaults, MaxPurges} \subseteq Nat

VARIABLES
    snapshots,  \* HostClient.supportsSnapshots
    mem,        \* the identity and the flags in memory
    disk,       \* what storage holds
    gate,       \* the runtime gate
    believed,   \* hostRuntime.running
    box,        \* the container and the workspace in it
    bucket,     \* the snapshots in R2
    lock,       \* the wakes and stops that have been called; the first one runs
    at,         \* where the first one is waiting
    restore,    \* restoreInProgress, and who awaits it
    cp,         \* checkpointInProgress
    ops,        \* requests into the container
    purge,      \* purgeInProgress and cleanInProgress
    outcome,    \* history: the last purge or cleanup that ended 'purged'
    used        \* the bounded counters

vars == <<snapshots, mem, disk, gate, believed, box, bucket, lock, at, restore, cp, ops,
          purge, outcome, used>>

-----------------------------------------------------------------------------
\* State

Phases == {"unset", "waking", "running", "quiescing", "checkpointing", "stopping", "sleeping"}
StopPhases == {"quiescing", "checkpointing", "stopping"}
NoEpoch == 0
NoOp == 0

RuntimeGate == [phase : Phases, epoch : Nat, op : Nat]
Gate(phase, epoch, op) == [phase |-> phase, epoch |-> epoch, op |-> op]
NoGate == Gate("unset", NoEpoch, NoOp)

Handle == [id : Nat \ {0}, content : Nat]
NoBackup == [id |-> 0, content |-> 0]

Identities == {"none", "active", "deleting"}
Disk == [ident : Identities, purge : BOOLEAN, latest : Handle \cup {NoBackup}, ledger : SUBSET Handle,
         target : Nat, lost : BOOLEAN]
Wiped == [ident |-> "none", purge |-> FALSE, latest |-> NoBackup, ledger |-> {},
          target |-> 0, lost |-> FALSE]

\* vol is the named volume of a host without snapshots, marker the file
\* PERSISTENCE_MARKER, working whether OpenCode is executing a turn.
Box == [up : BOOLEAN, vol : BOOLEAN, content : Nat, marker : BOOLEAN, working : BOOLEAN]
NoBox == [up |-> FALSE, vol |-> FALSE, content |-> 0, marker |-> FALSE, working |-> FALSE]

Kinds == {"wake", "idle", "force"}
RestoreSteps == {"none", "ensure", "ensured", "read", "unpack", "mark"}
CpSteps == {"none", "restore", "mark", "snap", "put", "stale"}
PurgeSteps == {"none", "flag", "drain", "remove", "objects", "forget"}

NoRestore == [at |-> "none", for |-> {}, fresh |-> FALSE, handle |-> NoBackup]
NoCp == [at |-> "none", known |-> {}, new |-> NoBackup]
NoOps == [at |-> "none", does |-> "none", epoch |-> NoEpoch]
NoPurge == [at |-> "none", known |-> {}]

\* mergeBackupHandles
MergeBackupHandles(ledger, latest) == ledger \cup ({latest} \ {NoBackup})

Spend(counter) == used' = [used EXCEPT ![counter] = @ + 1]

\* What a stopped container leaves behind: a volume outlives it, the writable
\* filesystem of an ephemeral one does not.
Stopped == IF snapshots THEN NoBox ELSE [box EXCEPT !.up = FALSE, !.working = FALSE]

Counted(os) == {c \in Callers : os[c].at \notin {"none", "asked"}}
ActiveOperations == Cardinality(Counted(ops))
LifecycleOperations == Len(lock)

\* assertInstanceActive
Active == mem.active /\ ~mem.purge

\* assertCurrentRuntime
CurrentRuntime(e) == gate.phase = "running" /\ gate.epoch = e
Admitted(e) == CurrentRuntime(e) /\ believed

\* refreshHostRuntime: an unreachable host leaves the belief as it was.
RefreshedTo(b) == b \in {box.up, believed}

-----------------------------------------------------------------------------
\* The object itself

InitializeInstance ==
    /\ ~mem.purge
    /\ mem.ident # "deleting"
    /\ ~mem.active \/ mem.ident = "none"
    /\ IF mem.ident = "active"
       THEN /\ mem' = [mem EXCEPT !.active = TRUE]
            /\ gate' = IF gate = NoGate /\ ~believed THEN Gate("sleeping", NoEpoch, NoOp)
                                                     ELSE gate
            /\ UNCHANGED <<disk, outcome>>
       ELSE /\ mem' = [ident |-> "active", active |-> TRUE, purge |-> FALSE]
            /\ disk' = [disk EXCEPT !.ident = "active"]
            /\ gate' = Gate("sleeping", NoEpoch, NoOp)
            /\ outcome' = "none"
    /\ UNCHANGED <<snapshots, believed, box, bucket, lock, at, restore, cp, ops, 
                   purge, used>>

\* The object goes away with everything in memory and is constructed again
\* from storage.  Whatever the host was asked to do has been done or has not.
Restart ==
    /\ used.faults < MaxFaults
    /\ Spend("faults")
    /\ mem' = [ident |-> disk.ident, active |-> disk.ident = "active" /\ ~disk.purge,
               purge |-> disk.purge]
    /\ gate' = IF disk.ident = "none" THEN NoGate ELSE gate
    /\ lock' = <<>> /\ at' = "start" /\ restore' = NoRestore /\ cp' = NoCp
    /\ ops' = [c \in Callers |-> NoOps]
    /\ purge' = [k \in DOMAIN purge |-> NoPurge]
    /\ UNCHANGED <<snapshots, disk, believed, box, bucket, outcome>>

\* getInstanceRuntimeStatus adopts the host's answer.
GetInstanceRuntimeStatus ==
    /\ mem.ident # "none"
    /\ believed # box.up
    /\ believed' = box.up
    /\ UNCHANGED <<snapshots, mem, disk, gate, box, bucket, lock, at, restore, cp, ops,
                   purge, outcome, used>>

-----------------------------------------------------------------------------
\* The container

OpenCodeWorks ==
    /\ box.working
    /\ used.work < MaxWork
    /\ Spend("work")
    /\ box' = [box EXCEPT !.content = used.work + 1]
    /\ UNCHANGED <<snapshots, mem, disk, gate, believed, bucket, lock, at, restore, cp, ops,
                   purge, outcome>>

OpenCodeRests ==
    /\ box.working
    /\ box' = [box EXCEPT !.working = FALSE]
    /\ UNCHANGED <<snapshots, mem, disk, gate, believed, bucket, lock, at, restore, cp, ops,
                   purge, outcome, used>>

\* A volume is lost only with its host.
ContainerDies ==
    /\ box.up
    /\ used.faults < MaxFaults
    /\ Spend("faults")
    /\ box' \in {Stopped, NoBox}
    /\ UNCHANGED <<snapshots, mem, disk, gate, believed, bucket, lock, at, restore, cp, ops,
                   purge, outcome>>

-----------------------------------------------------------------------------
\* Requests into the container.  A request that is refused changes nothing.

\* finishActiveOperation: the request that brings the count to zero lets a stop
\* that waits for it go on, whatever begins before the stop gets its turn.
Leaves(c, next) ==
    /\ ops' = [ops EXCEPT ![c] = next]
    /\ at' = IF at = "draining" /\ Counted(ops') = {} THEN "drained" ELSE at

Ask(c, step, does, e) ==
    /\ ops[c].at = "none"
    /\ ops' = [ops EXCEPT ![c] = [at |-> step, does |-> does, epoch |-> e]]
    /\ UNCHANGED <<snapshots, mem, disk, gate, believed, box, bucket, lock, at, restore, cp,
                   purge, outcome, used>>

\* createRuntimeClient: counted from the start, admitted when its request is.
ClientCall(c, does, e) == Active /\ CurrentRuntime(e) /\ Ask(c, "begun", does, e)

CreateOpencodeSession(c, e) == ClientCall(c, "session", e)
PromptOpencodeSessionAsync(c, e) == ClientCall(c, "work", e)
ReplyOpencodeQuestion(c, e) == ClientCall(c, "work", e)
RejectOpencodeQuestion(c, e) == ClientCall(c, "work", e)
AbortOpencodeSession(c, e) == ClientCall(c, "abort", e)
ListOpencodeSessionMessages(c, e) == ClientCall(c, "read", e)
GetOpencodeSessionLineage(c, e) == ClientCall(c, "read", e)
ListOpencodeQuestions(c, e) == ClientCall(c, "read", e)
IsOpencodeSessionActive(c, e) == Active /\ Ask(c, "begun", "read", e)
RunSdkTest(c, e) == ClientCall(c, "read", e)

\* File operations reach the host without the proxy.
FileCall(c, does, e) == Active /\ CurrentRuntime(e) /\ Ask(c, "sent", does, e)

ListWorkspaceDirectory(c, e) == FileCall(c, "read", e)
ReadWorkspaceFile(c, e) == FileCall(c, "read", e)
DownloadWorkspaceFile(c, e) == FileCall(c, "read", e)
ReadSessionChanges(c, e) == FileCall(c, "read", e)
WriteArtifactFile(c, e) == FileCall(c, "write", e)
DeleteArtifactFile(c, e) == FileCall(c, "write", e)

\* streamOpencodeEvents goes straight to proxyOpencodeFetch, which counts it
\* only after it has remembered the request's location.
StreamOpencodeEvents(c, e) == Admitted(e) /\ Ask(c, "asked", "read", e)

\* proxyOpencodeFetch looks at the gate again and counts the request.
ProxyOpencodeFetch(c) ==
    /\ ops[c].at \in {"begun", "asked"}
    /\ Leaves(c, IF Admitted(ops[c].epoch) /\ Active
                 THEN [ops[c] EXCEPT !.at = "sent"] ELSE NoOps)
    /\ UNCHANGED <<snapshots, mem, disk, gate, believed, box, bucket, lock, restore, cp,
                   purge, outcome, used>>

\* The host answers: it has done what was asked, or it says that there is no
\* container (CONTAINER_NOT_RUNNING, or a 503 of the proxy).
Answered(c) ==
    /\ ops[c].at = "sent"
    /\ Leaves(c, NoOps)
    /\ IF ~box.up
       THEN believed' = FALSE /\ UNCHANGED <<box, disk, used>>
       ELSE /\ UNCHANGED believed
            /\ \/ ops[c].does = "read" /\ UNCHANGED <<box, disk, used>>
               \/ ops[c].does = "work" /\ box' = [box EXCEPT !.working = TRUE]
                  /\ UNCHANGED <<disk, used>>
               \/ ops[c].does = "abort" /\ box' = [box EXCEPT !.working = FALSE]
                  /\ UNCHANGED <<disk, used>>
               \/ ops[c].does \in {"write", "session"} /\ used.work < MaxWork
                  /\ Spend("work")
                  /\ box' = [box EXCEPT !.content = used.work + 1]
                  /\ disk' = IF ops[c].does = "write" THEN disk
                             ELSE [disk EXCEPT !.target = used.work + 1]
    /\ UNCHANGED <<snapshots, mem, gate, bucket, lock, restore, cp, purge, outcome>>

\* The request fails on the way.
Unanswered(c) ==
    /\ ops[c].at = "sent"
    /\ Leaves(c, NoOps)
    /\ UNCHANGED <<snapshots, mem, disk, gate, believed, box, bucket, lock, restore, cp,
                   purge, outcome, used>>

\* checkpointWorkspace: a host without snapshots has nothing to checkpoint.
CheckpointWorkspace(c, e) ==
    /\ Active /\ Admitted(e) /\ snapshots
    /\ ops[c].at = "none"
    /\ ops' = [ops EXCEPT ![c] = [at |-> "saving", does |-> "checkpoint", epoch |-> e]]
    /\ cp' = IF cp.at = "none" THEN [NoCp EXCEPT !.at = "restore"] ELSE cp
    /\ restore' = IF cp.at # "none" THEN restore
                  ELSE [restore EXCEPT !.at = IF @ = "none" THEN "ensure" ELSE @,
                                       !.for = @ \cup {"checkpoint"}]
    /\ UNCHANGED <<snapshots, mem, disk, gate, believed, box, bucket, lock, at, purge,
                   outcome, used>>

-----------------------------------------------------------------------------
\* withLifecycleMutation: wakes and stops, one at a time, first come first served.
\* The coordinator draws an epoch for a wake, and stops only what it has woken;
\* the operation id of a stop stands for the epoch it stops.

Mutate(kind, e) ==
    /\ Active
    /\ used.calls < MaxCalls /\ Len(lock) < MaxQueued
    /\ e <= used.epoch + (IF kind = "wake" THEN 1 ELSE 0)
    /\ used' = [used EXCEPT !.calls = @ + 1, !.epoch = IF e > @ THEN e ELSE @]
    /\ lock' = Append(lock, [kind |-> kind, epoch |-> e,
                             op |-> IF kind = "force" THEN e + MaxEpoch ELSE e])
    /\ UNCHANGED <<snapshots, mem, disk, gate, believed, box, bucket, at, restore, cp, ops,
                   purge, outcome>>

WakeForLifecycle(e) == Mutate("wake", e)
QuiesceAndStopIfIdle(e) == Mutate("idle", e)
ForceStopForLifecycle(e) == Mutate("force", e)

call == lock[1]
Holding(kinds, step) == lock # <<>> /\ call.kind \in kinds /\ at = step
Release == lock' = Tail(lock) /\ at' = "start"
Goto(step) == at' = step /\ UNCHANGED lock

\* The call waited for its turn and finds the instance no longer active.
MutationRefused ==
    /\ Holding(Kinds, "start")
    /\ ~Active
    /\ Release
    /\ UNCHANGED <<snapshots, mem, disk, gate, believed, box, bucket, restore, cp, ops,
                   purge, outcome, used>>

\* performWakeForLifecycle: a runtime that is running under this epoch is only
\* inspected.
WakeStart ==
    /\ Holding({"wake"}, "start")
    /\ Active
    /\ \E b \in BOOLEAN :
          /\ IF CurrentRuntime(call.epoch) THEN RefreshedTo(b) ELSE b = believed
          /\ believed' = b
          /\ IF CurrentRuntime(call.epoch) /\ b
             THEN Release /\ UNCHANGED gate
             ELSE Goto("config") /\ gate' = Gate("waking", call.epoch, NoOp)
    /\ UNCHANGED <<snapshots, mem, disk, box, bucket, restore, cp, ops, purge,
                   outcome, used>>

\* The configuration is read and ensureWorkspaceRestored is called.
WakeRestore ==
    /\ Holding({"wake"}, "config")
    /\ Active
    /\ Overlaps \/ cp.at \in {"none", "restore"}
    /\ Goto("restoring")
    /\ restore' = [restore EXCEPT !.at = IF @ = "none" THEN "ensure" ELSE @,
                                  !.for = @ \cup {"wake"}]
    /\ UNCHANGED <<snapshots, mem, disk, gate, believed, box, bucket, cp, ops, purge,
                   outcome, used>>

\* Credentials, checkout and server are in place and the gate opens.
WakeServe ==
    /\ Holding({"wake"}, "restored")
    /\ box.up
    /\ gate' = Gate("running", call.epoch, NoOp)
    /\ Release
    /\ UNCHANGED <<snapshots, mem, disk, believed, box, bucket, restore, cp, ops, purge,
                   outcome, used>>

\* Any step of the wake throws; onHost may have learned that there is no container.
WakeFails ==
    /\ \E step \in {"config", "restored", "failed"} : Holding({"wake"}, step)
    /\ believed' \in {believed, believed /\ box.up}
    /\ gate' = Gate("sleeping", NoEpoch, NoOp)
    /\ Release
    /\ UNCHANGED <<snapshots, mem, disk, box, bucket, restore, cp, ops, purge,
                   outcome, used>>

-----------------------------------------------------------------------------
\* performQuiesceAndStopIfIdle and performForceStopForLifecycle

Recovering == gate.op = call.op /\ gate.phase \in StopPhases

Stops == {"idle", "force"}

\* The epoch the gate goes back to when the stop fails.
PreviousEpoch ==
    IF call.kind = "idle" \/ gate.epoch = NoEpoch THEN call.epoch ELSE gate.epoch

MayStop ==
    \/ Recovering
    \/ call.kind = "idle" /\ CurrentRuntime(call.epoch)
    \/ call.kind = "force" /\ gate.epoch \in {NoEpoch, call.epoch}

StopStart ==
    /\ Holding(Stops, "start")
    /\ Active
    /\ \E b \in BOOLEAN :
          /\ RefreshedTo(b)
          /\ believed' = b
          /\ \/ ~b /\ gate' = Gate("sleeping", NoEpoch, NoOp) /\ Release
             \/ b /\ ~MayStop /\ Release /\ UNCHANGED gate
             \/ b /\ MayStop /\ Goto("phase")
                /\ gate' = IF Recovering THEN gate
                           ELSE Gate("quiescing", PreviousEpoch, call.op)
    /\ UNCHANGED <<snapshots, mem, disk, box, bucket, restore, cp, ops, purge,
                   outcome, used>>

\* Mutant: the stop does not wait for requests that were admitted before it.
StopDrainNoWait ==
    /\ Holding(Stops, "phase")
    /\ gate.phase = "quiescing"
    /\ Goto("drained")
    /\ UNCHANGED <<snapshots, mem, disk, gate, believed, box, bucket, restore, cp, ops, 
                   purge, outcome, used>>

\* waitForOperationDrain
StopDrain ==
    /\ Holding(Stops, "phase")
    /\ gate.phase = "quiescing"
    /\ Goto(IF ActiveOperations = 0 THEN "drained" ELSE "draining")
    /\ UNCHANGED <<snapshots, mem, disk, gate, believed, box, bucket, restore, cp, ops, 
                   purge, outcome, used>>

\* Only an idle stop looks whether anything runs (StopInspect).
StopDrained ==
    /\ Holding({"force"}, "drained")
    /\ Goto("phase")
    /\ gate' = Gate("checkpointing", PreviousEpoch, call.op)
    /\ UNCHANGED <<snapshots, mem, disk, believed, box, bucket, restore, cp, ops, purge,
                   outcome, used>>

\* inspectExecutionIfRunning: only a runtime that answers and is idle is stopped.
StopInspect ==
    /\ Holding({"idle"}, "drained")
    /\ \/ /\ believed /\ box.up /\ ~box.working
          /\ Goto("phase")
          /\ gate' = Gate("checkpointing", call.epoch, call.op)
          /\ UNCHANGED believed
       \/ /\ Release
          /\ gate' = Gate("running", call.epoch, NoOp)
          /\ believed' \in {believed, believed /\ box.up}
    /\ UNCHANGED <<snapshots, mem, disk, box, bucket, restore, cp, ops, purge,
                   outcome, used>>

\* persistWorkspaceBeforeStop, after the transcript has been mirrored: join or
\* begin a checkpoint, or flush the volume.
StopPersist ==
    /\ Holding(Stops, "phase")
    /\ gate.phase = "checkpointing"
    /\ IF ~snapshots
       THEN box.up /\ Goto("saved") /\ UNCHANGED <<restore, cp>>
       ELSE /\ Active
            /\ Goto("saving")
            /\ cp' = IF cp.at = "none" THEN [NoCp EXCEPT !.at = "restore"] ELSE cp
            /\ restore' = IF cp.at # "none" THEN restore
                          ELSE [restore EXCEPT !.at = IF @ = "none" THEN "ensure" ELSE @,
                                               !.for = @ \cup {"checkpoint"}]
    /\ UNCHANGED <<snapshots, mem, disk, gate, believed, box, bucket, ops, purge,
                   outcome, used>>

StopCloses ==
    /\ Holding(Stops, "saved")
    /\ Goto("phase")
    /\ gate' = Gate("stopping", NoEpoch, call.op)
    /\ UNCHANGED <<snapshots, mem, disk, believed, box, bucket, restore, cp, ops, purge,
                   outcome, used>>

\* terminateContainerBounded: the host agrees that the container is down, or the
\* coordinator's alarm will come back ('termination_pending').
StopTerminate ==
    /\ Holding(Stops, "phase")
    /\ gate.phase = "stopping"
    /\ \/ /\ believed
          /\ box' = Stopped
          /\ believed' = FALSE
          /\ gate' = Gate("sleeping", NoEpoch, NoOp)
       \/ /\ believed
          /\ UNCHANGED <<box, believed, gate>>
       \/ /\ ~believed
          /\ gate' = Gate("sleeping", NoEpoch, NoOp)
          /\ UNCHANGED <<box, believed>>
    /\ Release
    /\ UNCHANGED <<snapshots, mem, disk, bucket, restore, cp, ops, purge, outcome, used>>

\* The checkpoint, the flush or the inspection throws.
StopFails ==
    /\ \/ Holding(Stops, "failed")
       \/ Holding(Stops, "phase") /\ gate.phase = "checkpointing"
    /\ \E b \in BOOLEAN :
          /\ RefreshedTo(b)
          /\ believed' = b
          /\ gate' = IF b THEN Gate("running", PreviousEpoch, NoOp)
                     ELSE Gate("sleeping", NoEpoch, NoOp)
    /\ Release
    /\ UNCHANGED <<snapshots, mem, disk, box, bucket, restore, cp, ops, purge,
                   outcome, used>>

-----------------------------------------------------------------------------
\* restoreWorkspace

\* Mutant: only a stop that made the checkpoint itself hears of its end.
CheckpointEndedUnheard(step) == IF at = "saving" THEN step ELSE at

\* The promise settles and everyone who awaits it goes on: of a checkpoint, the
\* stop that made it or the manual ones, whose end a stop may be waiting for.
CheckpointEnded(step) ==
    IF at = "saving" THEN step
    ELSE IF at = "draining" /\ \A c \in Counted(ops) : ops[c].at = "saving" THEN "drained"
    ELSE at

RestoreEnds(ok) ==
    /\ restore' = NoRestore
    /\ at' = IF "wake" \in restore.for THEN (IF ok THEN "restored" ELSE "failed")
             ELSE IF "checkpoint" \in restore.for /\ ~ok THEN CheckpointEnded("failed")
             ELSE at
    /\ cp' = IF "checkpoint" \notin restore.for THEN cp
             ELSE IF ok THEN [cp EXCEPT !.at = "mark",
                                        !.known = MergeBackupHandles(disk.ledger, disk.latest)]
             ELSE NoCp
    /\ ops' = IF "checkpoint" \notin restore.for \/ ok THEN ops
              ELSE [c \in Callers |-> IF ops[c].at = "saving" THEN NoOps ELSE ops[c]]

\* ensure boots a stopped container, on a volume or on a fresh filesystem.
RestoreEnsure ==
    /\ restore.at = "ensure"
    /\ box' = [box EXCEPT !.up = TRUE, !.vol = ~snapshots]
    /\ restore' = [restore EXCEPT !.at = "ensured", !.fresh = ~box.vol]
    /\ UNCHANGED <<snapshots, mem, disk, gate, believed, bucket, lock, at, cp, ops, purge,
                   outcome, used>>

\* Mutant: the answer of the host is trusted on every host.
ProvisionedByHost == ~restore.fresh

\* Only the marker tells a fresh filesystem from the one already restored; a
\* host with volumes has said so itself.
Provisioned == IF snapshots THEN box.marker ELSE ~restore.fresh

RestoreCheck ==
    /\ restore.at = "ensured"
    /\ believed' = TRUE
    /\ IF Provisioned THEN RestoreEnds(TRUE)
       ELSE restore' = [restore EXCEPT !.at = "read"] /\ UNCHANGED <<at, cp, ops>>
    /\ snapshots => box.up
    /\ UNCHANGED <<snapshots, mem, disk, gate, box, bucket, lock, purge, outcome, used>>

\* Mutant: the loss is left for the session to discover.
RestoreReadSilent ==
    /\ restore.at = "read"
    /\ restore' = [restore EXCEPT !.at = IF disk.latest = NoBackup THEN "mark" ELSE "unpack",
                                  !.handle = disk.latest]
    /\ UNCHANGED <<snapshots, mem, disk, gate, believed, box, bucket, lock, at, cp, ops, purge,
                   outcome, used>>

\* recordWorkspaceLoss: an instance without a conversation has none to lose.
RecordWorkspaceLoss == disk' = [disk EXCEPT !.lost = @ \/ disk.target # 0]

\* With nothing to put back, a conversation that was there is lost.
RestoreRead ==
    /\ restore.at = "read"
    /\ IF disk.latest = NoBackup
       THEN /\ RecordWorkspaceLoss
            /\ restore' = [restore EXCEPT !.at = "mark"]
       ELSE /\ restore' = [restore EXCEPT !.at = "unpack", !.handle = disk.latest]
            /\ UNCHANGED disk
    /\ UNCHANGED <<snapshots, mem, gate, believed, box, bucket, lock, at, cp, ops, purge,
                   outcome, used>>

\* The archive holds the marker of the checkpoint it was made by.
RestoreUnpack ==
    /\ restore.at = "unpack"
    /\ box.up
    /\ restore.handle \in bucket
    /\ box' = [box EXCEPT !.content = restore.handle.content, !.marker = TRUE]
    /\ restore' = [restore EXCEPT !.at = "mark"]
    /\ UNCHANGED <<snapshots, mem, disk, gate, believed, bucket, lock, at, cp, ops, purge,
                   outcome, used>>

RestoreMark ==
    /\ restore.at = "mark"
    /\ box.up
    /\ box' = [box EXCEPT !.marker = TRUE]
    /\ RestoreEnds(TRUE)
    /\ UNCHANGED <<snapshots, mem, disk, gate, believed, bucket, lock, purge, outcome,
                   used>>

RestoreFails ==
    /\ restore.at # "none"
    /\ believed' \in {believed, believed /\ box.up}
    /\ RestoreEnds(FALSE)
    /\ UNCHANGED <<snapshots, mem, disk, gate, box, bucket, lock, purge, outcome, used>>

-----------------------------------------------------------------------------
\* doCreateCheckpoint, once the workspace is known to be restored

CpEnds(ok) ==
    /\ cp' = NoCp
    /\ at' = CheckpointEnded(IF ok THEN "saved" ELSE "failed")
    /\ ops' = [c \in Callers |-> IF ops[c].at = "saving" THEN NoOps ELSE ops[c]]

CpMark ==
    /\ cp.at = "mark"
    /\ box.up
    /\ box' = [box EXCEPT !.marker = TRUE]
    /\ cp' = [cp EXCEPT !.at = "snap"]
    /\ UNCHANGED <<snapshots, mem, disk, gate, believed, bucket, lock, at, restore, ops, 
                   purge, outcome, used>>

\* The host archives the workspace; its answer may be lost.
CpSnap ==
    /\ cp.at = "snap"
    /\ box.up
    /\ used.snapshots < MaxSnapshots
    /\ Spend("snapshots")
    /\ LET new == [id |-> used.snapshots + 1, content |-> box.content]
       IN  /\ bucket' = bucket \cup {new}
           /\ \/ cp' = [cp EXCEPT !.at = "put", !.new = new] /\ UNCHANGED <<at, ops>>
              \/ CpEnds(FALSE)
    /\ UNCHANGED <<snapshots, mem, disk, gate, believed, box, lock, restore, purge,
                   outcome>>

\* Mutant: old archives are deleted before the new one is recorded.
CpPutLate ==
    /\ cp.at = "put"
    /\ bucket' = bucket \ cp.known
    /\ \/ disk' = [disk EXCEPT !.latest = cp.new, !.ledger = @ \cup {cp.new}]
          /\ cp' = [cp EXCEPT !.at = "stale"] /\ UNCHANGED <<at, ops>>
       \/ CpEnds(FALSE) /\ UNCHANGED disk
    /\ UNCHANGED <<snapshots, mem, gate, believed, box, lock, restore, purge, outcome,
                   used>>

\* One put records the new handle as the latest and in the ledger; if it fails
\* the new archive is removed.
CpPut ==
    /\ cp.at = "put"
    /\ \/ /\ disk' = [disk EXCEPT !.latest = cp.new, !.ledger = @ \cup {cp.new}]
          /\ cp' = [cp EXCEPT !.at = "stale"]
          /\ UNCHANGED <<bucket, at, ops>>
       \/ /\ bucket' = bucket \ {cp.new}
          /\ CpEnds(FALSE)
          /\ UNCHANGED disk
    /\ UNCHANGED <<snapshots, mem, gate, believed, box, lock, restore, purge, outcome,
                   used>>

\* replaceBackupHandleLedger, which may fail
ReplaceBackupHandleLedger(handles) == disk' \in {disk, [disk EXCEPT !.ledger = handles]}

\* Old archives are deleted; the ledger keeps those that could not be.
CpStale ==
    /\ cp.at = "stale"
    /\ \E gone \in {cp.known, {}} :
          /\ bucket' = bucket \ (gone \ {cp.new})
          /\ ReplaceBackupHandleLedger({cp.new} \cup (cp.known \ gone))
    /\ CpEnds(TRUE)
    /\ UNCHANGED <<snapshots, mem, gate, believed, box, lock, restore, purge, outcome,
                   used>>

CpFails ==
    /\ cp.at \in {"mark", "snap"}
    /\ believed' \in {believed, believed /\ box.up}
    /\ CpEnds(FALSE)
    /\ UNCHANGED <<snapshots, mem, disk, gate, box, bucket, lock, restore, purge, outcome,
                   used>>

-----------------------------------------------------------------------------
\* doPurgeInstance, for purgeInstance and for cleanInstance, which do not join
\* each other

PurgeKinds == {"purge", "clean"}

Purging(k, step) == purge[k].at = step
PurgeGoto(k, step) == purge' = [purge EXCEPT ![k].at = step]
PurgeEnds(k) == purge' = [purge EXCEPT ![k] = NoPurge]

\* An object without identity owns nothing and wipes its storage.
PurgeInstance(k) ==
    /\ Purging(k, "none")
    /\ used.purges < MaxPurges
    /\ Spend("purges")
    /\ mem' = [mem EXCEPT !.purge = TRUE, !.active = FALSE]
    /\ IF mem.ident = "none"
       THEN disk' = Wiped /\ outcome' = k /\ UNCHANGED purge
       ELSE PurgeGoto(k, "flag") /\ UNCHANGED <<disk, outcome>>
    /\ UNCHANGED <<snapshots, gate, believed, box, bucket, lock, at, restore, cp, ops>>

PurgeFlag(k) ==
    /\ Purging(k, "flag")
    /\ PurgeGoto(k, "drain")
    /\ mem' = [mem EXCEPT !.ident = "deleting"]
    /\ disk' = [disk EXCEPT !.ident = "deleting", !.purge = TRUE]
    /\ UNCHANGED <<snapshots, gate, believed, box, bucket, lock, at, restore, cp, ops, 
                   outcome, used>>

\* Mutant: wakes and stops that have begun are not waited for.
PurgeDrainRequests(k) ==
    /\ Purging(k, "drain")
    /\ ActiveOperations = 0
    /\ purge' = [purge EXCEPT ![k] = [at |-> "remove", known |-> bucket]]
    /\ UNCHANGED <<snapshots, mem, disk, gate, believed, box, bucket, lock, at, restore, cp, ops,
                   outcome, used>>

\* Everything that has begun ends; then the archives are collected, those the
\* ledger lost track of too (discoverOwnedBackups).
PurgeDrain(k) ==
    /\ Purging(k, "drain")
    /\ ActiveOperations = 0
    /\ LifecycleOperations = 0
    /\ purge' = [purge EXCEPT ![k] =
                    [at |-> "remove",
                     known |-> MergeBackupHandles(disk.ledger, disk.latest)
                                  \cup (IF snapshots THEN bucket ELSE {})]]
    /\ UNCHANGED <<snapshots, mem, disk, gate, believed, box, bucket, lock, at, restore, cp, ops,
                   outcome, used>>

\* The host removes the container and its storage, or is still terminating it.
PurgeRemove(k) ==
    /\ Purging(k, "remove")
    /\ \/ PurgeGoto(k, "objects") /\ box' = NoBox /\ believed' = FALSE
       \/ PurgeEnds(k) /\ UNCHANGED <<box, believed>>
    /\ UNCHANGED <<snapshots, mem, disk, gate, bucket, lock, at, restore, cp, ops, 
                   outcome, used>>

PurgeObjects(k) ==
    /\ Purging(k, "objects")
    /\ \/ PurgeGoto(k, "forget") /\ bucket' = bucket \ purge[k].known
       \/ PurgeEnds(k) /\ UNCHANGED bucket
    /\ UNCHANGED <<snapshots, mem, disk, gate, believed, box, lock, at, restore, cp, ops, 
                   outcome, used>>

PurgeForget(k) ==
    /\ Purging(k, "forget")
    /\ PurgeEnds(k)
    /\ disk' = IF k = "purge" THEN Wiped
               ELSE [disk EXCEPT !.latest = NoBackup, !.ledger = {}]
    /\ outcome' = k
    /\ UNCHANGED <<snapshots, mem, gate, believed, box, bucket, lock, at, restore, cp, ops, 
                   used>>

-----------------------------------------------------------------------------
Init ==
    /\ snapshots \in Hosts
    /\ mem = [ident |-> "none", active |-> FALSE, purge |-> FALSE]
    /\ disk = Wiped
    /\ gate = NoGate
    /\ believed = FALSE
    /\ box = NoBox
    /\ bucket = {}
    /\ lock = <<>> /\ at = "start"
    /\ restore = NoRestore
    /\ cp = NoCp
    /\ ops = [c \in Callers |-> NoOps]
    /\ purge = [k \in PurgeKinds |-> NoPurge]
    /\ outcome = "none"
    /\ used = [work |-> 0, snapshots |-> 0, calls |-> 0, epoch |-> 0, faults |-> 0, purges |-> 0]

Epochs == 1..MaxEpoch

Requests(c, e) ==
    \/ CreateOpencodeSession(c, e) \/ PromptOpencodeSessionAsync(c, e)
    \/ ReplyOpencodeQuestion(c, e) \/ RejectOpencodeQuestion(c, e)
    \/ AbortOpencodeSession(c, e) \/ ListOpencodeSessionMessages(c, e)
    \/ GetOpencodeSessionLineage(c, e) \/ ListOpencodeQuestions(c, e)
    \/ IsOpencodeSessionActive(c, e) \/ RunSdkTest(c, e)
    \/ ListWorkspaceDirectory(c, e) \/ ReadWorkspaceFile(c, e)
    \/ DownloadWorkspaceFile(c, e) \/ ReadSessionChanges(c, e)
    \/ WriteArtifactFile(c, e) \/ DeleteArtifactFile(c, e)
    \/ StreamOpencodeEvents(c, e) \/ CheckpointWorkspace(c, e)

OpStep(c) == ProxyOpencodeFetch(c) \/ Answered(c) \/ Unanswered(c)

MutationStep ==
    \/ MutationRefused \/ WakeStart \/ WakeRestore \/ WakeServe \/ WakeFails
    \/ StopStart \/ StopDrain \/ StopDrained \/ StopInspect \/ StopPersist \/ StopCloses \/ StopTerminate
    \/ StopFails

RestoreStep ==
    RestoreEnsure \/ RestoreCheck \/ RestoreRead \/ RestoreUnpack \/ RestoreMark \/ RestoreFails

CpStep == CpMark \/ CpSnap \/ CpPut \/ CpStale \/ CpFails

PurgeStep(k) ==
    PurgeFlag(k) \/ PurgeDrain(k) \/ PurgeRemove(k) \/ PurgeObjects(k) \/ PurgeForget(k)

Next ==
    \/ InitializeInstance \/ Restart \/ GetInstanceRuntimeStatus
    \/ OpenCodeWorks \/ OpenCodeRests \/ ContainerDies
    \/ \E c \in Callers, e \in Epochs : Requests(c, e)
    \/ \E c \in Callers : OpStep(c)
    \/ \E e \in Epochs :
          WakeForLifecycle(e) \/ QuiesceAndStopIfIdle(e) \/ ForceStopForLifecycle(e)
    \/ MutationStep \/ RestoreStep \/ CpStep
    \/ \E k \in PurgeKinds : PurgeInstance(k) \/ PurgeStep(k)

\* Every await settles: storage and R2 answer, and every call of a host ends or
\* times out.
Fairness ==
    /\ WF_vars(MutationStep) /\ WF_vars(RestoreStep) /\ WF_vars(CpStep)
    /\ \A c \in Callers : WF_vars(OpStep(c))
    /\ \A k \in PurgeKinds : WF_vars(PurgeStep(k))

Spec == Init /\ [][Next]_vars /\ Fairness

-----------------------------------------------------------------------------
\* Properties

\* Every variable keeps the shape the code gives it.
TypeOK ==
    /\ snapshots \in BOOLEAN
    /\ mem \in [ident : Identities, active : BOOLEAN, purge : BOOLEAN]
    /\ disk \in Disk
    /\ gate \in RuntimeGate
    /\ believed \in BOOLEAN
    /\ box \in Box
    /\ bucket \subseteq Handle
    /\ restore.at \in RestoreSteps /\ cp.at \in CpSteps
    /\ \A k \in PurgeKinds : purge[k].at \in PurgeSteps

\* The handle storage holds as the latest always names an archive that exists,
\* as long as the instance has not been asked to go: no order of failed puts,
\* failed deletions, restarts and joined checkpoints deletes it first.
LatestBackupExists ==
    ~mem.purge /\ disk.latest # NoBackup => disk.latest \in bucket

\* An idle stop takes the container down only when its whole workspace is in the
\* latest archive: nothing is running, no admitted request is still on its way,
\* and the archive was made after the last of them.
IdleStopKeepsWork ==
    [][Holding({"idle"}, "phase") /\ gate.phase = "stopping" /\ box.up /\ ~box'.up /\ snapshots =>
          /\ ~box.working
          /\ \A c \in Callers : ops[c].at # "sent"
          /\ disk.latest # NoBackup
          /\ disk.latest.content = box.content]_vars

\* The gate opens over a container only when the workspace in it is the latest
\* archive or newer, or when there was none and a conversation that was there is
\* recorded as lost.
WakeOpensRestored ==
    [][gate.phase = "waking" /\ gate'.phase = "running" /\ snapshots =>
          \/ disk.latest # NoBackup /\ box.content >= disk.latest.content
          \/ disk.latest = NoBackup /\ (box.content >= disk.target \/ disk.lost)]_vars

\* The marker "distinguishes a fresh image from the currently restored writable
\* filesystem" (restoreWorkspace): a restore that finds it has nothing to put back.
MarkerMeansRestored ==
    [][restore.at = "ensured" /\ restore'.at = "none" /\ believed' /\ snapshots
          /\ box.up /\ box.marker /\ disk.latest # NoBackup =>
          box.content >= disk.latest.content]_vars

\* An instance that reports itself purged or cleaned has left nothing behind: no
\* container, no volume and no archive, those of an interrupted checkpoint and of
\* a wake that was under way included.
PurgedLeavesNothing == outcome # "none" => box = NoBox /\ bucket = {}

\* Nobody waits for something that is not under way: whoever awaits a restore, a
\* checkpoint or the end of the last request is served when it ends, also when
\* it is joined, fails, or a purge has been asked for in between.  Wakes, stops
\* and purges therefore all come to an end.
WaitersAreServed ==
    /\ at = "restoring" => "wake" \in restore.for
    /\ at = "saving" => cp.at # "none"
    /\ at = "draining" => Counted(ops) # {}
    /\ cp.at = "restore" => "checkpoint" \in restore.for
    /\ restore.for # {} => restore.at # "none"
    /\ \A c \in Callers : ops[c].at = "saving" => cp.at # "none"

\* The workspace as DurableWorkspace sees it: it exists once the marker is in it.
Content(h) == IF h = NoBackup THEN -1 ELSE h.content
Workspace ==
    INSTANCE DurableWorkspace
    WITH live <- IF box.marker /\ (box.up \/ ~snapshots) THEN box.content ELSE -1,
         taken <- Content(cp.new),
         saved <- Content(disk.latest)

\* The Sandbox keeps the promise of DurableWorkspace: no archive that counts is
\* replaced by an older one, and a workspace never comes back as anything but the
\* archive that counts.
WorkspaceIsDurable == Workspace!Spec

=============================================================================
