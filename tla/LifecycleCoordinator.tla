------------------------ MODULE LifecycleCoordinator ------------------------
(***************************************************************************)
(* The semantic lifecycle policy of one OpenCode instance                  *)
(* (src/src/lifecycle.ts, src/src/lifecycle-policy.ts): a Durable Object   *)
(* that decides when a container wakes, when it has been idle for long     *)
(* enough to be stopped, and which runtime epoch may be given work.        *)
(*                                                                         *)
(* The object is single threaded and its storage operations close the      *)
(* input gate, so a handler runs without interruption from one external    *)
(* await to the next: an RPC to the Sandbox, or the write that mirrors the *)
(* public lifecycle to D1 at the end of persistAndSchedule.  Each action   *)
(* below is one such uninterrupted stretch.  What persists is st and the   *)
(* alarm; the in-progress promises (wakeCall, probeCall, stopCall), the    *)
(* running alarm handler and the callers about to call continueStop are    *)
(* lost when the object restarts.                                          *)
(*                                                                         *)
(* The Sandbox is the environment here: it may answer anything its RPC     *)
(* type allows, in any order, or fail.                                     *)
(***************************************************************************)
EXTENDS Integers, FiniteSets

CONSTANTS
    IdleTimeout,      \* idleTimeoutMs / LIFECYCLE_IDLE_TIMEOUT_MS
    BusyInterval,     \* LIFECYCLE_BUSY_PROBE_INTERVAL_MS
    IdleInterval,     \* LIFECYCLE_IDLE_PROBE_INTERVAL_MS
    ConfirmInterval,  \* LIFECYCLE_IDLE_CONFIRM_INTERVAL_MS
    RecoveryInterval, \* OPERATION_RECOVERY_INTERVAL_MS
    MaxBackoff,       \* MAX_PROBE_BACKOFF_MS
    FailureWindow,    \* MAX_PROBE_FAILURE_WINDOW_MS
    LeaseTtls,        \* what normalizeLeaseTtl may return
    SnapshotLag,      \* how far a snapshot's observedAt may lie behind now
    UncalledRpcs,     \* whether observeExecution and reconcileNow, which are
                      \* public but called by nothing in the repository, happen
    Resurrects,       \* whether a deleted object may be initialized again
    PromptMirror,     \* whether a mirror write takes no time on this clock
    MaxTime,          \* bound: the clock stops here
    MaxFresh,         \* bound: ids (epochs, operations, leases) ever drawn
    MaxRevision,      \* bound: revisions
    MaxLeases,        \* bound: leases held at once
    FailureCap        \* bound: failures are counted up to here

ASSUME ConstantsAssumption ==
    /\ {IdleTimeout, BusyInterval, IdleInterval, ConfirmInterval,
        RecoveryInterval, MaxBackoff, FailureWindow} \subseteq Nat \ {0}
    /\ LeaseTtls \subseteq Nat \ {0}
    /\ {UncalledRpcs, Resurrects, PromptMirror} \subseteq BOOLEAN
    /\ {SnapshotLag, MaxTime, MaxFresh, MaxRevision, MaxLeases, FailureCap} \subseteq Nat

\* A timestamp field that is absent.
Undefined == -1

\* An id field (epoch, operation) that is absent; drawn ids start at 1.
NoId == 0

VARIABLES
    st,         \* the stored lifecycle state
    now,        \* Date.now()
    alarmAt,    \* the Durable Object's alarm, or Undefined
    wakeCall,   \* wakeInProgress
    probeCall,  \* probeInProgress
    stopCall,   \* stopInProgress
    stopCallers, \* forceStop calls that have persisted and not yet reached continueStop
    handler,    \* where the running alarm handler is waiting
    fresh       \* ids drawn so far by crypto.randomUUID()

vars == <<st, now, alarmAt, wakeCall, probeCall, stopCall, stopCallers, handler, fresh>>

-----------------------------------------------------------------------------
\* Types

Time == Nat \cup {Undefined}

AdmissionPhases == {"running_unknown", "running_busy", "running_idle", "error_running"}

LifecyclePhase ==
    AdmissionPhases \cup {"uninitialized", "sleeping", "waking", "error_waking",
                          "quiescing", "deleting"}

WorkLease == [id : Nat, epoch : Nat, expiresAt : Nat]

StoredState ==
    [phase : LifecyclePhase, revision : Nat, epoch : Nat,
     idleCandidateSince : Time, idleConfirmations : Nat, idleDeadlineAt : Time,
     nextProbeAt : Time, lastSemanticWorkAt : Time,
     failures : Nat, probeFailingSince : Time,
     leases : SUBSET WorkLease,
     op : Nat, opType : {"none", "wake", "idle-stop", "force-stop"},
     wakeAfterStop : BOOLEAN]

\* ExecutionSnapshot, as the policy reads it.
Snapshot == [state : {"running", "not_running", "unknown"}, active : BOOLEAN, observedAt : Nat]

WakeCall == [stage : {"none", "mirror", "rpc", "settle", "reject"}, epoch : Nat, op : Nat]
ProbeCall == [stage : {"none", "mirror", "rpc", "settle"}, epoch : Nat, revision : Nat]
StopCall == [stage : {"none", "rpc", "settle", "reject", "wake"}, op : Nat,
             opType : {"none", "idle-stop", "force-stop"}, thenWake : BOOLEAN]
Handler == [at : {"none", "fired", "expired", "wake", "probe", "quiesced", "stop"},
            since : Nat]

NoWake == [stage |-> "none", epoch |-> NoId, op |-> NoId]
NoProbe == [stage |-> "none", epoch |-> NoId, revision |-> 0]
NoStop == [stage |-> "none", op |-> NoId, opType |-> "none", thenWake |-> FALSE]
NoHandler == [at |-> "none", since |-> 0]

-----------------------------------------------------------------------------
\* Pure functions of the stored state

\* isAdmissionPhase / isProbePhase
Admits(s) == s.phase \in AdmissionPhases

NeedsAlarm(s) == s.phase \notin {"uninitialized", "sleeping", "deleting"}

\* A lease counts while it belongs to the current epoch and has not expired.
ActiveLeases(s, t) == {l \in s.leases : l.epoch = s.epoch /\ l.expiresAt > t}

Later(a, b) == IF a >= b THEN a ELSE b
Sooner(a, b) == IF a <= b THEN a ELSE b

\* retryBackoff: doubles from the busy interval, three times at most, capped.
RetryBackoff(f) ==
    Sooner(MaxBackoff,
           BusyInterval * (CASE f <= 1 -> 1 [] f = 2 -> 2 [] f = 3 -> 4 [] OTHER -> 8))

\* One more failure; only retryBackoff reads the count, and it saturates.
CountFailure(f) == Sooner(f + 1, FailureCap)

\* Mutant: the candidate survives.
ClearIdleDeadlineOnly(s) == [s EXCEPT !.idleDeadlineAt = Undefined]

ClearIdleWindow(s) ==
    [s EXCEPT !.idleCandidateSince = Undefined, !.idleConfirmations = 0,
              !.idleDeadlineAt = Undefined]

ToSleeping(s) ==
    [ClearIdleWindow(s) EXCEPT
        !.phase = "sleeping", !.revision = @ + 1, !.epoch = NoId,
        !.nextProbeAt = Undefined, !.failures = 0, !.probeFailingSince = Undefined,
        !.leases = {}, !.op = NoId, !.opType = "none", !.wakeAfterStop = FALSE]

\* Whether leaving s for another phase has to invalidate an idle window.
InvalidatesIdle(s, phase) ==
    s.idleCandidateSince # Undefined \/ s.idleDeadlineAt # Undefined \/ s.phase # phase

ApplyUnknownActivity(s, t) ==
    [ClearIdleWindow(s) EXCEPT
        !.phase = "error_running",
        !.revision = IF InvalidatesIdle(s, "error_running") THEN @ + 1 ELSE @,
        !.failures = CountFailure(@),
        !.probeFailingSince = IF @ = Undefined THEN t ELSE @,
        !.nextProbeAt = t + RetryBackoff(CountFailure(s.failures))]

\* The fields every successful observation resets.
Observed(s) ==
    [s EXCEPT !.failures = 0, !.probeFailingSince = Undefined,
              !.op = NoId, !.opType = "none"]

ApplyBusy(s, t) ==
    [Observed(ClearIdleWindow(s)) EXCEPT
        !.phase = "running_busy",
        !.revision = IF InvalidatesIdle(s, "running_busy") THEN @ + 1 ELSE @,
        !.nextProbeAt = t + BusyInterval]

\* An idle observation that predates the last known work proves nothing.
ApplyStaleIdle(s, t) ==
    [Observed(ClearIdleWindow(s)) EXCEPT
        !.phase = "running_unknown", !.nextProbeAt = t + ConfirmInterval]

\* The second idle observation in a row opens the idle window (REQUIRED_IDLE_CONFIRMATIONS).
ApplyIdle(s, observedAt, t) ==
    LET since == IF s.idleCandidateSince = Undefined THEN observedAt ELSE s.idleCandidateSince
        confirmations == IF s.idleCandidateSince = Undefined THEN 1 ELSE s.idleConfirmations + 1
    IN  IF s.phase = "running_idle" /\ s.idleDeadlineAt # Undefined
        THEN [Observed(s) EXCEPT !.nextProbeAt = t + IdleInterval]
        ELSE IF confirmations >= 2
        THEN [Observed(s) EXCEPT
                !.phase = "running_idle", !.idleCandidateSince = since,
                !.idleConfirmations = confirmations,
                !.idleDeadlineAt = since + IdleTimeout,
                !.nextProbeAt = t + IdleInterval]
        ELSE [Observed(s) EXCEPT
                !.phase = "running_unknown", !.idleCandidateSince = since,
                !.idleConfirmations = confirmations, !.idleDeadlineAt = Undefined,
                !.nextProbeAt = t + ConfirmInterval]

ApplyExecutionSnapshot(s, snap, t) ==
    CASE snap.state = "not_running" -> ToSleeping(s)
      [] snap.state = "unknown"     -> ApplyUnknownActivity(s, t)
      [] OTHER ->
           IF snap.active \/ ActiveLeases(s, t) # {} THEN ApplyBusy(s, t)
           ELSE IF s.lastSemanticWorkAt # Undefined /\ snap.observedAt < s.lastSemanticWorkAt
           THEN ApplyStaleIdle(s, t)
           ELSE ApplyIdle(s, snap.observedAt, t)

\* removeExpiredLeases, when it removes something.
HasExpiredLeases(s, t) == s.leases # ActiveLeases(s, t)
RemoveExpiredLeases(s, t) ==
    [ClearIdleWindow(s) EXCEPT
        !.phase = IF Admits(s) THEN "running_unknown" ELSE @,
        !.revision = @ + 1, !.lastSemanticWorkAt = t, !.nextProbeAt = t,
        !.leases = ActiveLeases(s, t)]

\* Mutant: the leases survive a force stop.
ForceQuiescingKeepsLeases(s, op, t) ==
    [ClearIdleWindow(s) EXCEPT
        !.phase = "quiescing", !.revision = @ + 1, !.nextProbeAt = t + RecoveryInterval,
        !.op = op, !.opType = "force-stop", !.wakeAfterStop = FALSE]

\* The state a force stop persists: forceStop and beginUnreachableStop.
ForceQuiescing(s, op, t) ==
    [ClearIdleWindow(s) EXCEPT
        !.phase = "quiescing", !.revision = @ + 1, !.nextProbeAt = t + RecoveryInterval,
        !.leases = {}, !.op = op, !.opType = "force-stop", !.wakeAfterStop = FALSE]

IdleQuiescing(s, op, t) ==
    [s EXCEPT !.phase = "quiescing", !.nextProbeAt = t + RecoveryInterval,
              !.op = op, !.opType = "idle-stop", !.wakeAfterStop = FALSE]

\* probeFailureWindowExpired (lifecycle-policy.ts)
ProbeFailureWindowExpired(s, t) ==
    /\ s.phase = "error_running"
    /\ s.probeFailingSince # Undefined
    /\ t - s.probeFailingSince >= FailureWindow

-----------------------------------------------------------------------------
\* persistAndSchedule: store the state and arm the next alarm.

AlarmCandidates(s) ==
    {t \in {s.nextProbeAt} : t # Undefined}
    \cup {t \in {s.idleDeadlineAt} : s.phase = "running_idle" /\ t # Undefined}
    \cup {l.expiresAt : l \in ActiveLeases(s, now)}

Schedule(s) ==
    \/ /\ ~NeedsAlarm(s)
       /\ alarmAt' = Undefined
    \/ /\ NeedsAlarm(s)
       /\ AlarmCandidates(s) = {}
       /\ alarmAt' = now + RecoveryInterval
    \/ /\ NeedsAlarm(s)
       /\ \E a \in AlarmCandidates(s) :
            /\ \A b \in AlarmCandidates(s) : a <= b
            /\ alarmAt' = Later(now, a)

\* Mutant: the alarm is not moved.
PersistOnly(s) == st' = s /\ UNCHANGED alarmAt

Persist(s) == st' = s /\ Schedule(s)

-----------------------------------------------------------------------------
\* Public RPCs

\* The object is created with its session; a wake that raced the deletion may
\* initialize it again afterwards (ensureLifecycleInitialized).
InitializeInstance ==
    /\ st.phase = "uninitialized"
    /\ Resurrects \/ fresh = 0
    /\ Persist([st EXCEPT !.phase = "sleeping"])
    /\ UNCHANGED <<now, wakeCall, probeCall, stopCall, stopCallers, handler, fresh>>

\* The first stretch of performWake: draw (or keep) an epoch and an operation,
\* persist 'waking'.  It runs only if the phase still calls for a wake.
CanWake == /\ ~(Admits(st) /\ st.epoch # NoId)
           /\ st.phase \in {"sleeping", "waking", "error_waking", "error_running"}

BeginWake(explicit) ==
    LET continueExisting == /\ ~explicit
                            /\ st.phase \in {"waking", "error_waking"}
                            /\ st.epoch # NoId
                            /\ st.opType = "wake"
        epoch == IF continueExisting THEN st.epoch ELSE fresh + 1
        op == IF continueExisting THEN st.op ELSE fresh + 2
    IN  /\ CanWake
        /\ IF continueExisting THEN UNCHANGED fresh
           ELSE /\ fresh + 2 <= MaxFresh
                /\ fresh' = fresh + 2
        /\ wakeCall' = [stage |-> "mirror", epoch |-> epoch, op |-> op]
        /\ Persist([ClearIdleWindow(st) EXCEPT
                        !.phase = "waking", !.epoch = epoch,
                        !.revision = IF continueExisting THEN @ ELSE @ + 1,
                        !.nextProbeAt = now + RecoveryInterval, !.leases = {},
                        !.op = op, !.opType = "wake", !.wakeAfterStop = FALSE])

\* wake(): a running instance is returned as it is and a wake in progress is
\* joined; neither changes anything.
WakeFresh ==
    /\ wakeCall.stage = "none"
    /\ BeginWake(TRUE)
    /\ UNCHANGED <<now, probeCall, stopCall, stopCallers, handler>>

WakeBehindStop ==
    /\ st.phase = "quiescing"
    /\ Persist([st EXCEPT !.wakeAfterStop = TRUE])
    /\ UNCHANGED <<now, wakeCall, probeCall, stopCall, stopCallers, handler, fresh>>

BeginWork(ttl) ==
    /\ Admits(st)
    /\ st.epoch # NoId
    /\ Cardinality(st.leases) < MaxLeases
    /\ fresh < MaxFresh
    /\ fresh' = fresh + 1
    /\ Persist([ClearIdleWindow(st) EXCEPT
                    !.phase = "running_busy", !.revision = @ + 1,
                    !.lastSemanticWorkAt = now,
                    !.nextProbeAt = IF @ = Undefined THEN now + BusyInterval
                                    ELSE Sooner(@, now + BusyInterval),
                    !.leases = @ \cup {[id |-> fresh + 1, epoch |-> st.epoch,
                                        expiresAt |-> now + ttl]}])
    /\ UNCHANGED <<now, wakeCall, probeCall, stopCall, stopCallers, handler>>

RenewWork(l, ttl) ==
    /\ Admits(st)
    /\ l.epoch = st.epoch
    /\ Persist([st EXCEPT !.leases = (@ \ {l}) \cup {[l EXCEPT !.expiresAt = now + ttl]}])
    /\ UNCHANGED <<now, wakeCall, probeCall, stopCall, stopCallers, handler, fresh>>

\* endWork does not look at the phase: only the epoch and the lease guard it.
EndWork(l) ==
    /\ l.epoch = st.epoch
    /\ Persist([ClearIdleWindow(st) EXCEPT
                    !.phase = IF st.leases \ {l} # {} THEN "running_busy" ELSE "running_unknown",
                    !.revision = @ + 1, !.lastSemanticWorkAt = now, !.nextProbeAt = now,
                    !.leases = @ \ {l}])
    /\ UNCHANGED <<now, wakeCall, probeCall, stopCall, stopCallers, handler, fresh>>

\* observeExecution: the event fast path, for the current epoch only.
ObserveExecution(snap) ==
    /\ Admits(st)
    /\ ~ /\ snap.state = "running"
         /\ ~snap.active
         /\ st.lastSemanticWorkAt # Undefined
         /\ snap.observedAt < st.lastSemanticWorkAt
    /\ Persist(ApplyExecutionSnapshot(st, snap, now))
    /\ UNCHANGED <<now, wakeCall, probeCall, stopCall, stopCallers, handler, fresh>>

\* runProbe when none is in progress: drop expired leases first (which awaits
\* the mirror), otherwise send the probe at once.
SendProbe(s) ==
    probeCall' = [stage |-> "rpc", epoch |-> s.epoch, revision |-> s.revision]

RunProbe ==
    IF probeCall.stage # "none" \/ ~Admits(st) \/ st.epoch = NoId
    THEN UNCHANGED <<st, alarmAt, probeCall>>
    ELSE IF HasExpiredLeases(st, now)
    THEN /\ Persist(RemoveExpiredLeases(st, now))
         /\ probeCall' = [NoProbe EXCEPT !.stage = "mirror"]
    ELSE /\ SendProbe(st)
         /\ UNCHANGED <<st, alarmAt>>

ReconcileNow ==
    /\ Admits(st)
    /\ RunProbe
    /\ UNCHANGED <<now, wakeCall, stopCall, stopCallers, handler, fresh>>

ForceStop ==
    /\ st.phase \notin {"uninitialized", "sleeping", "deleting", "quiescing"}
    /\ fresh < MaxFresh
    /\ fresh' = fresh + 1
    /\ Persist(ForceQuiescing(st, fresh + 1, now))
    /\ stopCallers' = stopCallers + 1
    /\ UNCHANGED <<now, wakeCall, probeCall, stopCall, handler>>

BeginDelete ==
    /\ st.phase # "uninitialized"
    /\ Persist([ClearIdleWindow(st) EXCEPT
                    !.phase = "deleting", !.revision = @ + 1, !.epoch = NoId,
                    !.nextProbeAt = Undefined, !.leases = {},
                    !.op = NoId, !.opType = "none", !.wakeAfterStop = FALSE])
    /\ UNCHANGED <<now, wakeCall, probeCall, stopCall, stopCallers, handler, fresh>>

InitialState ==
    [phase |-> "uninitialized", revision |-> 0, epoch |-> NoId,
     idleCandidateSince |-> Undefined, idleConfirmations |-> 0,
     idleDeadlineAt |-> Undefined, nextProbeAt |-> Undefined,
     lastSemanticWorkAt |-> Undefined, failures |-> 0, probeFailingSince |-> Undefined,
     leases |-> {}, op |-> NoId, opType |-> "none", wakeAfterStop |-> FALSE]

MarkDeleted ==
    /\ st' = InitialState
    /\ alarmAt' = Undefined
    /\ UNCHANGED <<now, wakeCall, probeCall, stopCall, stopCallers, handler, fresh>>

-----------------------------------------------------------------------------
\* performWake

\* A promise the alarm handler awaits has settled.  The handler is over; its
\* catch block re-arms the alarm if the promise was rejected.
HandlerResumes(waits, rejected) ==
    \/ /\ handler.at \in waits
       /\ handler' = NoHandler
       /\ IF rejected /\ st.phase # "uninitialized" THEN Schedule(st) ELSE UNCHANGED alarmAt
    \/ /\ handler.at \notin waits
       /\ UNCHANGED <<alarmAt, handler>>

\* The RPC goes out whatever happened to the state during the mirror write; only
\* a deleted object, which no longer knows its instance, fails before it.
WakeSend ==
    /\ wakeCall.stage = "mirror"
    /\ wakeCall' = [wakeCall EXCEPT !.stage = IF st.phase = "uninitialized"
                                              THEN "reject" ELSE "rpc"]
    /\ UNCHANGED <<st, now, alarmAt, probeCall, stopCall, stopCallers, handler, fresh>>

WakeIsCurrent == /\ st.phase = "waking"
                 /\ st.op = wakeCall.op
                 /\ st.epoch = wakeCall.epoch

\* An answer to a wake that has been superseded changes nothing.
WakeStale ==
    /\ wakeCall.stage = "rpc"
    /\ ~WakeIsCurrent
    /\ \E end \in {"settle", "reject"} : wakeCall' = [wakeCall EXCEPT !.stage = end]
    /\ UNCHANGED <<st, now, alarmAt, probeCall, stopCall, stopCallers, handler, fresh>>

WakeReturn(snap) ==
    /\ wakeCall.stage = "rpc"
    /\ WakeIsCurrent
    /\ snap.state # "not_running"
    /\ Persist(ApplyExecutionSnapshot(
            [st EXCEPT !.phase = "running_unknown", !.op = NoId, !.opType = "none",
                       !.nextProbeAt = now, !.failures = 0, !.probeFailingSince = Undefined],
            snap, now))
    /\ wakeCall' = [wakeCall EXCEPT !.stage = "settle"]
    /\ UNCHANGED <<now, probeCall, stopCall, stopCallers, handler, fresh>>

\* The RPC failed, or answered that nothing is running.
WakeThrow ==
    /\ wakeCall.stage = "rpc"
    /\ WakeIsCurrent
    /\ Persist([st EXCEPT !.phase = "error_waking", !.failures = CountFailure(@),
                          !.nextProbeAt = now + RetryBackoff(CountFailure(st.failures))])
    /\ wakeCall' = [wakeCall EXCEPT !.stage = "reject"]
    /\ UNCHANGED <<now, probeCall, stopCall, stopCallers, handler, fresh>>

WakeSettle ==
    /\ wakeCall.stage \in {"settle", "reject"}
    /\ wakeCall' = NoWake
    /\ stopCall' = IF stopCall.stage = "wake" THEN NoStop ELSE stopCall
    /\ HandlerResumes(IF stopCall.stage = "wake" THEN {"wake", "stop"} ELSE {"wake"},
                      handler.at = "wake" /\ wakeCall.stage = "reject")
    /\ UNCHANGED <<st, now, probeCall, stopCallers, fresh>>

-----------------------------------------------------------------------------
\* performProbe

ProbeSend ==
    /\ probeCall.stage = "mirror"
    /\ IF Admits(st) /\ st.epoch # NoId THEN SendProbe(st) ELSE probeCall' = NoProbe
    /\ UNCHANGED <<st, now, alarmAt, wakeCall, stopCall, stopCallers, handler, fresh>>

ProbeIsCurrent == /\ Admits(st)
                  /\ st.revision = probeCall.revision
                  /\ st.epoch = probeCall.epoch

ProbeReturn(snap) ==
    /\ probeCall.stage = "rpc"
    /\ ProbeIsCurrent
    /\ Persist(ApplyExecutionSnapshot(st, snap, now))
    /\ probeCall' = [probeCall EXCEPT !.stage = "settle"]
    /\ UNCHANGED <<now, wakeCall, stopCall, stopCallers, handler, fresh>>

\* A stale answer only re-arms the alarm; a stale failure does not even do that.
ProbeStale ==
    /\ probeCall.stage = "rpc"
    /\ ~ProbeIsCurrent
    /\ probeCall' = NoProbe
    /\ UNCHANGED st
    /\ IF st.phase = "uninitialized" THEN UNCHANGED alarmAt
       ELSE Schedule(st) \/ UNCHANGED alarmAt
    /\ UNCHANGED <<now, wakeCall, stopCall, stopCallers, handler, fresh>>

ProbeThrow ==
    /\ probeCall.stage = "rpc"
    /\ ProbeIsCurrent
    /\ Persist(ApplyUnknownActivity(st, now))
    /\ probeCall' = [probeCall EXCEPT !.stage = "settle"]
    /\ UNCHANGED <<now, wakeCall, stopCall, stopCallers, handler, fresh>>

ProbeSettle ==
    /\ probeCall.stage = "settle"
    /\ probeCall' = NoProbe
    /\ UNCHANGED <<st, now, alarmAt, wakeCall, stopCall, stopCallers, handler, fresh>>

-----------------------------------------------------------------------------
\* performStop

\* continueStop: join the stop in progress, or start one if the stored phase
\* still holds an operation.
ContinueStop ==
    stopCall' = IF stopCall.stage # "none" \/ st.phase # "quiescing" \/ st.op = NoId
                THEN stopCall
                ELSE [stage |-> "rpc", op |-> st.op, opType |-> st.opType, thenWake |-> FALSE]

\* Mutant: nobody needs to have persisted a stop.
StopSendUnasked ==
    /\ stopCallers' = stopCallers - 1
    /\ ContinueStop
    /\ UNCHANGED <<st, now, alarmAt, wakeCall, probeCall, handler, fresh>>

\* A forceStop call comes back from the mirror write.
StopSend ==
    /\ stopCallers > 0
    /\ stopCallers' = stopCallers - 1
    /\ ContinueStop
    /\ UNCHANGED <<st, now, alarmAt, wakeCall, probeCall, handler, fresh>>

\* Mutant: any stop will do.
SomeStopIsCurrent == st.phase = "quiescing"

StopIsCurrent == st.phase = "quiescing" /\ st.op = stopCall.op

StopStale ==
    /\ stopCall.stage = "rpc"
    /\ ~StopIsCurrent
    /\ stopCall' = NoStop
    /\ HandlerResumes({"stop"}, FALSE)
    /\ UNCHANGED <<st, now, wakeCall, probeCall, stopCallers, fresh>>

StopPending ==
    /\ stopCall.stage = "rpc"
    /\ StopIsCurrent
    /\ Persist([st EXCEPT !.nextProbeAt = now + RecoveryInterval])
    /\ stopCall' = [stopCall EXCEPT !.stage = "settle"]
    /\ UNCHANGED <<now, wakeCall, probeCall, stopCallers, handler, fresh>>

StopFailedRunning ==
    /\ stopCall.stage = "rpc"
    /\ StopIsCurrent
    /\ Persist([ClearIdleWindow(st) EXCEPT
                    !.phase = "error_running", !.revision = @ + 1,
                    !.op = NoId, !.opType = "none", !.wakeAfterStop = FALSE,
                    !.nextProbeAt = now + RetryBackoff(1), !.failures = CountFailure(0)])
    /\ stopCall' = [stopCall EXCEPT !.stage = "settle"]
    /\ UNCHANGED <<now, wakeCall, probeCall, stopCallers, handler, fresh>>

\* Only an idle stop can answer 'busy'; the snapshot says why it declined.
StopBusy(snap) ==
    /\ stopCall.stage = "rpc"
    /\ StopIsCurrent
    /\ stopCall.opType = "idle-stop"
    /\ snap.state # "running" \/ snap.active
    /\ Persist(ApplyExecutionSnapshot(
            [ClearIdleWindow(st) EXCEPT
                !.phase = "running_unknown", !.revision = @ + 1,
                !.op = NoId, !.opType = "none", !.wakeAfterStop = FALSE,
                !.nextProbeAt = now],
            snap, now))
    /\ stopCall' = [stopCall EXCEPT !.stage = "settle"]
    /\ UNCHANGED <<now, wakeCall, probeCall, stopCallers, handler, fresh>>

StopStopped ==
    /\ stopCall.stage = "rpc"
    /\ StopIsCurrent
    /\ stopCall' = [stopCall EXCEPT !.stage = "settle", !.thenWake = st.wakeAfterStop]
    /\ Persist(ToSleeping(st))
    /\ UNCHANGED <<now, wakeCall, probeCall, stopCallers, handler, fresh>>

StopThrow ==
    /\ stopCall.stage = "rpc"
    /\ StopIsCurrent
    /\ Persist([ClearIdleWindow(st) EXCEPT
                    !.nextProbeAt = now + RetryBackoff(CountFailure(st.failures)),
                    !.failures = CountFailure(@)])
    /\ stopCall' = [stopCall EXCEPT !.stage = "reject"]
    /\ UNCHANGED <<now, wakeCall, probeCall, stopCallers, handler, fresh>>

StopSettle ==
    /\ stopCall.stage \in {"settle", "reject"}
    /\ ~stopCall.thenWake
    /\ stopCall' = NoStop
    /\ HandlerResumes({"stop"}, stopCall.stage = "reject")
    /\ UNCHANGED <<st, now, wakeCall, probeCall, stopCallers, fresh>>

\* A stop with a queued wake continues into continueWake(true): it starts one,
\* or joins whatever wake is still in progress, and is itself in progress until
\* that wake has settled.
StopThenWake ==
    /\ stopCall.stage = "settle"
    /\ stopCall.thenWake
    /\ IF wakeCall.stage = "none" /\ ~CanWake
       THEN /\ stopCall' = NoStop
            /\ HandlerResumes({"stop"}, FALSE)
            /\ UNCHANGED <<st, wakeCall, fresh>>
       ELSE /\ stopCall' = [stopCall EXCEPT !.stage = "wake"]
            /\ IF wakeCall.stage = "none" THEN BeginWake(TRUE)
               ELSE UNCHANGED <<st, alarmAt, wakeCall, fresh>>
            /\ UNCHANGED handler
    /\ UNCHANGED <<now, probeCall, stopCallers>>

-----------------------------------------------------------------------------
\* alarm()

\* What the handler does with a running phase, t being the now it read on entry.
\* beginIdleStop checks the phase, the leases and the epoch again without an await
\* in between; a running instance always has an epoch.
AlarmDecide(t) ==
    IF ~Admits(st)
    THEN /\ Persist(st)
         /\ handler' = NoHandler
         /\ UNCHANGED <<probeCall, fresh>>
    ELSE IF /\ st.phase = "running_idle"
            /\ st.idleDeadlineAt # Undefined
            /\ t >= st.idleDeadlineAt
            /\ ActiveLeases(st, t) = {}
    THEN /\ st.epoch # NoId
         /\ fresh < MaxFresh
         /\ fresh' = fresh + 1
         /\ Persist(IdleQuiescing(st, fresh + 1, t))
         /\ handler' = [at |-> "quiesced", since |-> 0]
         /\ UNCHANGED probeCall
    ELSE IF st.nextProbeAt = Undefined \/ t >= st.nextProbeAt
    THEN /\ RunProbe
         /\ handler' = [at |-> "probe", since |-> 0]
         /\ UNCHANGED fresh
    ELSE /\ Persist(st)
         /\ handler' = NoHandler
         /\ UNCHANGED <<probeCall, fresh>>

\* The runtime delivers a due alarm, which consumes it, and runs one at a time.
AlarmFire ==
    /\ handler.at = "none"
    /\ alarmAt # Undefined
    /\ now >= alarmAt
    /\ alarmAt' = Undefined
    /\ handler' = [at |-> "fired", since |-> 0]
    /\ UNCHANGED <<st, now, wakeCall, probeCall, stopCall, stopCallers, fresh>>

\* Delivered after the reason for it has gone.
AlarmSpurious ==
    /\ handler.at = "fired"
    /\ ~NeedsAlarm(st)
    /\ alarmAt' = Undefined
    /\ handler' = NoHandler
    /\ UNCHANGED <<st, now, wakeCall, probeCall, stopCall, stopCallers, fresh>>

AlarmWaking ==
    /\ handler.at = "fired"
    /\ st.phase \in {"waking", "error_waking"}
    /\ IF wakeCall.stage = "none" THEN BeginWake(FALSE)
       ELSE UNCHANGED <<st, alarmAt, wakeCall, fresh>>
    /\ handler' = [at |-> "wake", since |-> 0]
    /\ UNCHANGED <<now, probeCall, stopCall, stopCallers>>

AlarmQuiescing ==
    /\ \/ handler.at = "fired" /\ st.phase = "quiescing"
       \/ handler.at = "quiesced"
    /\ ContinueStop
    /\ handler' = IF stopCall' = NoStop THEN NoHandler ELSE [at |-> "stop", since |-> 0]
    /\ UNCHANGED <<st, now, alarmAt, wakeCall, probeCall, stopCallers, fresh>>

AlarmRunning ==
    /\ handler.at = "fired"
    /\ Admits(st)
    /\ IF HasExpiredLeases(st, now)
       THEN /\ Persist(RemoveExpiredLeases(st, now))
            /\ handler' = [at |-> "expired", since |-> now]
            /\ UNCHANGED <<probeCall, fresh>>
       ELSE AlarmDecide(now)
    /\ UNCHANGED <<now, wakeCall, stopCall, stopCallers>>

AlarmExpired ==
    /\ handler.at = "expired"
    /\ IF st.phase = "uninitialized"
       THEN handler' = NoHandler /\ alarmAt' = Undefined /\ UNCHANGED <<st, probeCall, fresh>>
       ELSE AlarmDecide(handler.since)
    /\ UNCHANGED <<now, wakeCall, stopCall, stopCallers>>

\* After the probe: stop a container that has been unreachable for too long.
AlarmProbed ==
    /\ handler.at = "probe"
    /\ probeCall.stage = "none"
    /\ IF ProbeFailureWindowExpired(st, now)
       THEN /\ fresh < MaxFresh
            /\ fresh' = fresh + 1
            /\ Persist(ForceQuiescing(st, fresh + 1, now))
            /\ handler' = [at |-> "quiesced", since |-> 0]
       ELSE /\ handler' = NoHandler
            /\ UNCHANGED <<st, alarmAt, fresh>>
    /\ UNCHANGED <<now, wakeCall, probeCall, stopCall, stopCallers>>

-----------------------------------------------------------------------------

\* Somebody is waiting for the write that mirrors the lifecycle to D1.
MirrorPending ==
    \/ wakeCall.stage \in {"mirror", "settle", "reject"}
    \/ probeCall.stage \in {"mirror", "settle"}
    \/ stopCall.stage \in {"settle", "reject"}
    \/ stopCallers > 0
    \/ handler.at \in {"expired", "quiesced"}

Tick ==
    /\ now < MaxTime
    /\ PromptMirror => ~MirrorPending
    /\ now' = now + 1
    /\ UNCHANGED <<st, alarmAt, wakeCall, probeCall, stopCall, stopCallers, handler, fresh>>

\* The object is evicted or redeployed: promises die, the constructor checks
\* the stored alarm against the stored state.
Restart ==
    /\ wakeCall' = NoWake
    /\ probeCall' = NoProbe
    /\ stopCall' = NoStop
    /\ stopCallers' = 0
    /\ handler' = NoHandler
    /\ alarmAt' = IF ~NeedsAlarm(st) THEN Undefined
                  ELSE IF alarmAt = Undefined THEN now ELSE alarmAt
    /\ UNCHANGED <<st, now, fresh>>

Init ==
    /\ st = InitialState
    /\ now = 0
    /\ alarmAt = Undefined
    /\ wakeCall = NoWake
    /\ probeCall = NoProbe
    /\ stopCall = NoStop
    /\ stopCallers = 0
    /\ handler = NoHandler
    /\ fresh = 0

\* Snapshots the Sandbox may have taken by now.
Snapshots ==
    {s \in [state : {"running", "not_running", "unknown"}, active : BOOLEAN,
            observedAt : Later(0, now - SnapshotLag)..now] :
        s.state # "running" => s.active = (s.state = "unknown")}

Request ==
    \/ InitializeInstance \/ WakeFresh \/ WakeBehindStop
    \/ \E ttl \in LeaseTtls : BeginWork(ttl)
    \/ \E l \in st.leases, ttl \in LeaseTtls : RenewWork(l, ttl)
    \/ \E l \in st.leases : EndWork(l)
    \/ ForceStop \/ BeginDelete \/ MarkDeleted

UncalledRequest ==
    /\ UncalledRpcs
    /\ ReconcileNow \/ \E snap \in Snapshots : ObserveExecution(snap)

WakeStep ==
    \/ WakeSend \/ WakeStale \/ WakeThrow \/ WakeSettle
    \/ \E snap \in Snapshots : WakeReturn(snap)

ProbeStep ==
    \/ ProbeSend \/ ProbeStale \/ ProbeThrow \/ ProbeSettle
    \/ \E snap \in Snapshots : ProbeReturn(snap)

StopStep ==
    \/ StopSend \/ StopStale \/ StopPending \/ StopFailedRunning \/ StopStopped
    \/ StopThrow \/ StopSettle \/ StopThenWake
    \/ \E snap \in Snapshots : StopBusy(snap)

AlarmStep ==
    \/ AlarmFire \/ AlarmSpurious \/ AlarmWaking \/ AlarmQuiescing \/ AlarmRunning
    \/ AlarmExpired \/ AlarmProbed

Next ==
    /\ \/ Request \/ UncalledRequest \/ WakeStep \/ ProbeStep \/ StopStep
       \/ AlarmStep \/ Tick \/ Restart
    /\ st'.revision <= MaxRevision

Spec == Init /\ [][Next]_vars

-----------------------------------------------------------------------------
\* Properties

\* Every variable of the coordinator keeps the shape the code gives it.
TypeOK ==
    /\ st \in StoredState
    /\ now \in Nat
    /\ alarmAt \in Time
    /\ wakeCall \in WakeCall
    /\ probeCall \in ProbeCall
    /\ stopCall \in StopCall
    /\ stopCallers \in Nat
    /\ handler \in Handler
    /\ fresh \in Nat

\* A work lease exists only while admission is open, and belongs to the epoch
\* being admitted.  endWork looks at the lease and its epoch but never at the
\* phase, so a lease that outlived admission would let a late endWork put a
\* quiescing or waking instance back to 'running'.
LeasesOnlyWhileAdmitting ==
    \A l \in st.leases : Admits(st) /\ l.epoch = st.epoch

\* The idle window never counts time before the last known work: neither the
\* candidate nor the deadline survives a lease that began, ended or expired,
\* whatever a late or out-of-order observation says.
IdleWindowAfterWork ==
    st.lastSemanticWorkAt # Undefined =>
        /\ st.idleCandidateSince # Undefined =>
                st.idleCandidateSince >= st.lastSemanticWorkAt
        /\ st.idleDeadlineAt # Undefined =>
                st.idleDeadlineAt >= st.lastSemanticWorkAt + IdleTimeout

\* Some alarm will look at the instance again: one is set, or its handler has
\* yet to finish.
Attended == alarmAt # Undefined \/ handler.at # "none"

\* A waking, running or failed instance is never forgotten.  (A quiescing one
\* may be: a stop that joins an earlier stop, which still continues into its
\* queued wake, ends without a new alarm.)
AlarmArmed == NeedsAlarm(st) /\ st.phase # "quiescing" => Attended

\* An idle stop starts only after a whole idle timeout without known work, and
\* with no lease held, even when the alarm decides on the time it read before
\* it waited for the mirror write.
IdleStopWaitsOutWindow ==
    [][st.phase # "quiescing" /\ st'.phase = "quiescing" /\ st'.opType = "idle-stop" =>
          /\ st.leases = {}
          /\ st.lastSemanticWorkAt # Undefined => now >= st.lastSemanticWorkAt + IdleTimeout]_vars

\* Admission opens only on an answer of the Sandbox to the operation the stored
\* state is waiting for, never on an answer to an operation it has replaced, on
\* the end of a lease, or on a probe.
AdmissionOpensOnAnswer ==
    [][~Admits(st) /\ Admits(st') =>
          \/ /\ st.phase = "waking"
             /\ wakeCall.stage = "rpc" /\ wakeCall'.stage = "settle"
             /\ wakeCall.op = st.op /\ wakeCall.epoch = st'.epoch
          \/ /\ st.phase = "quiescing"
             /\ stopCall.stage = "rpc" /\ stopCall'.stage = "settle"
             /\ stopCall.op = st.op]_vars

=============================================================================
