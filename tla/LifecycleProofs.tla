--------------------------- MODULE LifecycleProofs ---------------------------
(***************************************************************************)
(* Proofs about LifecycleCoordinator, for every value of its constants.    *)
(*                                                                         *)
(* The stored state is changed by pure functions (ClearIdleWindow,         *)
(* ApplyExecutionSnapshot, ...), so soundness is first a predicate on a    *)
(* stored state, preserved by each of them; the actions then only put the  *)
(* pieces together.                                                        *)
(***************************************************************************)
EXTENDS LifecycleCoordinator, TLAPS

\* LeasesOnlyWhileAdmitting, of a stored state.
LeasesSound(s) == \A l \in s.leases : Admits(s) /\ l.epoch = s.epoch

\* IdleWindowAfterWork, of a stored state.
WindowSound(s) ==
    s.lastSemanticWorkAt # Undefined =>
        /\ s.idleCandidateSince # Undefined =>
                s.idleCandidateSince >= s.lastSemanticWorkAt
        /\ s.idleDeadlineAt # Undefined =>
                s.idleDeadlineAt >= s.lastSemanticWorkAt + IdleTimeout

\* A quiescing instance holds the stop it is quiescing for.
StopSound(s) == s.phase = "quiescing" => s.opType \in {"idle-stop", "force-stop"}

Sound(s) == s \in StoredState /\ LeasesSound(s) /\ WindowSound(s) /\ StopSound(s)

\* The handler that dropped the expired leases decides on the time it read
\* then, but no lease it may find has expired by that time.
HandlerSound ==
    /\ handler.since <= now
    /\ handler.at = "expired" => \A l \in st.leases : l.expiresAt > handler.since

\* The type of everything but the stored state.
Shape ==
    /\ now \in Nat
    /\ alarmAt \in Time
    /\ wakeCall \in WakeCall
    /\ probeCall \in ProbeCall
    /\ stopCall \in StopCall
    /\ stopCallers \in Nat
    /\ handler \in Handler
    /\ fresh \in Nat

\* The inductive invariant.
Inv == Sound(st) /\ Shape /\ HandlerSound

-----------------------------------------------------------------------------
\* Values

\* The intervals are positive, which is what keeps every computed time a time.
LEMMA ConstantsType ==
    /\ IdleTimeout \in Nat \ {0} /\ BusyInterval \in Nat \ {0} /\ IdleInterval \in Nat \ {0}
    /\ ConfirmInterval \in Nat \ {0} /\ RecoveryInterval \in Nat \ {0}
    /\ MaxBackoff \in Nat \ {0} /\ FailureCap \in Nat
  BY ConstantsAssumption

\* A timestamp field is absent or a time, and the two are told apart.
LEMMA TimeFacts ==
    /\ Undefined \in Time /\ Nat \subseteq Time /\ NoId \in Nat /\ Undefined \notin Nat
    /\ \A t \in Time : t # Undefined => t \in Nat
  BY DEF Time, Undefined, NoId

\* The running phases of isAdmissionPhase are phases; the other six admit nothing.
LEMMA PhaseFacts ==
    /\ AdmissionPhases \subseteq LifecyclePhase
    /\ {"uninitialized", "sleeping", "waking", "error_waking", "quiescing", "deleting"}
           \subseteq LifecyclePhase \ AdmissionPhases
    /\ {"running_unknown", "running_busy", "running_idle", "error_running"} = AdmissionPhases
  BY DEF LifecyclePhase, AdmissionPhases

\* Counting a failure and the backoff computed from it (retryBackoff) stay numbers.
LEMMA CountFailureType ==
  ASSUME NEW f \in Nat
  PROVE  CountFailure(f) \in Nat /\ RetryBackoff(f) \in Nat
  BY ConstantsType DEF CountFailure, RetryBackoff, Sooner

-----------------------------------------------------------------------------
\* The pure functions preserve soundness.

\* clearIdleWindow forgets the window and leaves the rest of a sound state alone.
LEMMA ClearIdleWindowSound ==
  ASSUME NEW s, Sound(s)
  PROVE  /\ Sound(ClearIdleWindow(s))
         /\ ClearIdleWindow(s).idleCandidateSince = Undefined
         /\ ClearIdleWindow(s).idleDeadlineAt = Undefined
         /\ ClearIdleWindow(s).leases = s.leases
         /\ ClearIdleWindow(s).phase = s.phase
         /\ ClearIdleWindow(s).epoch = s.epoch
         /\ ClearIdleWindow(s).failures = s.failures
         /\ ClearIdleWindow(s).opType = s.opType
         /\ ClearIdleWindow(s).revision = s.revision
         /\ ClearIdleWindow(s).nextProbeAt = s.nextProbeAt
         /\ ClearIdleWindow(s).lastSemanticWorkAt = s.lastSemanticWorkAt
         /\ ClearIdleWindow(s).probeFailingSince = s.probeFailingSince
<1> DEFINE c == ClearIdleWindow(s)
<1>1. c \in StoredState
  BY TimeFacts DEF Sound, ClearIdleWindow, StoredState
<1>2. /\ c.idleCandidateSince = Undefined /\ c.idleDeadlineAt = Undefined
      /\ c.leases = s.leases /\ c.phase = s.phase /\ c.epoch = s.epoch
      /\ c.failures = s.failures /\ c.opType = s.opType /\ c.revision = s.revision
      /\ c.nextProbeAt = s.nextProbeAt /\ c.lastSemanticWorkAt = s.lastSemanticWorkAt
      /\ c.probeFailingSince = s.probeFailingSince
  BY DEF Sound, ClearIdleWindow, StoredState
<1> QED
  BY <1>1, <1>2 DEF Sound, LeasesSound, WindowSound, StopSound, Admits

\* With no idle window, soundness needs only the leases and the stop.
LEMMA SoundWithoutWindow ==
  ASSUME NEW r \in StoredState,
         r.idleCandidateSince = Undefined, r.idleDeadlineAt = Undefined,
         LeasesSound(r), StopSound(r)
  PROVE  Sound(r)
  BY DEF Sound, WindowSound

\* toSleepingState drops leases, window and operation, so the result is sound.
LEMMA ToSleepingSound ==
  ASSUME NEW s, Sound(s)
  PROVE  Sound(ToSleeping(s)) /\ ToSleeping(s).leases = {} /\ ToSleeping(s).phase = "sleeping"
<1> DEFINE c == ClearIdleWindow(s)
<1>1. /\ c \in StoredState
      /\ c.idleCandidateSince = Undefined /\ c.idleDeadlineAt = Undefined
  BY ClearIdleWindowSound DEF Sound
<1> HIDE DEF c
<1> DEFINE r == [c EXCEPT
        !.phase = "sleeping", !.revision = @ + 1, !.epoch = NoId,
        !.nextProbeAt = Undefined, !.failures = 0, !.probeFailingSince = Undefined,
        !.leases = {}, !.op = NoId, !.opType = "none", !.wakeAfterStop = FALSE]
<1>2. ToSleeping(s) = r
  BY DEF ToSleeping, c
<1>3. c.revision + 1 \in Nat
  BY <1>1 DEF StoredState
<1>4. r \in StoredState
  BY <1>1, <1>3, TimeFacts, PhaseFacts DEF StoredState
<1>5. /\ r.leases = {} /\ r.phase = "sleeping"
      /\ r.idleCandidateSince = Undefined /\ r.idleDeadlineAt = Undefined
  BY <1>1 DEF StoredState
<1>6. LeasesSound(r) /\ StopSound(r)
  BY <1>5 DEF LeasesSound, StopSound
<1> QED
  BY <1>2, <1>4, <1>5, <1>6, SoundWithoutWindow

\* applyUnknownActivity keeps the leases in a running phase and forgets the window.
LEMMA ApplyUnknownActivitySound ==
  ASSUME NEW s, Sound(s), NEW t \in Nat
  PROVE  /\ Sound(ApplyUnknownActivity(s, t))
         /\ ApplyUnknownActivity(s, t).leases = s.leases
         /\ ApplyUnknownActivity(s, t).phase = "error_running"
         /\ ApplyUnknownActivity(s, t).epoch = s.epoch
<1> DEFINE c == ClearIdleWindow(s)
           rev == IF InvalidatesIdle(s, "error_running") THEN c.revision + 1 ELSE c.revision
           since == IF c.probeFailingSince = Undefined THEN t ELSE c.probeFailingSince
           next == t + RetryBackoff(CountFailure(s.failures))
           f == CountFailure(c.failures)
<1>1. /\ c \in StoredState /\ c.leases = s.leases /\ c.epoch = s.epoch
      /\ c.idleCandidateSince = Undefined /\ c.idleDeadlineAt = Undefined
  BY ClearIdleWindowSound DEF Sound
<1> HIDE DEF c
<1>2. rev \in Nat /\ since \in Time /\ f \in Nat
  BY <1>1, TimeFacts, CountFailureType DEF StoredState
<1>3. next \in Time
  <2>1. s.failures \in Nat
    BY DEF Sound, StoredState
  <2> QED
    BY <2>1, CountFailureType, TimeFacts
<1> HIDE DEF rev, since, next, f
<1> DEFINE r == [c EXCEPT !.phase = "error_running", !.revision = rev, !.failures = f,
                          !.probeFailingSince = since, !.nextProbeAt = next]
<1>4. ApplyUnknownActivity(s, t) = r
  BY DEF ApplyUnknownActivity, c, rev, since, next, f
<1>5. r \in StoredState
  BY <1>1, <1>2, <1>3, PhaseFacts DEF StoredState
<1>6. /\ r.leases = s.leases /\ r.phase = "error_running" /\ r.epoch = s.epoch
      /\ r.idleCandidateSince = Undefined /\ r.idleDeadlineAt = Undefined
  BY <1>1 DEF StoredState
<1>7. LeasesSound(r) /\ StopSound(r)
  BY <1>6, PhaseFacts DEF Sound, LeasesSound, StopSound, Admits
<1> QED
  BY <1>4, <1>5, <1>6, <1>7, SoundWithoutWindow

\* Observed forgets the operation: a record update, sound only once the caller
\* has set a running phase.
LEMMA ObservedType ==
  ASSUME NEW s \in StoredState
  PROVE  /\ Observed(s) \in StoredState
         /\ Observed(s).leases = s.leases
         /\ Observed(s).phase = s.phase
         /\ Observed(s).epoch = s.epoch
         /\ Observed(s).idleCandidateSince = s.idleCandidateSince
         /\ Observed(s).idleConfirmations = s.idleConfirmations
         /\ Observed(s).idleDeadlineAt = s.idleDeadlineAt
         /\ Observed(s).lastSemanticWorkAt = s.lastSemanticWorkAt
         /\ Observed(s).revision = s.revision
<1>1. Observed(s) \in StoredState
  BY TimeFacts DEF Observed, StoredState
<1> QED
  BY <1>1 DEF Observed, StoredState

\* The common part of an observation on top of clearIdleWindow.
LEMMA ObservedClearedType ==
  ASSUME NEW s, Sound(s)
  PROVE  /\ Observed(ClearIdleWindow(s)) \in StoredState
         /\ Observed(ClearIdleWindow(s)).leases = s.leases
         /\ Observed(ClearIdleWindow(s)).epoch = s.epoch
         /\ Observed(ClearIdleWindow(s)).idleCandidateSince = Undefined
         /\ Observed(ClearIdleWindow(s)).idleDeadlineAt = Undefined
<1>1. /\ ClearIdleWindow(s) \in StoredState
      /\ ClearIdleWindow(s).leases = s.leases /\ ClearIdleWindow(s).epoch = s.epoch
      /\ ClearIdleWindow(s).idleCandidateSince = Undefined
      /\ ClearIdleWindow(s).idleDeadlineAt = Undefined
  BY ClearIdleWindowSound DEF Sound
<1> QED
  BY <1>1, ObservedType

\* Any record with the leases and the epoch of a sound state, a running phase
\* and no idle window is sound.
LEMMA RunningSound ==
  ASSUME NEW s, Sound(s), NEW r \in StoredState,
         r.phase \in AdmissionPhases, r.leases \subseteq s.leases, r.epoch = s.epoch,
         r.idleCandidateSince = Undefined, r.idleDeadlineAt = Undefined
  PROVE  Sound(r)
<1>1. LeasesSound(r)
  BY DEF Sound, LeasesSound, Admits
<1>2. StopSound(r)
  BY PhaseFacts DEF StopSound
<1> QED
  BY <1>1, <1>2, SoundWithoutWindow

\* The busy branch of applyExecutionSnapshot keeps the leases and forgets the window.
LEMMA ApplyBusySound ==
  ASSUME NEW s, Sound(s), NEW t \in Nat
  PROVE  /\ Sound(ApplyBusy(s, t))
         /\ ApplyBusy(s, t).leases = s.leases
         /\ ApplyBusy(s, t).phase = "running_busy"
         /\ ApplyBusy(s, t).epoch = s.epoch
<1> DEFINE c == Observed(ClearIdleWindow(s))
           rev == IF InvalidatesIdle(s, "running_busy") THEN c.revision + 1 ELSE c.revision
           r == [c EXCEPT !.phase = "running_busy", !.revision = rev,
                          !.nextProbeAt = t + BusyInterval]
<1>1. /\ c \in StoredState /\ c.leases = s.leases /\ c.epoch = s.epoch
      /\ c.idleCandidateSince = Undefined /\ c.idleDeadlineAt = Undefined
  BY ObservedClearedType
<1>2. ApplyBusy(s, t) = r
  BY DEF ApplyBusy
<1> HIDE DEF c
<1>3. rev \in Nat /\ t + BusyInterval \in Time
  BY <1>1, TimeFacts, ConstantsType DEF StoredState
<1> HIDE DEF rev
<1>4. r \in StoredState
  BY <1>1, <1>3, PhaseFacts DEF StoredState
<1>5. /\ r.leases = s.leases /\ r.phase = "running_busy" /\ r.epoch = s.epoch
      /\ r.idleCandidateSince = Undefined /\ r.idleDeadlineAt = Undefined
  BY <1>1 DEF StoredState
<1> QED
  BY <1>2, <1>4, <1>5, RunningSound, PhaseFacts

\* So does the branch for an idle observation older than the last known work.
LEMMA ApplyStaleIdleSound ==
  ASSUME NEW s, Sound(s), NEW t \in Nat
  PROVE  /\ Sound(ApplyStaleIdle(s, t))
         /\ ApplyStaleIdle(s, t).leases = s.leases
         /\ ApplyStaleIdle(s, t).phase = "running_unknown"
         /\ ApplyStaleIdle(s, t).epoch = s.epoch
<1> DEFINE c == Observed(ClearIdleWindow(s))
           r == [c EXCEPT !.phase = "running_unknown", !.nextProbeAt = t + ConfirmInterval]
<1>1. /\ c \in StoredState /\ c.leases = s.leases /\ c.epoch = s.epoch
      /\ c.idleCandidateSince = Undefined /\ c.idleDeadlineAt = Undefined
  BY ObservedClearedType
<1>2. ApplyStaleIdle(s, t) = r
  BY DEF ApplyStaleIdle
<1> HIDE DEF c
<1>3. t + ConfirmInterval \in Time
  BY TimeFacts, ConstantsType
<1>4. r \in StoredState
  BY <1>1, <1>3, PhaseFacts DEF StoredState
<1>5. /\ r.leases = s.leases /\ r.phase = "running_unknown" /\ r.epoch = s.epoch
      /\ r.idleCandidateSince = Undefined /\ r.idleDeadlineAt = Undefined
  BY <1>1 DEF StoredState
<1> QED
  BY <1>2, <1>4, <1>5, RunningSound, PhaseFacts

\* An idle observation made after the last known work opens or keeps a window
\* that starts after it.
LEMMA ApplyIdleSound ==
  ASSUME NEW s, Sound(s), NEW t \in Nat, NEW observedAt \in Nat,
         s.lastSemanticWorkAt # Undefined => observedAt >= s.lastSemanticWorkAt
  PROVE  /\ Sound(ApplyIdle(s, observedAt, t))
         /\ ApplyIdle(s, observedAt, t).leases = s.leases
         /\ ApplyIdle(s, observedAt, t).phase \in {"running_idle", "running_unknown"}
         /\ ApplyIdle(s, observedAt, t).epoch = s.epoch
<1> DEFINE c == Observed(s)
           since == IF s.idleCandidateSince = Undefined THEN observedAt
                    ELSE s.idleCandidateSince
           n == IF s.idleCandidateSince = Undefined THEN 1 ELSE s.idleConfirmations + 1
           kept == [c EXCEPT !.nextProbeAt = t + IdleInterval]
           opened == [c EXCEPT !.phase = "running_idle", !.idleCandidateSince = since,
                               !.idleConfirmations = n,
                               !.idleDeadlineAt = since + IdleTimeout,
                               !.nextProbeAt = t + IdleInterval]
           first == [c EXCEPT !.phase = "running_unknown", !.idleCandidateSince = since,
                              !.idleConfirmations = n, !.idleDeadlineAt = Undefined,
                              !.nextProbeAt = t + ConfirmInterval]
           Goal(r) == /\ Sound(r) /\ r.leases = s.leases /\ r.epoch = s.epoch
                      /\ r.phase \in {"running_idle", "running_unknown"}
<1>1. /\ c \in StoredState /\ c.leases = s.leases /\ c.epoch = s.epoch /\ c.phase = s.phase
      /\ c.idleCandidateSince = s.idleCandidateSince
      /\ c.idleDeadlineAt = s.idleDeadlineAt
      /\ c.lastSemanticWorkAt = s.lastSemanticWorkAt
  BY ObservedType DEF Sound
<1>2. /\ s.idleCandidateSince \in Time /\ s.idleConfirmations \in Nat
      /\ s.lastSemanticWorkAt \in Time /\ s.idleDeadlineAt \in Time
  BY DEF Sound, StoredState
<1>3. /\ since \in Nat /\ since \in Time /\ n \in Nat /\ since + IdleTimeout \in Time
      /\ t + IdleInterval \in Time /\ t + ConfirmInterval \in Time
  BY <1>2, TimeFacts, ConstantsType
<1>4. s.lastSemanticWorkAt # Undefined =>
        /\ since >= s.lastSemanticWorkAt
        /\ since + IdleTimeout >= s.lastSemanticWorkAt + IdleTimeout
  BY <1>2, <1>3, TimeFacts, ConstantsType DEF Sound, WindowSound
<1>5. ApplyIdle(s, observedAt, t) =
        IF s.phase = "running_idle" /\ s.idleDeadlineAt # Undefined THEN kept
        ELSE IF n >= 2 THEN opened ELSE first
  BY DEF ApplyIdle
<1> HIDE DEF c, since, n
<1>6. ASSUME s.phase = "running_idle" PROVE Goal(kept)
  <2>1. kept \in StoredState
    BY <1>1, <1>3 DEF StoredState
  <2>2. /\ kept.leases = s.leases /\ kept.epoch = s.epoch /\ kept.phase = s.phase
        /\ kept.idleCandidateSince = s.idleCandidateSince
        /\ kept.idleDeadlineAt = s.idleDeadlineAt
        /\ kept.lastSemanticWorkAt = s.lastSemanticWorkAt
    BY <1>1 DEF StoredState
  <2> HIDE DEF kept
  <2> QED
    BY <1>6, <2>1, <2>2 DEF Sound, LeasesSound, WindowSound, StopSound, Admits
<1>7. Goal(opened)
  <2>1. opened \in StoredState
    BY <1>1, <1>3, PhaseFacts DEF StoredState
  <2>2. /\ opened.leases = s.leases /\ opened.epoch = s.epoch
        /\ opened.phase = "running_idle"
        /\ opened.idleCandidateSince = since
        /\ opened.idleDeadlineAt = since + IdleTimeout
        /\ opened.lastSemanticWorkAt = s.lastSemanticWorkAt
    BY <1>1 DEF StoredState
  <2> HIDE DEF opened
  <2>3. LeasesSound(opened) /\ StopSound(opened)
    BY <2>2, PhaseFacts DEF Sound, LeasesSound, StopSound, Admits
  <2>4. WindowSound(opened)
    BY <1>4, <2>2 DEF WindowSound
  <2> QED
    BY <2>1, <2>2, <2>3, <2>4 DEF Sound
<1>8. Goal(first)
  <2>1. first \in StoredState
    BY <1>1, <1>3, PhaseFacts, TimeFacts DEF StoredState
  <2>2. /\ first.leases = s.leases /\ first.epoch = s.epoch
        /\ first.phase = "running_unknown"
        /\ first.idleCandidateSince = since
        /\ first.idleDeadlineAt = Undefined
        /\ first.lastSemanticWorkAt = s.lastSemanticWorkAt
    BY <1>1 DEF StoredState
  <2> HIDE DEF first
  <2>3. LeasesSound(first) /\ StopSound(first)
    BY <2>2, PhaseFacts DEF Sound, LeasesSound, StopSound, Admits
  <2>4. WindowSound(first)
    BY <1>4, <2>2 DEF WindowSound
  <2> QED
    BY <2>1, <2>2, <2>3, <2>4 DEF Sound
<1> HIDE DEF kept, opened, first
<1>9. Goal(ApplyIdle(s, observedAt, t))
  <2>1. CASE s.phase = "running_idle" /\ s.idleDeadlineAt # Undefined
    BY <1>5, <1>6, <2>1
  <2>2. CASE ~(s.phase = "running_idle" /\ s.idleDeadlineAt # Undefined) /\ n >= 2
    BY <1>5, <1>7, <2>2
  <2>3. CASE ~(s.phase = "running_idle" /\ s.idleDeadlineAt # Undefined) /\ ~(n >= 2)
    BY <1>5, <1>8, <2>3
  <2> QED
    BY <2>1, <2>2, <2>3
<1> QED
  BY <1>9

\* applyExecutionSnapshot, whatever the snapshot says: the result is sound, holds
\* no other leases, and is running or asleep.
LEMMA ApplyExecutionSnapshotSound ==
  ASSUME NEW s, Sound(s), NEW t \in Nat, NEW snap \in Snapshot
  PROVE  /\ Sound(ApplyExecutionSnapshot(s, snap, t))
         /\ ApplyExecutionSnapshot(s, snap, t).leases \subseteq s.leases
         /\ ApplyExecutionSnapshot(s, snap, t).phase \in AdmissionPhases \cup {"sleeping"}
         /\ snap.state # "not_running" =>
               ApplyExecutionSnapshot(s, snap, t).epoch = s.epoch
<1> DEFINE r == ApplyExecutionSnapshot(s, snap, t)
<1>1. CASE snap.state = "not_running"
  <2>1. r = ToSleeping(s)
    BY <1>1 DEF ApplyExecutionSnapshot
  <2> QED
    BY <1>1, <2>1, ToSleepingSound
<1>2. CASE snap.state = "unknown"
  <2>1. r = ApplyUnknownActivity(s, t)
    BY <1>2 DEF ApplyExecutionSnapshot
  <2> QED
    BY <2>1, ApplyUnknownActivitySound, PhaseFacts
<1>3. CASE snap.state \notin {"not_running", "unknown"}
  <2>1. r = IF snap.active \/ ActiveLeases(s, t) # {} THEN ApplyBusy(s, t)
            ELSE IF s.lastSemanticWorkAt # Undefined /\ snap.observedAt < s.lastSemanticWorkAt
            THEN ApplyStaleIdle(s, t)
            ELSE ApplyIdle(s, snap.observedAt, t)
    BY <1>3 DEF ApplyExecutionSnapshot
  <2>2. CASE r = ApplyBusy(s, t)
    BY <2>2, ApplyBusySound, PhaseFacts
  <2>3. CASE r = ApplyStaleIdle(s, t)
    BY <2>3, ApplyStaleIdleSound, PhaseFacts
  <2>4. CASE /\ r = ApplyIdle(s, snap.observedAt, t)
             /\ ~(s.lastSemanticWorkAt # Undefined /\ snap.observedAt < s.lastSemanticWorkAt)
    <3>1. snap.observedAt \in Nat /\ s.lastSemanticWorkAt \in Time
      BY DEF Snapshot, Sound, StoredState
    <3>2. s.lastSemanticWorkAt # Undefined => snap.observedAt >= s.lastSemanticWorkAt
      BY <2>4, <3>1, TimeFacts
    <3> QED
      BY <2>4, <3>1, <3>2, ApplyIdleSound, PhaseFacts
  <2> QED
    BY <2>1, <2>2, <2>3, <2>4
<1> QED
  BY <1>1, <1>2, <1>3

\* removeExpiredLeases keeps exactly the unexpired leases and stays running.
LEMMA RemoveExpiredLeasesSound ==
  ASSUME NEW s, Sound(s), NEW t \in Nat, Admits(s)
  PROVE  /\ Sound(RemoveExpiredLeases(s, t))
         /\ RemoveExpiredLeases(s, t).leases = ActiveLeases(s, t)
         /\ RemoveExpiredLeases(s, t).phase = "running_unknown"
<1> DEFINE c == ClearIdleWindow(s)
           r == [c EXCEPT !.phase = "running_unknown", !.revision = @ + 1,
                          !.lastSemanticWorkAt = t, !.nextProbeAt = t,
                          !.leases = ActiveLeases(s, t)]
<1>1. /\ c \in StoredState /\ c.leases = s.leases /\ c.epoch = s.epoch /\ c.phase = s.phase
      /\ c.idleCandidateSince = Undefined /\ c.idleDeadlineAt = Undefined
  BY ClearIdleWindowSound DEF Sound
<1>2. RemoveExpiredLeases(s, t) = r
  BY DEF RemoveExpiredLeases
<1> HIDE DEF c
<1>3. /\ c.revision + 1 \in Nat /\ t \in Time
      /\ ActiveLeases(s, t) \subseteq s.leases
      /\ ActiveLeases(s, t) \in SUBSET WorkLease
  BY <1>1, TimeFacts DEF Sound, StoredState, ActiveLeases
<1>4. r \in StoredState
  BY <1>1, <1>3, PhaseFacts DEF StoredState
<1>5. /\ r.leases = ActiveLeases(s, t) /\ r.phase = "running_unknown" /\ r.epoch = s.epoch
      /\ r.idleCandidateSince = Undefined /\ r.idleDeadlineAt = Undefined
  BY <1>1 DEF StoredState
<1> HIDE DEF r
<1>6. Sound(r)
  BY <1>3, <1>4, <1>5, RunningSound, PhaseFacts
<1> QED
  BY <1>2, <1>5, <1>6

\* A record with no leases and no idle window is sound in any phase, if a
\* quiescing one holds a stop.
LEMMA EmptySound ==
  ASSUME NEW r \in StoredState, r.leases = {}, StopSound(r),
         r.idleCandidateSince = Undefined, r.idleDeadlineAt = Undefined
  PROVE  Sound(r)
  BY SoundWithoutWindow DEF LeasesSound

\* A force stop drops the leases, so it is sound from any state.
LEMMA ForceQuiescingSound ==
  ASSUME NEW s, Sound(s), NEW op \in Nat, NEW t \in Nat
  PROVE  /\ Sound(ForceQuiescing(s, op, t))
         /\ ForceQuiescing(s, op, t).leases = {}
         /\ ForceQuiescing(s, op, t).phase = "quiescing"
         /\ ForceQuiescing(s, op, t).opType = "force-stop"
<1> DEFINE c == ClearIdleWindow(s)
           r == [c EXCEPT !.phase = "quiescing", !.revision = @ + 1,
                          !.nextProbeAt = t + RecoveryInterval, !.leases = {},
                          !.op = op, !.opType = "force-stop", !.wakeAfterStop = FALSE]
<1>1. /\ c \in StoredState
      /\ c.idleCandidateSince = Undefined /\ c.idleDeadlineAt = Undefined
  BY ClearIdleWindowSound DEF Sound
<1>2. ForceQuiescing(s, op, t) = r
  BY DEF ForceQuiescing
<1> HIDE DEF c
<1>3. c.revision + 1 \in Nat /\ t + RecoveryInterval \in Time
  BY <1>1, TimeFacts, ConstantsType DEF StoredState
<1>4. r \in StoredState
  BY <1>1, <1>3, PhaseFacts DEF StoredState
<1>5. /\ r.leases = {} /\ r.phase = "quiescing" /\ r.opType = "force-stop"
      /\ r.idleCandidateSince = Undefined /\ r.idleDeadlineAt = Undefined
  BY <1>1 DEF StoredState
<1> QED
  BY <1>2, <1>4, <1>5, EmptySound DEF StopSound

\* An idle stop keeps the record as it is: it may only begin without leases.
LEMMA IdleQuiescingSound ==
  ASSUME NEW s, Sound(s), NEW op \in Nat, NEW t \in Nat, s.leases = {}
  PROVE  /\ Sound(IdleQuiescing(s, op, t))
         /\ IdleQuiescing(s, op, t).leases = {}
         /\ IdleQuiescing(s, op, t).phase = "quiescing"
<1> DEFINE r == IdleQuiescing(s, op, t)
<1>1. s \in StoredState /\ t + RecoveryInterval \in Time
  BY TimeFacts, ConstantsType DEF Sound
<1>2. r \in StoredState
  BY <1>1, PhaseFacts DEF StoredState, IdleQuiescing
<1>3. /\ r.leases = s.leases /\ r.phase = "quiescing" /\ r.opType = "idle-stop"
      /\ r.idleCandidateSince = s.idleCandidateSince
      /\ r.idleDeadlineAt = s.idleDeadlineAt
      /\ r.lastSemanticWorkAt = s.lastSemanticWorkAt
  BY <1>1 DEF StoredState, IdleQuiescing
<1> HIDE DEF r
<1>4. LeasesSound(r) /\ WindowSound(r) /\ StopSound(r)
  BY <1>3 DEF Sound, LeasesSound, WindowSound, StopSound
<1> QED
  BY <1>2, <1>3, <1>4 DEF Sound, r

-----------------------------------------------------------------------------
\* Persisting, scheduling and the handler

\* nextAlarmAt yields a time for every stored state.
LEMMA ScheduleType ==
  ASSUME Shape, NEW s \in StoredState, Schedule(s)
  PROVE  alarmAt' \in Time
<1>1. \A a \in AlarmCandidates(s) : a \in Nat
  BY TimeFacts DEF AlarmCandidates, StoredState, ActiveLeases, WorkLease
<1>2. \A a \in AlarmCandidates(s) : Later(now, a) \in Time
  BY <1>1, TimeFacts DEF Later, Shape
<1>3. now + RecoveryInterval \in Time
  BY ConstantsType, TimeFacts DEF Shape
<1> QED
  BY <1>2, <1>3, TimeFacts DEF Schedule

\* persistAndSchedule stores what it is given.
LEMMA PersistSound ==
  ASSUME Shape, NEW s, Sound(s), Persist(s)
  PROVE  st' = s /\ Sound(st') /\ alarmAt' \in Time
  BY ScheduleType DEF Persist, Sound

\* The handler waits on, and no lease was added.
LEMMA HandlerKept ==
  ASSUME HandlerSound, now' = now, handler' = handler, st'.leases \subseteq st.leases
  PROVE  HandlerSound'
  BY DEF HandlerSound

\* The handler ends, or waits for something else.
LEMMA HandlerMoved ==
  ASSUME Shape, now' = now, handler'.since = 0, handler'.at # "expired"
  PROVE  HandlerSound'
  BY DEF HandlerSound, Shape

\* A handler that resumes after the promise it awaited ends, or waits on.
LEMMA HandlerResumesSound ==
  ASSUME Inv, st' = st, now' = now, NEW waits, NEW rejected, HandlerResumes(waits, rejected)
  PROVE  alarmAt' \in Time /\ handler' \in Handler /\ HandlerSound'
<1>1. CASE handler.at \in waits
  <2>1. handler' = NoHandler
    BY <1>1 DEF HandlerResumes
  <2>2. alarmAt' \in Time
    BY <1>1, ScheduleType DEF HandlerResumes, Inv, Sound, Shape
  <2> QED
    BY <2>1, <2>2, HandlerMoved DEF NoHandler, Handler, Inv
<1>2. CASE handler.at \notin waits
  BY <1>2, HandlerKept DEF HandlerResumes, Inv, Shape
<1> QED
  BY <1>1, <1>2

-----------------------------------------------------------------------------
\* What every step must show: the invariant, and the two action properties.

IdleStopStep ==
    st.phase # "quiescing" /\ st'.phase = "quiescing" /\ st'.opType = "idle-stop" =>
        /\ st.leases = {}
        /\ st.lastSemanticWorkAt # Undefined => now >= st.lastSemanticWorkAt + IdleTimeout

AdmissionStep ==
    ~Admits(st) /\ Admits(st') =>
        \/ /\ st.phase = "waking"
           /\ wakeCall.stage = "rpc" /\ wakeCall'.stage = "settle"
           /\ wakeCall.op = st.op /\ wakeCall.epoch = st'.epoch
        \/ /\ st.phase = "quiescing"
           /\ stopCall.stage = "rpc" /\ stopCall'.stage = "settle"
           /\ stopCall.op = st.op

GoodStep == Inv' /\ IdleStopStep /\ AdmissionStep

\* A step that leaves the stored state alone.
LEMMA StateKept ==
  ASSUME Inv, st' = st, Shape', HandlerSound'
  PROVE  GoodStep
  BY DEF Inv, GoodStep, IdleStopStep, AdmissionStep, Admits, Sound, LeasesSound,
         WindowSound, StopSound

\* A step to a sound state that opens no admission and begins no idle stop.
LEMMA StateChanged ==
  ASSUME Inv, Sound(st'), Admits(st) \/ ~Admits(st'),
         st'.phase = "quiescing" => st.phase = "quiescing" \/ st'.opType # "idle-stop",
         Shape', HandlerSound'
  PROVE  GoodStep
  BY DEF Inv, GoodStep, IdleStopStep, AdmissionStep, Admits, Sound, LeasesSound,
     WindowSound, StopSound

-----------------------------------------------------------------------------
\* Requests

\* initializeInstance starts from a state without leases.
LEMMA InitializeInstanceGood ==
  ASSUME Inv, InitializeInstance
  PROVE  GoodStep
<1> DEFINE r == [st EXCEPT !.phase = "sleeping"]
<1>1. /\ Sound(st) /\ st \in StoredState /\ Shape /\ HandlerSound
      /\ st.phase = "uninitialized" /\ Persist(r)
  BY DEF Inv, Sound, InitializeInstance
<1>2. st.leases = {}
  BY <1>1, PhaseFacts DEF Sound, LeasesSound, Admits
<1>3. r \in StoredState
  BY <1>1, PhaseFacts DEF StoredState
<1>4. /\ r.leases = {} /\ r.phase = "sleeping"
      /\ r.idleCandidateSince = st.idleCandidateSince
      /\ r.idleDeadlineAt = st.idleDeadlineAt
      /\ r.lastSemanticWorkAt = st.lastSemanticWorkAt
  BY <1>1, <1>2 DEF StoredState
<1> HIDE DEF r
<1>5. Sound(r)
  BY <1>1, <1>3, <1>4 DEF Sound, LeasesSound, WindowSound, StopSound
<1>6. st' = r /\ Sound(st') /\ alarmAt' \in Time
  BY <1>1, <1>5, PersistSound
<1>7. Shape'
  BY <1>1, <1>6 DEF Shape, InitializeInstance
<1>8. HandlerSound'
  BY <1>1, <1>4, <1>6, HandlerKept DEF InitializeInstance
<1> QED
  BY <1>4, <1>6, <1>7, <1>8, StateChanged, PhaseFacts DEF Admits

\* The first stretch of performWake, whoever starts it.
LEMMA BeginWakeSound ==
  ASSUME Inv, NEW explicit \in BOOLEAN, BeginWake(explicit)
  PROVE  /\ Sound(st') /\ st'.leases = {} /\ st'.phase = "waking"
         /\ alarmAt' \in Time /\ wakeCall' \in WakeCall /\ fresh' \in Nat
<1> DEFINE old == /\ ~explicit
                  /\ st.phase \in {"waking", "error_waking"}
                  /\ st.epoch # NoId
                  /\ st.opType = "wake"
           epoch == IF old THEN st.epoch ELSE fresh + 1
           op == IF old THEN st.op ELSE fresh + 2
           c == ClearIdleWindow(st)
           rev == IF old THEN c.revision ELSE c.revision + 1
           r == [c EXCEPT !.phase = "waking", !.epoch = epoch, !.revision = rev,
                          !.nextProbeAt = now + RecoveryInterval, !.leases = {},
                          !.op = op, !.opType = "wake", !.wakeAfterStop = FALSE]
<1>1. /\ Sound(st) /\ st \in StoredState /\ Shape /\ fresh \in Nat /\ now \in Nat
      /\ st.epoch \in Nat /\ st.op \in Nat
  BY DEF Inv, Sound, Shape, StoredState
<1>2. /\ c \in StoredState /\ c.revision \in Nat
      /\ c.idleCandidateSince = Undefined /\ c.idleDeadlineAt = Undefined
  BY <1>1, ClearIdleWindowSound DEF Sound, StoredState
<1>3. /\ Persist(r)
      /\ wakeCall' = [stage |-> "mirror", epoch |-> epoch, op |-> op]
      /\ fresh' = fresh \/ fresh' = fresh + 2
  BY DEF BeginWake
<1>4. epoch \in Nat /\ op \in Nat /\ rev \in Nat /\ now + RecoveryInterval \in Time
  BY <1>1, <1>2, TimeFacts, ConstantsType
<1>5. wakeCall' \in WakeCall /\ fresh' \in Nat
  BY <1>1, <1>3, <1>4 DEF WakeCall
<1> HIDE DEF old, epoch, op, c, rev
<1>6. r \in StoredState
  BY <1>2, <1>4, PhaseFacts DEF StoredState
<1>7. /\ r.leases = {} /\ r.phase = "waking"
      /\ r.idleCandidateSince = Undefined /\ r.idleDeadlineAt = Undefined
  BY <1>2 DEF StoredState
<1> HIDE DEF r
<1>8. Sound(r)
  BY <1>6, <1>7, EmptySound DEF StopSound
<1> QED
  BY <1>1, <1>3, <1>5, <1>7, <1>8, PersistSound

\* wake() of a sleeping instance closes admission until the Sandbox answers.
LEMMA WakeFreshGood ==
  ASSUME Inv, WakeFresh
  PROVE  GoodStep
<1>1. /\ Sound(st') /\ st'.leases = {} /\ st'.phase = "waking"
      /\ alarmAt' \in Time /\ wakeCall' \in WakeCall /\ fresh' \in Nat
  BY BeginWakeSound DEF WakeFresh
<1>2. Shape'
  BY <1>1 DEF Inv, Shape, WakeFresh
<1>3. HandlerSound'
  BY <1>1, HandlerKept DEF Inv, WakeFresh
<1> QED
  BY <1>1, <1>2, <1>3, StateChanged, PhaseFacts DEF Admits

\* wake() during a stop only sets a flag of the quiescing state.
LEMMA WakeBehindStopGood ==
  ASSUME Inv, WakeBehindStop
  PROVE  GoodStep
<1> DEFINE r == [st EXCEPT !.wakeAfterStop = TRUE]
<1>1. /\ Sound(st) /\ st \in StoredState /\ Shape /\ HandlerSound
      /\ st.phase = "quiescing" /\ Persist(r)
  BY DEF Inv, Sound, WakeBehindStop
<1>2. r \in StoredState
  BY <1>1 DEF StoredState
<1>3. /\ r.leases = st.leases /\ r.phase = st.phase /\ r.epoch = st.epoch
      /\ r.opType = st.opType
      /\ r.idleCandidateSince = st.idleCandidateSince
      /\ r.idleDeadlineAt = st.idleDeadlineAt
      /\ r.lastSemanticWorkAt = st.lastSemanticWorkAt
  BY <1>1 DEF StoredState
<1> HIDE DEF r
<1>4. Sound(r)
  BY <1>1, <1>2, <1>3 DEF Sound, LeasesSound, WindowSound, StopSound, Admits
<1>5. st' = r /\ Sound(st') /\ alarmAt' \in Time
  BY <1>1, <1>4, PersistSound
<1>6. Shape'
  BY <1>1, <1>5 DEF Shape, WakeBehindStop
<1>7. HandlerSound'
  BY <1>1, <1>3, <1>5, HandlerKept DEF WakeBehindStop
<1> QED
  BY <1>1, <1>3, <1>5, <1>6, <1>7, StateChanged, PhaseFacts DEF Admits

\* The new lease expires after now, so after the time any handler has read.
LEMMA BeginWorkGood ==
  ASSUME Inv, NEW ttl \in LeaseTtls, BeginWork(ttl)
  PROVE  GoodStep
<1> DEFINE lease == [id |-> fresh + 1, epoch |-> st.epoch, expiresAt |-> now + ttl]
           c == ClearIdleWindow(st)
           next == IF c.nextProbeAt = Undefined THEN now + BusyInterval
                   ELSE Sooner(c.nextProbeAt, now + BusyInterval)
           leases == c.leases \cup {lease}
           r == [c EXCEPT !.phase = "running_busy", !.revision = @ + 1,
                          !.lastSemanticWorkAt = now, !.nextProbeAt = next,
                          !.leases = leases]
<1>1. /\ Sound(st) /\ st \in StoredState /\ Shape /\ HandlerSound
      /\ now \in Nat /\ fresh \in Nat /\ st.epoch \in Nat
      /\ ttl \in Nat \ {0}
      /\ st.leases \in SUBSET WorkLease
  BY ConstantsAssumption DEF Inv, Sound, Shape, StoredState
<1>2. Admits(st) /\ Persist(r) /\ fresh' = fresh + 1
  BY DEF BeginWork
<1>3. /\ c \in StoredState /\ c.leases = st.leases /\ c.epoch = st.epoch
      /\ c.idleCandidateSince = Undefined /\ c.idleDeadlineAt = Undefined
      /\ c.nextProbeAt \in Time /\ c.revision + 1 \in Nat
  BY <1>1, ClearIdleWindowSound DEF Sound, StoredState
<1>4. /\ lease \in WorkLease /\ lease.epoch = st.epoch
      /\ lease.expiresAt > now /\ lease.expiresAt \in Nat
  BY <1>1 DEF WorkLease
<1>5. next \in Time /\ now \in Time
  BY <1>1, <1>3, TimeFacts, ConstantsType DEF Sooner
<1>6. leases \in SUBSET WorkLease /\ leases = st.leases \cup {lease}
  BY <1>1, <1>3, <1>4
<1> HIDE DEF c, next, leases, lease
<1>7. r \in StoredState
  BY <1>3, <1>5, <1>6, PhaseFacts DEF StoredState
<1>8. /\ r.leases = leases /\ r.phase = "running_busy" /\ r.epoch = st.epoch
      /\ r.idleCandidateSince = Undefined /\ r.idleDeadlineAt = Undefined
  BY <1>3 DEF StoredState
<1> HIDE DEF r
<1>9. LeasesSound(r) /\ StopSound(r)
  BY <1>1, <1>4, <1>6, <1>8, PhaseFacts DEF Sound, LeasesSound, StopSound, Admits
<1>10. Sound(r)
  BY <1>7, <1>8, <1>9, SoundWithoutWindow
<1>11. st' = r /\ Sound(st') /\ alarmAt' \in Time
  BY <1>1, <1>2, <1>10, PersistSound
<1>12. Shape'
  BY <1>1, <1>2, <1>11 DEF Shape, BeginWork
<1>13. HandlerSound'
  <2>1. handler' = handler /\ now' = now /\ handler.since \in Nat
    BY <1>1 DEF BeginWork, Shape, Handler
  <2>2. lease.expiresAt > handler.since
    BY <1>1, <1>4, <2>1 DEF HandlerSound
  <2> QED
    BY <1>1, <1>6, <1>8, <1>11, <2>1, <2>2 DEF HandlerSound
<1> QED
  BY <1>2, <1>8, <1>11, <1>12, <1>13, StateChanged

\* A renewed lease keeps its epoch and, like a new one, expires after now.
LEMMA RenewWorkGood ==
  ASSUME Inv, NEW l \in st.leases, NEW ttl \in LeaseTtls, RenewWork(l, ttl)
  PROVE  GoodStep
<1> DEFINE lease == [l EXCEPT !.expiresAt = now + ttl]
           leases == (st.leases \ {l}) \cup {lease}
           r == [st EXCEPT !.leases = leases]
<1>1. /\ Sound(st) /\ st \in StoredState /\ Shape /\ HandlerSound
      /\ now \in Nat /\ ttl \in Nat \ {0} /\ st.leases \in SUBSET WorkLease
  BY ConstantsAssumption DEF Inv, Sound, Shape, StoredState
<1>2. Admits(st) /\ l.epoch = st.epoch /\ Persist(r)
  BY DEF RenewWork
<1>3. /\ lease \in WorkLease /\ lease.epoch = st.epoch
      /\ lease.expiresAt > now /\ lease.expiresAt \in Nat
  BY <1>1, <1>2 DEF WorkLease
<1>4. leases \in SUBSET WorkLease /\ leases \subseteq st.leases \cup {lease}
  BY <1>1, <1>3
<1> HIDE DEF leases, lease
<1>5. r \in StoredState
  BY <1>1, <1>4 DEF StoredState
<1>6. /\ r.leases = leases /\ r.phase = st.phase /\ r.epoch = st.epoch
      /\ r.opType = st.opType
      /\ r.idleCandidateSince = st.idleCandidateSince
      /\ r.idleDeadlineAt = st.idleDeadlineAt
      /\ r.lastSemanticWorkAt = st.lastSemanticWorkAt
  BY <1>1 DEF StoredState
<1> HIDE DEF r
<1>7. LeasesSound(r)
  BY <1>1, <1>2, <1>3, <1>4, <1>6 DEF Sound, LeasesSound, Admits
<1>8. Sound(r)
  BY <1>1, <1>5, <1>6, <1>7 DEF Sound, WindowSound, StopSound
<1>9. st' = r /\ Sound(st') /\ alarmAt' \in Time
  BY <1>1, <1>2, <1>8, PersistSound
<1>10. Shape'
  BY <1>1, <1>9 DEF Shape, RenewWork
<1>11. HandlerSound'
  <2>1. handler' = handler /\ now' = now /\ handler.since \in Nat
    BY <1>1 DEF RenewWork, Shape, Handler
  <2>2. lease.expiresAt > handler.since
    BY <1>1, <1>3, <2>1 DEF HandlerSound
  <2> QED
    BY <1>1, <1>4, <1>6, <1>9, <2>1, <2>2 DEF HandlerSound
<1> QED
  BY <1>2, <1>6, <1>9, <1>10, <1>11, StateChanged

\* endWork asks only for the lease; that there is one means admission is open.
LEMMA EndWorkGood ==
  ASSUME Inv, NEW l \in st.leases, EndWork(l)
  PROVE  GoodStep
<1> DEFINE c == ClearIdleWindow(st)
           phase == IF st.leases \ {l} # {} THEN "running_busy" ELSE "running_unknown"
           leases == c.leases \ {l}
           r == [c EXCEPT !.phase = phase, !.revision = @ + 1,
                          !.lastSemanticWorkAt = now, !.nextProbeAt = now,
                          !.leases = leases]
<1>1. /\ Sound(st) /\ st \in StoredState /\ Shape /\ HandlerSound
      /\ now \in Nat /\ st.leases \in SUBSET WorkLease
  BY DEF Inv, Sound, Shape, StoredState
<1>2. Admits(st) /\ Persist(r)
  BY <1>1 DEF EndWork, Sound, LeasesSound
<1>3. /\ c \in StoredState /\ c.leases = st.leases /\ c.epoch = st.epoch
      /\ c.idleCandidateSince = Undefined /\ c.idleDeadlineAt = Undefined
      /\ c.revision + 1 \in Nat
  BY <1>1, ClearIdleWindowSound DEF Sound, StoredState
<1>4. /\ phase \in AdmissionPhases /\ phase \in LifecyclePhase /\ now \in Time
      /\ leases \in SUBSET WorkLease /\ leases \subseteq st.leases
  BY <1>1, <1>3, TimeFacts, PhaseFacts
<1> HIDE DEF c, phase, leases
<1>5. r \in StoredState
  BY <1>3, <1>4 DEF StoredState
<1>6. /\ r.leases = leases /\ r.phase = phase /\ r.epoch = st.epoch
      /\ r.idleCandidateSince = Undefined /\ r.idleDeadlineAt = Undefined
  BY <1>3 DEF StoredState
<1> HIDE DEF r
<1>7. Sound(r)
  BY <1>1, <1>4, <1>5, <1>6, RunningSound
<1>8. st' = r /\ Sound(st') /\ alarmAt' \in Time
  BY <1>1, <1>2, <1>7, PersistSound
<1>9. Shape'
  BY <1>1, <1>8 DEF Shape, EndWork
<1>10. HandlerSound'
  BY <1>1, <1>4, <1>6, <1>8, HandlerKept DEF EndWork
<1> QED
  BY <1>2, <1>4, <1>6, <1>8, <1>9, <1>10, StateChanged, PhaseFacts

\* What the Sandbox may answer is a snapshot.
LEMMA SnapshotsType ==
  ASSUME Inv, NEW snap \in Snapshots
  PROVE  snap \in Snapshot
<1>1. now \in Nat /\ SnapshotLag \in Nat
  BY ConstantsAssumption DEF Inv, Shape
<1>2. Later(0, now - SnapshotLag)..now \subseteq Nat
  BY <1>1 DEF Later
<1> QED
  BY <1>2 DEF Snapshots, Snapshot

\* A snapshot applied to a sound state that holds no other leases is persisted.
LEMMA PersistSnapshotSound ==
  ASSUME Inv, NEW s, Sound(s), s.leases \subseteq st.leases, NEW snap \in Snapshot,
         Persist(ApplyExecutionSnapshot(s, snap, now))
  PROVE  /\ Sound(st') /\ st'.leases \subseteq st.leases /\ alarmAt' \in Time
         /\ st'.phase \in AdmissionPhases \cup {"sleeping"}
         /\ snap.state # "not_running" => st'.epoch = s.epoch
<1> DEFINE r == ApplyExecutionSnapshot(s, snap, now)
<1>1. now \in Nat /\ Shape
  BY DEF Inv, Shape
<1>2. /\ Sound(r) /\ r.leases \subseteq s.leases
      /\ r.phase \in AdmissionPhases \cup {"sleeping"}
      /\ snap.state # "not_running" => r.epoch = s.epoch
  BY <1>1, ApplyExecutionSnapshotSound
<1> HIDE DEF r
<1>3. st' = r /\ Sound(st') /\ alarmAt' \in Time
  BY <1>1, <1>2, PersistSound DEF r
<1> QED
  BY <1>2, <1>3

\* observeExecution applies a snapshot to a running instance.
LEMMA ObserveExecutionGood ==
  ASSUME Inv, NEW snap \in Snapshots, ObserveExecution(snap)
  PROVE  GoodStep
<1>1. Admits(st) /\ Persist(ApplyExecutionSnapshot(st, snap, now))
  BY DEF ObserveExecution
<1>2. /\ Sound(st') /\ st'.leases \subseteq st.leases /\ alarmAt' \in Time
      /\ st'.phase \in AdmissionPhases \cup {"sleeping"}
  BY <1>1, SnapshotsType, PersistSnapshotSound DEF Inv
<1>3. Shape'
  BY <1>2 DEF Inv, Shape, ObserveExecution
<1>4. HandlerSound'
  BY <1>2, HandlerKept DEF Inv, ObserveExecution
<1> QED
  BY <1>1, <1>2, <1>3, <1>4, StateChanged, PhaseFacts

\* A probe carries the epoch and the revision it was sent for.
LEMMA SendProbeType ==
  ASSUME Inv, SendProbe(st)
  PROVE  probeCall' \in ProbeCall
  BY DEF Inv, Sound, StoredState, SendProbe, ProbeCall

\* runProbe sends a probe, or drops the expired leases first, or does nothing.
LEMMA RunProbeSound ==
  ASSUME Inv, RunProbe
  PROVE  /\ Sound(st') /\ st'.leases \subseteq st.leases
         /\ alarmAt' \in Time /\ probeCall' \in ProbeCall
         /\ st' = st \/ (Admits(st) /\ st'.phase = "running_unknown")
<1>1. Sound(st) /\ Shape /\ now \in Nat /\ alarmAt \in Time /\ probeCall \in ProbeCall
  BY DEF Inv, Shape
<1>2. CASE UNCHANGED <<st, alarmAt, probeCall>>
  BY <1>1, <1>2
<1>3. CASE /\ Admits(st) /\ Persist(RemoveExpiredLeases(st, now))
           /\ probeCall' = [NoProbe EXCEPT !.stage = "mirror"]
  <2> DEFINE r == RemoveExpiredLeases(st, now)
  <2>1. /\ Sound(r) /\ r.leases = ActiveLeases(st, now) /\ r.phase = "running_unknown"
    BY <1>1, <1>3, RemoveExpiredLeasesSound
  <2>2. ActiveLeases(st, now) \subseteq st.leases
    BY DEF ActiveLeases
  <2>3. probeCall' \in ProbeCall
    BY <1>3, TimeFacts DEF NoProbe, ProbeCall
  <2> HIDE DEF r
  <2>4. st' = r /\ Sound(st') /\ alarmAt' \in Time
    BY <1>1, <1>3, <2>1, PersistSound DEF r
  <2> QED
    BY <1>3, <2>1, <2>2, <2>3, <2>4
<1>4. CASE SendProbe(st) /\ UNCHANGED <<st, alarmAt>>
  BY <1>1, <1>4, SendProbeType
<1> QED
  BY <1>2, <1>3, <1>4 DEF RunProbe

\* reconcileNow is runProbe on a running instance.
LEMMA ReconcileNowGood ==
  ASSUME Inv, ReconcileNow
  PROVE  GoodStep
<1>1. /\ Sound(st') /\ st'.leases \subseteq st.leases
      /\ alarmAt' \in Time /\ probeCall' \in ProbeCall
      /\ st' = st \/ (Admits(st) /\ st'.phase = "running_unknown")
  BY RunProbeSound DEF ReconcileNow
<1>2. Shape'
  BY <1>1 DEF Inv, Shape, ReconcileNow
<1>3. HandlerSound'
  BY <1>1, HandlerKept DEF Inv, ReconcileNow
<1> QED
  BY <1>1, <1>2, <1>3, StateKept, StateChanged

\* What forceStop and beginUnreachableStop both persist.
LEMMA PersistForceQuiescingSound ==
  ASSUME Inv, Persist(ForceQuiescing(st, fresh + 1, now))
  PROVE  /\ Sound(st') /\ st'.leases = {} /\ alarmAt' \in Time
         /\ st'.phase = "quiescing" /\ st'.opType = "force-stop"
<1> DEFINE r == ForceQuiescing(st, fresh + 1, now)
<1>1. Sound(st) /\ Shape /\ now \in Nat /\ fresh + 1 \in Nat
  BY DEF Inv, Shape
<1>2. Sound(r) /\ r.leases = {} /\ r.phase = "quiescing" /\ r.opType = "force-stop"
  BY <1>1, ForceQuiescingSound
<1> HIDE DEF r
<1>3. st' = r /\ Sound(st') /\ alarmAt' \in Time
  BY <1>1, <1>2, PersistSound DEF r
<1> QED
  BY <1>2, <1>3

\* forceStop closes admission and drops the leases in one step.
LEMMA ForceStopGood ==
  ASSUME Inv, ForceStop
  PROVE  GoodStep
<1>1. /\ Sound(st') /\ st'.leases = {} /\ alarmAt' \in Time
      /\ st'.phase = "quiescing" /\ st'.opType = "force-stop"
  BY PersistForceQuiescingSound DEF ForceStop
<1>2. Shape'
  BY <1>1 DEF Inv, Shape, ForceStop
<1>3. HandlerSound'
  BY <1>1, HandlerKept DEF Inv, ForceStop
<1> QED
  BY <1>1, <1>2, <1>3, StateChanged, PhaseFacts DEF Admits

\* beginDelete closes admission and drops the leases in one step.
LEMMA BeginDeleteGood ==
  ASSUME Inv, BeginDelete
  PROVE  GoodStep
<1> DEFINE c == ClearIdleWindow(st)
           r == [c EXCEPT !.phase = "deleting", !.revision = @ + 1, !.epoch = NoId,
                          !.nextProbeAt = Undefined, !.leases = {},
                          !.op = NoId, !.opType = "none", !.wakeAfterStop = FALSE]
<1>1. Sound(st) /\ Shape /\ HandlerSound /\ Persist(r)
  BY DEF Inv, BeginDelete
<1>2. /\ c \in StoredState /\ c.revision + 1 \in Nat
      /\ c.idleCandidateSince = Undefined /\ c.idleDeadlineAt = Undefined
  BY <1>1, ClearIdleWindowSound DEF Sound, StoredState
<1> HIDE DEF c
<1>3. r \in StoredState
  BY <1>2, PhaseFacts, TimeFacts DEF StoredState
<1>4. /\ r.leases = {} /\ r.phase = "deleting"
      /\ r.idleCandidateSince = Undefined /\ r.idleDeadlineAt = Undefined
  BY <1>2 DEF StoredState
<1> HIDE DEF r
<1>5. Sound(r)
  BY <1>3, <1>4, EmptySound DEF StopSound
<1>6. st' = r /\ Sound(st') /\ alarmAt' \in Time
  BY <1>1, <1>5, PersistSound
<1>7. Shape'
  BY <1>1, <1>6 DEF Shape, BeginDelete
<1>8. HandlerSound'
  BY <1>1, <1>4, <1>6, HandlerKept DEF BeginDelete
<1> QED
  BY <1>4, <1>6, <1>7, <1>8, StateChanged, PhaseFacts DEF Admits

\* The state of an object that has stored nothing is sound.
LEMMA InitialStateSound ==
    Sound(InitialState) /\ InitialState.leases = {} /\ InitialState.phase = "uninitialized"
<1> DEFINE r == InitialState
<1>1. r \in StoredState
  BY TimeFacts, PhaseFacts DEF InitialState, StoredState
<1>2. /\ r.leases = {} /\ r.phase = "uninitialized"
      /\ r.idleCandidateSince = Undefined /\ r.idleDeadlineAt = Undefined
  BY DEF InitialState
<1> HIDE DEF r
<1> QED
  BY <1>1, <1>2, EmptySound DEF StopSound, r

\* markDeleted returns to that state whatever calls are still out.
LEMMA MarkDeletedGood ==
  ASSUME Inv, MarkDeleted
  PROVE  GoodStep
<1>1. Sound(st') /\ st'.leases = {} /\ st'.phase = "uninitialized" /\ alarmAt' \in Time
  BY InitialStateSound, TimeFacts DEF MarkDeleted
<1>2. Shape'
  BY <1>1 DEF Inv, Shape, MarkDeleted
<1>3. HandlerSound'
  BY <1>1, HandlerKept DEF Inv, MarkDeleted
<1> QED
  BY <1>1, <1>2, <1>3, StateChanged, PhaseFacts DEF Admits

\* Every public RPC the repository calls.
LEMMA RequestGood ==
  ASSUME Inv, Request
  PROVE  GoodStep
  BY InitializeInstanceGood, WakeFreshGood, WakeBehindStopGood, BeginWorkGood,
     RenewWorkGood, EndWorkGood, ForceStopGood, BeginDeleteGood, MarkDeletedGood
     DEF Request

\* The public RPCs nothing calls.
LEMMA UncalledRequestGood ==
  ASSUME Inv, UncalledRequest
  PROVE  GoodStep
  BY ObserveExecutionGood, ReconcileNowGood DEF UncalledRequest

-----------------------------------------------------------------------------
\* performWake

\* performWake sends its RPC without touching the stored state.
LEMMA WakeSendGood ==
  ASSUME Inv, WakeSend
  PROVE  GoodStep
<1>1. wakeCall' \in WakeCall /\ st' = st
  BY DEF Inv, Shape, WakeSend, WakeCall
<1>2. Shape' /\ HandlerSound'
  BY <1>1, HandlerKept DEF Inv, Shape, WakeSend
<1> QED
  BY <1>1, <1>2, StateKept

\* An answer to a superseded wake changes nothing.
LEMMA WakeStaleGood ==
  ASSUME Inv, WakeStale
  PROVE  GoodStep
<1>1. wakeCall' \in WakeCall /\ st' = st
  BY DEF Inv, Shape, WakeStale, WakeCall
<1>2. Shape' /\ HandlerSound'
  BY <1>1, HandlerKept DEF Inv, Shape, WakeStale
<1> QED
  BY <1>1, <1>2, StateKept

\* The answer opens admission for the epoch the wake was sent with.
LEMMA WakeReturnGood ==
  ASSUME Inv, NEW snap \in Snapshots, WakeReturn(snap)
  PROVE  GoodStep
<1> DEFINE p == [st EXCEPT !.phase = "running_unknown", !.op = NoId, !.opType = "none",
                           !.nextProbeAt = now, !.failures = 0,
                           !.probeFailingSince = Undefined]
<1>1. /\ Sound(st) /\ st \in StoredState /\ Shape /\ HandlerSound /\ now \in Time
      /\ snap \in Snapshot
  BY TimeFacts, SnapshotsType DEF Inv, Sound, Shape
<1>2. /\ wakeCall.stage = "rpc" /\ st.phase = "waking"
      /\ st.op = wakeCall.op /\ st.epoch = wakeCall.epoch /\ snap.state # "not_running"
      /\ Persist(ApplyExecutionSnapshot(p, snap, now))
      /\ wakeCall' = [wakeCall EXCEPT !.stage = "settle"]
  BY DEF WakeReturn, WakeIsCurrent
<1>3. st.leases = {}
  BY <1>1, <1>2, PhaseFacts DEF Sound, LeasesSound, Admits
<1>4. p \in StoredState
  BY <1>1, TimeFacts, PhaseFacts DEF StoredState
<1>5. /\ p.leases = {} /\ p.phase = "running_unknown" /\ p.epoch = st.epoch
      /\ p.idleCandidateSince = st.idleCandidateSince
      /\ p.idleDeadlineAt = st.idleDeadlineAt
      /\ p.lastSemanticWorkAt = st.lastSemanticWorkAt
  BY <1>1, <1>3 DEF StoredState
<1> HIDE DEF p
<1>6. Sound(p)
  BY <1>1, <1>4, <1>5 DEF Sound, LeasesSound, WindowSound, StopSound
<1>7. /\ Sound(st') /\ st'.leases \subseteq st.leases /\ alarmAt' \in Time
      /\ st'.phase \in AdmissionPhases \cup {"sleeping"}
      /\ st'.epoch = p.epoch
  BY <1>1, <1>2, <1>3, <1>5, <1>6, PersistSnapshotSound
<1>8. wakeCall' \in WakeCall /\ wakeCall'.stage = "settle"
  BY <1>1, <1>2 DEF Shape, WakeCall
<1>9. Shape' /\ HandlerSound'
  BY <1>1, <1>7, <1>8, HandlerKept DEF Shape, WakeReturn
<1>10. IdleStopStep
  BY <1>7, PhaseFacts DEF IdleStopStep
<1>11. AdmissionStep
  BY <1>2, <1>5, <1>7, <1>8 DEF AdmissionStep
<1> QED
  BY <1>7, <1>9, <1>10, <1>11 DEF GoodStep, Inv, Sound, LeasesSound, WindowSound,
     StopSound, Admits

\* A failed wake is not running: it holds no leases and admits nothing.
LEMMA WakeThrowGood ==
  ASSUME Inv, WakeThrow
  PROVE  GoodStep
<1> DEFINE f == CountFailure(st.failures)
           next == now + RetryBackoff(CountFailure(st.failures))
           r == [st EXCEPT !.phase = "error_waking", !.failures = f, !.nextProbeAt = next]
<1>1. /\ Sound(st) /\ st \in StoredState /\ Shape /\ HandlerSound
      /\ now \in Nat /\ st.failures \in Nat
  BY DEF Inv, Sound, Shape, StoredState
<1>2. /\ st.phase = "waking" /\ Persist(r)
      /\ wakeCall' = [wakeCall EXCEPT !.stage = "reject"]
  BY DEF WakeThrow, WakeIsCurrent
<1>3. st.leases = {}
  BY <1>1, <1>2, PhaseFacts DEF Sound, LeasesSound, Admits
<1>4. f \in Nat /\ next \in Time
  BY <1>1, CountFailureType, TimeFacts
<1> HIDE DEF f, next
<1>5. r \in StoredState
  BY <1>1, <1>4, PhaseFacts DEF StoredState
<1>6. /\ r.leases = {} /\ r.phase = "error_waking"
      /\ r.idleCandidateSince = st.idleCandidateSince
      /\ r.idleDeadlineAt = st.idleDeadlineAt
      /\ r.lastSemanticWorkAt = st.lastSemanticWorkAt
  BY <1>1, <1>3 DEF StoredState
<1> HIDE DEF r
<1>7. Sound(r)
  BY <1>1, <1>5, <1>6 DEF Sound, LeasesSound, WindowSound, StopSound
<1>8. st' = r /\ Sound(st') /\ alarmAt' \in Time
  BY <1>1, <1>2, <1>7, PersistSound
<1>9. wakeCall' \in WakeCall
  BY <1>1, <1>2 DEF Shape, WakeCall
<1>10. Shape' /\ HandlerSound'
  BY <1>1, <1>6, <1>8, <1>9, HandlerKept DEF Shape, WakeThrow
<1> QED
  BY <1>6, <1>8, <1>10, StateChanged, PhaseFacts DEF Admits

\* The values of the in-progress promises when there is none.
LEMMA NoCallsType ==
    NoWake \in WakeCall /\ NoProbe \in ProbeCall /\ NoStop \in StopCall
    /\ NoHandler \in Handler
  BY TimeFacts DEF NoWake, NoProbe, NoStop, NoHandler, WakeCall, ProbeCall, StopCall, Handler

\* The wake promise settles, and with it whoever awaited it.
LEMMA WakeSettleGood ==
  ASSUME Inv, WakeSettle
  PROVE  GoodStep
<1>1. st' = st /\ now' = now /\ wakeCall' \in WakeCall /\ stopCall' \in StopCall
  BY NoCallsType DEF WakeSettle, Inv, Shape
<1>2. alarmAt' \in Time /\ handler' \in Handler /\ HandlerSound'
  BY <1>1, HandlerResumesSound DEF WakeSettle
<1>3. Shape'
  BY <1>1, <1>2 DEF WakeSettle, Inv, Shape
<1> QED
  BY <1>1, <1>2, <1>3, StateKept

\* Every step of performWake.
LEMMA WakeStepGood ==
  ASSUME Inv, WakeStep
  PROVE  GoodStep
  BY WakeSendGood, WakeStaleGood, WakeReturnGood, WakeThrowGood, WakeSettleGood DEF WakeStep

-----------------------------------------------------------------------------
\* performProbe

\* performProbe sends its RPC for the epoch and revision it finds after the wait.
LEMMA ProbeSendGood ==
  ASSUME Inv, ProbeSend
  PROVE  GoodStep
<1>1. st' = st /\ probeCall' \in ProbeCall
  BY SendProbeType, NoCallsType DEF ProbeSend
<1>2. Shape' /\ HandlerSound'
  BY <1>1, HandlerKept DEF Inv, Shape, ProbeSend
<1> QED
  BY <1>1, <1>2, StateKept

\* A current probe applies its snapshot to a running instance.
LEMMA ProbeReturnGood ==
  ASSUME Inv, NEW snap \in Snapshots, ProbeReturn(snap)
  PROVE  GoodStep
<1>1. /\ Admits(st) /\ Persist(ApplyExecutionSnapshot(st, snap, now))
      /\ probeCall' = [probeCall EXCEPT !.stage = "settle"]
  BY DEF ProbeReturn, ProbeIsCurrent
<1>2. /\ Sound(st') /\ st'.leases \subseteq st.leases /\ alarmAt' \in Time
      /\ st'.phase \in AdmissionPhases \cup {"sleeping"}
  BY <1>1, SnapshotsType, PersistSnapshotSound DEF Inv
<1>3. probeCall' \in ProbeCall
  BY <1>1 DEF Inv, Shape, ProbeCall
<1>4. Shape' /\ HandlerSound'
  BY <1>2, <1>3, HandlerKept DEF Inv, Shape, ProbeReturn
<1> QED
  BY <1>1, <1>2, <1>4, StateChanged, PhaseFacts

\* A stale probe at most re-arms the alarm.
LEMMA ProbeStaleGood ==
  ASSUME Inv, ProbeStale
  PROVE  GoodStep
<1>1. st' = st /\ probeCall' \in ProbeCall
  BY NoCallsType DEF ProbeStale
<1>2. alarmAt' \in Time
  BY ScheduleType DEF ProbeStale, Inv, Sound, Shape
<1>3. Shape' /\ HandlerSound'
  BY <1>1, <1>2, HandlerKept DEF Inv, Shape, ProbeStale
<1> QED
  BY <1>1, <1>3, StateKept

\* A failed probe counts the failure and stays running.
LEMMA ProbeThrowGood ==
  ASSUME Inv, ProbeThrow
  PROVE  GoodStep
<1> DEFINE r == ApplyUnknownActivity(st, now)
<1>1. /\ Admits(st) /\ Persist(r) /\ Shape /\ now \in Nat
      /\ probeCall' = [probeCall EXCEPT !.stage = "settle"]
  BY DEF ProbeThrow, ProbeIsCurrent, Inv, Shape
<1>2. Sound(r) /\ r.leases = st.leases /\ r.phase = "error_running"
  BY <1>1, ApplyUnknownActivitySound DEF Inv
<1> HIDE DEF r
<1>3. st' = r /\ Sound(st') /\ alarmAt' \in Time
  BY <1>1, <1>2, PersistSound
<1>4. probeCall' \in ProbeCall
  BY <1>1 DEF Shape, ProbeCall
<1>5. Shape' /\ HandlerSound'
  BY <1>2, <1>3, <1>4, HandlerKept DEF Inv, Shape, ProbeThrow
<1> QED
  BY <1>1, <1>2, <1>3, <1>5, StateChanged

\* The probe promise settles.
LEMMA ProbeSettleGood ==
  ASSUME Inv, ProbeSettle
  PROVE  GoodStep
<1>1. st' = st /\ probeCall' \in ProbeCall
  BY NoCallsType DEF ProbeSettle
<1>2. Shape' /\ HandlerSound'
  BY <1>1, HandlerKept DEF Inv, Shape, ProbeSettle
<1> QED
  BY <1>1, <1>2, StateKept

\* Every step of performProbe.
LEMMA ProbeStepGood ==
  ASSUME Inv, ProbeStep
  PROVE  GoodStep
  BY ProbeSendGood, ProbeReturnGood, ProbeStaleGood, ProbeThrowGood, ProbeSettleGood
     DEF ProbeStep

-----------------------------------------------------------------------------
\* performStop

\* The operation taken over from the stored state is a stop.
LEMMA ContinueStopType ==
  ASSUME Inv, ContinueStop
  PROVE  stopCall' \in StopCall
<1>1. st.op \in Nat /\ stopCall \in StopCall
  BY DEF Inv, Sound, Shape, StoredState
<1>2. st.phase = "quiescing" => st.opType \in {"idle-stop", "force-stop"}
  BY DEF Inv, Sound, StopSound
<1>3. CASE stopCall' = stopCall
  BY <1>1, <1>3
<1>4. CASE /\ st.phase = "quiescing"
           /\ stopCall' = [stage |-> "rpc", op |-> st.op, opType |-> st.opType,
                           thenWake |-> FALSE]
  BY <1>1, <1>2, <1>4 DEF StopCall
<1> QED
  BY <1>3, <1>4 DEF ContinueStop

\* forceStop reaches continueStop after its mirror write.
LEMMA StopSendGood ==
  ASSUME Inv, StopSend
  PROVE  GoodStep
<1>1. st' = st /\ stopCall' \in StopCall /\ stopCallers' \in Nat
  BY ContinueStopType DEF StopSend, Inv, Shape
<1>2. Shape' /\ HandlerSound'
  BY <1>1, HandlerKept DEF Inv, Shape, StopSend
<1> QED
  BY <1>1, <1>2, StateKept

\* An answer to a superseded stop changes nothing.
LEMMA StopStaleGood ==
  ASSUME Inv, StopStale
  PROVE  GoodStep
<1>1. st' = st /\ now' = now /\ stopCall' \in StopCall
  BY NoCallsType DEF StopStale
<1>2. alarmAt' \in Time /\ handler' \in Handler /\ HandlerSound'
  BY <1>1, HandlerResumesSound DEF StopStale
<1>3. Shape'
  BY <1>1, <1>2 DEF StopStale, Inv, Shape
<1> QED
  BY <1>1, <1>2, <1>3, StateKept

\* A pending stop stays the stop it is.
LEMMA StopPendingGood ==
  ASSUME Inv, StopPending
  PROVE  GoodStep
<1> DEFINE r == [st EXCEPT !.nextProbeAt = now + RecoveryInterval]
<1>1. /\ Sound(st) /\ st \in StoredState /\ Shape /\ HandlerSound
      /\ now + RecoveryInterval \in Time
  BY TimeFacts, ConstantsType DEF Inv, Sound, Shape
<1>2. /\ st.phase = "quiescing" /\ Persist(r)
      /\ stopCall' = [stopCall EXCEPT !.stage = "settle"]
  BY DEF StopPending, StopIsCurrent
<1>3. r \in StoredState
  BY <1>1 DEF StoredState
<1>4. /\ r.leases = st.leases /\ r.phase = st.phase /\ r.epoch = st.epoch
      /\ r.opType = st.opType
      /\ r.idleCandidateSince = st.idleCandidateSince
      /\ r.idleDeadlineAt = st.idleDeadlineAt
      /\ r.lastSemanticWorkAt = st.lastSemanticWorkAt
  BY <1>1 DEF StoredState
<1> HIDE DEF r
<1>5. Sound(r)
  BY <1>1, <1>3, <1>4 DEF Sound, LeasesSound, WindowSound, StopSound, Admits
<1>6. st' = r /\ Sound(st') /\ alarmAt' \in Time
  BY <1>1, <1>2, <1>5, PersistSound
<1>7. stopCall' \in StopCall
  BY <1>1, <1>2 DEF Shape, StopCall
<1>8. Shape' /\ HandlerSound'
  BY <1>1, <1>4, <1>6, <1>7, HandlerKept DEF Shape, StopPending
<1> QED
  BY <1>2, <1>4, <1>6, <1>8, StateChanged, PhaseFacts DEF Admits

\* A stop that answers for the stored operation may reopen admission.
LEMMA StopReopensGood ==
  ASSUME Inv, st.phase = "quiescing", Sound(st'), Shape', HandlerSound',
         st'.phase # "quiescing",
         stopCall.stage = "rpc", stopCall'.stage = "settle", stopCall.op = st.op
  PROVE  GoodStep
  BY DEF GoodStep, Inv, IdleStopStep, AdmissionStep, Sound, LeasesSound, WindowSound,
     StopSound, Admits

\* A stop that failed with the container running reopens admission on its answer.
LEMMA StopFailedRunningGood ==
  ASSUME Inv, StopFailedRunning
  PROVE  GoodStep
<1> DEFINE c == ClearIdleWindow(st)
           next == now + RetryBackoff(1)
           f == CountFailure(0)
           r == [c EXCEPT !.phase = "error_running", !.revision = @ + 1,
                          !.op = NoId, !.opType = "none", !.wakeAfterStop = FALSE,
                          !.nextProbeAt = next, !.failures = f]
<1>1. Sound(st) /\ Shape /\ HandlerSound
  BY DEF Inv
<1>2. /\ st.phase = "quiescing" /\ Persist(r)
      /\ stopCall.stage = "rpc" /\ stopCall.op = st.op
      /\ stopCall' = [stopCall EXCEPT !.stage = "settle"]
  BY DEF StopFailedRunning, StopIsCurrent
<1>3. /\ c \in StoredState /\ c.leases = st.leases /\ c.epoch = st.epoch
      /\ c.idleCandidateSince = Undefined /\ c.idleDeadlineAt = Undefined
      /\ c.revision + 1 \in Nat
  BY <1>1, ClearIdleWindowSound DEF Sound, StoredState
<1>4. next \in Time /\ f \in Nat
  BY <1>1, CountFailureType, TimeFacts DEF Shape
<1> HIDE DEF c, next, f
<1>5. r \in StoredState
  BY <1>3, <1>4, PhaseFacts, TimeFacts DEF StoredState
<1>6. /\ r.leases = st.leases /\ r.phase = "error_running" /\ r.epoch = st.epoch
      /\ r.idleCandidateSince = Undefined /\ r.idleDeadlineAt = Undefined
  BY <1>3 DEF StoredState
<1> HIDE DEF r
<1>7. Sound(r)
  BY <1>1, <1>5, <1>6, RunningSound, PhaseFacts
<1>8. st' = r /\ Sound(st') /\ alarmAt' \in Time
  BY <1>1, <1>2, <1>7, PersistSound
<1>9. stopCall' \in StopCall /\ stopCall'.stage = "settle"
  BY <1>1, <1>2 DEF Shape, StopCall
<1>10. Shape' /\ HandlerSound'
  BY <1>1, <1>6, <1>8, <1>9, HandlerKept DEF Shape, StopFailedRunning
<1> QED
  BY <1>2, <1>6, <1>8, <1>9, <1>10, StopReopensGood

\* An idle stop declined as busy reopens admission on its answer.
LEMMA StopBusyGood ==
  ASSUME Inv, NEW snap \in Snapshots, StopBusy(snap)
  PROVE  GoodStep
<1> DEFINE c == ClearIdleWindow(st)
           p == [c EXCEPT !.phase = "running_unknown", !.revision = @ + 1,
                          !.op = NoId, !.opType = "none", !.wakeAfterStop = FALSE,
                          !.nextProbeAt = now]
<1>1. Sound(st) /\ Shape /\ HandlerSound /\ now \in Time
  BY TimeFacts DEF Inv, Shape
<1>2. /\ st.phase = "quiescing" /\ Persist(ApplyExecutionSnapshot(p, snap, now))
      /\ stopCall.stage = "rpc" /\ stopCall.op = st.op
      /\ stopCall' = [stopCall EXCEPT !.stage = "settle"]
  BY DEF StopBusy, StopIsCurrent
<1>3. /\ c \in StoredState /\ c.leases = st.leases /\ c.epoch = st.epoch
      /\ c.idleCandidateSince = Undefined /\ c.idleDeadlineAt = Undefined
      /\ c.revision + 1 \in Nat
  BY <1>1, ClearIdleWindowSound DEF Sound, StoredState
<1> HIDE DEF c
<1>4. p \in StoredState
  BY <1>1, <1>3, PhaseFacts, TimeFacts DEF StoredState
<1>5. /\ p.leases = st.leases /\ p.phase = "running_unknown" /\ p.epoch = st.epoch
      /\ p.idleCandidateSince = Undefined /\ p.idleDeadlineAt = Undefined
  BY <1>3 DEF StoredState
<1> HIDE DEF p
<1>6. Sound(p)
  BY <1>1, <1>4, <1>5, RunningSound, PhaseFacts
<1>7. /\ Sound(st') /\ st'.leases \subseteq st.leases /\ alarmAt' \in Time
      /\ st'.phase \in AdmissionPhases \cup {"sleeping"}
  BY <1>2, <1>5, <1>6, SnapshotsType, PersistSnapshotSound
<1>8. stopCall' \in StopCall /\ stopCall'.stage = "settle"
  BY <1>1, <1>2 DEF Shape, StopCall
<1>9. Shape' /\ HandlerSound'
  BY <1>1, <1>7, <1>8, HandlerKept DEF Shape, StopBusy
<1> QED
  BY <1>2, <1>7, <1>8, <1>9, StopReopensGood, PhaseFacts

\* A finished stop puts the instance to sleep.
LEMMA StopStoppedGood ==
  ASSUME Inv, StopStopped
  PROVE  GoodStep
<1> DEFINE r == ToSleeping(st)
<1>1. /\ Sound(st) /\ Shape /\ HandlerSound /\ st.wakeAfterStop \in BOOLEAN
      /\ stopCall \in StopCall
  BY DEF Inv, Sound, StoredState, Shape
<1>2. /\ Persist(r)
      /\ stopCall' = [stopCall EXCEPT !.stage = "settle", !.thenWake = st.wakeAfterStop]
  BY DEF StopStopped
<1>3. Sound(r) /\ r.leases = {} /\ r.phase = "sleeping"
  BY <1>1, ToSleepingSound
<1> HIDE DEF r
<1>4. st' = r /\ Sound(st') /\ alarmAt' \in Time
  BY <1>1, <1>2, <1>3, PersistSound
<1>5. stopCall' \in StopCall
  BY <1>1, <1>2 DEF StopCall
<1>6. Shape' /\ HandlerSound'
  BY <1>1, <1>3, <1>4, <1>5, HandlerKept DEF Shape, StopStopped
<1> QED
  BY <1>3, <1>4, <1>6, StateChanged, PhaseFacts DEF Admits

\* A failed stop RPC keeps the operation for the next alarm.
LEMMA StopThrowGood ==
  ASSUME Inv, StopThrow
  PROVE  GoodStep
<1> DEFINE c == ClearIdleWindow(st)
           next == now + RetryBackoff(CountFailure(st.failures))
           f == CountFailure(c.failures)
           r == [c EXCEPT !.nextProbeAt = next, !.failures = f]
<1>1. Sound(st) /\ Shape /\ HandlerSound /\ now \in Nat /\ st.failures \in Nat
  BY DEF Inv, Sound, Shape, StoredState
<1>2. /\ st.phase = "quiescing" /\ Persist(r)
      /\ stopCall' = [stopCall EXCEPT !.stage = "reject"]
  BY DEF StopThrow, StopIsCurrent
<1>3. /\ c \in StoredState /\ c.leases = st.leases /\ c.epoch = st.epoch
      /\ c.phase = st.phase /\ c.opType = st.opType /\ c.failures = st.failures
      /\ c.idleCandidateSince = Undefined /\ c.idleDeadlineAt = Undefined
  BY <1>1, ClearIdleWindowSound DEF Sound
<1>4. next \in Time /\ f \in Nat
  BY <1>1, <1>3, CountFailureType, TimeFacts
<1> HIDE DEF c, next, f
<1>5. r \in StoredState
  BY <1>3, <1>4 DEF StoredState
<1>6. /\ r.leases = st.leases /\ r.phase = st.phase /\ r.epoch = st.epoch
      /\ r.opType = st.opType
      /\ r.idleCandidateSince = Undefined /\ r.idleDeadlineAt = Undefined
  BY <1>3 DEF StoredState
<1> HIDE DEF r
<1>7. Sound(r)
  BY <1>1, <1>5, <1>6, SoundWithoutWindow DEF Sound, LeasesSound, StopSound, Admits
<1>8. st' = r /\ Sound(st') /\ alarmAt' \in Time
  BY <1>1, <1>2, <1>7, PersistSound
<1>9. stopCall' \in StopCall
  BY <1>1, <1>2 DEF Shape, StopCall
<1>10. Shape' /\ HandlerSound'
  BY <1>1, <1>6, <1>8, <1>9, HandlerKept DEF Shape, StopThrow
<1> QED
  BY <1>2, <1>6, <1>8, <1>10, StateChanged, PhaseFacts DEF Admits

\* The stop promise settles, and with it the alarm handler that awaited it.
LEMMA StopSettleGood ==
  ASSUME Inv, StopSettle
  PROVE  GoodStep
<1>1. st' = st /\ now' = now /\ stopCall' \in StopCall
  BY NoCallsType DEF StopSettle
<1>2. alarmAt' \in Time /\ handler' \in Handler /\ HandlerSound'
  BY <1>1, HandlerResumesSound DEF StopSettle
<1>3. Shape'
  BY <1>1, <1>2 DEF StopSettle, Inv, Shape
<1> QED
  BY <1>1, <1>2, <1>3, StateKept

\* A finished stop continues into the wake queued behind it.
LEMMA StopThenWakeGood ==
  ASSUME Inv, StopThenWake
  PROVE  GoodStep
<1>1. CASE /\ stopCall' = NoStop /\ HandlerResumes({"stop"}, FALSE)
           /\ UNCHANGED <<st, wakeCall, fresh>>
  <2>1. alarmAt' \in Time /\ handler' \in Handler /\ HandlerSound'
    BY <1>1, HandlerResumesSound DEF StopThenWake
  <2>2. Shape'
    BY <1>1, <2>1, NoCallsType DEF StopThenWake, Inv, Shape
  <2> QED
    BY <1>1, <2>1, <2>2, StateKept
<1>2. CASE /\ stopCall' = [stopCall EXCEPT !.stage = "wake"]
           /\ BeginWake(TRUE) /\ UNCHANGED handler
  <2>1. /\ Sound(st') /\ st'.leases = {} /\ st'.phase = "waking"
        /\ alarmAt' \in Time /\ wakeCall' \in WakeCall /\ fresh' \in Nat
    BY <1>2, BeginWakeSound
  <2>2. stopCall' \in StopCall
    BY <1>2 DEF Inv, Shape, StopCall
  <2>3. Shape' /\ HandlerSound'
    BY <1>2, <2>1, <2>2, HandlerKept DEF StopThenWake, Inv, Shape
  <2> QED
    BY <2>1, <2>3, StateChanged, PhaseFacts DEF Admits
<1>3. CASE /\ stopCall' = [stopCall EXCEPT !.stage = "wake"]
           /\ UNCHANGED <<st, alarmAt, wakeCall, fresh, handler>>
  <2>1. stopCall' \in StopCall
    BY <1>3 DEF Inv, Shape, StopCall
  <2>2. Shape' /\ HandlerSound'
    BY <1>3, <2>1, HandlerKept DEF StopThenWake, Inv, Shape
  <2> QED
    BY <1>3, <2>2, StateKept
<1> QED
  BY <1>1, <1>2, <1>3 DEF StopThenWake

\* Every step of performStop.
LEMMA StopStepGood ==
  ASSUME Inv, StopStep
  PROVE  GoodStep
  BY StopSendGood, StopStaleGood, StopPendingGood, StopFailedRunningGood, StopBusyGood,
     StopStoppedGood, StopThrowGood, StopSettleGood, StopThenWakeGood DEF StopStep

-----------------------------------------------------------------------------
\* alarm()

\* Where an alarm handler may be waiting.
LEMMA HandlerType ==
  ASSUME NEW at \in {"none", "fired", "expired", "wake", "probe", "quiesced", "stop"},
         NEW since \in Nat
  PROVE  [at |-> at, since |-> since] \in Handler
  BY DEF Handler

\* Persisting the state as it is only re-arms the alarm.
LEMMA PersistAgainSound ==
  ASSUME Inv, Persist(st)
  PROVE  st' = st /\ alarmAt' \in Time
  BY PersistSound DEF Inv

\* The idle branch of the handler: the window is over by the time it read, so
\* by now, and no lease can be held.
LEMMA IdleStopGood ==
  ASSUME Inv, NEW t \in Nat, t <= now, \A l \in st.leases : l.expiresAt > t,
         Admits(st), st.idleDeadlineAt # Undefined, t >= st.idleDeadlineAt,
         ActiveLeases(st, t) = {},
         Persist(IdleQuiescing(st, fresh + 1, t)), fresh' = fresh + 1,
         handler' = [at |-> "quiesced", since |-> 0],
         UNCHANGED <<now, wakeCall, probeCall, stopCall, stopCallers>>
  PROVE  GoodStep
<1> DEFINE r == IdleQuiescing(st, fresh + 1, t)
<1>1. /\ Sound(st) /\ Shape /\ now \in Nat /\ fresh + 1 \in Nat
      /\ st.lastSemanticWorkAt \in Time /\ st.idleDeadlineAt \in Time
  BY DEF Inv, Shape, Sound, StoredState
<1>2. st.leases = {}
  BY <1>1 DEF Sound, LeasesSound, ActiveLeases
<1>3. st.lastSemanticWorkAt # Undefined => now >= st.lastSemanticWorkAt + IdleTimeout
  <2>1. st.lastSemanticWorkAt # Undefined =>
            st.idleDeadlineAt >= st.lastSemanticWorkAt + IdleTimeout
    BY <1>1 DEF Sound, WindowSound
  <2> QED
    BY <1>1, <2>1, TimeFacts, ConstantsType
<1>4. Sound(r) /\ r.leases = {} /\ r.phase = "quiescing"
  BY <1>1, <1>2, IdleQuiescingSound
<1> HIDE DEF r
<1>5. st' = r /\ Sound(st') /\ alarmAt' \in Time
  BY <1>1, <1>4, PersistSound DEF r
<1>6. Shape'
  BY <1>1, <1>5, HandlerType DEF Shape
<1>7. HandlerSound'
  BY <1>1, HandlerMoved
<1>8. IdleStopStep
  BY <1>2, <1>3 DEF IdleStopStep
<1>9. AdmissionStep
  BY DEF AdmissionStep
<1>10. Inv'
  BY <1>5, <1>6, <1>7 DEF Inv, Sound, LeasesSound, WindowSound, StopSound, Admits
<1> QED
  BY <1>8, <1>9, <1>10 DEF GoodStep

\* The handler that decided only to re-arm the alarm.
LEMMA HandlerEndsGood ==
  ASSUME Inv, st' = st, alarmAt' \in Time, handler' = NoHandler,
         UNCHANGED <<now, wakeCall, probeCall, stopCall, stopCallers, fresh>>
  PROVE  GoodStep
<1>1. Shape'
  BY NoCallsType DEF Inv, Shape
<1>2. HandlerSound'
  BY HandlerMoved DEF NoHandler, Inv
<1> QED
  BY <1>1, <1>2, StateKept

\* What alarm() does with a running phase, whether it decides on the present time
\* or on the one it read before it waited.
LEMMA AlarmDecideGood ==
  ASSUME Inv, NEW t \in Nat, t <= now, \A l \in st.leases : l.expiresAt > t,
         AlarmDecide(t), UNCHANGED <<now, wakeCall, stopCall, stopCallers>>
  PROVE  GoodStep
<1>1. CASE /\ Persist(st) /\ handler' = NoHandler
           /\ UNCHANGED <<probeCall, fresh>>
  BY <1>1, PersistAgainSound, HandlerEndsGood
<1>2. CASE /\ Admits(st) /\ st.idleDeadlineAt # Undefined /\ t >= st.idleDeadlineAt
           /\ ActiveLeases(st, t) = {}
           /\ Persist(IdleQuiescing(st, fresh + 1, t)) /\ fresh' = fresh + 1
           /\ handler' = [at |-> "quiesced", since |-> 0] /\ UNCHANGED probeCall
  BY <1>2, IdleStopGood
<1>3. CASE /\ RunProbe /\ handler' = [at |-> "probe", since |-> 0] /\ UNCHANGED fresh
  <2>1. /\ Sound(st') /\ alarmAt' \in Time /\ probeCall' \in ProbeCall
        /\ st' = st \/ (Admits(st) /\ st'.phase = "running_unknown")
    BY <1>3, RunProbeSound
  <2>2. Shape'
    BY <1>3, <2>1, HandlerType DEF Inv, Shape
  <2>3. HandlerSound'
    BY <1>3, HandlerMoved DEF Inv
  <2> QED
    BY <2>1, <2>2, <2>3, StateKept, StateChanged
<1> QED
  BY <1>1, <1>2, <1>3 DEF AlarmDecide

\* The runtime delivers the alarm.
LEMMA AlarmFireGood ==
  ASSUME Inv, AlarmFire
  PROVE  GoodStep
<1>1. st' = st /\ handler' = [at |-> "fired", since |-> 0] /\ alarmAt' \in Time
  BY TimeFacts DEF AlarmFire
<1>2. Shape' /\ HandlerSound'
  BY <1>1, HandlerType, HandlerMoved DEF AlarmFire, Inv, Shape
<1> QED
  BY <1>1, <1>2, StateKept

\* alarm() finds nothing left to attend to.
LEMMA AlarmSpuriousGood ==
  ASSUME Inv, AlarmSpurious
  PROVE  GoodStep
  BY HandlerEndsGood, TimeFacts DEF AlarmSpurious

\* alarm() continues or joins the wake.
LEMMA AlarmWakingGood ==
  ASSUME Inv, AlarmWaking
  PROVE  GoodStep
<1>1. handler' = [at |-> "wake", since |-> 0] /\ now' = now
  BY DEF AlarmWaking
<1>2. HandlerSound'
  BY <1>1, HandlerMoved DEF Inv
<1>3. CASE BeginWake(FALSE)
  <2>1. /\ Sound(st') /\ st'.phase = "waking"
        /\ alarmAt' \in Time /\ wakeCall' \in WakeCall /\ fresh' \in Nat
    BY <1>3, BeginWakeSound
  <2>2. Shape'
    BY <1>1, <2>1, HandlerType DEF AlarmWaking, Inv, Shape
  <2> QED
    BY <1>2, <2>1, <2>2, StateChanged, PhaseFacts DEF Admits
<1>4. CASE UNCHANGED <<st, alarmAt, wakeCall, fresh>>
  <2>1. Shape'
    BY <1>1, <1>4, HandlerType DEF AlarmWaking, Inv, Shape
  <2> QED
    BY <1>2, <1>4, <2>1, StateKept
<1> QED
  BY <1>3, <1>4 DEF AlarmWaking

\* alarm() continues or joins the stop.
LEMMA AlarmQuiescingGood ==
  ASSUME Inv, AlarmQuiescing
  PROVE  GoodStep
<1>1. /\ st' = st /\ now' = now /\ stopCall' \in StopCall
      /\ handler' = NoHandler \/ handler' = [at |-> "stop", since |-> 0]
  BY ContinueStopType DEF AlarmQuiescing
<1>2. handler' \in Handler /\ handler'.since = 0 /\ handler'.at # "expired"
  BY <1>1, HandlerType, NoCallsType DEF NoHandler
<1>3. HandlerSound'
  BY <1>1, <1>2, HandlerMoved DEF Inv
<1>4. Shape'
  BY <1>1, <1>2 DEF AlarmQuiescing, Inv, Shape
<1> QED
  BY <1>1, <1>3, <1>4, StateKept

\* alarm() on a running phase; when it has to drop expired leases, what remains
\* expires after the time it read, which is what HandlerSound remembers.
LEMMA AlarmRunningGood ==
  ASSUME Inv, AlarmRunning
  PROVE  GoodStep
<1>1. /\ Sound(st) /\ Shape /\ now \in Nat /\ Admits(st)
      /\ UNCHANGED <<now, wakeCall, stopCall, stopCallers>>
  BY DEF AlarmRunning, Inv, Shape
<1>2. \A l \in ActiveLeases(st, now) : l.expiresAt > now
  BY DEF ActiveLeases
<1>3. CASE /\ Persist(RemoveExpiredLeases(st, now))
           /\ handler' = [at |-> "expired", since |-> now]
           /\ UNCHANGED <<probeCall, fresh>>
  <2> DEFINE r == RemoveExpiredLeases(st, now)
  <2>1. Sound(r) /\ r.leases = ActiveLeases(st, now) /\ r.phase = "running_unknown"
    BY <1>1, RemoveExpiredLeasesSound
  <2> HIDE DEF r
  <2>2. st' = r /\ Sound(st') /\ alarmAt' \in Time
    BY <1>1, <1>3, <2>1, PersistSound DEF r
  <2>3. Shape'
    BY <1>1, <1>3, <2>2, HandlerType DEF Shape
  <2>4. HandlerSound'
    BY <1>1, <1>2, <1>3, <2>1, <2>2 DEF HandlerSound
  <2> QED
    BY <1>1, <2>1, <2>2, <2>3, <2>4, StateChanged
<1>4. CASE ~HasExpiredLeases(st, now) /\ AlarmDecide(now)
  <2>1. \A l \in st.leases : l.expiresAt > now
    BY <1>2, <1>4 DEF HasExpiredLeases
  <2> QED
    BY <1>1, <1>4, <2>1, AlarmDecideGood
<1> QED
  BY <1>3, <1>4 DEF AlarmRunning

\* alarm() after it waited for the mirror write: by HandlerSound no lease it finds
\* has expired at the time it decides on, so an empty ActiveLeases means no leases.
LEMMA AlarmExpiredGood ==
  ASSUME Inv, AlarmExpired
  PROVE  GoodStep
<1>1. /\ handler.at = "expired" /\ handler.since \in Nat /\ handler.since <= now
      /\ \A l \in st.leases : l.expiresAt > handler.since
      /\ UNCHANGED <<now, wakeCall, stopCall, stopCallers>>
  BY DEF AlarmExpired, Inv, Shape, Handler, HandlerSound
<1>2. CASE handler' = NoHandler /\ alarmAt' = Undefined /\ UNCHANGED <<st, probeCall, fresh>>
  BY <1>1, <1>2, HandlerEndsGood, TimeFacts
<1>3. CASE AlarmDecide(handler.since)
  BY <1>1, <1>3, AlarmDecideGood
<1> QED
  BY <1>2, <1>3 DEF AlarmExpired

\* alarm() after the probe: beginUnreachableStop, or nothing.
LEMMA AlarmProbedGood ==
  ASSUME Inv, AlarmProbed
  PROVE  GoodStep
<1>1. UNCHANGED <<now, wakeCall, probeCall, stopCall, stopCallers>>
  BY DEF AlarmProbed
<1>2. CASE /\ fresh' = fresh + 1 /\ Persist(ForceQuiescing(st, fresh + 1, now))
           /\ handler' = [at |-> "quiesced", since |-> 0]
  <2>1. /\ Sound(st') /\ alarmAt' \in Time
        /\ st'.phase = "quiescing" /\ st'.opType = "force-stop"
    BY <1>2, PersistForceQuiescingSound
  <2>2. Shape'
    BY <1>1, <1>2, <2>1, HandlerType DEF Inv, Shape
  <2>3. HandlerSound'
    BY <1>1, <1>2, HandlerMoved DEF Inv
  <2> QED
    BY <2>1, <2>2, <2>3, StateChanged, PhaseFacts DEF Admits
<1>3. CASE handler' = NoHandler /\ UNCHANGED <<st, alarmAt, fresh>>
  BY <1>1, <1>3, HandlerEndsGood DEF Inv, Shape
<1> QED
  BY <1>2, <1>3 DEF AlarmProbed

\* Every step of alarm().
LEMMA AlarmStepGood ==
  ASSUME Inv, AlarmStep
  PROVE  GoodStep
  BY AlarmFireGood, AlarmSpuriousGood, AlarmWakingGood, AlarmQuiescingGood,
     AlarmRunningGood, AlarmExpiredGood, AlarmProbedGood DEF AlarmStep

-----------------------------------------------------------------------------
\* The clock, restarts, and the whole

\* Time passes, and only makes a time read earlier smaller.
LEMMA TickGood ==
  ASSUME Inv, Tick
  PROVE  GoodStep
<1>1. st' = st /\ handler' = handler /\ now' = now + 1 /\ now \in Nat /\ handler.since \in Nat
  BY DEF Tick, Inv, Shape, Handler
<1>2. Shape'
  BY <1>1 DEF Tick, Inv, Shape
<1>3. HandlerSound'
  BY <1>1 DEF Inv, HandlerSound
<1> QED
  BY <1>1, <1>2, <1>3, StateKept

\* A restart forgets the promises and keeps the stored state.
LEMMA RestartGood ==
  ASSUME Inv, Restart
  PROVE  GoodStep
<1>1. st' = st /\ now' = now /\ handler' = NoHandler
  BY DEF Restart
<1>2. alarmAt' \in Time
  BY TimeFacts DEF Restart, Inv, Shape
<1>3. Shape'
  BY <1>2, NoCallsType DEF Restart, Inv, Shape
<1>4. HandlerSound'
  BY <1>1, HandlerMoved DEF NoHandler, Inv
<1> QED
  BY <1>1, <1>3, <1>4, StateKept

\* The invariant holds at first.
LEMMA InitInv == Init => Inv
<1> SUFFICES ASSUME Init PROVE Inv
  OBVIOUS
<1>1. Sound(st)
  BY InitialStateSound DEF Init
<1>2. Shape
  BY NoCallsType, TimeFacts DEF Init, Shape
<1>3. HandlerSound
  BY DEF Init, HandlerSound, NoHandler
<1> QED
  BY <1>1, <1>2, <1>3 DEF Inv

\* Every step keeps the invariant and satisfies both action properties.
LEMMA NextGood == Inv /\ [Next]_vars => GoodStep
<1> SUFFICES ASSUME Inv, [Next]_vars PROVE GoodStep
  OBVIOUS
<1>1. CASE Next
  BY <1>1, RequestGood, UncalledRequestGood, WakeStepGood, ProbeStepGood, StopStepGood,
     AlarmStepGood, TickGood, RestartGood DEF Next
<1>2. CASE UNCHANGED vars
  <2>1. st' = st /\ Shape' /\ HandlerSound'
    BY <1>2 DEF Inv, vars, Shape, HandlerSound
  <2> QED
    BY <2>1, StateKept
<1> QED
  BY <1>1, <1>2

\* The inductive invariant holds of every behaviour of the coordinator.
THEOREM InvHolds == Spec => []Inv
<1>1. Inv /\ [Next]_vars => Inv'
  BY NextGood DEF GoodStep
<1> QED
  BY <1>1, InitInv, PTL DEF Spec

\* Every field the coordinator (lifecycle.ts) stores and every call it has out
\* keeps its shape, for every interval, lease lifetime and bound.
THEOREM TypeCorrect == Spec => []TypeOK
<1>1. Inv => TypeOK
  BY DEF Inv, Sound, Shape, TypeOK
<1> QED
  BY <1>1, InvHolds, PTL

\* endWork (lifecycle.ts) may trust a lease it finds: leases exist only while
\* admission is open and only for the admitted epoch, so a late endWork never puts
\* a quiescing, waking or deleting instance back to 'running'.
THEOREM LeasesHeldOnlyWhileAdmitting == Spec => []LeasesOnlyWhileAdmitting
<1>1. Inv => LeasesOnlyWhileAdmitting
  BY DEF Inv, Sound, LeasesSound, LeasesOnlyWhileAdmitting
<1> QED
  BY <1>1, InvHolds, PTL

\* The idle candidate and deadline that applyExecutionSnapshot keeps never reach
\* back before the last known work, however late or reordered the observations.
THEOREM WindowOpensAfterWork == Spec => []IdleWindowAfterWork
<1>1. Inv => IdleWindowAfterWork
  BY DEF Inv, Sound, WindowSound, IdleWindowAfterWork
<1> QED
  BY <1>1, InvHolds, PTL

\* alarm() begins an idle stop only after a whole idle timeout without known work
\* and without a lease, also when it decides on a time it read before waiting.
THEOREM IdleStopIsEarned == Spec => IdleStopWaitsOutWindow
<1>1. Inv /\ [Next]_vars => [IdleStopStep]_vars
  BY NextGood DEF GoodStep
<1> QED
  BY <1>1, InvHolds, PTL DEF Spec, IdleStopWaitsOutWindow, IdleStopStep

\* Admission opens only on the Sandbox's answer to the wake or stop the stored
\* state is waiting for: the stale-answer checks of performWake, performProbe and
\* performStop are enough, whatever overtakes them.
THEOREM AdmissionIsAnswered == Spec => AdmissionOpensOnAnswer
<1>1. Inv /\ [Next]_vars => [AdmissionStep]_vars
  BY NextGood DEF GoodStep
<1> QED
  BY <1>1, InvHolds, PTL DEF Spec, AdmissionOpensOnAnswer, AdmissionStep

-----------------------------------------------------------------------------
\* The alarm.  What has to be known beyond Inv: an instance that needs the alarm
\* has an epoch, the wake in flight is the one the stored state waits for, and
\* only the alarm handler probes, which is so when nobody calls the RPCs that
\* nothing in the repository calls.

HasEpoch == NeedsAlarm(st) => st.epoch # NoId

WakeMatches ==
    /\ st.phase = "waking" =>
          \/ wakeCall.stage = "none"
          \/ wakeCall.stage \in {"mirror", "rpc"} /\ WakeIsCurrent
    /\ st.phase = "error_waking" => wakeCall.stage \in {"none", "reject"}

ProbeOwned == probeCall.stage # "none" => handler.at = "probe"

\* The alarm has gone off, and the state it went off for is as it was: the
\* handler has just begun, or it waits for a promise that will persist a state
\* or be rejected.
Unarmed == NeedsAlarm(st) /\ st.phase # "quiescing" /\ alarmAt = Undefined
HandlerWillArm ==
    \/ handler.at = "fired"
    \/ handler.at = "wake" /\ st.phase = "waking" /\ wakeCall.stage \in {"mirror", "rpc"}
    \/ handler.at = "wake" /\ st.phase = "error_waking" /\ wakeCall.stage = "reject"
    \/ handler.at = "probe" /\ probeCall.stage = "rpc" /\ ProbeIsCurrent

AlarmInv == HasEpoch /\ WakeMatches /\ ProbeOwned /\ (Unarmed => HandlerWillArm)

\* nextAlarmAt yields a time for every state that needs the alarm.
LEMMA ScheduleArms ==
  ASSUME Shape, NEW s \in StoredState, Schedule(s), NeedsAlarm(s)
  PROVE  alarmAt' # Undefined
<1>1. \A a \in AlarmCandidates(s) : a \in Nat
  BY TimeFacts DEF AlarmCandidates, StoredState, ActiveLeases, WorkLease
<1>2. \A a \in AlarmCandidates(s) : Later(now, a) \in Nat
  BY <1>1 DEF Later, Shape
<1>3. now + RecoveryInterval \in Nat
  BY ConstantsType DEF Shape
<1> QED
  BY <1>2, <1>3, TimeFacts DEF Schedule

\* A state that is persisted with the alarm it needs, and is not waking.
LEMMA PersistArms ==
  ASSUME Inv, Inv', NEW s, Persist(s)
  PROVE  st' = s /\ (NeedsAlarm(st') => alarmAt' # Undefined)
<1>1. st' = s /\ s \in StoredState /\ Shape
  BY DEF Persist, Inv, Sound
<1> QED
  BY <1>1, ScheduleArms DEF Persist

\* Persisting a state of another phase than the waking ones keeps the invariant.
LEMMA PersistElsewhere ==
  ASSUME Inv, Inv', NEW s, Persist(s), s.phase \notin {"waking", "error_waking"},
         NeedsAlarm(s) => s.epoch # NoId, ProbeOwned'
  PROVE  AlarmInv'
<1>1. st' = s /\ (NeedsAlarm(st') => alarmAt' # Undefined)
  BY PersistArms
<1> QED
  BY <1>1 DEF AlarmInv, HasEpoch, WakeMatches, Unarmed

\* Nothing the invariant speaks of has changed.
LEMMA AlarmInvKept ==
  ASSUME AlarmInv, UNCHANGED <<st, alarmAt, wakeCall, probeCall, handler>>
  PROVE  AlarmInv'
  BY DEF AlarmInv, HasEpoch, WakeMatches, ProbeOwned, Unarmed, HandlerWillArm, WakeIsCurrent,
         ProbeIsCurrent, Admits, NeedsAlarm

\* An observation puts the instance to sleep, or leaves it running in its epoch.
LEMMA SnapshotEpoch ==
  ASSUME NEW s \in StoredState, NEW snap, NEW t
  PROVE  LET r == ApplyExecutionSnapshot(s, snap, t)
         IN  r.phase = "sleeping" \/ (r.phase \in AdmissionPhases /\ r.epoch = s.epoch)
<1> DEFINE Ok(r) == r.phase = "sleeping" \/ (r.phase \in AdmissionPhases /\ r.epoch = s.epoch)
<1>1. ClearIdleWindow(s).epoch = s.epoch /\ DOMAIN ClearIdleWindow(s) = DOMAIN s
  BY DEF ClearIdleWindow, StoredState
<1>2. Ok(ToSleeping(s))
  BY <1>1 DEF ToSleeping, StoredState
<1>3. Ok(ApplyUnknownActivity(s, t))
  BY <1>1, PhaseFacts DEF ApplyUnknownActivity, StoredState
<1>4. Ok(ApplyBusy(s, t))
  BY <1>1, PhaseFacts DEF ApplyBusy, Observed, StoredState
<1>5. Ok(ApplyStaleIdle(s, t))
  BY <1>1, PhaseFacts DEF ApplyStaleIdle, Observed, StoredState
<1>6. \A o : Ok(ApplyIdle(s, o, t))
  BY PhaseFacts DEF ApplyIdle, Observed, StoredState
<1> QED
  BY <1>2, <1>3, <1>4, <1>5, <1>6 DEF ApplyExecutionSnapshot

\* An observation is persisted.
LEMMA PersistSnapshotElsewhere ==
  ASSUME Inv, Inv', NEW s \in StoredState, NEW snap, NEW t, s.epoch # NoId,
         Persist(ApplyExecutionSnapshot(s, snap, t)), ProbeOwned'
  PROVE  AlarmInv'
<1> DEFINE r == ApplyExecutionSnapshot(s, snap, t)
<1>1. r.phase = "sleeping" \/ (r.phase \in AdmissionPhases /\ r.epoch = s.epoch)
  BY SnapshotEpoch
<1>2. r.phase \notin {"waking", "error_waking"} /\ (NeedsAlarm(r) => r.epoch # NoId)
  BY <1>1, PhaseFacts DEF NeedsAlarm
<1> HIDE DEF r
<1> QED
  BY <1>2, PersistElsewhere DEF r

\* A wake that begins persists 'waking', and is the one that is waited for.
LEMMA BeginWakeArms ==
  ASSUME Inv, Inv', AlarmInv, NEW explicit \in BOOLEAN, BeginWake(explicit), ProbeOwned'
  PROVE  AlarmInv'
<1> DEFINE continueExisting == /\ ~explicit
                               /\ st.phase \in {"waking", "error_waking"}
                               /\ st.epoch # NoId
                               /\ st.opType = "wake"
           epoch == IF continueExisting THEN st.epoch ELSE fresh + 1
           op == IF continueExisting THEN st.op ELSE fresh + 2
           r == [ClearIdleWindow(st) EXCEPT
                        !.phase = "waking", !.epoch = epoch,
                        !.revision = IF continueExisting THEN @ ELSE @ + 1,
                        !.nextProbeAt = now + RecoveryInterval, !.leases = {},
                        !.op = op, !.opType = "wake", !.wakeAfterStop = FALSE]
<1>1. st \in StoredState /\ fresh \in Nat
  BY DEF Inv, Sound, Shape
<1>2. epoch # NoId
  BY <1>1 DEF NoId
<1>3. r.phase = "waking" /\ r.epoch = epoch /\ r.op = op
  BY <1>1 DEF StoredState, ClearIdleWindow
<1>4. Persist(r) /\ wakeCall' = [stage |-> "mirror", epoch |-> epoch, op |-> op]
  BY DEF BeginWake
<1> HIDE DEF r, epoch, op
<1>5. st' = r /\ (NeedsAlarm(st') => alarmAt' # Undefined)
  BY <1>4, PersistArms
<1> QED
  BY <1>2, <1>3, <1>4, <1>5 DEF AlarmInv, HasEpoch, WakeMatches, WakeIsCurrent, Unarmed

\* initializeInstance, wake(), beginWork, renewWork, endWork, forceStop,
\* beginDelete and markDeleted.
LEMMA RequestArms ==
  ASSUME Inv, Inv', AlarmInv, Request
  PROVE  AlarmInv'
<1>1. st \in StoredState /\ (\A l \in st.leases : Admits(st))
  BY DEF Inv, Sound, LeasesSound
<1>2. ASSUME probeCall' = probeCall, handler' = handler PROVE ProbeOwned'
  BY <1>2 DEF AlarmInv, ProbeOwned
<1>3. CASE InitializeInstance
  <2> DEFINE r == [st EXCEPT !.phase = "sleeping"]
  <2>1. Persist(r) /\ r.phase = "sleeping"
    BY <1>1, <1>3 DEF InitializeInstance, StoredState
  <2> QED
    BY <2>1, <1>2, <1>3, PersistElsewhere DEF InitializeInstance, NeedsAlarm
<1>4. CASE WakeBehindStop
  <2> DEFINE r == [st EXCEPT !.wakeAfterStop = TRUE]
  <2>1. Persist(r) /\ r.phase = "quiescing" /\ r.epoch = st.epoch
    BY <1>1, <1>4 DEF WakeBehindStop, StoredState
  <2> HIDE DEF r
  <2>2. r.epoch # NoId
    BY <2>1, <1>4 DEF AlarmInv, HasEpoch, NeedsAlarm, WakeBehindStop
  <2> QED
    BY <2>1, <2>2, <1>2, <1>4, PersistElsewhere DEF WakeBehindStop
<1>5. ASSUME NEW ttl \in LeaseTtls, BeginWork(ttl) PROVE AlarmInv'
  <2> DEFINE r == [ClearIdleWindow(st) EXCEPT
                    !.phase = "running_busy", !.revision = @ + 1,
                    !.lastSemanticWorkAt = now,
                    !.nextProbeAt = IF @ = Undefined THEN now + BusyInterval
                                    ELSE Sooner(@, now + BusyInterval),
                    !.leases = @ \cup {[id |-> fresh + 1, epoch |-> st.epoch,
                                        expiresAt |-> now + ttl]}]
  <2>1. Persist(r) /\ r.phase = "running_busy" /\ r.epoch # NoId
    BY <1>1, <1>5 DEF BeginWork, StoredState, ClearIdleWindow
  <2> HIDE DEF r
  <2> QED
    BY <2>1, <1>2, <1>5, PersistElsewhere DEF BeginWork
<1>6. ASSUME NEW l \in st.leases, NEW ttl \in LeaseTtls, RenewWork(l, ttl) PROVE AlarmInv'
  <2> DEFINE r == [st EXCEPT !.leases = (@ \ {l}) \cup {[l EXCEPT !.expiresAt = now + ttl]}]
  <2>1. Persist(r) /\ r.phase = st.phase /\ r.epoch = st.epoch /\ Admits(st)
    BY <1>1, <1>6 DEF RenewWork, StoredState
  <2> HIDE DEF r
  <2>2. st.epoch # NoId /\ st.phase \notin {"waking", "error_waking"}
    BY <2>1, PhaseFacts DEF Admits, AlarmInv, HasEpoch, NeedsAlarm
  <2> QED
    BY <2>1, <2>2, <1>2, <1>6, PersistElsewhere DEF RenewWork
<1>7. ASSUME NEW l \in st.leases, EndWork(l) PROVE AlarmInv'
  <2> DEFINE r == [ClearIdleWindow(st) EXCEPT
                    !.phase = IF st.leases \ {l} # {} THEN "running_busy" ELSE "running_unknown",
                    !.revision = @ + 1, !.lastSemanticWorkAt = now, !.nextProbeAt = now,
                    !.leases = @ \ {l}]
  <2>1. Persist(r) /\ r.phase \in {"running_busy", "running_unknown"} /\ r.epoch = st.epoch
    BY <1>1, <1>7 DEF EndWork, StoredState, ClearIdleWindow
  <2> HIDE DEF r
  <2>2. Admits(st) /\ st.epoch # NoId
    BY <1>1, PhaseFacts DEF Admits, AlarmInv, HasEpoch, NeedsAlarm
  <2> QED
    BY <2>1, <2>2, <1>2, <1>7, PersistElsewhere DEF EndWork
<1>8. CASE ForceStop
  <2> DEFINE r == ForceQuiescing(st, fresh + 1, now)
  <2>1. Persist(r) /\ r.phase = "quiescing" /\ r.epoch = st.epoch
    BY <1>1, <1>8 DEF ForceStop, ForceQuiescing, StoredState, ClearIdleWindow
  <2> HIDE DEF r
  <2>2. st.epoch # NoId
    BY <1>8 DEF ForceStop, AlarmInv, HasEpoch, NeedsAlarm
  <2> QED
    BY <2>1, <2>2, <1>2, <1>8, PersistElsewhere DEF ForceStop
<1>9. CASE BeginDelete
  <2> DEFINE r == [ClearIdleWindow(st) EXCEPT
                    !.phase = "deleting", !.revision = @ + 1, !.epoch = NoId,
                    !.nextProbeAt = Undefined, !.leases = {},
                    !.op = NoId, !.opType = "none", !.wakeAfterStop = FALSE]
  <2>1. Persist(r) /\ r.phase = "deleting"
    BY <1>1, <1>9 DEF BeginDelete, StoredState, ClearIdleWindow
  <2> HIDE DEF r
  <2> QED
    BY <2>1, <1>2, <1>9, PersistElsewhere DEF BeginDelete, NeedsAlarm
<1>10. CASE MarkDeleted
  <2>1. st'.phase = "uninitialized"
    BY <1>10 DEF MarkDeleted, InitialState
  <2> QED
    BY <2>1, <1>2, <1>10 DEF MarkDeleted, AlarmInv, HasEpoch, WakeMatches, Unarmed, NeedsAlarm
<1>11. CASE WakeFresh
  BY <1>1, <1>2, <1>11, BeginWakeArms DEF WakeFresh
<1> QED
  BY <1>3, <1>4, <1>5, <1>6, <1>7, <1>8, <1>9, <1>10, <1>11 DEF Request

\* performWake: an answer is persisted, and a rejection re-arms the alarm.
LEMMA WakeStepArms ==
  ASSUME Inv, Inv', AlarmInv, WakeStep
  PROVE  AlarmInv'
<1>1. st \in StoredState /\ wakeCall \in WakeCall /\ Shape
  BY DEF Inv, Sound, Shape
<1>2. ASSUME probeCall' = probeCall, handler' = handler PROVE ProbeOwned'
  BY <1>2 DEF AlarmInv, ProbeOwned
<1>3. CASE WakeSend
  <2>1. wakeCall' = [wakeCall EXCEPT !.stage = IF st.phase = "uninitialized" THEN "reject" ELSE "rpc"]
        /\ wakeCall.stage = "mirror" /\ UNCHANGED <<st, alarmAt, probeCall, handler>>
    BY <1>3 DEF WakeSend
  <2>2. /\ wakeCall'.op = wakeCall.op /\ wakeCall'.epoch = wakeCall.epoch
        /\ wakeCall'.stage = IF st.phase = "uninitialized" THEN "reject" ELSE "rpc"
    BY <2>1, <1>1 DEF WakeCall
  <2> QED
    BY <2>1, <2>2 DEF AlarmInv, HasEpoch, WakeMatches, ProbeOwned, Unarmed, HandlerWillArm, WakeIsCurrent,
         ProbeIsCurrent, Admits, NeedsAlarm
<1>4. CASE WakeStale
  <2>1. st.phase \notin {"waking", "error_waking"}
    BY <1>4 DEF WakeStale, AlarmInv, WakeMatches
  <2> QED
    BY <2>1, <1>4 DEF WakeStale, AlarmInv, HasEpoch, WakeMatches, ProbeOwned, Unarmed, HandlerWillArm,
         ProbeIsCurrent, Admits, NeedsAlarm
<1>5. ASSUME NEW snap \in Snapshots, WakeReturn(snap) PROVE AlarmInv'
  <2> DEFINE r == [st EXCEPT !.phase = "running_unknown", !.op = NoId, !.opType = "none",
                       !.nextProbeAt = now, !.failures = 0, !.probeFailingSince = Undefined]
  <2>1. r \in StoredState /\ r.epoch = st.epoch
    BY <1>1, PhaseFacts, TimeFacts DEF StoredState, Shape, NoId
  <2>2. st.epoch # NoId
    BY <1>5 DEF WakeReturn, WakeIsCurrent, AlarmInv, HasEpoch, NeedsAlarm
  <2>3. Persist(ApplyExecutionSnapshot(r, snap, now)) /\ ProbeOwned'
    BY <1>2, <1>5 DEF WakeReturn
  <2> HIDE DEF r
  <2> QED
    BY <2>1, <2>2, <2>3, PersistSnapshotElsewhere
<1>6. CASE WakeThrow
  <2> DEFINE r == [st EXCEPT !.phase = "error_waking", !.failures = CountFailure(@),
                          !.nextProbeAt = now + RetryBackoff(CountFailure(st.failures))]
  <2>1. Persist(r) /\ r.phase = "error_waking" /\ r.epoch = st.epoch
    BY <1>1, <1>6 DEF WakeThrow, StoredState
  <2> HIDE DEF r
  <2>2. st' = r /\ (NeedsAlarm(st') => alarmAt' # Undefined)
    BY <2>1, PersistArms
  <2>3. st.epoch # NoId /\ wakeCall'.stage = "reject"
    BY <1>1, <1>6 DEF WakeThrow, WakeIsCurrent, AlarmInv, HasEpoch, NeedsAlarm, WakeCall
  <2> QED
    BY <2>1, <2>2, <2>3, <1>2, <1>6 DEF WakeThrow, AlarmInv, HasEpoch, WakeMatches, Unarmed
<1>7. CASE WakeSettle
  <2>1. /\ st' = st /\ probeCall' = probeCall /\ wakeCall'.stage = "none"
        /\ wakeCall.stage \in {"settle", "reject"}
    BY <1>7 DEF WakeSettle, NoWake
  <2>2. PICK waits \in {{"wake"}, {"wake", "stop"}} :
            HandlerResumes(waits, handler.at = "wake" /\ wakeCall.stage = "reject")
    BY <1>7 DEF WakeSettle
  <2>3. CASE handler.at \in waits
    <3>1. handler' = NoHandler /\ handler.at \in {"wake", "stop"}
      BY <2>2, <2>3 DEF HandlerResumes
    <3>2. ProbeOwned'
      BY <2>1, <3>1 DEF AlarmInv, ProbeOwned
    <3>3. ~Unarmed'
      BY <2>1, <2>2, <2>3, <3>1, <1>1, ScheduleArms
         DEF HandlerResumes, AlarmInv, Unarmed, HandlerWillArm, NeedsAlarm
    <3> QED
      BY <2>1, <3>2, <3>3 DEF AlarmInv, HasEpoch, WakeMatches, NeedsAlarm
  <2>4. CASE handler.at \notin waits
    <3>1. handler' = handler /\ alarmAt' = alarmAt /\ handler.at # "wake"
      BY <2>2, <2>4 DEF HandlerResumes
    <3> QED
      BY <2>1, <3>1 DEF AlarmInv, HasEpoch, WakeMatches, ProbeOwned, Unarmed, HandlerWillArm,
         ProbeIsCurrent, Admits, NeedsAlarm
  <2> QED
    BY <2>3, <2>4
<1> QED
  BY <1>3, <1>4, <1>5, <1>6, <1>7 DEF WakeStep

\* performProbe: while the state is as it was when the probe went out, its answer
\* is persisted; a state that has changed was persisted then.
LEMMA ProbeStepArms ==
  ASSUME Inv, Inv', AlarmInv, ProbeStep
  PROVE  AlarmInv'
<1>1. st \in StoredState /\ probeCall \in ProbeCall /\ Shape
  BY DEF Inv, Sound, Shape
<1>2. ASSUME handler' = handler, probeCall.stage # "none" PROVE ProbeOwned'
  BY <1>2 DEF AlarmInv, ProbeOwned
<1>3. CASE ProbeSend
  <2>1. ~Unarmed
    BY <1>3 DEF ProbeSend, AlarmInv, ProbeOwned, HandlerWillArm
  <2> QED
    BY <2>1, <1>2, <1>3 DEF ProbeSend, AlarmInv, HasEpoch, WakeMatches, WakeIsCurrent, Unarmed, NeedsAlarm
<1>4. ASSUME NEW snap \in Snapshots, ProbeReturn(snap) PROVE AlarmInv'
  <2>1. st.epoch # NoId
    BY <1>4, PhaseFacts DEF ProbeReturn, ProbeIsCurrent, Admits, AlarmInv, HasEpoch, NeedsAlarm
  <2> QED
    BY <2>1, <1>1, <1>2, <1>4, PersistSnapshotElsewhere DEF ProbeReturn
<1>5. CASE ProbeThrow
  <2> DEFINE r == ApplyUnknownActivity(st, now)
  <2>1. r.phase = "error_running" /\ r.epoch = st.epoch
    BY <1>1 DEF ApplyUnknownActivity, ClearIdleWindow, StoredState
  <2>2. st.epoch # NoId
    BY <1>5, PhaseFacts DEF ProbeThrow, ProbeIsCurrent, Admits, AlarmInv, HasEpoch, NeedsAlarm
  <2> HIDE DEF r
  <2>3. Persist(r)
    BY <1>5 DEF ProbeThrow, r
  <2> QED
    BY <2>1, <2>2, <2>3, <1>2, <1>5, PersistElsewhere DEF ProbeThrow
<1>6. CASE ProbeStale
  <2>1. ~Unarmed /\ st' = st /\ wakeCall' = wakeCall /\ probeCall' = NoProbe
    BY <1>6 DEF ProbeStale, AlarmInv, ProbeOwned, HandlerWillArm
  <2>2. ~Unarmed'
    BY <2>1, <1>1, <1>6, ScheduleArms DEF ProbeStale, Unarmed, NeedsAlarm
  <2> QED
    BY <2>1, <2>2, <1>2, <1>6 DEF ProbeStale, AlarmInv, HasEpoch, WakeMatches, WakeIsCurrent, NeedsAlarm
<1>7. CASE ProbeSettle
  <2>1. ~Unarmed
    BY <1>7 DEF ProbeSettle, AlarmInv, ProbeOwned, HandlerWillArm
  <2> QED
    BY <2>1, <1>2, <1>7 DEF ProbeSettle, AlarmInv, HasEpoch, WakeMatches, WakeIsCurrent, Unarmed, NeedsAlarm
<1> QED
  BY <1>3, <1>4, <1>5, <1>6, <1>7 DEF ProbeStep

\* A handler that awaited a stop began while the instance was quiescing: when it
\* has left that phase, the state it left it for was persisted.
LEMMA StopResumesArms ==
  ASSUME Inv, AlarmInv, UNCHANGED <<st, now, wakeCall, probeCall>>, NEW rejected,
         HandlerResumes({"stop"}, rejected)
  PROVE  AlarmInv'
<1>1. st \in StoredState /\ Shape
  BY DEF Inv, Sound
<1>2. CASE handler.at = "stop"
  <2>1. handler' = NoHandler /\ ~Unarmed /\ probeCall.stage = "none"
    BY <1>2 DEF HandlerResumes, AlarmInv, ProbeOwned, HandlerWillArm
  <2>2. ~Unarmed'
    BY <1>1, <1>2, <2>1, ScheduleArms DEF HandlerResumes, Unarmed, NeedsAlarm
  <2> QED
    BY <2>1, <2>2 DEF AlarmInv, HasEpoch, WakeMatches, WakeIsCurrent, ProbeOwned, NeedsAlarm
<1>3. CASE handler.at # "stop"
  <2>1. UNCHANGED <<st, alarmAt, wakeCall, probeCall, handler>>
    BY <1>3 DEF HandlerResumes
  <2> QED
    BY <2>1, AlarmInvKept
<1> QED
  BY <1>2, <1>3

\* performStop.
LEMMA StopStepArms ==
  ASSUME Inv, Inv', AlarmInv, StopStep
  PROVE  AlarmInv'
<1>1. st \in StoredState /\ stopCall \in StopCall /\ Shape
  BY DEF Inv, Sound, Shape
<1>2. ASSUME probeCall' = probeCall, handler' = handler PROVE ProbeOwned'
  BY <1>2 DEF AlarmInv, ProbeOwned
<1>3. CASE StopSend
  BY <1>3, AlarmInvKept DEF StopSend
<1>4. CASE StopStale
  BY <1>4, StopResumesArms DEF StopStale
<1>5. CASE StopPending
  <2> DEFINE r == [st EXCEPT !.nextProbeAt = now + RecoveryInterval]
  <2>1. Persist(r) /\ r.phase = "quiescing" /\ r.epoch = st.epoch
    BY <1>1, <1>5 DEF StopPending, StopIsCurrent, StoredState
  <2>2. st.epoch # NoId
    BY <1>5 DEF StopPending, StopIsCurrent, AlarmInv, HasEpoch, NeedsAlarm
  <2> HIDE DEF r
  <2> QED
    BY <2>1, <2>2, <1>2, <1>5, PersistElsewhere DEF StopPending
<1>6. CASE StopFailedRunning
  <2> DEFINE r == [ClearIdleWindow(st) EXCEPT
                    !.phase = "error_running", !.revision = @ + 1,
                    !.op = NoId, !.opType = "none", !.wakeAfterStop = FALSE,
                    !.nextProbeAt = now + RetryBackoff(1), !.failures = CountFailure(0)]
  <2>1. Persist(r) /\ r.phase = "error_running" /\ r.epoch = st.epoch
    BY <1>1, <1>6 DEF StopFailedRunning, ClearIdleWindow, StoredState
  <2>2. st.epoch # NoId
    BY <1>6 DEF StopFailedRunning, StopIsCurrent, AlarmInv, HasEpoch, NeedsAlarm
  <2> HIDE DEF r
  <2> QED
    BY <2>1, <2>2, <1>2, <1>6, PersistElsewhere DEF StopFailedRunning
<1>7. ASSUME NEW snap \in Snapshots, StopBusy(snap) PROVE AlarmInv'
  <2> DEFINE c == ClearIdleWindow(st)
             r == [c EXCEPT
                !.phase = "running_unknown", !.revision = @ + 1,
                !.op = NoId, !.opType = "none", !.wakeAfterStop = FALSE,
                !.nextProbeAt = now]
  <2>1. c \in StoredState /\ c.epoch = st.epoch /\ c.revision + 1 \in Nat /\ now \in Time
    <3>1. Sound(c) /\ c.epoch = st.epoch
      BY ClearIdleWindowSound DEF Inv, Sound
    <3> HIDE DEF c
    <3> QED
      BY <1>1, <3>1, TimeFacts DEF Sound, StoredState, Shape
  <2>2. Persist(ApplyExecutionSnapshot(r, snap, now))
    BY <1>7 DEF StopBusy
  <2> HIDE DEF c
  <2>3. r \in StoredState /\ r.epoch = st.epoch
    BY <2>1, PhaseFacts, TimeFacts DEF StoredState
  <2>4. st.epoch # NoId
    BY <1>7 DEF StopBusy, StopIsCurrent, AlarmInv, HasEpoch, NeedsAlarm
  <2> HIDE DEF r
  <2> QED
    BY <2>2, <2>3, <2>4, <1>2, <1>7, PersistSnapshotElsewhere DEF StopBusy
<1>8. CASE StopStopped
  <2>1. Persist(ToSleeping(st)) /\ ToSleeping(st).phase = "sleeping"
    BY <1>1, <1>8 DEF StopStopped, ToSleeping, ClearIdleWindow, StoredState
  <2> QED
    BY <2>1, <1>2, <1>8, PersistElsewhere DEF StopStopped, NeedsAlarm
<1>9. CASE StopThrow
  <2> DEFINE r == [ClearIdleWindow(st) EXCEPT
                    !.nextProbeAt = now + RetryBackoff(CountFailure(st.failures)),
                    !.failures = CountFailure(@)]
  <2>1. Persist(r) /\ r.phase = "quiescing" /\ r.epoch = st.epoch
    BY <1>1, <1>9 DEF StopThrow, StopIsCurrent, ClearIdleWindow, StoredState
  <2>2. st.epoch # NoId
    BY <1>9 DEF StopThrow, StopIsCurrent, AlarmInv, HasEpoch, NeedsAlarm
  <2> HIDE DEF r
  <2> QED
    BY <2>1, <2>2, <1>2, <1>9, PersistElsewhere DEF StopThrow
<1>10. CASE StopSettle
  BY <1>10, StopResumesArms DEF StopSettle
<1>11. CASE StopThenWake
  <2>1. CASE wakeCall.stage = "none" /\ ~CanWake
    BY <2>1, <1>11, StopResumesArms DEF StopThenWake
  <2>2. CASE wakeCall.stage = "none" /\ CanWake
    <3>1. BeginWake(TRUE) /\ probeCall' = probeCall /\ handler' = handler
      BY <2>2, <1>11 DEF StopThenWake
    <3> QED
      BY <3>1, <1>2, BeginWakeArms
  <2>3. CASE wakeCall.stage # "none"
    <3>1. UNCHANGED <<st, alarmAt, wakeCall, probeCall, handler>>
      BY <2>3, <1>11 DEF StopThenWake
    <3> QED
      BY <3>1, AlarmInvKept
  <2> QED
    BY <2>1, <2>2, <2>3
<1> QED
  BY <1>3, <1>4, <1>5, <1>6, <1>7, <1>8, <1>9, <1>10, <1>11 DEF StopStep

\* The decision of alarm() on a running instance: whatever it does, it persists,
\* or a probe of the state as it is goes out.
LEMMA AlarmDecideArms ==
  ASSUME Inv, Inv', AlarmInv, handler.at \in {"fired", "expired"}, NEW t, AlarmDecide(t),
         wakeCall' = wakeCall
  PROVE  AlarmInv'
<1>1. st \in StoredState /\ Shape /\ probeCall.stage = "none"
  BY DEF Inv, Sound, AlarmInv, ProbeOwned
<1>2. CASE Persist(st) /\ UNCHANGED <<probeCall, fresh>>
  <2>1. st' = st /\ (NeedsAlarm(st') => alarmAt' # Undefined)
    BY <1>2, PersistArms
  <2> QED
    BY <2>1, <1>1, <1>2 DEF AlarmInv, HasEpoch, WakeMatches, WakeIsCurrent, ProbeOwned, Unarmed, NeedsAlarm
<1>3. CASE Admits(st) /\ Persist(IdleQuiescing(st, fresh + 1, t)) /\ UNCHANGED probeCall
  <2> DEFINE r == IdleQuiescing(st, fresh + 1, t)
  <2>1. r.phase = "quiescing" /\ r.epoch = st.epoch
    BY <1>1 DEF IdleQuiescing, StoredState
  <2>2. st.epoch # NoId
    BY <1>3, PhaseFacts DEF Admits, AlarmInv, HasEpoch, NeedsAlarm
  <2>3. Persist(r) /\ ProbeOwned'
    BY <1>1, <1>3 DEF ProbeOwned
  <2> HIDE DEF r
  <2> QED
    BY <2>1, <2>2, <2>3, PersistElsewhere
<1>4. CASE Admits(st) /\ RunProbe /\ handler' = [at |-> "probe", since |-> 0]
  <2>1. st.epoch # NoId
    BY <1>4, PhaseFacts DEF Admits, AlarmInv, HasEpoch, NeedsAlarm
  <2>2. ProbeOwned'
    BY <1>4 DEF ProbeOwned
  <2>3. CASE HasExpiredLeases(st, now)
    <3> DEFINE r == RemoveExpiredLeases(st, now)
    <3>1. r.phase = "running_unknown" /\ r.epoch = st.epoch
      BY <1>1, <1>4 DEF RemoveExpiredLeases, ClearIdleWindow, StoredState, Admits
    <3>2. Persist(r)
      BY <1>1, <1>4, <2>1, <2>3 DEF RunProbe
    <3> HIDE DEF r
    <3> QED
      BY <3>1, <3>2, <2>1, <2>2, PersistElsewhere
  <2>4. CASE ~HasExpiredLeases(st, now)
    <3>1. SendProbe(st) /\ UNCHANGED <<st, alarmAt>>
      BY <1>1, <1>4, <2>1, <2>4 DEF RunProbe
    <3>2. /\ probeCall'.stage = "rpc" /\ probeCall'.epoch = st'.epoch
          /\ probeCall'.revision = st'.revision /\ handler'.at = "probe"
      BY <3>1, <1>4 DEF SendProbe
    <3> QED
      BY <3>1, <3>2, <2>2, <1>4 DEF AlarmInv, HasEpoch, WakeMatches, WakeIsCurrent, Unarmed, HandlerWillArm,
         ProbeIsCurrent, Admits, NeedsAlarm
  <2> QED
    BY <2>3, <2>4
<1> QED
  BY <1>2, <1>3, <1>4 DEF AlarmDecide

\* alarm().
LEMMA AlarmStepArms ==
  ASSUME Inv, Inv', AlarmInv, AlarmStep
  PROVE  AlarmInv'
<1>1. st \in StoredState /\ Shape
  BY DEF Inv, Sound
<1>2. CASE AlarmFire
  BY <1>2 DEF AlarmFire, AlarmInv, HasEpoch, WakeMatches, WakeIsCurrent, ProbeOwned, HandlerWillArm, NeedsAlarm
<1>3. CASE AlarmSpurious
  BY <1>3 DEF AlarmSpurious, AlarmInv, HasEpoch, WakeMatches, WakeIsCurrent, ProbeOwned, Unarmed, NeedsAlarm
<1>4. CASE AlarmWaking
  <2>1. probeCall' = probeCall /\ probeCall.stage = "none" /\ handler'.at = "wake"
    BY <1>4 DEF AlarmWaking, AlarmInv, ProbeOwned
  <2>2. ProbeOwned'
    BY <2>1 DEF ProbeOwned
  <2>3. CASE wakeCall.stage = "none"
    <3>1. BeginWake(FALSE)
      BY <2>3, <1>4 DEF AlarmWaking
    <3> QED
      BY <3>1, <2>2, BeginWakeArms
  <2>4. CASE wakeCall.stage # "none"
    <3>1. UNCHANGED <<st, alarmAt, wakeCall>>
      BY <2>4, <1>4 DEF AlarmWaking
    <3> QED
      BY <3>1, <2>1, <2>2, <2>4, <1>4 DEF AlarmWaking, AlarmInv, HasEpoch, WakeMatches, WakeIsCurrent,
         HandlerWillArm, NeedsAlarm
  <2> QED
    BY <2>3, <2>4
<1>5. CASE AlarmQuiescing
  <2>1. ~Unarmed /\ probeCall.stage = "none" /\ UNCHANGED <<st, alarmAt, wakeCall, probeCall>>
    BY <1>5 DEF AlarmQuiescing, AlarmInv, ProbeOwned, Unarmed, HandlerWillArm
  <2> QED
    BY <2>1 DEF AlarmInv, HasEpoch, WakeMatches, WakeIsCurrent, ProbeOwned, Unarmed, NeedsAlarm
<1>6. CASE AlarmRunning
  <2>1. CASE HasExpiredLeases(st, now)
    <3> DEFINE r == RemoveExpiredLeases(st, now)
    <3>1. r.phase = "running_unknown" /\ r.epoch = st.epoch
      BY <1>1, <1>6 DEF AlarmRunning, RemoveExpiredLeases, ClearIdleWindow, StoredState, Admits
    <3>2. st.epoch # NoId
      BY <1>6, PhaseFacts DEF AlarmRunning, Admits, AlarmInv, HasEpoch, NeedsAlarm
    <3>3. Persist(r) /\ ProbeOwned'
      BY <1>6, <2>1 DEF AlarmRunning, AlarmInv, ProbeOwned
    <3> HIDE DEF r
    <3> QED
      BY <3>1, <3>2, <3>3, PersistElsewhere
  <2>2. CASE ~HasExpiredLeases(st, now)
    BY <1>6, <2>2, AlarmDecideArms DEF AlarmRunning
  <2> QED
    BY <2>1, <2>2
<1>7. CASE AlarmExpired
  <2>1. CASE st.phase = "uninitialized"
    BY <1>7, <2>1 DEF AlarmExpired, AlarmInv, HasEpoch, WakeMatches, ProbeOwned, Unarmed, NeedsAlarm
  <2>2. CASE st.phase # "uninitialized"
    BY <1>7, <2>2, AlarmDecideArms DEF AlarmExpired
  <2> QED
    BY <2>1, <2>2
<1>8. CASE AlarmProbed
  <2>1. CASE ProbeFailureWindowExpired(st, now)
    <3> DEFINE r == ForceQuiescing(st, fresh + 1, now)
    <3>1. r.phase = "quiescing" /\ r.epoch = st.epoch
      BY <1>1 DEF ForceQuiescing, ClearIdleWindow, StoredState
    <3>2. st.epoch # NoId
      BY <2>1 DEF ProbeFailureWindowExpired, AlarmInv, HasEpoch, NeedsAlarm
    <3>3. Persist(r) /\ ProbeOwned'
      BY <1>8, <2>1 DEF AlarmProbed, AlarmInv, ProbeOwned
    <3> HIDE DEF r
    <3> QED
      BY <3>1, <3>2, <3>3, PersistElsewhere
  <2>2. CASE ~ProbeFailureWindowExpired(st, now)
    <3>1. ~Unarmed /\ UNCHANGED <<st, alarmAt, wakeCall, probeCall>> /\ probeCall.stage = "none"
      BY <1>8, <2>2 DEF AlarmProbed, AlarmInv, HandlerWillArm
    <3> QED
      BY <3>1 DEF AlarmInv, HasEpoch, WakeMatches, WakeIsCurrent, ProbeOwned, Unarmed, NeedsAlarm
  <2> QED
    BY <2>1, <2>2
<1> QED
  BY <1>2, <1>3, <1>4, <1>5, <1>6, <1>7, <1>8 DEF AlarmStep

\* Every step keeps the alarm's invariant; the constructor arms the alarm again
\* when the object restarts.
LEMMA AlarmInvKeeps ==
  ASSUME UncalledRpcs = FALSE, Inv, Inv', AlarmInv, [Next]_vars
  PROVE  AlarmInv'
<1>1. CASE Restart
  <2>1. now # Undefined
    BY TimeFacts DEF Inv, Shape
  <2>2. ~Unarmed'
    BY <1>1, <2>1 DEF Restart, Unarmed, NeedsAlarm
  <2>3. wakeCall'.stage = "none" /\ probeCall'.stage = "none" /\ st' = st
    BY <1>1 DEF Restart, NoWake, NoProbe
  <2> QED
    BY <2>2, <2>3 DEF AlarmInv, HasEpoch, WakeMatches, ProbeOwned, NeedsAlarm
<1>2. CASE Tick
  BY <1>2, AlarmInvKept DEF Tick
<1>3. CASE UncalledRequest
  BY <1>3 DEF UncalledRequest
<1>4. CASE UNCHANGED vars
  BY <1>4, AlarmInvKept DEF vars
<1> QED
  BY <1>1, <1>2, <1>3, <1>4, RequestArms, WakeStepArms, ProbeStepArms, StopStepArms, AlarmStepArms
     DEF Next

\* No waking, running or failed instance is ever forgotten: whatever interleaves
\* with alarm(), performWake, performProbe and performStop, an alarm is set or
\* its handler is still at work, for every interval, lease lifetime and bound.
\* The RPCs observeExecution and reconcileNow, which nothing calls, are left out:
\* alarm() could join a probe of theirs that is stale and then re-arm nothing.
THEOREM AlarmStaysArmed == UncalledRpcs = FALSE => (Spec => []AlarmArmed)
<1> SUFFICES ASSUME UncalledRpcs = FALSE PROVE Spec => []AlarmArmed
  OBVIOUS
<1>1. Init => AlarmInv
  BY DEF Init, InitialState, NoWake, NoProbe, AlarmInv, HasEpoch, WakeMatches, ProbeOwned, Unarmed, NeedsAlarm
<1>2. Inv /\ Inv' /\ AlarmInv /\ [Next]_vars => AlarmInv'
  BY AlarmInvKeeps
<1>3. AlarmInv => AlarmArmed
  BY DEF AlarmInv, Unarmed, HandlerWillArm, AlarmArmed, Attended
<1> QED
  BY <1>1, <1>2, <1>3, InvHolds, PTL DEF Spec

=============================================================================
