----------------------------- MODULE HubDeletion -----------------------------
(***************************************************************************)
(* How sessions are deleted and cleaned up (src/src/hub.ts and the claims  *)
(* of src/src/hub-store.ts).                                               *)
(*                                                                         *)
(* The D1 registry holds one row per session.  DELETE and the daily sweep  *)
(* claim rows for an operation; the Hub object's alarm works the claims    *)
(* off, one attempt at a time, across three other objects: the session's   *)
(* SessionAgent, its LifecycleCoordinator and its Sandbox.  Every D1       *)
(* statement and every call to another object is an await, so each action  *)
(* is one statement or one call.  Of updatedAt, by which the queue is      *)
(* ordered, the place it gives each row is kept.                           *)
(***************************************************************************)
EXTENDS Naturals, Sequences, FiniteSets

CONSTANTS
    Sessions,      \* session ids; a session and its instance share one
    Prompted,      \* the sessions that are sent prompts
    Initialized,   \* the sessions whose coordinator has been initialized
    Sweeps,        \* whether the daily sweep runs
    RequestsFail,  \* whether a request may die between two of its steps
    MaxOps,        \* bound: delete operations ever drawn
    MaxHubCrashes  \* bound: interrupted alarm handlers

ASSUME HubAssumption ==
    /\ IsFiniteSet(Sessions)
    /\ Prompted \subseteq Sessions
    /\ Initialized \subseteq Sessions
    /\ {Sweeps, RequestsFail} \subseteq BOOLEAN
    /\ {MaxOps, MaxHubCrashes} \subseteq Nat

VARIABLES
    row,        \* the registry
    updatedAt,  \* the place of each session by updatedAt, 1 the oldest
    alarm,      \* whether the Hub's alarm is set
    hub,        \* where the Hub's alarm handler is waiting, and its attempt
    agent,      \* SessionAgent: no prompt pending, some pending, or storage gone
    coord,      \* LifecycleCoordinator: uninitialized, open to a wake, deleting
    sandbox,    \* Sandbox: there, being purged or cleaned, or gone
    del,        \* DELETE requests in progress
    sweep,      \* the scheduled sweep in progress
    prompt,     \* prompt requests in progress
    dispatch,   \* whether the agent is about to wake its instance
    fresh,      \* operation ids drawn so far
    hubCrashes,
    failed      \* history: a request has died or a report has failed

vars == <<row, updatedAt, alarm, hub, agent, coord, sandbox, del, sweep, prompt,
          dispatch, fresh, hubCrashes, failed>>

others == <<agent, coord, sandbox>>
requests == <<del, sweep, prompt, dispatch>>

-----------------------------------------------------------------------------
Lifecycles == {"absent", "ready", "deleting", "delete_failed",
               "cleaning", "cleaned", "clean_failed"}

NoOp == 0

\* busy stands for everything but the lifecycle that cleanupEligible reads: a
\* pending prompt, a dispatch phase, recent activity, an unsettled runtime.
Row == [lifecycle : Lifecycles, op : Nat, busy : BOOLEAN]

HubStages == {"none", "next", "nextClean", "agent", "close", "send", "purge", "mark",
              "finish", "defer", "fail", "check", "checkClean"}

NoHub == [at |-> "none", kind |-> "none", id |-> <<>>, op |-> NoOp]
NoSweep == [at |-> "none", todo |-> {}, claimed |-> FALSE, id |-> <<>>]

\* claimedFor
ClaimedFor(s, lifecycle) == row[s].lifecycle = lifecycle /\ row[s].op # NoOp

Claimed(s) == ClaimedFor(s, "deleting") \/ ClaimedFor(s, "cleaning")

CleanupEligible(s) == row[s].lifecycle \in {"ready", "clean_failed"} /\ ~row[s].busy

\* Mutant: the write that ends an attempt is fenced on the row alone.
FencedOnRow(s, op) == row[s].lifecycle # "absent"

\* fencedOn
FencedOn(s, op) == row[s].lifecycle # "absent" /\ row[s].op = op

\* Write updatedAt: the row becomes the youngest.
Bump(s) ==
    updatedAt' = [t \in Sessions |->
        IF t = s THEN Cardinality(Sessions)
        ELSE IF updatedAt[t] > updatedAt[s] THEN updatedAt[t] - 1 ELSE updatedAt[t]]

\* The rows claimed for a lifecycle (hasPendingDeletion, hasPendingCleanup).
Pending(lifecycle) == {s \in Sessions : ClaimedFor(s, lifecycle)}

\* The oldest of them (nextPendingDeletion, nextPendingCleanup).
NextPending(lifecycle) ==
    {s \in Pending(lifecycle) : \A t \in Pending(lifecycle) : updatedAt[s] <= updatedAt[t]}

\* LifecycleCoordinator.beginDelete: an uninitialized coordinator returns early.
CoordBeginDelete(s) ==
    coord' = [coord EXCEPT ![s] = IF @ = "uninitialized" THEN @ ELSE "deleting"]

-----------------------------------------------------------------------------
\* DELETE /api/sessions/:id clears the agent and claims the row; DELETE
\* /api/instances/:id only claims it.

DeleteSession(s) ==
    /\ del[s] = "none"
    /\ row[s].lifecycle # "absent"
    /\ agent' = [agent EXCEPT ![s] = "deleted"]
    /\ del' = [del EXCEPT ![s] = "claim"]
    /\ UNCHANGED <<row, updatedAt, alarm, hub, coord, sandbox, sweep, prompt, dispatch,
                   fresh, hubCrashes, failed>>

DeleteInstance(s) ==
    /\ del[s] = "none"
    /\ row[s].lifecycle # "absent"
    /\ del' = [del EXCEPT ![s] = "claim"]
    /\ UNCHANGED <<row, updatedAt, alarm, hub, others, sweep, prompt, dispatch,
                   fresh, hubCrashes, failed>>

\* beginDelete: claim the row, unless an operation already holds it.
DeleteClaim(s) ==
    /\ del[s] = "claim"
    /\ IF row[s].lifecycle = "absent" \/ ClaimedFor(s, "deleting")
       THEN UNCHANGED <<row, updatedAt, fresh>>
       ELSE /\ fresh < MaxOps
            /\ fresh' = fresh + 1
            /\ row' = [row EXCEPT ![s].lifecycle = "deleting", ![s].op = fresh + 1]
            /\ Bump(s)
    /\ del' = [del EXCEPT ![s] = IF row[s].lifecycle = "absent" THEN "none" ELSE "poke"]
    /\ UNCHANGED <<alarm, hub, others, sweep, prompt, dispatch, hubCrashes, failed>>

\* Mutant: the Hub is left alone while it is running.
DeletePokeIfQuiet(s) ==
    /\ del[s] = "poke"
    /\ alarm' = (alarm \/ hub.at = "none")
    /\ del' = [del EXCEPT ![s] = "close"]
    /\ UNCHANGED <<row, updatedAt, hub, others, sweep, prompt, dispatch, fresh, hubCrashes, failed>>

\* Hub.poke; an alarm that is being handled is no longer set.
DeletePoke(s) ==
    /\ del[s] = "poke"
    /\ alarm' = TRUE
    /\ del' = [del EXCEPT ![s] = "close"]
    /\ UNCHANGED <<row, updatedAt, hub, others, sweep, prompt, dispatch, fresh, hubCrashes, failed>>

DeleteClose(s) ==
    /\ del[s] = "close"
    /\ CoordBeginDelete(s)
    /\ del' = [del EXCEPT ![s] = "none"]
    /\ UNCHANGED <<row, updatedAt, alarm, hub, agent, sandbox, sweep, prompt, dispatch,
                   fresh, hubCrashes, failed>>

DeleteDies(s) ==
    /\ RequestsFail
    /\ del[s] # "none"
    /\ del' = [del EXCEPT ![s] = "none"]
    /\ failed' = TRUE
    /\ UNCHANGED <<row, updatedAt, alarm, hub, others, sweep, prompt, dispatch,
                   fresh, hubCrashes>>

-----------------------------------------------------------------------------
\* sweepIdleSessions, from the daily cron

SweepScan ==
    /\ Sweeps
    /\ sweep.at = "none"
    /\ \E s \in Sessions : CleanupEligible(s)
    /\ sweep' = [NoSweep EXCEPT !.at = "loop", !.todo = {s \in Sessions : CleanupEligible(s)}]
    /\ UNCHANGED <<row, updatedAt, alarm, hub, others, del, prompt, dispatch,
                   fresh, hubCrashes, failed>>

\* The claim checks eligibility again.
SweepClaim(s) ==
    /\ sweep.at = "loop"
    /\ s \in sweep.todo
    /\ IF CleanupEligible(s)
       THEN /\ fresh < MaxOps
            /\ fresh' = fresh + 1
            /\ row' = [row EXCEPT ![s].lifecycle = "cleaning", ![s].op = fresh + 1]
            /\ sweep' = [sweep EXCEPT !.todo = @ \ {s}, !.at = "close", !.claimed = TRUE,
                                      !.id = <<s>>]
       ELSE /\ sweep' = [sweep EXCEPT !.todo = @ \ {s}]
            /\ UNCHANGED <<row, fresh>>
    /\ UNCHANGED <<updatedAt, alarm, hub, others, del, prompt, dispatch, hubCrashes, failed>>

SweepClose ==
    /\ sweep.at = "close"
    /\ CoordBeginDelete(sweep.id[1])
    /\ sweep' = [sweep EXCEPT !.at = "loop", !.id = <<>>]
    /\ UNCHANGED <<row, updatedAt, alarm, hub, agent, sandbox, del, prompt, dispatch,
                   fresh, hubCrashes, failed>>

SweepPoke ==
    /\ sweep.at = "loop"
    /\ sweep.todo = {}
    /\ alarm' = (alarm \/ sweep.claimed)
    /\ sweep' = NoSweep
    /\ UNCHANGED <<row, updatedAt, hub, others, del, prompt, dispatch, fresh, hubCrashes, failed>>

\* The call to a coordinator or the poke throws, or the isolate goes away.
SweepDies ==
    /\ RequestsFail
    /\ sweep.at # "none"
    /\ sweep' = NoSweep
    /\ failed' = TRUE
    /\ UNCHANGED <<row, updatedAt, alarm, hub, others, del, prompt, dispatch,
                   fresh, hubCrashes>>

-----------------------------------------------------------------------------
\* A prompt: the route checks the row, the agent takes the prompt and reports it
\* to the row, its alarm wakes the instance and delivers it.

PromptCheck(s) ==
    /\ s \in Prompted
    /\ prompt[s] = "none"
    /\ row[s].lifecycle = "ready"
    /\ prompt' = [prompt EXCEPT ![s] = "checked"]
    /\ UNCHANGED <<row, updatedAt, alarm, hub, others, del, sweep, dispatch,
                   fresh, hubCrashes, failed>>

PromptQueue(s) ==
    /\ prompt[s] = "checked"
    /\ IF agent[s] = "deleted"
       THEN /\ prompt' = [prompt EXCEPT ![s] = "none"]
            /\ UNCHANGED agent
       ELSE /\ prompt' = [prompt EXCEPT ![s] = "queued"]
            /\ agent' = [agent EXCEPT ![s] = "pending"]
    /\ UNCHANGED <<row, updatedAt, alarm, hub, coord, sandbox, del, sweep, dispatch,
                   fresh, hubCrashes, failed>>

\* reportToHub: an agent that has been cleared meanwhile reports nothing.
Report(s) ==
    IF row[s].lifecycle = "absent" \/ agent[s] = "deleted"
    THEN UNCHANGED <<row, updatedAt>>
    ELSE row' = [row EXCEPT ![s].busy = TRUE] /\ Bump(s)

\* A report that fails is only logged.
ReportOrFail(s) ==
    \/ Report(s) /\ UNCHANGED failed
    \/ RequestsFail /\ failed' = TRUE /\ UNCHANGED <<row, updatedAt>>

PromptReport(s) ==
    /\ prompt[s] = "queued"
    /\ prompt' = [prompt EXCEPT ![s] = "none"]
    /\ ReportOrFail(s)
    /\ UNCHANGED <<alarm, hub, others, del, sweep, dispatch, fresh, hubCrashes>>

\* The agent's alarm: it reports 'starting' before it wakes the instance.
DispatchBegin(s) ==
    /\ agent[s] = "pending"
    /\ ~dispatch[s]
    /\ dispatch' = [dispatch EXCEPT ![s] = TRUE]
    /\ ReportOrFail(s)
    /\ UNCHANGED <<alarm, hub, others, del, sweep, prompt, fresh, hubCrashes>>

\* wakeInstanceRuntime initializes an uninitialized coordinator first; a deleting
\* one, and a Sandbox that is being purged, refuse the wake.
DispatchWake(s) ==
    /\ dispatch[s]
    /\ dispatch' = [dispatch EXCEPT ![s] = FALSE]
    /\ coord' = [coord EXCEPT ![s] = IF @ = "uninitialized" THEN "open" ELSE @]
    /\ agent' = [agent EXCEPT ![s] =
                    IF @ = "pending" /\ coord[s] # "deleting" /\ sandbox[s] = "there"
                    THEN "quiet" ELSE @]
    /\ UNCHANGED <<row, updatedAt, alarm, hub, sandbox, del, sweep, prompt,
                   fresh, hubCrashes, failed>>

\* Three days pass without activity, which only the sweep cares about.
GrowIdle(s) ==
    /\ Sweeps
    /\ row[s].busy
    /\ agent[s] = "quiet"
    /\ prompt[s] = "none"
    /\ ~dispatch[s]
    /\ row' = [row EXCEPT ![s].busy = FALSE]
    /\ UNCHANGED <<updatedAt, alarm, hub, others, requests, fresh, hubCrashes, failed>>

-----------------------------------------------------------------------------
\* Hub.alarm

HubGoto(from, to) == hub.at = from /\ hub' = [hub EXCEPT !.at = to]

HubFire ==
    /\ alarm
    /\ HubGoto("none", "next")
    /\ alarm' = FALSE
    /\ UNCHANGED <<row, updatedAt, others, requests, fresh, hubCrashes, failed>>

HubNextDeletion ==
    /\ hub.at = "next"
    /\ \/ Pending("deleting") = {} /\ hub' = [NoHub EXCEPT !.at = "nextClean"]
       \/ \E s \in NextPending("deleting") :
             hub' = [at |-> "close", kind |-> "delete", id |-> <<s>>, op |-> row[s].op]
    /\ UNCHANGED <<row, updatedAt, alarm, others, requests, fresh, hubCrashes, failed>>

HubNextCleanup ==
    /\ hub.at = "nextClean"
    /\ \/ Pending("cleaning") = {} /\ hub' = [NoHub EXCEPT !.at = "check"]
       \/ \E s \in NextPending("cleaning") :
             hub' = [at |-> "agent", kind |-> "clean", id |-> <<s>>, op |-> row[s].op]
    /\ UNCHANGED <<row, updatedAt, alarm, others, requests, fresh, hubCrashes, failed>>

HubClearAgent ==
    /\ HubGoto("agent", "close")
    /\ agent' = [agent EXCEPT ![hub.id[1]] = "deleted"]
    /\ UNCHANGED <<row, updatedAt, alarm, coord, sandbox, requests, fresh, hubCrashes, failed>>

HubClose ==
    /\ HubGoto("close", "send")
    /\ CoordBeginDelete(hub.id[1])
    /\ UNCHANGED <<row, updatedAt, alarm, agent, sandbox, requests, fresh, hubCrashes, failed>>

\* purgeInstance or cleanInstance: a purge still running is joined.
HubSend ==
    /\ HubGoto("send", "purge")
    /\ sandbox' = [sandbox EXCEPT ![hub.id[1]] = IF @ = "gone" THEN @ ELSE "purging"]
    /\ UNCHANGED <<row, updatedAt, alarm, agent, coord, requests, fresh, hubCrashes, failed>>

HubPurged ==
    /\ HubGoto("purge", "mark")
    /\ sandbox[hub.id[1]] = "gone"
    /\ UNCHANGED <<row, updatedAt, alarm, others, requests, fresh, hubCrashes, failed>>

\* The host has not let go of the container: 'termination_pending'.
HubTerminationPending ==
    /\ HubGoto("purge", "defer")
    /\ sandbox[hub.id[1]] = "there"
    /\ UNCHANGED <<row, updatedAt, alarm, others, requests, fresh, hubCrashes, failed>>

\* Mutant: time is up, so it must be done.
HubTimeoutFinishes ==
    /\ HubGoto("purge", "mark")
    /\ sandbox[hub.id[1]] = "purging"
    /\ UNCHANGED <<row, updatedAt, alarm, others, requests, fresh, hubCrashes, failed>>

\* DELETE_ATTEMPT_TIMEOUT_MS: the attempt gives up, the purge goes on.
HubTimeout ==
    /\ HubGoto("purge", "defer")
    /\ sandbox[hub.id[1]] = "purging"
    /\ UNCHANGED <<row, updatedAt, alarm, others, requests, fresh, hubCrashes, failed>>

HubMarkDeleted ==
    /\ HubGoto("mark", "finish")
    /\ coord' = [coord EXCEPT ![hub.id[1]] = "uninitialized"]
    /\ UNCHANGED <<row, updatedAt, alarm, agent, sandbox, requests, fresh, hubCrashes, failed>>

\* finishDelete and finishClean
HubFinish ==
    /\ HubGoto("finish", "check")
    /\ row' = IF ~FencedOn(hub.id[1], hub.op) THEN row
              ELSE [row EXCEPT ![hub.id[1]].lifecycle =
                                    IF hub.kind = "delete" THEN "absent" ELSE "cleaned",
                               ![hub.id[1]].op = NoOp]
    /\ UNCHANGED <<updatedAt, alarm, others, requests, fresh, hubCrashes, failed>>

\* Mutant: a deferred row keeps its place.
HubDeferInPlace ==
    /\ HubGoto("defer", "check")
    /\ UNCHANGED <<row, updatedAt, alarm, others, requests, fresh, hubCrashes, failed>>

\* deferDelete: the claim stands, but the row goes to the back of the queue.
HubDefer ==
    /\ HubGoto("defer", "check")
    /\ IF FencedOn(hub.id[1], hub.op) THEN Bump(hub.id[1]) ELSE UNCHANGED updatedAt
    /\ UNCHANGED <<row, alarm, others, requests, fresh, hubCrashes, failed>>

\* A call of the attempt throws.
HubThrow ==
    /\ \E from \in {"agent", "close", "send", "purge", "mark", "finish"} : HubGoto(from, "fail")
    /\ UNCHANGED <<row, updatedAt, alarm, others, requests, fresh, hubCrashes, failed>>

\* markDeleteFailed and markCleanFailed: the operation id stays on the row; only
\* a failed deletion counts as activity.
HubFail ==
    /\ HubGoto("fail", "check")
    /\ IF FencedOn(hub.id[1], hub.op)
       THEN /\ row' = [row EXCEPT ![hub.id[1]].lifecycle =
                            IF hub.kind = "delete" THEN "delete_failed" ELSE "clean_failed"]
            /\ IF hub.kind = "delete" THEN Bump(hub.id[1]) ELSE UNCHANGED updatedAt
       ELSE UNCHANGED <<row, updatedAt>>
    /\ UNCHANGED <<alarm, others, requests, fresh, hubCrashes, failed>>

\* hasPendingDeletion, then hasPendingCleanup
HubCheck ==
    /\ hub.at = "check"
    /\ IF Pending("deleting") # {}
       THEN alarm' = TRUE /\ hub' = NoHub
       ELSE alarm' = alarm /\ hub' = [NoHub EXCEPT !.at = "checkClean"]
    /\ UNCHANGED <<row, updatedAt, others, requests, fresh, hubCrashes, failed>>

HubCheckCleanup ==
    /\ hub.at = "checkClean"
    /\ alarm' = (alarm \/ Pending("cleaning") # {})
    /\ hub' = NoHub
    /\ UNCHANGED <<row, updatedAt, others, requests, fresh, hubCrashes, failed>>

\* The handler is interrupted, or a D1 statement outside the attempt throws: the
\* runtime delivers the alarm again.
HubCrash ==
    /\ hub.at # "none"
    /\ hubCrashes < MaxHubCrashes
    /\ hubCrashes' = hubCrashes + 1
    /\ hub' = NoHub
    /\ alarm' = TRUE
    /\ UNCHANGED <<row, updatedAt, others, requests, fresh, failed>>

\* The Sandbox ends the purge, or stays with a container that is not gone yet.
SandboxEnds(s) ==
    /\ sandbox[s] = "purging"
    /\ \E end \in {"gone", "there"} : sandbox' = [sandbox EXCEPT ![s] = end]
    /\ UNCHANGED <<row, updatedAt, alarm, hub, agent, coord, requests, fresh, hubCrashes, failed>>

-----------------------------------------------------------------------------
Init ==
    /\ row = [s \in Sessions |-> [lifecycle |-> "ready", op |-> NoOp, busy |-> TRUE]]
    /\ updatedAt \in [Sessions -> 1 .. Cardinality(Sessions)]
    /\ \A s, t \in Sessions : updatedAt[s] = updatedAt[t] => s = t
    /\ alarm = FALSE
    /\ hub = NoHub
    /\ agent = [s \in Sessions |-> IF s \in Initialized THEN "quiet" ELSE "pending"]
    /\ coord = [s \in Sessions |-> IF s \in Initialized THEN "open" ELSE "uninitialized"]
    /\ sandbox = [s \in Sessions |-> "there"]
    /\ del = [s \in Sessions |-> "none"]
    /\ sweep = NoSweep
    /\ prompt = [s \in Sessions |-> "none"]
    /\ dispatch = [s \in Sessions |-> FALSE]
    /\ fresh = 0
    /\ hubCrashes = 0
    /\ failed = FALSE

DeleteStep(s) == DeleteClaim(s) \/ DeletePoke(s) \/ DeleteClose(s)

SweepStep == SweepClose \/ SweepPoke \/ \E s \in Sessions : SweepClaim(s)

PromptStep(s) == PromptQueue(s) \/ PromptReport(s) \/ DispatchBegin(s) \/ DispatchWake(s)

HubStep ==
    \/ HubFire \/ HubNextDeletion \/ HubNextCleanup \/ HubClearAgent \/ HubClose \/ HubSend
    \/ HubPurged \/ HubTerminationPending \/ HubTimeout \/ HubMarkDeleted \/ HubFinish
    \/ HubDefer \/ HubFail \/ HubCheck \/ HubCheckCleanup

Next ==
    \/ \E s \in Sessions :
          \/ DeleteSession(s) \/ DeleteInstance(s) \/ DeleteStep(s) \/ DeleteDies(s)
          \/ PromptCheck(s) \/ PromptStep(s) \/ GrowIdle(s) \/ SandboxEnds(s)
    \/ SweepScan \/ SweepStep \/ SweepDies
    \/ HubStep \/ HubThrow \/ HubCrash

\* Alarms are delivered and every await settles, the purge's thanks to its
\* timeout.  Nothing says that a purge ever succeeds.
Fairness ==
    /\ WF_vars(HubStep)
    /\ WF_vars(SweepStep)
    /\ \A s \in Sessions : WF_vars(DeleteStep(s)) /\ WF_vars(PromptStep(s))

Spec == Init /\ [][Next]_vars /\ Fairness

-----------------------------------------------------------------------------
\* Properties

\* Every variable keeps the shape the code gives it.
TypeOK ==
    /\ row \in [Sessions -> Row]
    /\ updatedAt \in [Sessions -> 1 .. Cardinality(Sessions)]
    /\ alarm \in BOOLEAN
    /\ hub.at \in HubStages
    /\ hub.at \notin {"none", "next", "nextClean", "check", "checkClean"} => hub.id # <<>>
    /\ agent \in [Sessions -> {"quiet", "pending", "deleted"}]
    /\ coord \in [Sessions -> {"uninitialized", "open", "deleting"}]
    /\ sandbox \in [Sessions -> {"there", "purging", "gone"}]

\* A claimed row is never stranded: the Hub's alarm is set or being handled, or
\* the request that claimed it has yet to poke (Hub's constructor: "A crash
\* between the D1 claim and the poke would otherwise strand a queued deletion").
ClaimsAttended ==
    (\E s \in Sessions : Claimed(s)) =>
        \/ alarm
        \/ hub.at # "none"
        \/ sweep.claimed
        \/ \E s \in Sessions : del[s] = "poke"

\* As long as no request has died, no claim is stranded: the Hub never goes to
\* rest over one, however a claim and its poke fall between the queries that end
\* its handler.
PokedClaimsAttended == ~failed => ClaimsAttended

\* A deletion somebody asked for ends only with the attempt made for that very
\* operation: a cleanup or an earlier attempt that comes back late leaves it
\* alone (fencedOn).
DeletionEndsWithItsAttempt ==
    [][\A s \in Sessions :
          row[s].lifecycle = "deleting" /\ row'[s].lifecycle # "deleting" =>
              hub.kind = "delete" /\ hub.id = <<s>> /\ hub.op = row[s].op]_vars

\* A row disappears, or is marked cleaned, only when its container and snapshots
\* are gone: after a timeout the purge may still be running or fail.  A cleaned
\* one is besides "structurally unresumable" (cleanNext): no agent is left that
\* would take another prompt or dispatch one it holds.
ReleasedWhenPurged ==
    \A s \in Sessions :
        /\ row[s].lifecycle \in {"absent", "cleaned"} => sandbox[s] = "gone"
        /\ row[s].lifecycle = "cleaned" => agent[s] = "deleted"

\* A queued deletion is attempted, however often the ones before it in the queue
\* are deferred.
DeletionsAttempted ==
    \A s \in Sessions :
        ClaimedFor(s, "deleting") ~>
            (hub.kind = "delete" /\ hub.id = <<s>>) \/ ~ClaimedFor(s, "deleting")

=============================================================================
