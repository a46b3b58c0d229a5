--------------------------- MODULE SessionConsole ---------------------------
(***************************************************************************)
(* The session routes of the Worker (src/src/api-sessions.ts) over one     *)
(* session: the registry row in D1 (hub-store.ts, hub-rows.ts), the cache  *)
(* of the runtime status on that row (session-runtime-cache.ts), and the   *)
(* objects the routes ask: the SessionAgent, the coordinator, the Sandbox  *)
(* and the transcript mirror in R2.                                        *)
(*                                                                         *)
(* A route is a request with a stage.  Every await is a point where other  *)
(* requests, the agent, the coordinator and the container take their       *)
(* steps, so what a request carries in "rec" (the row it read first), in   *)
(* "epoch" and in "read" may be stale when it is used.  D1 statements are  *)
(* atomic and each one is a step.  The coordinator mirrors every change of *)
(* its public lifecycle onto the row in a separate call that may land late *)
(* or never.                                                               *)
(***************************************************************************)
EXTENDS Naturals, FiniteSets

CONSTANTS
    Clients,      \* concurrent requests
    HandTitles,   \* titles a human may give
    Budgets       \* bounds: a behaviour is given one of these (see Budget)

AwakeRoutes == {"abort", "answer", "files"}
PassiveRoutes == {"transcript", "child", "questions", "events"}
WriteRoutes == {"ack", "rename", "pin", "unread", "clear"}
IntentRoutes == {"send", "wake", "retry"}
Routes == AwakeRoutes \cup PassiveRoutes \cup WriteRoutes \cup IntentRoutes
            \cup {"view", "list", "delete"}

(***************************************************************************)
(* A budget names the routes a behaviour calls and bounds its requests,    *)
(* unread marks, changes of the public lifecycle, failed calls, mirror     *)
(* writes under way at once, title syncs, lost workspaces and cleanups.    *)
(* "settled" starts it on a session that has worked, and "awake" on one of *)
(* those whose container still runs.                                       *)
(***************************************************************************)
Budget == [settled : BOOLEAN, awake : BOOLEAN, routes : SUBSET Routes, requests : Nat, marks : Nat, turns : Nat,
           faults : Nat, late : Nat, syncs : Nat, losses : Nat, cleans : Nat]

ASSUME ConsoleAssumption ==
    /\ IsFiniteSet(Clients) /\ HandTitles \cap {"prompt", "auto"} = {}
    /\ Budgets \subseteq Budget /\ \A b \in Budgets : b.awake => b.settled

VARIABLES
    agent,    \* the SessionAgent's durable state: phase and conversation
    row,      \* the sessions row
    rt,       \* the coordinator's public lifecycle, epoch and change count
    pushes,   \* mirror writes of the coordinator that have not landed
    made,     \* conversations created in the container
    lostConv, \* conversation the Sandbox reports lost, 0 for none
    mirror,   \* conversation of the transcript object in R2, 0 for none
    page,     \* unread mark on screen and the one already acknowledged
    reqs,     \* the requests in flight
    missed,   \* a cache write was lost or landed after a newer one
    left      \* what is left of the budget

vars == <<agent, row, rt, pushes, made, lostConv, mirror, page, reqs, missed, left>>

-----------------------------------------------------------------------------
(* Shapes.                                                                 *)

Phases == {"queued", "starting", "working", "failed", "lost"}
Running == {"busy", "idle"}
Lifecycles == Running \cup {"sleeping", "waking", "quiescing", "error"}
CleanedLifecycles == {"cleaning", "cleaned", "clean_failed"}
Convs == 0 .. 2

\* The columns the routes read or write; lc "none" is a row never observed.
Row == [exists : BOOLEAN, lifecycle : {"ready", "deleting", "delete_failed"} \cup CleanedLifecycles,
        phase : Phases, conv : Convs, title : HandTitles \cup {"prompt", "auto"},
        locked : BOOLEAN, unread : Nat, pinned : BOOLEAN,
        lc : Lifecycles \cup {"none"}, query : BOOLEAN, seq : Nat]

NoRow == [exists |-> FALSE, lifecycle |-> "ready", phase |-> "queued", conv |-> 0,
          title |-> "prompt", locked |-> FALSE, unread |-> 0, pinned |-> FALSE,
          lc |-> "none", query |-> TRUE, seq |-> 0]

\* What a request keeps of the row it read first.
Projection(r) == [phase |-> r.phase, conv |-> r.conv, unread |-> r.unread]
Free == [route |-> "view", at |-> "free", arg |-> 0, rec |-> Projection(NoRow),
         epoch |-> 0, read |-> "none", seq |-> 0, slept |-> FALSE,
         out |-> "none", conv |-> 0]

-----------------------------------------------------------------------------
(* Pure helpers of sessions.ts.                                            *)

IsCleanedLifecycle(l) == l \in CleanedLifecycles

RuntimeLifecycleNeedsStatusQuery(lc) == lc \notin {"idle", "sleeping"}

SessionNeedsLiveStatusQuery(r) ==
    /\ r.lifecycle = "ready"
    /\ \/ r.phase \in {"queued", "starting"}
       \/ r.lc = "none"
       \/ r.query

-----------------------------------------------------------------------------
(* The statements of hub-store.ts and session-runtime-cache.ts: an UPDATE  *)
(* of a row that is not there does nothing.                                *)

On(r, new) == IF r.exists THEN new ELSE r

InsertSessionRow(r) ==
    IF r.exists THEN r
    ELSE [NoRow EXCEPT !.exists = TRUE, !.phase = agent.phase]

\* reportToHub: phase, conversation; an absent conversation keeps the column.
UpdateSession(r, phase, conv) ==
    On(r, [r EXCEPT !.phase = phase, !.conv = IF conv = 0 THEN @ ELSE conv])

\* The automatic title only lands while the title is not locked.
UpdateTitle(r, title) ==
    On(r, [r EXCEPT !.title = IF r.locked THEN @ ELSE title])

RenameSession(r, title) == On(r, [r EXCEPT !.title = title, !.locked = TRUE])

MarkSessionUnread(r, at) == On(r, [r EXCEPT !.unread = IF @ = 0 THEN at ELSE @])

MarkSessionRead(r, seenAt) ==
    On(r, [r EXCEPT !.unread = IF @ = seenAt THEN 0 ELSE @])

ClearSessionUnread(r) == On(r, [r EXCEPT !.unread = 0])

SetSessionPinned(r, pinned) == On(r, [r EXCEPT !.pinned = pinned])

MarkSessionStatusQuery(r) == On(r, [r EXCEPT !.query = TRUE])

\* seq orders the observations; the code keeps no such order.
PatchSessionRuntimeStatus(r, lc, seq) ==
    On(r, [r EXCEPT !.lc = lc, !.seq = seq,
                    !.query = RuntimeLifecycleNeedsStatusQuery(lc)])

BeginDelete(r) == On(r, [r EXCEPT !.lifecycle = "deleting"])

\* Lookback for the checker: did this cache write undo a newer one?
MissedBy(r, seq) ==
    IF ~r.exists THEN missed
    ELSE IF seq < r.seq THEN TRUE
    ELSE IF seq = rt.seq THEN FALSE ELSE missed

-----------------------------------------------------------------------------
(* The coordinator, the container and the SessionAgent, as the routes see  *)
(* them (their own modules are LifecycleCoordinator, SandboxRuntime and    *)
(* SessionAgent).                                                          *)

\* Every request in flight while nothing runs has, at some point, met that.
Slept(asleep) ==
    reqs' = [c \in Clients |-> [reqs[c] EXCEPT
                !.slept = @ \/ (asleep /\ reqs[c].at # "free")]]

MaybeSyncSettledOnly(lc) ==
    IF lc \in {"idle", "sleeping"} THEN pushes \cup {[lc |-> lc, seq |-> rt.seq + 1]}
    ELSE pushes

\* A public lifecycle that changes is sent to the row, once.
MaybeSyncRuntimeCache(lc) == pushes \cup {[lc |-> lc, seq |-> rt.seq + 1]}

Turned(lc) ==
    /\ left.turns > 0 /\ Cardinality(pushes) < left.late
    /\ left' = [left EXCEPT !.turns = @ - 1]
    /\ rt' = [lc |-> lc, seq |-> rt.seq + 1,
              epoch |-> IF lc = "waking" THEN rt.epoch + 1 ELSE rt.epoch]
    /\ pushes' = MaybeSyncRuntimeCache(lc)

Turn(lc) ==
    /\ <<rt.lc, lc>> \in {<<"waking", "busy">>, <<"waking", "error">>, <<"busy", "idle">>,
                          <<"idle", "busy">>, <<"busy", "error">>, <<"error", "busy">>,
                          <<"idle", "quiescing">>, <<"error", "quiescing">>,
                          <<"quiescing", "sleeping">>}
    /\ Turned(lc)
    /\ Slept(lc \notin Running)
    \* a container that comes back without its workspace has lost that one
    /\ lostConv' \in IF lc = "busy" /\ rt.lc = "waking" /\ left.losses > 0
                     THEN {lostConv, made} ELSE {lostConv}
    /\ UNCHANGED <<agent, row, made, mirror, page, missed>>

\* The Sandbox exports the conversation it was told of last.
ExportTranscript ==
    /\ rt.lc \in Running \cup {"quiescing"} /\ mirror' = made
    /\ UNCHANGED <<agent, row, rt, pushes, made, lostConv, page, reqs, missed, left>>

PushLands(p) ==
    /\ pushes' = pushes \ {p}
    /\ row' = PatchSessionRuntimeStatus(row, p.lc, p.seq)
    /\ missed' = MissedBy(row, p.seq)
    /\ UNCHANGED <<agent, rt, made, lostConv, mirror, page, reqs, left>>

PushFails(p) ==
    /\ left.faults > 0
    /\ left' = [left EXCEPT !.faults = @ - 1]
    /\ pushes' = pushes \ {p}
    /\ missed' = TRUE
    /\ UNCHANGED <<agent, row, rt, made, lostConv, mirror, page, reqs>>

\* The create route: one durable write in the agent, and a view made of it.
CreateSession ==
    /\ agent.phase = "none"
    /\ agent' = [agent EXCEPT !.phase = "queued"]
    /\ UNCHANGED <<row, rt, pushes, made, lostConv, mirror, page, reqs, missed, left>>

\* ensureRegistered answers for a session its agent still holds.
Known == agent.phase \notin {"none", "deleted"}

Registers ==
    /\ Known /\ ~agent.registered
    /\ row' = InsertSessionRow(row)
    /\ agent' = [agent EXCEPT !.registered = TRUE]

AgentRegisters ==
    /\ Registers
    /\ UNCHANGED <<rt, pushes, made, lostConv, mirror, page, reqs, missed, left>>

\* update(): the agent's state and its report to the row.
AgentUpdate(phase, conv) ==
    /\ agent' = [agent EXCEPT !.phase = phase, !.conv = conv]
    /\ row' = UpdateSession(row, phase, conv)

Dispatch ==
    /\ agent.registered
    /\ \/ /\ agent.phase = "queued" /\ AgentUpdate("starting", agent.conv)
          /\ UNCHANGED <<rt, pushes, made, reqs, left>>
       \/ /\ agent.phase = "starting" /\ rt.lc = "sleeping" /\ Turned("waking")
          /\ Slept(TRUE) /\ UNCHANGED <<agent, row, made>>
       \/ /\ agent.phase = "starting" /\ rt.lc \in Running /\ agent.conv = 0 /\ made < 2
          /\ made' = made + 1
          /\ \/ /\ AgentUpdate("starting", made + 1)
                /\ UNCHANGED left
             \/ /\ left.faults > 0 /\ left' = [left EXCEPT !.faults = @ - 1]
                /\ UNCHANGED <<agent, row>>      \* the reply was lost
          /\ UNCHANGED <<rt, pushes, reqs>>
       \/ /\ agent.phase = "starting" /\ rt.lc \in Running /\ agent.conv # 0
          /\ AgentUpdate("working", agent.conv)
          /\ UNCHANGED <<rt, pushes, made, reqs, left>>
    /\ UNCHANGED <<lostConv, mirror, page, missed>>

\* A dispatch that failed for good is a stop somebody has to look at.
DispatchFails ==
    /\ agent.phase = "starting" /\ left.marks > 0
    /\ agent' = [agent EXCEPT !.phase = "failed"]
    /\ row' = MarkSessionUnread(UpdateSession(row, "failed", agent.conv), left.marks)
    /\ left' = [left EXCEPT !.marks = @ - 1]
    /\ UNCHANGED <<rt, pushes, made, lostConv, mirror, page, reqs, missed>>

\* The Sandbox saw the agent stop, or ask.
NoteSessionUnread ==
    /\ left.marks > 0 /\ rt.lc \in Running
    /\ row' = MarkSessionUnread(row, left.marks)
    /\ left' = [left EXCEPT !.marks = @ - 1]
    /\ UNCHANGED <<agent, rt, pushes, made, lostConv, mirror, page, reqs, missed>>

\* The Sandbox syncs the title OpenCode gave the conversation.
SyncTitle ==
    /\ rt.lc \in Running /\ left.syncs > 0
    /\ left' = [left EXCEPT !.syncs = @ - 1]
    /\ row' = UpdateTitle(row, "auto")
    /\ UNCHANGED <<agent, rt, pushes, made, lostConv, mirror, page, reqs, missed>>

\* The Hub removes a deleted row, or claims an idle one and cleans it.
HubFinishes ==
    /\ row.exists
    /\ \/ row.lifecycle = "deleting" /\ row' = NoRow
       \/ row.lifecycle = "deleting" /\ row' = [row EXCEPT !.lifecycle = "delete_failed"]
       \/ /\ left.cleans > 0 /\ row.lifecycle = "ready" /\ row.phase \notin {"queued", "starting"}
          /\ row.lc \in {"idle", "sleeping", "error"}
          /\ row' = [row EXCEPT !.lifecycle = "cleaning"]
       \/ row.lifecycle = "cleaning" /\ row' = [row EXCEPT !.lifecycle = "cleaned"]
    /\ UNCHANGED <<agent, rt, pushes, made, lostConv, mirror, page, reqs, missed, left>>

-----------------------------------------------------------------------------
(* Requests.                                                               *)

Asleep == rt.lc \notin Running

Begin(c, route, arg) ==
    /\ reqs[c].at = "free" /\ agent.phase # "none"
    /\ left.requests > 0
    /\ left' = [left EXCEPT !.requests = @ - 1]
    /\ reqs' = [reqs EXCEPT ![c] = [Free EXCEPT !.route = route, !.arg = arg,
                    !.at = IF route = "list" THEN "list" ELSE "session",
                    !.slept = Asleep]]

\* The session page posts each unread mark it shows once.
Arrive(c) ==
    \/ /\ \E route \in left.routes \ {"ack", "rename"} : Begin(c, route, 0)
       /\ UNCHANGED page
    \/ /\ "rename" \in left.routes /\ \E title \in HandTitles : Begin(c, "rename", title)
       /\ UNCHANGED page
    \/ /\ "ack" \in left.routes /\ page.seen \notin {0, page.acked} /\ Begin(c, "ack", page.seen)
       /\ page' = [page EXCEPT !.acked = page.seen]

Go(c, at) == reqs' = [reqs EXCEPT ![c].at = at]
Answer(c, out) == reqs' = [reqs EXCEPT ![c].at = "done", ![c].out = out]
AnswerFrom(c, out, conv) ==
    reqs' = [reqs EXCEPT ![c].at = "done", ![c].out = out, ![c].conv = conv]

FirstStage(route) ==
    CASE route = "view" -> "status"
      [] route = "delete" -> "delete"
      [] route \in WriteRoutes -> "write"
      [] route \in IntentRoutes -> "instance"
      [] OTHER -> "ready"

\* requireSession: a session its agent knows registers on first contact.
RequireSession(c) ==
    /\ reqs[c].at = "session"
    /\ \/ /\ row.exists
          /\ reqs' = [reqs EXCEPT ![c].rec = Projection(row),
                                  ![c].at = FirstStage(reqs[c].route)]
          /\ UNCHANGED <<agent, row>>
       \/ /\ ~row.exists /\ Registers
          /\ reqs' = [reqs EXCEPT ![c].rec = Projection(row'),
                                  ![c].at = FirstStage(reqs[c].route)]
       \/ ~row.exists /\ ~(Known /\ ~agent.registered) /\ Answer(c, "404")
          /\ UNCHANGED <<agent, row>>

\* After an intent the handler reads the row again and answers with its view.
RequireAgain(c) ==
    /\ reqs[c].at = "again"
    /\ IF row.exists
       THEN reqs' = [reqs EXCEPT ![c].rec = Projection(row), ![c].at = "status"]
       ELSE Answer(c, "404")

\* The list serves a settled row from the cache.
GetSessionListView(c) ==
    /\ reqs[c].at = "list"
    /\ reqs' = [reqs EXCEPT ![c].rec = Projection(row),
                  ![c].at = IF row.exists /\ SessionNeedsLiveStatusQuery(row)
                            THEN "status" ELSE "done",
                  ![c].out = IF ~row.exists THEN "absent"
                             ELSE IF SessionNeedsLiveStatusQuery(row) THEN @ ELSE "cached"]

\* getInstanceView: ask the coordinator, unless the row says not to.
GetInstanceView(c) ==
    /\ reqs[c].at = "status"
    /\ LET Reads(lc) == reqs' = [reqs EXCEPT ![c].read = lc, ![c].seq = rt.seq,
                                             ![c].at = "lost"]
       IN \/ /\ ~row.exists \/ row.lifecycle # "ready"
             /\ Answer(c, IF row.exists /\ IsCleanedLifecycle(row.lifecycle)
                          THEN "cleaned" ELSE "deleting")
             /\ UNCHANGED left
          \/ /\ row.exists /\ row.lifecycle = "ready"
             /\ Reads(rt.lc) /\ UNCHANGED left
          \/ /\ row.exists /\ row.lifecycle = "ready" /\ left.faults > 0
             /\ Reads("error") /\ left' = [left EXCEPT !.faults = @ - 1]

\* A loss the container reported outranks what the record says.
MarkSessionLost(c) ==
    /\ reqs[c].at = "lost" /\ Go(c, "patch")
    /\ IF /\ reqs[c].rec.phase # "lost" /\ reqs[c].read # "error"
          /\ reqs[c].rec.conv # 0 /\ lostConv = reqs[c].rec.conv
       THEN IF Known /\ agent.phase # "lost"
            THEN /\ left.marks > 0 /\ left' = [left EXCEPT !.marks = @ - 1]
                 /\ agent' = [agent EXCEPT !.phase = "lost"]
                 /\ row' = MarkSessionUnread(UpdateSession(row, "lost", 0), left.marks)
            ELSE row' = UpdateSession(row, "lost", 0) /\ UNCHANGED <<agent, left>>
       ELSE UNCHANGED <<agent, row, left>>

\* getSessionView: mirror what was read onto the row, then answer.
CacheStatus(c) ==
    /\ reqs[c].at = "patch"
    /\ row' = PatchSessionRuntimeStatus(row, reqs[c].read, reqs[c].seq)
    /\ missed' = MissedBy(row, reqs[c].seq)
    /\ Answer(c, reqs[c].read)

\* The registry edits: acknowledgeSessionRead and patchSession.
WriteRow(c) ==
    /\ reqs[c].at = "write"
    /\ LET r == reqs[c] IN
       \/ /\ r.route = "ack" /\ row' = MarkSessionRead(row, r.arg)
          /\ Answer(c, "ok") /\ UNCHANGED left
       \/ /\ r.route = "rename" /\ row' = RenameSession(row, r.arg)
          /\ Go(c, "again") /\ UNCHANGED left
       \/ /\ r.route = "pin" /\ row' = SetSessionPinned(row, ~row.pinned)
          /\ Go(c, "again") /\ UNCHANGED left
       \/ /\ r.route = "clear" /\ row' = ClearSessionUnread(row)
          /\ Go(c, "again") /\ UNCHANGED left
       \/ /\ r.route = "unread" /\ left.marks > 0
          /\ row' = MarkSessionUnread(row, left.marks)
          /\ left' = [left EXCEPT !.marks = @ - 1]
          /\ Go(c, "again")

\* send, wake and retry: the record's phase, then the row as it is now.
CheckInstance(c) ==
    /\ reqs[c].at = "instance"
    /\ IF \/ reqs[c].rec.phase = "lost"
          \/ row.exists /\ IsCleanedLifecycle(row.lifecycle)
          \/ reqs[c].route # "retry" /\ (~row.exists \/ row.lifecycle # "ready")
       THEN Answer(c, "409")
       ELSE Go(c, "act")

\* queuePrompt and retrySession report to the row and set its query flag.
SendOrRetry(c) ==
    /\ reqs[c].at = "act" /\ reqs[c].route \in {"send", "retry"}
    /\ \/ /\ Known /\ agent.phase # "lost"
          /\ agent' = [agent EXCEPT !.phase = "queued"]
          /\ row' = MarkSessionStatusQuery(UpdateSession(row, "queued", agent.conv))
          /\ Go(c, IF reqs[c].route = "send" THEN "mark" ELSE "again")
       \/ /\ agent.phase = "lost" /\ reqs[c].route = "retry" /\ Go(c, "again")
          /\ UNCHANGED <<agent, row>>
       \/ /\ ~Known \/ (agent.phase = "lost" /\ reqs[c].route = "send")
          /\ Answer(c, "500") /\ UNCHANGED <<agent, row>>

\* wakeSession: ask for the wake, wait for it, or answer 503.
WakeSession(c) ==
    /\ reqs[c].at = "act" /\ reqs[c].route = "wake"
    /\ \/ /\ rt.lc = "sleeping" /\ Turned("waking")
          /\ reqs' = [d \in Clients |-> [reqs[d] EXCEPT
                        !.slept = @ \/ reqs[d].at # "free"]]
       \/ rt.lc \in Running /\ Go(c, "mark") /\ UNCHANGED <<rt, pushes, left>>
       \/ ~(rt.lc \in Running) /\ Answer(c, "503") /\ UNCHANGED <<rt, pushes, left>>

\* What an act that succeeded leaves on the row.
MarkRow(c) ==
    /\ reqs[c].at = "mark"
    /\ row' = IF reqs[c].route \in {"send", "answer"} THEN ClearSessionUnread(row)
              ELSE MarkSessionStatusQuery(row)
    /\ IF reqs[c].route = "answer" THEN Answer(c, "ok") ELSE Go(c, "again")

\* The row every read needs: ready, or the route's word for asleep.
CheckReady(c) ==
    /\ reqs[c].at = "ready"
    /\ LET r == reqs[c]
           untargeted == r.route \in {"transcript", "events"} /\ r.rec.conv = 0
       IN IF untargeted THEN Answer(c, "pending")
          ELSE IF r.route = "abort" /\ r.rec.conv = 0 THEN Answer(c, "409")
          ELSE IF row.exists /\ row.lifecycle = "ready" THEN Go(c, "epoch")
          ELSE IF r.route \in AwakeRoutes THEN Answer(c, "409")
          ELSE reqs' = [reqs EXCEPT ![c].at = "asleep", ![c].slept = TRUE]

\* resolveRunningRuntimeEpoch: a coordinator that cannot be read counts as
\* asleep, and never wakes.
ResolveRunningRuntimeEpoch(c) ==
    /\ reqs[c].at = "epoch"
    /\ \/ /\ rt.lc \in Running
          /\ reqs' = [reqs EXCEPT ![c].epoch = rt.epoch, ![c].at = "call"]
          /\ UNCHANGED left
       \/ /\ \/ rt.lc \notin Running /\ UNCHANGED left
             \/ /\ left.faults > 0
                /\ left' = [left EXCEPT !.faults = @ - 1]
          /\ IF reqs[c].route \in AwakeRoutes THEN Answer(c, "409")
             ELSE reqs' = [reqs EXCEPT ![c].at = "asleep", ![c].slept = TRUE]

\* The Sandbox only serves the generation the route resolved.
CallSandbox(c) ==
    /\ reqs[c].at = "call"
    /\ LET r == reqs[c] IN
       \/ /\ rt.lc \in Running /\ rt.epoch = r.epoch
          /\ IF r.route \in {"abort", "answer"} THEN Go(c, "mark")
             ELSE AnswerFrom(c, "live", IF r.route = "transcript" THEN r.rec.conv ELSE 0)
          /\ UNCHANGED left
       \/ /\ \/ ~(rt.lc \in Running /\ rt.epoch = r.epoch) /\ UNCHANGED left
             \/ /\ left.faults > 0
                /\ left' = [left EXCEPT !.faults = @ - 1]
          /\ IF r.route \in AwakeRoutes THEN Answer(c, "500") ELSE Go(c, "gone")

\* isRuntimeGoneError: a generation that ended is asleep, anything else is
\* an error, which a transcript answers from the mirror all the same.
IsRuntimeGoneError(c) == ~(rt.lc \in Running /\ rt.epoch = reqs[c].epoch)

SettleFailure(c) ==
    /\ reqs[c].at = "gone"
    /\ IF IsRuntimeGoneError(c) THEN Go(c, "asleep")
       ELSE IF reqs[c].route = "transcript" THEN Go(c, "mirror")
       ELSE Answer(c, "error")

ReadTranscriptMirror(c) == mirror

\* The mirror is only this session's history if it names its conversation.
ReadTranscriptMirrorFor(c) == IF mirror = reqs[c].rec.conv THEN mirror ELSE 0

AnswerAsleep(c) ==
    /\ reqs[c].at \in {"asleep", "mirror"}
    /\ AnswerFrom(c, IF reqs[c].at = "asleep" THEN "sleeping" ELSE "error",
                  IF reqs[c].route = "transcript" THEN ReadTranscriptMirrorFor(c) ELSE 0)

\* The delete route clears the agent first.
DeleteSession(c) ==
    /\ reqs[c].at = "delete"
    /\ \/ /\ agent.phase # "deleted"
          /\ agent' = [phase |-> "deleted", conv |-> 0, registered |-> FALSE]
          /\ UNCHANGED <<row, reqs>>
       \/ /\ agent.phase = "deleted"
          /\ row' = BeginDelete(row)
          /\ Answer(c, IF row.exists THEN "202" ELSE "404") /\ UNCHANGED agent

\* The client takes the answer; a view shows its unread mark.
Deliver(c) ==
    /\ reqs[c].at = "done"
    /\ page' = IF reqs[c].route = "view" /\ reqs[c].out \in Lifecycles
               THEN [page EXCEPT !.seen = reqs[c].rec.unread] ELSE page
    /\ reqs' = [reqs EXCEPT ![c] = Free]

-----------------------------------------------------------------------------
RequestStep(c) ==
    \/ Arrive(c) /\ UNCHANGED <<agent, row, rt, pushes, made, lostConv, mirror, missed>>
    \/ MarkSessionLost(c) /\ UNCHANGED <<rt, pushes, made, lostConv, mirror, page, missed>>
    \/ (RequireSession(c) \/ DeleteSession(c) \/ SendOrRetry(c))
         /\ UNCHANGED <<rt, pushes, made, lostConv, mirror, page, missed, left>>
    \/ (GetSessionListView(c) \/ RequireAgain(c) \/ CheckInstance(c) \/ CheckReady(c)
            \/ SettleFailure(c) \/ AnswerAsleep(c))
         /\ UNCHANGED <<agent, row, rt, pushes, made, lostConv, mirror, page, missed, left>>
    \/ (GetInstanceView(c) \/ ResolveRunningRuntimeEpoch(c) \/ CallSandbox(c))
         /\ UNCHANGED <<agent, row, rt, pushes, made, lostConv, mirror, page, missed>>
    \/ CacheStatus(c)
         /\ UNCHANGED <<agent, rt, pushes, made, lostConv, mirror, page, left>>
    \/ WriteRow(c)
         /\ UNCHANGED <<agent, rt, pushes, made, lostConv, mirror, page, missed>>
    \/ WakeSession(c)
         /\ UNCHANGED <<agent, row, made, lostConv, mirror, page, missed>>
    \/ MarkRow(c)
         /\ UNCHANGED <<agent, rt, pushes, made, lostConv, mirror, page, missed, left>>
    \/ Deliver(c)
         /\ UNCHANGED <<agent, row, rt, pushes, made, lostConv, mirror, missed, left>>

Init ==
    /\ left \in Budgets
    /\ rt = [lc |-> IF left.awake THEN "idle" ELSE "sleeping", epoch |-> 0, seq |-> 0]
    /\ \/ /\ ~left.settled
          /\ agent = [phase |-> "none", conv |-> 0, registered |-> FALSE]
          /\ row = NoRow /\ made = 0 /\ mirror = 0
       \/ /\ left.settled
          /\ agent = [phase |-> "working", conv |-> 1, registered |-> TRUE]
          /\ row = [NoRow EXCEPT !.exists = TRUE, !.phase = "working", !.conv = 1,
                                 !.lc = rt.lc, !.query = FALSE]
          /\ made = 1 /\ mirror = 1
    /\ pushes = {} /\ lostConv = 0
    /\ page = [seen |-> 0, acked |-> 0]
    /\ reqs = [c \in Clients |-> Free]
    /\ missed = FALSE

Next ==
    \/ \E lc \in Lifecycles : Turn(lc)
    \/ ExportTranscript
    \/ \E p \in pushes : PushLands(p) \/ PushFails(p)
    \/ CreateSession \/ AgentRegisters \/ Dispatch \/ DispatchFails
    \/ NoteSessionUnread \/ SyncTitle \/ HubFinishes
    \/ \E c \in Clients : RequestStep(c)

Spec == Init /\ [][Next]_vars

-----------------------------------------------------------------------------
(* Properties.                                                             *)

\* Every variable keeps its type; in particular the columns of the row stay
\* within the values rowToSession projects.
TypeOK ==
    /\ agent \in [phase : Phases \cup {"none", "deleted"}, conv : Convs,
                  registered : BOOLEAN]
    /\ row \in Row
    /\ rt.lc \in Lifecycles /\ rt.epoch \in Nat /\ rt.seq \in Nat
    /\ {mirror, made, lostConv} \subseteq Convs
    /\ \A c \in Clients : reqs[c].route \in Routes /\ reqs[c].conv \in Convs

\* The list answers from the cached runtime status without asking anybody
\* (getSessionListView).  It can then be wrong only if the newest mirror
\* write of the coordinator is still on its way, was lost, or was undone by
\* an older one, such as the status a slow view read before the change.
CacheWrongOnlyIfOvertaken ==
    (row.exists /\ row.lifecycle = "ready" /\ ~SessionNeedsLiveStatusQuery(row)
       /\ row.lc # rt.lc)
    => missed \/ \E p \in pushes : p.seq = rt.seq

\* A transcript answer never shows another conversation: neither the mirror
\* of an OpenCode session whose create reply was lost, nor the root's mirror
\* under a subagent's name (readTranscriptMirrorFor, readSessionTranscript).
TranscriptIsOfItsConversation ==
    \A c \in Clients : (reqs[c].at = "done" /\ reqs[c].conv # 0) =>
        reqs[c].route = "transcript" /\ reqs[c].conv = reqs[c].rec.conv

\* "sleeping" is only answered if, at some point of the request, nothing was
\* running, the row was not ready, or the coordinator could not be read: a
\* failed read of a live container is an error, not a sleeping session.
SleepingMeansSlept ==
    \A c \in Clients :
        (reqs[c].at = "done" /\ reqs[c].out = "sleeping" /\ reqs[c].route \in PassiveRoutes)
            => reqs[c].slept

\* A session that was created is found by id until somebody deletes it, the
\* moment before its agent's first alarm included (requireSession).
CreatedIsFound ==
    \A c \in Clients : reqs[c].out = "404" => agent.phase = "deleted"

\* What a route has answered was true of the session it was asked about: the
\* transcript is of its conversation, 'sleeping' was so at some point of the
\* request, and only a deleted session is not found.
AnswersAreTrue == TranscriptIsOfItsConversation /\ SleepingMeansSlept /\ CreatedIsFound
=============================================================================
