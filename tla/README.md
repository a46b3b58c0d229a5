# A TLA+ model of opencode-cloud-agents

opencode-cloud-agents runs one OpenCode server per session, each in a container
of its own, from a Cloudflare Worker. Four Durable Objects and one registry
decide the fate of a session: the **SessionAgent** holds its prompt queue, the
**LifecycleCoordinator** decides when its container wakes and stops, the
**Sandbox** drives the container and keeps its workspace and its transcript, the
**Hub** deletes it, and the D1 **registry** is what all of them and the UI read.
Containers live on a **host**: the Cloudflare host Worker or a Docker machine
with the host agent. The **console** is the Worker's HTTP API and the web page
behind it. These modules model each of them as it is written in `src/`.

What makes this code hard is that a Durable Object is single threaded but not
atomic: storage operations close the object's input gate, every other `await` (an
RPC to another object, a D1 statement, a timer) lets other requests in. The
Worker's routes have not even that, nor has the host agent outside its lock per
session. A handler is a sequence of uninterrupted stretches, and almost every
defect to be afraid of lies in what happens between two of them. An action of
these modules is one such stretch.

## Inventory

| Part | State | Operations | Talks to | What is hard | What makes it correct |
|---|---|---|---|---|---|
| LifecycleCoordinator (`lifecycle.ts`, `lifecycle-policy.ts`) | phase, epoch, revision, leases, idle window, operation, alarm; wake, probe and stop in progress | `initializeInstance`, `wake`, `beginWork`, `renewWork`, `endWork`, `observeExecution`, `reconcileNow`, `forceStop`, `beginDelete`, `markDeleted`, `alarm` | Sandbox, registry | stale answers, joined promises, restarts, time read before an await | nothing is stopped while work is known; nothing is admitted but by a current answer; nothing is forgotten |
| SessionAgent (`session-agent.ts`) | phase, pending and delivered prompts, attempt, alarm; dispatch and registration in progress | `startSession`, `queuePrompt`, `retrySession`, `markLost`, `markDeleted`, `ensureRegistered`, `alarm` | registry, coordinator, container | read-await-write, eviction in mid-dispatch, lost replies, retries | prompts kept, in order, once, eventually; deletion final |
| Hub (`hub.ts`, `hub-store.ts`) | rows claimed for an operation, the Hub's alarm | `beginDelete`, `poke`, `sweepIdleSessions`, `alarm`, `deferDelete`, `finishDelete`, `finishClean`, `mark…Failed` | the objects above, D1 | claims racing prompts, timeouts with a purge still running, dying requests | released only when purged, ended only by its own attempt, never stranded |
| Sandbox (`sandbox.ts`) | runtime gate, mutation lock, request count, backup handles, restore, checkpoint, purge and clean in progress | wake, probe, idle and force stop, restore, checkpoint, purge, clean, requests into the container | host, R2 | drain before stop, interrupted checkpoints, single-flight promises joined and failing, purge against everything | no work is taken down that is in no archive; a workspace comes back as its archive; a purge leaves nothing |
| Transcript mirror (`sandbox.ts`, `transcript-mirror.ts`) | event subscription, timer, dirty flag, chain of exports, mirror in R2, unread marker | follow, coalesce, export, refresh, export of a stop, delete | container, R2, registry | exports that overlap, streams that break, flags cleared too early | complete before the container stops, never back, catches up |
| Host agent (`agent/`) | containers, volumes, port cache, lock per session | ensure, stop, remove, start, proxy, exec, files | Docker | repeated calls, calls behind the lock, containers that die | removed stays removed; one server; everything is answered |
| Host Worker, host client, protocol (`host/`, `host-client.ts`, `protocol/`) | — | the same routes | sandbox SDK | two servers written apart, answers of somebody in between | both answer alike and the client takes no answer for more than it says |
| Registry rows, status cache, session routes (`hub-store.ts`, `hub-rows.ts`, `session-runtime-cache.ts`, `api-sessions.ts`, `api-instances.ts`) | one row per session with a cached runtime status | list, view, transcript and other reads, send, retry, rename, pin, unread, acknowledge, wake, abort, delete | everything | unordered writes, values read before several awaits | answers that were true of the session they name |
| Access (`access.ts`, `password.ts`) | password record, signed-in browsers | setup, sign in and out, change, sweep | D1 | requests between each other's queries | a new password signs everybody out |
| Settings, catalogue (`settings*.ts`, `api-settings.ts`, `model-catalog.ts`, `SettingsPage.tsx`) | environment, hosts, OpenCode config | load a page, save, create a session | D1 | stale pages, secrets not read back | stored settings are usable; secrets survive |
| Provisioning (`container-credentials.ts`, `runtime-ops.ts`) | files of the container, token store, checkout | the steps of a wake | host | wakes that break off, hosts that keep `/root` | the container has what the settings say |
| Session page (`useTranscript.ts`, `optimistic.ts`, `SessionPage.tsx`) and event readers (`session-events.ts`, `session-lineage.ts`, `opencode-activity.ts`) | shown messages, stream, bubbles | read, follow, reconnect, send | routes | reads and stream overtaking each other | the page settles on the conversation |
| Repositories, uploads, workspace views, migrations | D1 and R2 documents | one request each | GitHub, R2, container | — | conversions and I/O |

`PROJECT.json` lists the components with their status and the hazards with the
lines where they bite.

## Modules

A component's module is parameterised by CONSTANTS; the `MC*` modules give TLC
small sets and, where several components share a run, put them side by side. In
`MCPage`, `MCHost` and `MCSettings` the components share no variable, and a
behaviour is about one `topic`: the variables of the others stay as they start,
so the state spaces add up instead of multiplying. `MCConsole` does the same with
budgets: a behaviour is given one set of routes and bounds.

### LifecycleCoordinator

`st` is `StoredLifecycleState` field by field: ids are numbers drawn from `fresh`
(`crypto.randomUUID`), absent timestamps are `Undefined`, absent ids `NoId`; `activeOperation` is `op` with `opType`.
`alarmAt` is the object's alarm. `wakeCall`, `probeCall` and `stopCall` are the
single-flight promises `wakeInProgress`, `probeInProgress`, `stopInProgress`,
with the await they are at and what they captured before it; `stopCallers` counts
the `forceStop` calls between their persist and `continueStop`; `handler` is where
the alarm handler waits, with the `now` it read if it will use it again.

`Persist` is `persistAndSchedule`: it writes the state and moves the alarm. The
write that mirrors the lifecycle to D1 at its end is an await other requests run
in, which is why a call goes through a `mirror` or `settle` stage after each
persist. Promises joined by the alarm handler resume it when they settle
(`HandlerResumes`), and re-arm the alarm only on the paths where the code does.

Left out: an RPC that only returns the status; `lastError` texts; the content of
the mirrored row. The Sandbox answers anything its types allow (`Snapshots`, with
an observation at most `SnapshotLag` old). `observeExecution` and `reconcileNow`
are public but nothing in the repository calls them; the constant `UncalledRpcs`
says whether they happen. `Resurrects` is the `ensureLifecycleInitialized` of a
request that races the deletion. `PromptMirror` keeps the clock still during a
mirror write: `alarm` needs it because a mirror write that outlasts the recovery
interval (30 s) would let an alarm join a promise about to settle.

### SessionAgent

`st` is the stored state without the fields the queue never looks at. `advance`
is the dispatch (`advanceInProgress`) at its await, `register` the registration
in progress with the state it read, `calls` the requests in `queuePrompt` and
`retrySession`. `accepted` is the environment: the prompts the container's
`prompt_async` took, in order. `order`, `deleted` and `mishaps` (an answer was
lost, the conversation was marked lost) are history variables.

`queuePrompt` and `register` both read the state, await, and write a state built
from what they read. `Overlaps` names the awaits other requests may run in. With
both excluded the properties hold; the run `agent_catalog` allows the first and
shows what happens.

### HubDeletion

One row per session with its lifecycle and operation id; `busy` stands for
everything else `cleanupEligible` reads. `updatedAt` is the order of the rows'
last updates. `hub` is the alarm handler with the attempt it works on. The three
objects an attempt goes through appear as what it does to them: `agent` (quiet,
holding a prompt, cleared), `coord` (uninitialized, open, deleting) and `sandbox`
(there, being purged, gone). `failed` remembers that a request has died
or a report was lost, for the properties that only hold while neither has
happened. DELETE requests, the sweep, a prompt and a
dispatch run beside it, each D1 statement or call one action. `RequestsFail` lets
a request die between two of them. A Sandbox has one purge here; SandboxRuntime
has the code's two.

### SandboxRuntime and DurableWorkspace

`gate` is the stored runtime gate, `disk` what else storage holds (backup
handles, the conversation's target, whether it is lost), `mem` the object's memory
of it, `box` the container with the workspace in it, `bucket` the archives in R2.
A workspace is known by the number of the last piece of work in it. Wakes and
stops take turns behind the mutation lock: `at` is the step of the one that holds
it, `lock` the queue. `ops` are the requests into the container, `cp`
the checkpoint, `restore` the restore with those that joined it, `purge` the two
single-flight ends of an instance. The container dies, the object restarts, puts,
deletions and host calls fail. `believed` is `hostRuntime.running`.

`DurableWorkspace` is what a session is promised, in three variables: a workspace
that works on or vanishes, an archive being made, an archive that counts. It only
ever resumes as the archive that counts, and that is never replaced by an older
one. `SandboxRuntime` implements it (`WorkspaceIsDurable`, INSTANCE ... WITH): the
live workspace is the container's once it carries the persistence marker.

`Overlaps` says whether a wake may restore while a manual checkpoint is being
archived. The manual checkpoint holds neither lock nor lease, so it may; the run
`sandbox_marker` shows what then happens to the marker, and the run `sandbox`
excludes it to see everything else.

### TranscriptMirror

The subscription (`live`), the coalescing `timer`, the `chain` of exports, the
`dirty` flag, the `summary` and `observed` flags and the mirror `r2`, beside the
container's conversation `box.conv`. Wakes and stops are SandboxRuntime's,
reduced to where they touch the mirror. `noticed` (messages whose event was read)
and `announced` are history variables.

### HostAgent, HostProtocol

`HostAgent` is the Docker host: containers, volumes, the lock queue of each
session and the port cache; each action is one run of the docker CLI or the step
between two. `HostProtocol` is one exchange: a request, the answer either host
gives for the same container, and what the client makes of each over a wire that
may mangle it. `MCProtocol` lists the exchanges: every client method with good
and bad bodies, over containers in each condition a primitive can tell, and raw
paths. The docker CLI and the sandbox SDK are external.

### SessionConsole

The routes as requests with a stage, over one session: agent, row, coordinator
(`rt`), container and mirror are what the routes can tell of them. `pushes` are
the coordinator's mirror writes under way, which land in any order or never
(`missed`). `reqs[c].rec` is the row a request read first; `slept` remembers
whether the session could be taken for sleeping at some point of it.

### AdminAccess, OperatorSettings, Provisioning

The front door one query at a time; the settings pages and the saves they send,
with the OpenCode config and the sessions pinned to its models; and the calls a
wake makes to put settings, tokens and checkout into a container, on a host that
keeps `/root` and on one that does not. `late`, `raced`, `broken`, `torn`, `left`
and `stale` are history flags: each names an interleaving in which the code does
not keep the property, so that the property is known to hold in all others.

### LivePage, OpencodeReading

The session page with its reads, its event stream and its bubbles; and three
loops over OpenCode's output (splitting the stream, walking the lineage,
aggregating activity), each against its definition over the whole input.

### Proof modules

`LifecycleProofs`, `SessionAgentProofs`, `SandboxProofs`, `TranscriptProofs` and
`ConsoleProofs` extend the module they are about; `HostProofs` extends `HostAgent` and
`HostProtocol`; `OperatorProofs` extends `AdminAccess`, `OperatorSettings` and
`Provisioning`; `PageProofs` extends `HubDeletion`, `LivePage` and `OpencodeReading`,
the modules that the run `page` checks.
What they prove is told under *Proofs*.

`TypeOK` of `LifecycleCoordinator` is checked and proved; in the other modules the
type invariant documents the shape of the variables, and the runs are spent on
the other properties.

## Runs

Bounds are chosen as the smallest at which every action fires and the mutants of
`PROJECT.json` are caught; they are stated in the `.cfg` files with one name each.
Deadlock is not checked: a sleeping instance, an empty queue and an exhausted
bound are places where the system may stop.

| Run | Shows | Bounds |
|---|---|---|
| `lifecycle` | types, leases only while admitting, idle window after work, idle stops earned | 3 ticks, 4 ids (a wake, a lease and a stop), 4 revisions, one lease; all intervals one tick, so every deadline can pass before, with and after every other |
| `alarm` | nothing waking, running or failed is forgotten; admission opens on current answers only | 4 ticks, 6 ids, 5 revisions |
| `agent` | prompts kept, in order, once; deletion final; a queue that needs dispatch is driven; every taken prompt arrives or the session ends (liveness) | two prompts, two requests, one retry rung, a window of one delivered id, three prompts taken, one eviction, one manual retry, lost answers |
| `queue` | queued deletions are attempted (liveness) | two sessions, one deletion each |
| `page` | released when purged, attempts end their own operation, no claim lacks attention while no request died; the page settles on the conversation, bubbles are honest; the readers compute what they should | one session, three operations, one Hub crash, dying requests; two prompts and three changes of the conversation, or three of changes, wakes, breaks and refreshes where the stream breaks; every stream of up to six bytes in whatever chunks, every tree of three subagents, two locations with every answer |
| `sandbox` | latest archive exists, idle stops keep the work, wakes open over the restored workspace, a purge leaves nothing, nobody waits in vain; DurableWorkspace is implemented | one request, three wakes and stops, two archives, one fault, one purge or clean, hosts with and without snapshots |
| `transcript` | the export of an idle stop is complete, what was noticed is remembered and announced, the mirror never goes back, and it catches up (liveness) | two conversations, two messages, two epochs, two exports in the chain, one stop, one fault |
| `host` | removed stays removed, one server that serves, everything is answered (liveness); both hosts answer alike and the client understands them | one session, four calls, one proxied request, two faults; every exchange of `MCProtocol` |
| `console` | the cached status is wrong only while or after a write was overtaken or lost; what a route answered was true | two concurrent requests in five settings |
| `settings` | a password change signs everybody out; stored settings are usable, secrets survive a stale page; a container is as its wake read the settings, refreshed tokens stay | two browsers, two records, two sign-ins; two pages, three saves; two wakes, two pastes |

Several properties are conjunctions of named parts, each stated where it is
defined: `ClientUnderstands`, `AnswersAreTrue`, `SettingsAreUsable`,
`ContainerAsConfigured`, `ReaderIsRight`.

Two runs show where the code disagrees with its own comments; each has a finding
in `PROJECT.json` with the line it quotes.

| Run | What happens |
|---|---|
| `agent_catalog` | `queuePrompt` calls overlapping at the catalogue read: the later write drops the earlier one's prompt. |
| `sandbox_marker` | A manual checkpoint outlives its container and writes the persistence marker into the next one, before that has been restored; the wake finds the marker and skips the restore. |

### Behaviours the models contain

Met while modelling. A property either names them as an exception or makes no
claim about them:

- a force stop that joins an earlier stop still continuing into its queued wake
  is joined by the alarm too, and nothing re-arms: the instance is `quiescing`
  until the object is evicted or asked again (`lifecycle.ts:970`);
- an idle stop that finds the container gone drops the wake queued behind it
  (`lifecycle.ts:1088`), and so does a restart right after `sleeping` was
  persisted (`lifecycle.ts:1105`);
- a registration that ends after the deletion writes the agent's state back
  (`session-agent.ts:378`); the run `agent` excludes that overlap;
- an eviction after the last dequeue leaves a session in `starting`, which the
  sweep passes over (`session-agent.ts:239`);
- a dispatch in flight when the conversation is marked lost overwrites the phase
  but not the deleted alarm: a prompt queued meanwhile waits for the next request;
- an eviction, or a lost reply, between the container's acceptance of a prompt
  and the dequeue delivers it again: delivery is at least once;
- a sweep or DELETE that dies between claim and poke leaves a claim the Hub does
  not know of until its constructor runs again (`hub-store.ts:593`), and a prompt
  the agent has not yet reported does not keep its session from the sweep;
- an uninitialized coordinator ignores `beginDelete`; a dispatch in flight can
  then wake the session while it is purged, and the Sandbox's purge barrier is the
  only protection, which `PurgedLeavesNothing` shows to be enough;
- DELETE of an instance does not clear its SessionAgent (`api-instances.ts:50`);
- an export in flight when a purge starts can write its mirror after the deletion
  (`sandbox.ts:2456`);
- a subscription that follows an old conversation of the same epoch announces
  nothing for the new one (`sandbox.ts:1895`);
- the hosts differ where `KnownDifference` says: a command whose output reads
  like the daemon's complaint, output beyond the cap, which the Docker host cuts
  without saying so, names and images it does not check, a body on a GET or a
  DELETE, which only the Docker host reads (and may refuse), and a proxied request to a
  container without a server;
- `markSessionUnread` keeps the first marker, so an acknowledgement of it also
  clears a later stop that happened before it;
- a sign-in that verified the old password may insert its row after the sign-out
  of a change, and two setups on an empty table both succeed;
- there is no revision of a settings list: a stale page drops the row another
  browser has added;
- a token store moved into place without its marker is not recognised by later
  wakes; a clone that was given up is taken for whole by the next wake; a cleared
  git identity stays on a host that keeps `/root`;
- a read of the transcript that was overtaken rewinds the page until the next
  one, and two bubbles with one text are both cleared by one message.

### Fairness

`SessionAgent`: Cloudflare delivers a set alarm at least once and every await
settles, so alarms, dispatch steps, registration and requests already accepted
are fair. Strong fairness is used where `Blocked` (no other request inside an
await) comes and goes: events are delivered in turn. New requests, losses and
evictions are not fair. Evictions and manual retries are bounded.

`HubDeletion`: the Hub's alarm is delivered and its awaits settle, a purge's
thanks to `DELETE_ATTEMPT_TIMEOUT_MS`; a claimed request proceeds. Nothing assumes
that a purge ever succeeds, which is why the property is that a deletion is
attempted, not that it ends.

`TranscriptMirror`: the coordinator's alarm probes a running instance again and
again, a timer fires and the steps of an export settle. Wakes, stops, messages
and faults are not fair.

`HostAgent`: a docker command ends (it runs under a timeout), a server that was
started answers or dies, and a proxied request is forwarded or refused. Calls and
faults are not fair, and faults are bounded.

`SandboxRuntime` states the fairness of its awaits; its properties are about
safety, with `WaitersAreServed` as the safe half of progress. So are those of
`LifecycleCoordinator`, which has none: there it is "an alarm is set or its handler
is running". The modules of the run `settings`, `LivePage`, `OpencodeReading` and
`SessionConsole` have no liveness: users and networks are not fair.

## Proofs

Eight modules hold the theorems. Each is proved for every value of its module's
constants, under the named assumption of the module that declares them (bounds are
natural numbers, switches Boolean, intervals positive, sentinels apart from values)
and the hypotheses given here and nowhere else.

| Module | Theorem | States |
|---|---|---|
| `LifecycleProofs` | `InvHolds`, `TypeCorrect` | the inductive invariant; `TypeOK` |
| | `LeasesHeldOnlyWhileAdmitting` | `LeasesOnlyWhileAdmitting` |
| | `WindowOpensAfterWork` | `IdleWindowAfterWork` |
| | `IdleStopIsEarned` | `IdleStopWaitsOutWindow` |
| | `AdmissionIsAnswered` | `AdmissionOpensOnAnswer` |
| | `AlarmStaysArmed` | `AlarmArmed`, if `UncalledRpcs = FALSE` |
| `SessionAgentProofs`, if `Overlaps = {}` | `AgentInvHolds` | the inductive invariant of the stored state |
| | `DeletedStaysDeletedHolds` | `DeletedStaysDeleted` |
| | `QueueIsDrivenHolds` | `QueueIsDriven` |
| | `TakenPromptsKeptHolds` | `TakenPromptsKept` |
| | `DeliveredInOrderOnceHolds` | `DeliveredInOrderOnce` |
| `PageProofs` | `InvHolds` | the inductive invariant of the deletion queue |
| | `ReleasedWhenPurgedHolds` | `ReleasedWhenPurged` |
| | `PokedClaimsAttendedHolds` | `PokedClaimsAttended` |
| | `DeletionEnds` | `DeletionEndsWithItsAttempt` |
| | `LiveInvHolds` | the inductive invariant of the session page |
| | `PageStaysCurrent` | `PageIsCurrent` |
| | `BubbleInvHolds` | the inductive invariant of its bubbles |
| | `BubblesStayHonest` | `BubblesAreHonest` |
| | `ReadingInvHolds` | the inductive invariant of the readers |
| | `ReaderIsRightHolds` | `ReaderIsRight` |
| `SandboxProofs` | `WaitersAreServedHolds` | `WaitersAreServed` |
| | `PurgedLeavesNothingHolds` | `PurgedLeavesNothing` |
| | `LatestBackupExistsHolds` | `LatestBackupExists` |
| | `IdleStopKeepsWorkHolds` | `IdleStopKeepsWork` |
| | `WakeOpensRestoredHolds` | `WakeOpensRestored`, if `Overlaps = FALSE` |
| | `WorkspaceIsDurableHolds` | `WorkspaceIsDurable`: `DurableWorkspace` is implemented, if `Overlaps = FALSE` |
| `TranscriptProofs` | `InvHolds` | the inductive invariant |
| | `MirrorNeverGoesBackHolds` | `MirrorNeverGoesBack` |
| | `IdleExportIsCompleteHolds` | `IdleExportIsComplete` |
| | `NoticedIsRememberedHolds` | `NoticedIsRemembered` |
| `HostProofs` | `InvHolds` | the inductive invariant of the host agent |
| | `OneServerHolds` | `OneServer` |
| | `RemovedStaysRemovedHolds` | `RemovedStaysRemoved` |
| | `MatchesAgree` | both hosts match every verb and path alike |
| | `HostsAgreeHolds` | `HostsAgree` |
| | `ClientUnderstandsHolds` | `ClientUnderstands` |
| `ConsoleProofs` | `InvHolds`, `TypeCorrect` | the inductive invariant; `TypeOK` |
| | `CacheWrongOnlyIfOvertakenHolds` | `CacheWrongOnlyIfOvertaken` |
| | `AnswersAreTrueHolds` | `AnswersAreTrue` |
| `OperatorProofs` | `AccessInvHolds`, `AccessTypeCorrect` | the inductive invariant of the front door; its types |
| | `ChangeSignsEveryoneOutHolds` | `ChangeSignsEveryoneOut` |
| | `SettingsInvHolds` | the inductive invariant of the settings |
| | `SettingsAreUsableHolds` | `SettingsAreUsable`, if the variants of every model have names |
| | `BlankKeepsStoredHolds` | `BlankKeepsStored` |
| | `ProvisioningInvHolds` | the inductive invariant of a wake |
| | `ContainerAsConfiguredHolds` | `ContainerAsConfigured` |
| | `RefreshedTokensKeptHolds` | `RefreshedTokensKept` |

### The hypotheses

Each names a case the code leaves open; for the first three TLC finds the
counterexample without it:

- `UncalledRpcs = FALSE`: nobody calls `observeExecution` and `reconcileNow`, as is so
  in the repository. If they are called, `alarm` can join a probe of theirs that is
  already stale, which then re-arms nothing (`lifecycle.ts:970` is the same pattern
  with a stop).
- `Overlaps = {}` (SessionAgent): no request runs inside the awaits of `queuePrompt`
  and `register`. The run `agent_catalog` shows the prompt that is lost otherwise; with
  `"register"` in `Overlaps`, each of the four properties of the run `agent` fails.
- `Overlaps = FALSE` (SandboxRuntime): no wake restores beside a manual checkpoint.
  The run `sandbox_marker` shows the marker that is written too early otherwise. The
  other four theorems of `SandboxProofs` hold with and without it.
- Named variants (`SettingsAreUsableHolds`): the configuration is a map, and a
  variant keyed `""` would make `defaultVariantForModel` return the very value that
  `isValidVariant` refuses.

`ConsoleAssumption` says of the starting points of a behaviour, too, that a session
which has not worked yet is asleep: nothing wakes it before its agent has registered.

### The inductive invariants

No property here is inductive as it stands. What it is strengthened by is in each
case an account of what an await remembers, compared with what is stored now.

- **Lifecycle.** `Sound(st)` is about the stored state alone: its type; leases only
  while admitting, of the current epoch; an idle candidate and deadline after the
  last known work; a quiescing state that holds a stop operation. It is an operator
  of a state, so that one lemma per pure function of the code
  (`ApplyExecutionSnapshot`, `RemoveExpiredLeases`, `ForceQuiescing`, …) serves every
  action that persists its result. `HandlerSound` is about the alarm handler that
  waited for a mirror write with the time it read before: that time is not ahead of
  the clock, and every lease it still finds expires after it; otherwise the decision
  to stop, taken on the old time, could take a lease for expired that is not.
  `AlarmInv` adds who will set the alarm: the wake in flight is the one the stored
  state waits for, only the handler probes, and a state that needs an alarm and has
  none is in the hands of a handler that will persist, or that waits for a promise
  which does.
- **SessionAgent.** `AwaitSound`: an await remembers the state that is stored. Every
  step is then of one of a few kinds by what it does to the queue, and `HeadSound`,
  `KeptSound` and `OrderSound` (what was taken is what was confirmed followed by what
  is queued; the delivered ids are the last confirmed ones) are proved of the kinds.
- **Hub.** `DrawnSound` and `AttemptSound`: operation ids are fresh, so an attempt
  whose id is still on its row is the one that was asked for, and what it has already
  achieved of agent, coordinator and Sandbox still stands.
- **Sandbox.** In layers, each resting on those before: whose turn it is and who
  waits for whom (`TurnSound`, `WaitSound`); what memory says of the identity and how
  far a purge has come (`IdentSound`, `PurgeSound`); which archives exist
  (`BackupSound`); what an idle stop may rely on past its drain (`StopSound`); and
  that a workspace with the marker is the archive that counts or newer
  (`WorkSound`). The refinement is proved action by action from the last two.
- **Transcript.** What the running export has read covers what the mirror holds and,
  unless the dirty flag is up, what was noticed (`ChainSound`, `FlagSound`); an idle
  stop past its drain is over a conversation nobody adds to (`StopSound`,
  `ExportSound`); a turn begun on the open stream is observed before its end is read
  (`TurnSound`, over the positions of a stream of any length).
- **Host agent.** Only the first call of a session's queue has begun, so what its
  last step established of the container still holds at its next.
- **Host protocol.** The invariant says only that both answers are the hosts' own and
  that the client read them; the work is in the lemmas about the operators. A JSON
  value has exactly one type, so that what the agent complains of is what the
  Cloudflare host does not accept (`StringsAgree`, `NumbersAgree`, `MapsAgree`,
  `BatchesAgree`); a row of the agent's table is found by its path alone
  (`MatchesAgree`); then one lemma per route, over every container.
  `ExchangesAssumption` says what a request is: a client method's or any other, with
  a body whose values have one type each, for a container that exists if it runs.
- **Console.** What a request carries still means something when it is used: the
  status it read is the coordinator's unless something was counted since
  (`ReadSound`), the generation it resolved runs or nothing ran for a moment
  (`EpochSound`), the session it found is one its agent registered (`Known404`); and
  the row holds the newest observation, or that is on its way or was missed
  (`RowSound`).
- **Page.** `Leads(msgs, S, c)` says that the changes in the set `S` would bring the
  messages `msgs` to the conversation `c`: message by message, whatever differs is told
  by some frame of `S`. That takes no order; the order is in `QueueTrue`: of two frames
  about one message the later one is the newer change, and the last one says what is so.
  So what a frame tells is what `Leads` needed of it (`Applied`), and an empty queue
  leads nowhere but to the conversation itself. `AttachedSound` then follows the page
  from the edit at which its stream was attached: a hub frame that makes it read is
  still first in the queue, or a read is asked for, or one since that edit is under way
  and leads there with the changes after it (`ReadsLead`), or the page does, or a
  failed or overtaken read is on record (`OnItsWay`). `EndingSound` and `AsleepSound`
  say the like of a page whose stream ends over a sleeping container.
- **Bubbles.** Prompts are taken in the order they were sent, each with an id newer
  than what the page showed when it was sent (`PromptsSound`); and every text in the
  conversation, on the page, in a read or in a frame is the text of the prompt that
  brought it (`TextsSound`). A bubble that goes before OpenCode has its prompt goes for a
  newer message of the same text, which another prompt brought. Of one that stays
  though its message is shown, that message was taken before its turn, for an earlier
  prompt of the same text; either the message of that one is not shown, or it is older,
  was there to be taken first and so had been taken itself, and the same holds of an
  earlier prompt still: among the places where this could go on there is no least one.
- **Readers.** Splitting: what was written out, followed by the split of what is kept
  and what is unread, is the split of the whole stream; a chunk that ends inside a
  separator is the case that makes the induction, over the places of the stream, long.
  Lineage: every path down to the session runs through where the walk up stands
  (`PathsThrough`), so that a walk that finds itself on a circle or too far up has
  shown that there is none. Activity: the verdict so far is that of the sources asked.
- **Operator.** Front door: what each request saw is a record not newer than the
  stored one, and no session row names a later one. Settings: a list about to be
  written is valid and carries the stored secrets unless it was overtaken
  (`PutSound`). Provisioning: skills are those that were read, store and marker are
  of one revision except between seed and marker, and a checkout that is not whole
  has its clone under way.

The proofs have one lemma per action, one step per conjunct the action can disturb,
and lemmas about the operators the models are built from, stated once.

### Only model-checked

Every safety property that a passing run checks is proved. What is left to TLC:

- Liveness (`PromptsArrive`, `DeletionsAttempted`, `MirrorCatchesUp`,
  `EverythingIsAnswered`) and `ENABLED` are out of this prover's reach.
- The two runs that expect a violation.

Induction over data, for which the library's theorems take an operator as a parameter,
is replaced where a recursive function has to be reasoned about (the splitter, the
reconciliation of bubbles): the places at which the claim fails form a set of natural
numbers, a nonempty one has a least element (`WFMin` with `NatLessThanWellFounded`),
and at that the claim is shown to hold.

## Not modelled, and the plan

Next, in this order:

1. Coordinator and Sandbox composed, with the bounded wait of
   `instance-runtime.ts`.
2. The prompt's whole way composed: page, agent and conversation, so that a bubble is
   followed from `send` to the message that replaces it.

Left out, because one request or one render does all of it and shares nothing
with another: the repository catalogue, uploads, workspace views and change
lists, rendering and the remaining panels of the web UI, the texts of scripts,
formats and error messages, key generation. The schema migrations run once. The
sandbox SDK, Docker and OpenCode are external and appear as what the code in
`src/` can see of them.
