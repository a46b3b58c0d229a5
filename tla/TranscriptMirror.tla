-------------------------- MODULE TranscriptMirror --------------------------
(***************************************************************************)
(* The transcript mirror of a session (src/src/sandbox.ts and              *)
(* src/src/transcript-mirror.ts): the copy of the conversation in R2 that  *)
(* is read while the container sleeps, and the unread marker in D1.        *)
(*                                                                         *)
(* The conversation lives in the container.  The Sandbox follows it on the *)
(* container's event stream, gathers a burst of events behind one timer,   *)
(* and exports the whole history: on that timer, on the coordinator's      *)
(* probe, and once more in every stop.  Exports form a chain; all of this  *)
(* runs detached from the calls that start it.                             *)
(*                                                                         *)
(* A message is a number that is never reused.  Wakes and stops are the    *)
(* ones of SandboxRuntime, reduced to where they touch the mirror.         *)
(***************************************************************************)
EXTENDS Integers, Sequences

CONSTANTS
    MaxCreates,     \* bound: OpenCode sessions ever created
    MaxMessages,    \* bound: messages ever written
    MaxEpoch,       \* bound: runtime epochs
    MaxChain,       \* bound: exports waiting for each other
    MaxStops,       \* bound: stops
    MaxFaults       \* bound: failed exports, dropped streams, deaths, restarts

ASSUME TranscriptAssumption ==
    {MaxCreates, MaxMessages, MaxEpoch, MaxChain, MaxStops, MaxFaults} \subseteq Nat

VARIABLES
    gate,      \* the runtime gate: phase and epoch
    believed,  \* hostRuntime.running
    box,       \* the container: up, the conversation in it, whether a turn runs
    saved,     \* the conversation in the latest checkpoint
    target,    \* transcriptTarget
    dirty,     \* transcriptDirty
    live,      \* liveEvents and what its stream still holds
    timer,     \* liveMirrorPending: the epoch the waiting export is for
    chain,     \* mirrorInProgress: the export that runs and those chained to it
    stop,      \* the stop or purge in progress
    r2,        \* the mirror in R2
    summary,   \* transcriptMirror: whether a mirror was ever recorded
    observed,  \* unreadRunObserved
    announced, \* whether the session was marked unread since the last prompt
    noticed,   \* history: messages the object has been told of
    used       \* the bounded counters

vars == <<gate, believed, box, saved, target, dirty, live, timer, chain, stop, r2, summary,
          observed, announced, noticed, used>>

container == <<gate, believed, box, saved>>
following == <<target, live, timer, observed>>
exporting == <<chain, r2, summary, dirty>>

-----------------------------------------------------------------------------
\* State

NoEpoch == 0
NoTarget == 0                 \* OpenCode sessions are numbered as they are created
Absent == {0}                 \* no object in R2: a mirror never holds message 0

Messages == 1..MaxMessages
Phases == {"running", "quiescing", "checkpointing", "stopping", "sleeping"}
Reasons == {"live", "refresh", "stop"}
Events == [kind : {"activity", "ask", "stop"}, msg : 0..MaxMessages]
Subscription == [epoch : 1..MaxEpoch, target : 1..MaxCreates, open : BOOLEAN, turn : BOOLEAN,
                 stream : Seq(Events)]
NoLive == [epoch |-> NoEpoch, target |-> NoTarget, open |-> FALSE, turn |-> FALSE, stream |-> <<>>]
Export == [reason : Reasons, epoch : 0..MaxEpoch, at : {"read", "put", "store"}, messages : SUBSET Messages]
StopSteps == {"none", "drain", "export", "checkpoint", "terminate", "remove", "sweep", "purged"}

NoStop == [kind |-> "none", at |-> "none", failed |-> FALSE]

Spend(counter) == used' = [used EXCEPT ![counter] = @ + 1]
Fault == used.faults < MaxFaults /\ Spend("faults")
Purging == stop.kind = "purge"

-----------------------------------------------------------------------------
\* Exports

NewExport(reason, epoch) == [reason |-> reason, epoch |-> epoch, at |-> "read", messages |-> {}]

\* Mutant: the running export is adopted whatever it is for.
JoinAny(reason) == chain # <<>>

\* A refresh rides along with an export that is already running; any other
\* export waits for it and reads for itself.
Joins(reason) == chain # <<>> /\ reason = "refresh"

\* doMirrorTranscript's early returns.
MayExport(e) ==
    /\ target # NoTarget
    /\ ~Purging
    /\ believed'
    /\ e.epoch # NoEpoch => e.epoch = gate'.epoch

\* The chain once every export in front that has nothing to say has returned.
Advance(queue) ==
    LET able == {i \in DOMAIN queue : MayExport(queue[i])}
    IN IF able = {} THEN <<>>
       ELSE SubSeq(queue, CHOOSE i \in able : \A j \in able : i <= j, Len(queue))

\* An export that begins clears the flag before it reads.
ClearDirty(queue, flag) == IF queue # <<>> THEN FALSE ELSE flag

\* Mutant: an export does not wait for the one under way.
MirrorTranscriptAtOnce(reason, epoch, flag) ==
    IF Joins(reason)
    THEN chain' = chain /\ dirty' = flag
    ELSE /\ chain' = Advance(<<NewExport(reason, epoch)>>) \o chain
         /\ dirty' = ClearDirty(chain', flag)

\* mirrorTranscript: what the chain and the flag become.
MirrorTranscript(reason, epoch, flag) ==
    IF Joins(reason)
    THEN chain' = chain /\ dirty' = flag
    ELSE IF chain # <<>>
    THEN chain' = Append(chain, NewExport(reason, epoch)) /\ dirty' = flag
    ELSE /\ chain' = Advance(<<NewExport(reason, epoch)>>)
         /\ dirty' = ClearDirty(chain', flag)

\* The running export ends and the next one begins.
Finish(flag) ==
    /\ chain' = Advance(Tail(chain))
    /\ dirty' = ClearDirty(chain', flag)

Running(step) == chain # <<>> /\ Head(chain).at = step

ExportRead ==
    /\ Running("read")
    /\ box.up
    /\ chain' = [chain EXCEPT ![1].at = "put", ![1].messages = box.conv]
    /\ UNCHANGED <<container, following, dirty, stop, r2, summary, announced, noticed, used>>

PutTranscriptMirror ==
    /\ Running("put")
    /\ r2' = Head(chain).messages
    /\ chain' = [chain EXCEPT ![1].at = "store"]
    /\ UNCHANGED <<container, following, dirty, stop, summary, announced, noticed, used>>

\* Mutant: the flag is cleared once the export is recorded.
ExportStoreClears ==
    /\ Running("store")
    /\ summary' = TRUE
    /\ UNCHANGED container
    /\ Finish(FALSE)
    /\ UNCHANGED <<following, r2, stop, announced, noticed, used>>

ExportStore ==
    /\ Running("store")
    /\ summary' = TRUE
    /\ UNCHANGED container
    /\ Finish(dirty)
    /\ UNCHANGED <<following, r2, stop, announced, noticed, used>>

\* Mutant: a failed export leaves the flag as it is.
ExportFailsQuietly ==
    /\ chain # <<>> /\ Head(chain).at \in {"read", "put"}
    /\ IF Head(chain).at = "read" /\ ~box.up THEN UNCHANGED used ELSE Fault
    /\ UNCHANGED container
    /\ Finish(dirty)
    /\ UNCHANGED <<following, stop, r2, summary, announced, noticed>>

\* captureTranscript: a failed read or write leaves the transcript dirty.
ExportFails ==
    /\ chain # <<>> /\ Head(chain).at \in {"read", "put"}
    /\ IF Head(chain).at = "read" /\ ~box.up THEN UNCHANGED used ELSE Fault
    /\ UNCHANGED container
    /\ Finish(TRUE)
    /\ stop' = IF Head(chain).reason = "stop" THEN [stop EXCEPT !.failed = TRUE] ELSE stop
    /\ UNCHANGED <<following, r2, summary, announced, noticed>>

-----------------------------------------------------------------------------
\* The event stream

StartLiveTranscriptEvents(g, b) ==
    live' = IF g.phase # "running" \/ target' = NoTarget \/ Purging \/ ~b \/ live.epoch = g.epoch THEN live
            ELSE [epoch |-> g.epoch, target |-> target', open |-> FALSE, turn |-> FALSE, stream |-> <<>>]

StopLiveTranscriptEvents == live' = NoLive

StreamOpens ==
    /\ live # NoLive /\ ~live.open /\ box.up
    /\ live' = [live EXCEPT !.open = TRUE]
    /\ UNCHANGED <<container, target, timer, observed, exporting, stop, announced, noticed, used>>

StreamEnds ==
    /\ live # NoLive
    /\ IF box.up THEN Fault ELSE UNCHANGED used
    /\ StopLiveTranscriptEvents
    /\ UNCHANGED <<container, target, timer, observed, exporting, stop, announced, noticed>>

\* noteSessionUnread: what D1 makes of it is in SessionConsole.
NoteSessionUnread == announced' = TRUE

\* noteLiveTranscriptEvent
NoteLiveTranscriptEvent ==
    /\ dirty' = TRUE
    /\ timer' = IF timer = NoEpoch THEN live.epoch ELSE timer

\* unreadRunObserved: set by activity, cleared by the stop that ends it.
ObservedAfter(kind) == IF kind = "ask" THEN observed ELSE kind = "activity"

\* consumeLiveTranscriptEvents, one frame: only the subscription's own
\* conversation counts.
LiveEvent ==
    /\ live.stream # <<>>
    /\ LET event == Head(live.stream) IN
       /\ live' = [live EXCEPT !.stream = Tail(@)]
       /\ IF live.target # target
          THEN UNCHANGED <<dirty, timer, observed, announced, noticed>>
          ELSE /\ NoteLiveTranscriptEvent
               /\ noticed' = noticed \cup ({event.msg} \ {0})
               /\ observed' = ObservedAfter(event.kind)
               /\ IF event.kind = "ask" \/ (event.kind = "stop" /\ observed)
                  THEN NoteSessionUnread ELSE UNCHANGED announced
    /\ UNCHANGED <<container, target, chain, r2, summary, stop, used>>

LiveMirrorFires ==
    /\ timer # NoEpoch
    /\ Len(chain) < MaxChain
    /\ timer' = NoEpoch
    /\ UNCHANGED container
    /\ MirrorTranscript("live", timer, dirty)
    /\ UNCHANGED <<target, live, observed, stop, r2, summary, announced, noticed, used>>

\* throttled is whether the last export is more recent than the refresh
\* interval.
ScheduleTranscriptRefresh(throttled, flag) ==
    IF target = NoTarget \/ ~flag \/ chain # <<>> \/ throttled
    THEN dirty' = flag /\ UNCHANGED chain
    ELSE MirrorTranscript("refresh", gate.epoch, flag)

\* getExecutionSnapshotIfRunning
Probe(throttled) ==
    /\ gate.phase = "running" /\ believed
    /\ throttled => summary
    /\ UNCHANGED <<container, target>>
    /\ StartLiveTranscriptEvents(gate, believed)
    /\ ScheduleTranscriptRefresh(throttled, dirty \/ (box.up /\ box.busy))
    /\ UNCHANGED <<timer, observed, r2, summary, stop, announced, noticed, used>>

-----------------------------------------------------------------------------
\* The conversation

\* live.turn records that the latest turn began on this open stream.
Publish(kind, msg, begins) ==
    live' = IF ~live.open THEN live
            ELSE [live EXCEPT !.stream = Append(@, [kind |-> kind, msg |-> msg]),
                              !.turn = @ \/ begins]

\* createOpencodeSession with setTranscriptTarget.  An agent that lost the
\* reply to its first create creates again before it sends a prompt.
CreateOpencodeSession ==
    /\ gate.phase = "running" /\ box.up
    /\ used.messages = 0
    /\ target < MaxCreates
    /\ target' = target + 1
    /\ dirty' = TRUE
    /\ UNCHANGED container
    /\ StartLiveTranscriptEvents(gate, believed)
    /\ UNCHANGED <<timer, observed, chain, r2, summary, stop, announced, noticed, used>>

\* promptOpencodeSessionAsync: the prompt is a message and starts a turn;
\* whoever sends one has read the session.
Prompt ==
    /\ gate.phase = "running" /\ box.up /\ believed
    /\ target # NoTarget
    /\ used.messages < MaxMessages
    /\ Spend("messages")
    /\ box' = [box EXCEPT !.conv = @ \cup {used.messages + 1}, !.busy = TRUE]
    /\ Publish("activity", used.messages + 1, TRUE)
    /\ dirty' = TRUE
    /\ noticed' = noticed \cup {used.messages + 1}
    /\ announced' = FALSE
    /\ UNCHANGED <<gate, believed, saved, target, timer, observed, chain, r2, summary, stop>>

OpenCodeWrites ==
    /\ box.up /\ box.busy
    /\ used.messages < MaxMessages
    /\ Spend("messages")
    /\ box' = [box EXCEPT !.conv = @ \cup {used.messages + 1}]
    /\ Publish("activity", used.messages + 1, FALSE)
    /\ UNCHANGED <<gate, believed, saved, target, timer, observed, exporting, stop, announced, noticed>>

OpenCodeAsks ==
    /\ box.up /\ box.busy /\ live.open
    /\ live.stream = <<>>
    /\ Publish("ask", 0, FALSE)
    /\ UNCHANGED <<container, target, timer, observed, exporting, stop, announced, noticed, used>>

OpenCodeRests ==
    /\ box.up /\ box.busy
    /\ box' = [box EXCEPT !.busy = FALSE]
    /\ Publish("stop", 0, FALSE)
    /\ UNCHANGED <<gate, believed, saved, target, timer, observed, exporting, stop, announced, noticed, used>>

-----------------------------------------------------------------------------
\* Wakes, stops, deletion and faults

Wake ==
    /\ gate.phase = "sleeping" /\ stop.kind = "none"
    /\ used.epoch < MaxEpoch
    /\ Spend("epoch")
    /\ gate' = [phase |-> "running", epoch |-> used.epoch + 1]
    /\ believed' = TRUE
    /\ box' = [up |-> TRUE, conv |-> saved, busy |-> FALSE]
    /\ UNCHANGED target
    /\ StartLiveTranscriptEvents(gate', TRUE)
    /\ UNCHANGED <<saved, timer, observed, exporting, stop, announced, noticed>>

\* A stop begins by asking the host; a container that is gone is a stop done.
\* After a restart the coordinator resumes the one the gate stands at (what
\* became of its export is then no longer known).
StopBegins(kind) ==
    /\ stop.at = "none" /\ stop.kind \in {"none", kind}
    /\ gate.phase # "sleeping"
    /\ used.stops < MaxStops \/ gate.phase # "running"
    /\ used' = [used EXCEPT !.stops = IF gate.phase = "running" THEN @ + 1 ELSE @]
    /\ IF box.up
       THEN /\ gate' = IF gate.phase = "running" THEN [gate EXCEPT !.phase = "quiescing"] ELSE gate
            /\ stop' = [kind |-> kind, failed |-> gate.phase = "stopping",
                        at |-> CASE gate'.phase = "quiescing" -> "drain"
                                 [] gate'.phase = "checkpointing" -> "export"
                                 [] OTHER -> "terminate"]
            /\ UNCHANGED believed
       ELSE /\ gate' = [phase |-> "sleeping", epoch |-> NoEpoch]
            /\ believed' = FALSE
            /\ stop' = NoStop
    /\ StopLiveTranscriptEvents
    /\ UNCHANGED <<box, saved, target, timer, observed, exporting, announced, noticed>>

\* The drained instance is inspected; an idle stop gives way to work.
StopDrained ==
    /\ stop.at = "drain"
    /\ UNCHANGED <<believed, box, saved, target>>
    /\ IF stop.kind = "idle" /\ (~box.up \/ box.busy)
       THEN /\ gate' = [gate EXCEPT !.phase = "running"]
            /\ stop' = NoStop
            /\ StartLiveTranscriptEvents(gate', believed)
       ELSE /\ gate' = [gate EXCEPT !.phase = "checkpointing"]
            /\ stop' = [stop EXCEPT !.at = "export"]
            /\ StopLiveTranscriptEvents
    /\ UNCHANGED <<timer, observed, exporting, announced, noticed, used>>

StopExports ==
    /\ stop.at = "export"
    /\ Len(chain) < MaxChain
    /\ UNCHANGED container
    /\ MirrorTranscript("stop", NoEpoch, dirty)
    /\ stop' = [stop EXCEPT !.at = "checkpoint"]
    /\ UNCHANGED <<following, r2, summary, announced, noticed, used>>

\* The stop's own export has ended.
StopAwaits == \A i \in DOMAIN chain : chain[i].reason # "stop"

\* persistWorkspaceBeforeStop, once the export has ended; a failure leaves
\* the instance running.
StopCheckpoints ==
    /\ stop.at = "checkpoint"
    /\ StopAwaits
    /\ UNCHANGED <<believed, box, target>>
    /\ \/ /\ box.up
          /\ saved' = box.conv
          /\ gate' = [phase |-> "stopping", epoch |-> NoEpoch]
          /\ stop' = [stop EXCEPT !.at = "terminate"]
          /\ StopLiveTranscriptEvents
          /\ UNCHANGED used
       \/ /\ Fault
          /\ gate' = [gate EXCEPT !.phase = "running"]
          /\ stop' = NoStop
          /\ StartLiveTranscriptEvents(gate', believed)
          /\ UNCHANGED saved
       \/ /\ ~box.up
          /\ gate' = [phase |-> "stopping", epoch |-> NoEpoch]
          /\ stop' = [stop EXCEPT !.at = "terminate"]
          /\ StopLiveTranscriptEvents
          /\ UNCHANGED <<saved, used>>
    /\ UNCHANGED <<timer, observed, exporting, announced, noticed>>

StopTerminates ==
    /\ stop.at = "terminate"
    /\ box' = [box EXCEPT !.up = FALSE, !.busy = FALSE]
    /\ believed' = FALSE
    /\ gate' = [phase |-> "sleeping", epoch |-> NoEpoch]
    /\ stop' = NoStop
    /\ StopLiveTranscriptEvents
    /\ UNCHANGED <<saved, target, timer, observed, exporting, announced, noticed, used>>

\* doPurgeInstance: the container is removed, then the mirror and storage.
PurgeBegins ==
    /\ stop.at = "none"
    /\ stop' = [kind |-> "purge", at |-> "remove", failed |-> FALSE]
    /\ StopLiveTranscriptEvents
    /\ UNCHANGED <<container, target, timer, observed, exporting, announced, noticed, used>>

PurgeRemoves ==
    /\ stop.at = "remove"
    /\ box' = [up |-> FALSE, conv |-> {}, busy |-> FALSE]
    /\ believed' = FALSE
    /\ saved' = {}
    /\ stop' = [stop EXCEPT !.at = "sweep"]
    /\ UNCHANGED <<gate, following, exporting, announced, noticed, used>>

DeleteTranscriptMirror ==
    /\ stop.at = "sweep"
    /\ r2' = Absent
    /\ stop' = [stop EXCEPT !.at = "purged"]
    /\ UNCHANGED <<container, following, chain, summary, dirty, announced, noticed, used>>

ContainerDies ==
    /\ box.up
    /\ Fault
    /\ box' = [box EXCEPT !.up = FALSE, !.busy = FALSE]
    /\ UNCHANGED <<gate, believed, saved, following, exporting, stop, announced, noticed>>

\* The object goes away: a write on its way to R2 or D1 has landed or not.
Restart ==
    /\ Fault
    /\ stop.kind # "purge"
    /\ r2' \in {r2} \cup {Head(chain).messages : h \in IF Running("put") THEN {1} ELSE {}}
    /\ dirty' = TRUE
    /\ live' = NoLive
    /\ timer' = NoEpoch
    /\ chain' = <<>>
    /\ observed' = FALSE
    /\ stop' = [stop EXCEPT !.at = "none"]
    /\ UNCHANGED <<container, target, summary, announced, noticed>>

-----------------------------------------------------------------------------
Init ==
    /\ gate = [phase |-> "sleeping", epoch |-> NoEpoch]
    /\ believed = FALSE
    /\ box = [up |-> FALSE, conv |-> {}, busy |-> FALSE]
    /\ saved = {}
    /\ target = NoTarget
    /\ dirty = TRUE
    /\ live = NoLive
    /\ timer = NoEpoch
    /\ chain = <<>>
    /\ stop = NoStop
    /\ r2 = Absent
    /\ summary = FALSE
    /\ observed = FALSE
    /\ announced = FALSE
    /\ noticed = {}
    /\ used = [messages |-> 0, epoch |-> 0, stops |-> 0, faults |-> 0]

Next ==
    \/ ExportRead \/ PutTranscriptMirror \/ ExportStore \/ ExportFails
    \/ StreamOpens \/ StreamEnds \/ LiveEvent \/ LiveMirrorFires
    \/ \E throttled \in BOOLEAN : Probe(throttled)
    \/ CreateOpencodeSession
    \/ Prompt \/ OpenCodeWrites \/ OpenCodeAsks \/ OpenCodeRests
    \/ Wake
    \/ \E kind \in {"idle", "force"} : StopBegins(kind)
    \/ StopDrained \/ StopExports \/ StopCheckpoints \/ StopTerminates
    \/ PurgeBegins \/ PurgeRemoves \/ DeleteTranscriptMirror
    \/ ContainerDies \/ Restart

\* The coordinator probes a running instance for as long as it runs, the
\* refresh interval passes, and what the object has started goes on.
Fairness ==
    /\ WF_vars(Probe(FALSE))
    /\ WF_vars(ExportRead) /\ WF_vars(PutTranscriptMirror) /\ WF_vars(ExportStore)
    /\ WF_vars(LiveMirrorFires)

Spec == Init /\ [][Next]_vars /\ Fairness

-----------------------------------------------------------------------------
\* Properties

TypeOK ==
    /\ gate \in [phase : Phases, epoch : 0..MaxEpoch]
    /\ box \in [up : BOOLEAN, conv : SUBSET Messages, busy : BOOLEAN]
    /\ {believed, dirty, summary, observed, announced} \subseteq BOOLEAN
    /\ saved \subseteq Messages /\ noticed \subseteq Messages
    /\ target \in 0..MaxCreates
    /\ live = NoLive \/ live \in Subscription
    /\ timer \in 0..MaxEpoch
    /\ chain \in Seq(Export) /\ Len(chain) <= MaxChain
    /\ stop.at \in StopSteps
    /\ r2 = Absent \/ r2 \subseteq Messages

\* No export ever takes a message out of the mirror that is still in the
\* conversation: mirrorTranscript chains the exports, so a slow old read
\* cannot land on top of a newer one.
MirrorNeverGoesBack == [][r2' # r2 /\ r2' # Absent => (r2 \cap box.conv) \subseteq r2']_vars

\* An idle stop whose export succeeded leaves the whole conversation in the
\* mirror before it lets the container go, whatever live or refresh exports
\* were under way ("the export during quiesce is the one that has to be
\* complete").
IdleExportIsComplete ==
    stop.kind = "idle" /\ stop.at = "terminate" /\ ~stop.failed /\ box.up => box.conv \subseteq r2

\* What the event stream told the object is not forgotten.  A message that has
\* not been exported has the dirty flag up when no export is under way, so that
\* a probe or the next stop picks it up; and a turn that began while the stream
\* was open, and whose events have all been read, has marked the session unread.
NoticedIsRemembered ==
    /\ chain = <<>> /\ ~Purging /\ ~((noticed \cap box.conv) \subseteq r2) => dirty
    /\ live.turn /\ live.target = target /\ box.up /\ ~box.busy /\ live.stream = <<>> => announced

\* A message the object was told of reaches the mirror unless the runtime is
\* left or lost first.
MirrorCatchesUp ==
    \A m \in Messages :
       (m \in noticed) ~> (m \in r2 \/ m \notin box.conv \/ gate.phase # "running" \/ ~box.up \/ Purging)

=============================================================================
