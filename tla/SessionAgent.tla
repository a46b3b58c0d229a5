---------------------------- MODULE SessionAgent ----------------------------
(***************************************************************************)
(* The durable prompt queue of one session (src/src/session-agent.ts).     *)
(*                                                                         *)
(* A Durable Object that registers its session, then dispatches queued     *)
(* prompts to the session's container from its alarm, one at a time, with  *)
(* a short retry ladder.  The object is single threaded: other requests    *)
(* run only while a handler awaits D1, another object or a timer.  Each    *)
(* action is one stretch between two such awaits.                          *)
(*                                                                         *)
(* queuePrompt and register read the state, await, and write a state built *)
(* from what they read.  The constant Overlaps says which of these awaits  *)
(* other requests may run in, so that each consequence can be seen alone.  *)
(***************************************************************************)
EXTENDS Naturals, Sequences, FiniteSets, SequencesExt

CONSTANTS
    Prompts,          \* prompt ids
    Callers,          \* concurrent queuePrompt / retrySession requests
    RetryBackoffs,    \* RETRY_BACKOFF_MS.length
    DeliveredWindow,  \* MAX_DELIVERED_PROMPT_IDS
    Overlaps,         \* subset of {"catalog", "register"}: see above
    MaxRetries,       \* bound: retrySession calls
    MaxRestarts,      \* bound: evictions of the object
    MaxHistory        \* bound: prompts taken, and prompts accepted

ASSUME AgentAssumption ==
    /\ {RetryBackoffs, DeliveredWindow, MaxRetries, MaxRestarts, MaxHistory} \subseteq Nat
    /\ Overlaps \subseteq {"catalog", "register"}

VARIABLES
    st,       \* the stored state; exists = FALSE when there is none
    alarm,    \* whether an alarm is set
    advance,  \* advanceInProgress: where the dispatch is waiting
    register, \* registerInProgress and the state it read
    calls,    \* queuePrompt and retrySession requests in progress
    accepted, \* prompts the container has accepted, in order
    order,    \* history: prompts in the order the queue took them
    deleted,  \* history: markDeleted has run
    mishaps,  \* history, see Mishaps
    retries, restarts

vars == <<st, alarm, advance, register, calls, accepted, order, deleted, retries, restarts, mishaps>>

-----------------------------------------------------------------------------
Phases == {"queued", "starting", "working", "failed", "lost"}

AgentState ==
    [exists : BOOLEAN, phase : Phases, pending : Seq(Prompts), delivered : Seq(Prompts),
     attempt : Nat, opencode : BOOLEAN, registered : BOOLEAN]

NoState ==
    [exists |-> FALSE, phase |-> "queued", pending |-> <<>>, delivered |-> <<>>,
     attempt |-> 0, opencode |-> FALSE, registered |-> FALSE]

AdvanceStages ==
    {"none", "register", "registered", "unregistered", "wake", "survive", "begin",
     "create", "loop", "prompt", "reply", "end", "backoff"}

\* "unheard": the answer to a prompt the container took never came;
\* "lost": the session view has given up the conversation.
Mishaps == {"unheard", "lost"}

NoAdvance == [stage |-> "none", prompt |-> <<>>]
NoRegister == [stage |-> "none", base |-> NoState]
NoCall == [stage |-> "none", prompt |-> <<>>, base |-> NoState]

NeedsDispatch(s) == s.exists /\ s.pending # <<>> /\ s.phase \notin {"failed", "lost"}

\* The last n elements of a sequence: slice(-n).
LastN(s, n) == SubSeq(s, IF Len(s) > n THEN Len(s) - n + 1 ELSE 1, Len(s))

\* The queue without a prompt.  An id is queued once at most (Known), so at
\* most one element goes.
Without(q, p) ==
    IF p \notin Range(q) THEN q
    ELSE LET i == CHOOSE i \in 1..Len(q) : q[i] = p
         IN  SubSeq(q, 1, i - 1) \o SubSeq(q, i + 1, Len(q))

\* Mutant: only the queue is searched.
KnownInQueue(s, p) == p \in Range(s.pending)

\* A prompt id the state still remembers, queued or delivered.
Known(s, p) == p \in Range(s.pending) \cup Range(s.delivered)

\* update(): nothing is written for a deleted session.
Update(s) == st' = IF st.exists THEN s ELSE st

-----------------------------------------------------------------------------
\* Requests

StartSession(p) ==
    /\ ~st.exists
    /\ ~deleted
    /\ st' = [NoState EXCEPT !.exists = TRUE, !.pending = <<p>>]
    /\ alarm' = TRUE
    /\ order' = <<p>>
    /\ UNCHANGED <<advance, register, calls, accepted, deleted, retries, restarts, mishaps>>

\* queuePrompt up to the model catalog's read from D1.
QueueRead(c, p) ==
    /\ calls[c].stage = "none"
    /\ st.exists
    /\ st.phase # "lost"
    /\ Len(order) < MaxHistory
    /\ calls' = [calls EXCEPT ![c] = [stage |-> "catalog", prompt |-> <<p>>, base |-> st]]
    /\ UNCHANGED <<st, alarm, advance, register, accepted, order, deleted, retries, restarts, mishaps>>

\* The rest of it: the new state is the one read before the await, with the
\* prompt added.  A known id is not queued again.
QueueWrite(c) ==
    LET base == calls[c].base
        p == calls[c].prompt[1]
    IN  /\ calls[c].stage = "catalog"
        /\ IF Known(base, p)
           THEN /\ calls' = [calls EXCEPT ![c] = NoCall]
                /\ UNCHANGED <<st, order>>
           ELSE /\ st' = [base EXCEPT !.pending = Append(@, p), !.phase = "queued",
                                      !.attempt = 0]
                /\ order' = Append(order, p)
                /\ calls' = [calls EXCEPT ![c] = [NoCall EXCEPT !.stage = "report"]]
        /\ UNCHANGED <<alarm, advance, register, accepted, deleted, retries, restarts, mishaps>>

\* The catalog cannot be read, or does not know the model: nothing is queued.
QueueRefused(c) ==
    /\ calls[c].stage = "catalog"
    /\ calls' = [calls EXCEPT ![c] = NoCall]
    /\ UNCHANGED <<st, alarm, advance, register, accepted, order, deleted, retries, restarts, mishaps>>

\* Mutant: the alarm is left to the dispatch in progress.
QueueArmIfIdle(c) ==
    /\ calls[c].stage = "report"
    /\ calls' = [calls EXCEPT ![c] = NoCall]
    /\ alarm' = (alarm \/ (st.exists /\ advance.stage = "none"))
    /\ UNCHANGED <<st, advance, register, accepted, order, deleted, retries, restarts, mishaps>>

\* The state has been reported to the Hub; set the alarm.
QueueArm(c) ==
    /\ calls[c].stage = "report"
    /\ calls' = [calls EXCEPT ![c] = NoCall]
    /\ alarm' = (alarm \/ st.exists)
    /\ UNCHANGED <<st, advance, register, accepted, order, deleted, retries, restarts, mishaps>>

RetrySession(c) ==
    /\ calls[c].stage = "none"
    /\ st.exists
    /\ st.phase # "lost"
    /\ retries < MaxRetries
    /\ retries' = retries + 1
    /\ st' = [st EXCEPT !.phase = IF st.pending # <<>> THEN "queued" ELSE "working",
                        !.attempt = 0]
    /\ calls' = [calls EXCEPT ![c] = [NoCall EXCEPT !.stage = "retry"]]
    /\ UNCHANGED <<alarm, advance, register, accepted, order, deleted, restarts, mishaps>>

RetryArm(c) ==
    /\ calls[c].stage = "retry"
    /\ calls' = [calls EXCEPT ![c] = NoCall]
    /\ alarm' = (alarm \/ NeedsDispatch(st))
    /\ UNCHANGED <<st, advance, register, accepted, order, deleted, retries, restarts, mishaps>>

\* The session view has seen the container come up without this conversation.
MarkLost ==
    /\ st.exists
    /\ st.opencode
    /\ st.phase # "lost"
    /\ alarm' = FALSE
    /\ st' = [st EXCEPT !.phase = "lost", !.attempt = 0]
    /\ mishaps' = mishaps \cup {"lost"}
    /\ UNCHANGED <<advance, register, calls, accepted, order, deleted, retries, restarts>>

MarkDeleted ==
    /\ st.exists
    /\ st' = NoState
    /\ deleted' = TRUE
    /\ alarm' = FALSE
    /\ UNCHANGED <<advance, register, calls, accepted, order, retries, restarts, mishaps>>

\* ensureRegistered, from a route that reads the session before its alarm ran.
EnsureRegistered ==
    /\ st.exists
    /\ ~st.registered
    /\ register.stage = "none"
    /\ register' = [stage |-> "row", base |-> st]
    /\ UNCHANGED <<st, alarm, advance, calls, accepted, order, deleted, retries, restarts, mishaps>>

-----------------------------------------------------------------------------
\* register()

RegisterRow ==
    /\ register.stage = "row"
    /\ register' = [register EXCEPT !.stage = "init"]
    /\ UNCHANGED <<st, alarm, advance, calls, accepted, order, deleted, retries, restarts, mishaps>>

\* The Sandbox knows its instance; the state read at the start is written back.
RegisterDone ==
    /\ register.stage = "init"
    /\ st' = [register.base EXCEPT !.registered = TRUE]
    /\ register' = NoRegister
    /\ advance' = IF advance.stage = "register"
                  THEN [advance EXCEPT !.stage = "registered"] ELSE advance
    /\ UNCHANGED <<alarm, calls, accepted, order, deleted, retries, restarts, mishaps>>

RegisterFail ==
    /\ register.stage \in {"row", "init"}
    /\ register' = NoRegister
    /\ advance' = IF advance.stage = "register"
                  THEN [advance EXCEPT !.stage = "unregistered"] ELSE advance
    /\ UNCHANGED <<st, alarm, calls, accepted, order, deleted, retries, restarts, mishaps>>

-----------------------------------------------------------------------------
\* alarm() and advance()

AlarmFire ==
    /\ alarm
    /\ advance.stage = "none"
    /\ alarm' = FALSE
    /\ IF ~NeedsDispatch(st) THEN UNCHANGED <<advance, register>>
       ELSE IF st.registered /\ register.stage = "none"
       THEN /\ advance' = [advance EXCEPT !.stage = "registered"]
            /\ UNCHANGED register
       ELSE /\ advance' = [advance EXCEPT !.stage = "register"]
            /\ register' = IF register.stage = "none" THEN [stage |-> "row", base |-> st]
                           ELSE register
    /\ UNCHANGED <<st, calls, accepted, order, deleted, retries, restarts, mishaps>>

\* Mutant: the dispatch reports its failure all the same.
AdvanceAbandonedReports ==
    /\ advance.stage \notin {"none", "register", "backoff"}
    /\ ~st.exists
    /\ advance' = NoAdvance
    /\ st' = [st EXCEPT !.exists = TRUE, !.phase = "failed"]
    /\ UNCHANGED <<alarm, register, calls, accepted, order, deleted, retries, restarts, mishaps>>

\* A dispatch whose session was deleted: requireState throws, or update writes
\* nothing; either way the dispatch ends without a trace.
AdvanceAbandoned ==
    /\ advance.stage \notin {"none", "register", "backoff"}
    /\ ~st.exists
    /\ advance' = NoAdvance
    /\ UNCHANGED <<st, alarm, register, calls, accepted, order, deleted, retries, restarts, mishaps>>

\* A dispatch goes from one stage to the next, the state still being there.
Goto(from, to) ==
    /\ advance.stage = from
    /\ st.exists
    /\ advance' = [advance EXCEPT !.stage = to]
    /\ UNCHANGED <<alarm, register, calls, order, deleted, retries, restarts, mishaps>>

AdvanceStart ==
    /\ Goto("registered", "wake")
    /\ Update([st EXCEPT !.phase = "starting"])
    /\ UNCHANGED accepted

\* wakeInstanceRuntime; only a session that has a conversation can have lost it.
AdvanceWoken ==
    /\ Goto("wake", IF st.opencode THEN "survive" ELSE "begin")
    /\ UNCHANGED <<st, accepted>>

AdvanceSurvived == Goto("survive", "begin") /\ UNCHANGED <<st, accepted>>

AdvanceAdmitted ==
    /\ Goto("begin", IF st.opencode THEN "loop" ELSE "create")
    /\ UNCHANGED <<st, accepted>>

AdvanceCreated ==
    /\ Goto("create", "loop")
    /\ Update([st EXCEPT !.opencode = TRUE])
    /\ UNCHANGED accepted

AdvancePick ==
    /\ advance.stage = "loop"
    /\ st.exists
    /\ advance' = IF st.pending = <<>> THEN [NoAdvance EXCEPT !.stage = "end"]
                  ELSE [stage |-> "prompt", prompt |-> <<Head(st.pending)>>]
    /\ UNCHANGED <<st, alarm, register, calls, accepted, order, deleted, retries, restarts, mishaps>>

\* The container takes the prompt (prompt_async answers 204 later).
PromptAccepted ==
    /\ Len(accepted) < MaxHistory
    /\ Goto("prompt", "reply")
    /\ accepted' = accepted \o advance.prompt
    /\ UNCHANGED st

\* Mutant: the queue as it was when the prompt was picked.
AdvanceDequeueAll ==
    /\ Goto("reply", "loop")
    /\ Update([st EXCEPT !.pending = <<>>,
                         !.delivered = LastN(@ \o advance.prompt, DeliveredWindow)])
    /\ UNCHANGED accepted

\* The answer arrives: the prompt leaves the queue as the queue is now.
AdvanceDequeue ==
    /\ Goto("reply", "loop")
    /\ Update([st EXCEPT
                !.pending = Without(@, advance.prompt[1]),
                !.delivered = LastN(@ \o advance.prompt, DeliveredWindow)])
    /\ UNCHANGED accepted

\* Settled, the lease ended: every queued prompt was handed over.
AdvanceEnd ==
    /\ Goto("end", "none")
    /\ Update([st EXCEPT !.phase = "working", !.attempt = 0])
    /\ UNCHANGED accepted

\* The conversation is gone: at once when the container says so, after the last
\* retry when OpenCode does not know the session.
AdvanceLost ==
    /\ \/ advance.stage = "survive"
       \/ advance.stage = "prompt" /\ st.attempt + 1 > RetryBackoffs
    /\ st.exists
    /\ advance' = NoAdvance
    /\ Update([st EXCEPT !.phase = "lost", !.attempt = 0])
    /\ UNCHANGED <<alarm, register, calls, accepted, order, deleted, retries, restarts, mishaps>>

\* What it means for the dispatch to end here.
Unheard == IF advance.stage = "reply" THEN {"unheard"} ELSE {}

FailingStages ==
    {"unregistered", "wake", "survive", "begin", "create", "loop", "prompt", "reply", "end"}

\* Anything the dispatch awaits may throw: the next rung of the retry ladder.
AdvanceFail ==
    LET exhausted == st.attempt + 1 > RetryBackoffs
    IN  /\ advance.stage \in FailingStages
        /\ st.exists
        /\ Update([st EXCEPT !.phase = IF exhausted THEN "failed" ELSE "queued",
                             !.attempt = @ + 1])
        /\ mishaps' = mishaps \cup Unheard
        /\ advance' = IF exhausted THEN NoAdvance ELSE [NoAdvance EXCEPT !.stage = "backoff"]
        /\ UNCHANGED <<alarm, register, calls, accepted, order, deleted, retries, restarts>>

\* The retry's alarm is set once the report is out.
AdvanceBackoff ==
    /\ advance.stage = "backoff"
    /\ alarm' = TRUE
    /\ advance' = NoAdvance
    /\ UNCHANGED <<st, register, calls, accepted, order, deleted, retries, restarts, mishaps>>

-----------------------------------------------------------------------------
\* The object is evicted; its constructor re-arms a queue that needs dispatch.
Restart ==
    /\ restarts < MaxRestarts
    /\ restarts' = restarts + 1
    /\ advance' = NoAdvance
    /\ register' = NoRegister
    /\ calls' = [c \in Callers |-> NoCall]
    /\ alarm' = (alarm \/ NeedsDispatch(st))
    /\ mishaps' = mishaps \cup Unheard
    /\ UNCHANGED <<st, accepted, order, deleted, retries>>

Init ==
    /\ st = NoState
    /\ alarm = FALSE
    /\ advance = NoAdvance
    /\ register = NoRegister
    /\ calls = [c \in Callers |-> NoCall]
    /\ accepted = <<>>
    /\ order = <<>>
    /\ deleted = FALSE
    /\ retries = 0
    /\ restarts = 0
    /\ mishaps = {}

\* An await other requests are not allowed to run in.
Blocked ==
    \/ "register" \notin Overlaps /\ register.stage # "none"
    \/ "catalog" \notin Overlaps /\ \E c \in Callers : calls[c].stage = "catalog"

Request ==
    \/ \E p \in Prompts : StartSession(p)
    \/ \E c \in Callers, p \in Prompts : QueueRead(c, p)
    \/ \E c \in Callers : RetrySession(c)
    \/ MarkLost \/ MarkDeleted \/ EnsureRegistered

CallStep(c) == QueueArm(c) \/ RetryArm(c)

RegisterStep == RegisterRow \/ RegisterDone \/ RegisterFail

AdvanceStep ==
    \/ AdvanceAbandoned \/ AdvanceStart \/ AdvanceWoken \/ AdvanceSurvived
    \/ AdvanceAdmitted \/ AdvanceCreated \/ AdvancePick \/ PromptAccepted
    \/ AdvanceDequeue \/ AdvanceEnd \/ AdvanceLost \/ AdvanceFail \/ AdvanceBackoff

Next ==
    \/ RegisterStep
    \/ \E c \in Callers : QueueWrite(c) \/ QueueRefused(c)
    \/ Restart
    \/ /\ ~Blocked
       /\ \/ Request \/ AlarmFire \/ AdvanceStep
          \/ \E c \in Callers : CallStep(c)

\* Alarms are delivered at least once, and every await settles one way or the
\* other.  Events are delivered in turn, so requests that keep coming do not
\* starve the dispatch: fairness is strong where Blocked comes and goes.
Fairness ==
    /\ SF_vars(~Blocked /\ AlarmFire)
    /\ SF_vars(~Blocked /\ AdvanceStep)
    /\ WF_vars(RegisterStep)
    /\ \A c \in Callers : /\ WF_vars(QueueWrite(c) \/ QueueRefused(c))
                          /\ SF_vars(~Blocked /\ CallStep(c))

Spec == Init /\ [][Next]_vars /\ Fairness

-----------------------------------------------------------------------------
\* Properties

\* Every variable of the agent keeps the shape the code gives it.
TypeOK ==
    /\ st \in AgentState
    /\ alarm \in BOOLEAN
    /\ advance.stage \in AdvanceStages
    /\ register.stage \in {"none", "row", "init"} /\ register.base \in AgentState
    /\ \A c \in Callers : /\ calls[c].stage \in {"none", "catalog", "report", "retry"}
                          /\ calls[c].base \in AgentState
    /\ accepted \in Seq(Prompts)
    /\ order \in Seq(Prompts) /\ mishaps \subseteq Mishaps
    /\ st.attempt <= RetryBackoffs + 1

\* A prompt the queue has taken is never lost: it is still queued or the
\* container has it, until the session is deleted.  A dispatch that dequeues one
\* prompt must not take with it those queued while it waited for the container.
TakenPromptsKept ==
    ~deleted => Range(order) \subseteq Range(st.pending) \cup Range(accepted)

\* Prompts reach the container in the order they were taken, and none twice
\* (queuePrompt: "several messages sent in quick succession arrive in order and
\* none is delivered twice"), as far back as delivered ids are remembered and
\* as long as no answer is lost, when the dispatch has to send again.
DeliveredInOrderOnce ==
    \/ "unheard" \in mishaps
    \/ /\ IsPrefix(accepted, order)
       /\ \A i, j \in 1..Len(accepted) :
             i < j /\ accepted[i] = accepted[j] => j - i > DeliveredWindow

\* Once deleted, the session's storage is not written again by a request or a
\* dispatch that was in flight (update: "Do not resurrect its storage").
DeletedStaysDeleted == deleted => ~st.exists

\* A queue that needs dispatch has somebody to dispatch it: an alarm, a dispatch
\* that has not finished, or a request about to set the alarm.  A dispatch
\* overwrites the phase that markLost wrote under it, but not the alarm it
\* deleted.
QueueIsDriven ==
    NeedsDispatch(st) /\ "lost" \notin mishaps =>
        \/ alarm
        \/ advance.stage # "none"
        \/ \E c \in Callers : calls[c].stage \in {"report", "retry"}

\* Every prompt the queue takes is eventually accepted by the container, unless
\* the retries run out, the conversation is lost or the session is deleted.
PromptsArrive ==
    \A p \in Prompts :
        p \in Range(order) ~> \/ p \in Range(accepted)
                              \/ ~st.exists
                              \/ st.phase \in {"failed", "lost"} \/ "lost" \in mishaps

=============================================================================
