------------------------- MODULE SessionAgentProofs -------------------------
(***************************************************************************)
(* Proofs about SessionAgent, for any prompts, requests, retries and       *)
(* evictions, where no other request runs in the awaits of queuePrompt and *)
(* register (Overlaps = {}); the run that lets them overlap shows that     *)
(* without it TakenPromptsKept is false.                                   *)
(*                                                                         *)
(* AgentInv says that what an await remembers is still what is stored.     *)
(* Every step is then one of a few kinds, by what it does to the queue,    *)
(* and the properties of the queue are proved of the kinds.                *)
(***************************************************************************)
EXTENDS SessionAgent, TLAPS

\* What a request in progress keeps.
CallRecords ==
    [stage : {"none", "catalog", "report", "retry"}, prompt : Seq(Prompts), base : AgentState]

Shape ==
    /\ st \in AgentState
    /\ alarm \in BOOLEAN
    /\ advance \in [stage : AdvanceStages, prompt : Seq(Prompts)]
    /\ register \in [stage : {"none", "row", "init"}, base : AgentState]
    /\ calls \in [Callers -> CallRecords]
    /\ accepted \in Seq(Prompts) /\ order \in Seq(Prompts)
    /\ deleted \in BOOLEAN /\ mishaps \subseteq Mishaps

\* One await at a time, and it remembers the state that is stored.
AwaitSound ==
    /\ register.stage # "none" =>
          /\ register.base = st /\ st.exists
          /\ \A c \in Callers : calls[c].stage # "catalog"
    /\ \A c \in Callers : calls[c].stage = "catalog" =>
          /\ calls[c].base = st /\ st.exists
          /\ \E p \in Prompts : calls[c].prompt = <<p>>
          /\ \A d \in Callers : calls[d].stage = "catalog" => d = c

\* The retries are counted up to the last; past it only a failed session is left.
AttemptSound ==
    /\ st.attempt <= RetryBackoffs + 1
    /\ st.phase # "failed" \/ advance.stage # "none" => st.attempt <= RetryBackoffs

\* Before the start nothing has been taken, dispatched or dispatching.
StartSound ==
    ~st.exists /\ ~deleted =>
        /\ accepted = <<>> /\ order = <<>> /\ advance.stage = "none"

\* The inductive invariant of the stored state.
AgentInv == Shape /\ AwaitSound /\ DeletedStaysDeleted /\ AttemptSound /\ StartSound

-----------------------------------------------------------------------------
\* Values

\* The retry ladder and the window are numbers.
LEMMA Bounds == RetryBackoffs \in Nat /\ DeliveredWindow \in Nat
  BY AgentAssumption

\* With no overlap, a handler that awaits D1 or the Hub keeps the others out.
LEMMA BlockedIs ==
  ASSUME Overlaps = {}
  PROVE  Blocked <=> \/ register.stage # "none"
                     \/ \E c \in Callers : calls[c].stage = "catalog"
  BY DEF Blocked

\* The states that stand for nothing.
LEMMA NothingType ==
  /\ NoState \in AgentState /\ ~NoState.exists /\ NoState.attempt = 0 /\ NoState.phase = "queued"
  /\ NoState.pending = <<>> /\ NoState.delivered = <<>>
  /\ NoAdvance \in [stage : AdvanceStages, prompt : Seq(Prompts)] /\ NoAdvance.stage = "none"
  /\ NoRegister \in [stage : {"none", "row", "init"}, base : AgentState] /\ NoRegister.stage = "none"
<1>1. <<>> \in Seq(Prompts) /\ 0 \in Nat
  OBVIOUS
<1>2. NoState \in AgentState
  BY <1>1 DEF NoState, AgentState, Phases
<1>3. /\ ~NoState.exists /\ NoState.attempt = 0 /\ NoState.phase = "queued"
      /\ NoState.pending = <<>> /\ NoState.delivered = <<>>
  BY DEF NoState
<1>4. NoAdvance \in [stage : AdvanceStages, prompt : Seq(Prompts)] /\ NoAdvance.stage = "none"
  BY <1>1 DEF NoAdvance, AdvanceStages
<1>5. NoRegister \in [stage : {"none", "row", "init"}, base : AgentState] /\ NoRegister.stage = "none"
  BY <1>2 DEF NoRegister
<1> QED
  BY <1>2, <1>3, <1>4, <1>5

\* A request that is not waiting for the catalog.
LEMMA CallType ==
  /\ NoCall \in CallRecords /\ NoCall.stage = "none"
  /\ [NoCall EXCEPT !.stage = "report"] \in CallRecords
  /\ [NoCall EXCEPT !.stage = "report"].stage = "report"
  /\ [NoCall EXCEPT !.stage = "retry"] \in CallRecords
  /\ [NoCall EXCEPT !.stage = "retry"].stage = "retry"
<1>1. <<>> \in Seq(Prompts) /\ NoState \in AgentState
  BY NothingType
<1>2. NoCall \in CallRecords /\ NoCall.stage = "none"
  BY <1>1 DEF NoCall, CallRecords
<1>3. /\ [NoCall EXCEPT !.stage = "report"] \in CallRecords
      /\ [NoCall EXCEPT !.stage = "report"].stage = "report"
  BY <1>2 DEF CallRecords
<1>4. /\ [NoCall EXCEPT !.stage = "retry"] \in CallRecords
      /\ [NoCall EXCEPT !.stage = "retry"].stage = "retry"
  BY <1>2 DEF CallRecords
<1> QED
  BY <1>2, <1>3, <1>4

\* Of a stored state, the phase, the attempt and the flags may change.
LEMMA StateType ==
  ASSUME NEW s \in AgentState, NEW phase \in Phases, NEW attempt \in Nat, NEW f \in BOOLEAN
  PROVE  /\ [s EXCEPT !.phase = phase] \in AgentState
         /\ [s EXCEPT !.phase = phase, !.attempt = attempt] \in AgentState
         /\ [s EXCEPT !.opencode = f] \in AgentState
         /\ [s EXCEPT !.registered = f] \in AgentState
<1>1. [s EXCEPT !.phase = phase] \in AgentState
  BY DEF AgentState
<1>2. [s EXCEPT !.phase = phase, !.attempt = attempt] \in AgentState
  BY DEF AgentState
<1>3. [s EXCEPT !.opencode = f] \in AgentState
  BY DEF AgentState
<1>4. [s EXCEPT !.registered = f] \in AgentState
  BY DEF AgentState
<1> QED
  BY <1>1, <1>2, <1>3, <1>4

\* The last n elements of a sequence are elements of it.
LEMMA LastNType ==
  ASSUME NEW s \in Seq(Prompts), NEW n \in Nat
  PROVE  /\ LastN(s, n) \in Seq(Prompts)
         /\ Len(LastN(s, n)) = IF Len(s) > n THEN n ELSE Len(s)
         /\ \A i \in 1..Len(LastN(s, n)) : LastN(s, n)[i] = s[Len(s) - Len(LastN(s, n)) + i]
<1>1. CASE Len(s) > n
  <2>1. /\ Len(s) - n + 1 \in 1..Len(s) + 1
        /\ LastN(s, n) = SubSeq(s, Len(s) - n + 1, Len(s))
    BY <1>1 DEF LastN
  <2> QED
    BY <1>1, <2>1
<1>2. CASE ~(Len(s) > n)
  <2>1. LastN(s, n) = SubSeq(s, 1, Len(s))
    BY <1>2 DEF LastN
  <2> QED
    BY <1>2, <2>1
<1> QED
  BY <1>1, <1>2

\* Taking the first prompt out of a queue without repetitions leaves the rest.
LEMMA WithoutHead ==
  ASSUME NEW q \in Seq(Prompts), q # <<>>,
         \A i, j \in 1..Len(q) : q[i] = q[j] => i = j
  PROVE  Without(q, q[1]) = Tail(q)
<1>1. 1 \in 1..Len(q) /\ q[1] \in Range(q)
  BY DEF Range
<1>2. (CHOOSE i \in 1..Len(q) : q[i] = q[1]) = 1
  BY <1>1
<1>3. Without(q, q[1]) = SubSeq(q, 1, 1 - 1) \o SubSeq(q, 1 + 1, Len(q))
  BY <1>1, <1>2, Zenon DEF Without
<1>4. SubSeq(q, 1, 1 - 1) = <<>> /\ SubSeq(q, 1 + 1, Len(q)) = Tail(q)
  OBVIOUS
<1>5. Tail(q) \in Seq(Prompts)
  OBVIOUS
<1> QED
  BY <1>3, <1>4, <1>5

\* Places in the order are counted from what has been confirmed (c): first of
\* what is queued,
LEMMA QueuedPlace ==
  ASSUME NEW c \in Int, NEW n \in Nat, NEW i \in Int, i > c, i <= c + n
  PROVE  i - c \in 1..n /\ c + (i - c) = i
  OBVIOUS

\* then of the d ids remembered as delivered,
LEMMA DeliveredPlace ==
  ASSUME NEW c \in Int, NEW d \in Nat, NEW i \in Int, i > c - d, i <= c
  PROVE  i - (c - d) \in 1..d /\ c - d + (i - (c - d)) = i
  OBVIOUS

\* of the next one after them,
LEMMA NextPlace ==
  ASSUME NEW c \in Int, NEW d \in Nat
  PROVE  c - d + (d + 1) = c + 1
  OBVIOUS

\* and all of them are places in the order.
LEMMA PlaceInOrder ==
  ASSUME NEW c \in Int, NEW d \in Nat, NEW n \in Nat, d <= c, c <= n, NEW i \in 1..d
  PROVE  c - d + i \in 1..n
  OBVIOUS

\* What a sequence holds with one more element.
LEMMA RangeOfAppend ==
  ASSUME NEW s \in Seq(Prompts), NEW p \in Prompts
  PROVE  /\ Range(s \o <<p>>) = Range(s) \cup {p}
         /\ Range(Append(s, p)) = Range(s) \cup {p}
<1>1. ASSUME NEW t \in Seq(Prompts), Len(t) = Len(s) + 1, t[Len(s) + 1] = p,
             \A i \in 1..Len(s) : t[i] = s[i]
      PROVE  Range(t) = Range(s) \cup {p}
  <2>1. DOMAIN t = 1..Len(s) + 1 /\ DOMAIN s = 1..Len(s) /\ Len(s) \in Nat
    BY <1>1
  <2>2. Range(t) \subseteq Range(s) \cup {p}
    BY <1>1, <2>1 DEF Range
  <2>3. p \in Range(t) /\ Range(s) \subseteq Range(t)
    BY <1>1, <2>1 DEF Range
  <2> QED
    BY <2>2, <2>3
<1>2. /\ s \o <<p>> \in Seq(Prompts) /\ Len(s \o <<p>>) = Len(s) + 1
      /\ (s \o <<p>>)[Len(s) + 1] = p /\ \A i \in 1..Len(s) : (s \o <<p>>)[i] = s[i]
  OBVIOUS
<1>3. /\ Append(s, p) \in Seq(Prompts) /\ Len(Append(s, p)) = Len(s) + 1
      /\ Append(s, p)[Len(s) + 1] = p /\ \A i \in 1..Len(s) : Append(s, p)[i] = s[i]
  OBVIOUS
<1>4. Range(s \o <<p>>) = Range(s) \cup {p}
  BY <1>1, <1>2
<1>5. Range(Append(s, p)) = Range(s) \cup {p}
  BY <1>1, <1>3
<1> QED
  BY <1>4, <1>5

\* Taking a prompt out of a queue leaves a queue.
LEMMA WithoutType ==
  ASSUME NEW q \in Seq(Prompts), NEW p
  PROVE  Without(q, p) \in Seq(Prompts)
<1>1. CASE p \in Range(q)
  <2>1. PICK i \in 1..Len(q) : q[i] = p /\ i = CHOOSE j \in 1..Len(q) : q[j] = p
    BY <1>1 DEF Range
  <2>2. Without(q, p) = SubSeq(q, 1, i - 1) \o SubSeq(q, i + 1, Len(q))
    BY <1>1, <2>1, Zenon DEF Without
  <2>3. SubSeq(q, 1, i - 1) \in Seq(Prompts) /\ SubSeq(q, i + 1, Len(q)) \in Seq(Prompts)
    OBVIOUS
  <2> QED
    BY <2>2, <2>3
<1>2. CASE p \notin Range(q)
  BY <1>2 DEF Without
<1> QED
  BY <1>1, <1>2

-----------------------------------------------------------------------------
\* Every step keeps AgentInv

\* A step while nobody awaits D1 or the Hub, and after which nobody does.
LEMMA FreeStep ==
  ASSUME AgentInv,
         st' \in AgentState, alarm' \in BOOLEAN,
         advance' \in [stage : AdvanceStages, prompt : Seq(Prompts)],
         register' = register, register.stage = "none",
         calls' \in [Callers -> CallRecords],
         \A c \in Callers : calls'[c].stage # "catalog",
         accepted' \in Seq(Prompts), order' \in Seq(Prompts),
         deleted' \in BOOLEAN, mishaps' \subseteq Mishaps,
         DeletedStaysDeleted', AttemptSound', StartSound'
  PROVE  AgentInv'
<1>1. Shape'
  BY DEF AgentInv, Shape
<1>2. AwaitSound'
  BY DEF AwaitSound
<1> QED
  BY <1>1, <1>2 DEF AgentInv

\* A session starts with its first prompt.
LEMMA StartSessionInv ==
  ASSUME AgentInv, Overlaps = {}, ~Blocked, NEW p \in Prompts, StartSession(p)
  PROVE  AgentInv'
<1>1. /\ register.stage = "none" /\ \A c \in Callers : calls[c].stage # "catalog"
  BY BlockedIs
<1>2. <<p>> \in Seq(Prompts)
  OBVIOUS
<1>3. /\ st' \in AgentState /\ st'.exists /\ st'.attempt = 0 /\ st'.phase = "queued"
  <2>1. [NoState EXCEPT !.exists = TRUE, !.pending = <<p>>] \in AgentState
    BY <1>2, NothingType DEF AgentState
  <2>2. st' = [NoState EXCEPT !.exists = TRUE, !.pending = <<p>>]
    BY DEF StartSession
  <2> QED
    BY <2>1, <2>2 DEF NoState
<1>4. AttemptSound'
  BY <1>3, Bounds DEF AttemptSound
<1>5. StartSound' /\ DeletedStaysDeleted'
  BY <1>3 DEF StartSound, DeletedStaysDeleted, StartSession
<1> QED
  BY <1>1, <1>2, <1>3, <1>4, <1>5, FreeStep DEF StartSession, AgentInv, Shape

\* queuePrompt up to the catalog: it remembers the state it read.
LEMMA QueueReadInv ==
  ASSUME AgentInv, Overlaps = {}, ~Blocked, NEW c \in Callers, NEW p \in Prompts, QueueRead(c, p)
  PROVE  AgentInv'
<1>1. /\ register.stage = "none" /\ \A d \in Callers : calls[d].stage # "catalog"
  BY BlockedIs
<1> DEFINE call == [stage |-> "catalog", prompt |-> <<p>>, base |-> st]
<1>2. /\ calls' = [calls EXCEPT ![c] = call] /\ st.exists
      /\ UNCHANGED <<st, alarm, advance, register, accepted, order, deleted, mishaps>>
  BY DEF QueueRead
<1>3. /\ call \in CallRecords
      /\ call.stage = "catalog" /\ call.prompt = <<p>> /\ call.base = st
  <2>1. <<p>> \in Seq(Prompts) /\ st \in AgentState
    BY DEF AgentInv, Shape
  <2> QED
    BY <2>1 DEF CallRecords
<1> HIDE DEF call
<1>4. Shape'
  BY <1>2, <1>3 DEF AgentInv, Shape
<1>5. AwaitSound'
  <2>1. /\ calls'[c] = call /\ \A d \in Callers \ {c} : calls'[d] = calls[d]
    BY <1>2 DEF AgentInv, Shape
  <2> QED
    BY <1>1, <1>2, <1>3, <2>1 DEF AwaitSound
<1>6. DeletedStaysDeleted' /\ AttemptSound' /\ StartSound'
  BY <1>2 DEF AgentInv, DeletedStaysDeleted, AttemptSound, StartSound
<1> QED
  BY <1>4, <1>5, <1>6 DEF AgentInv

\* queuePrompt after the catalog: what it writes back is what is stored, with the prompt.
LEMMA QueueWriteIs ==
  ASSUME AgentInv, NEW c \in Callers, QueueWrite(c)
  PROVE  /\ st.exists /\ register.stage = "none"
         /\ \A d \in Callers : d # c => calls[d].stage # "catalog"
         /\ UNCHANGED <<alarm, advance, register, accepted, deleted, mishaps>>
         /\ \/ /\ UNCHANGED <<st, order>>
               /\ calls' = [calls EXCEPT ![c] = NoCall]
            \/ \E p \in Prompts :
                  /\ ~Known(st, p)
                  /\ st' = [st EXCEPT !.pending = Append(@, p), !.phase = "queued", !.attempt = 0]
                  /\ order' = Append(order, p)
                  /\ calls' = [calls EXCEPT ![c] = [NoCall EXCEPT !.stage = "report"]]
<1>1. calls[c].stage = "catalog" /\ UNCHANGED <<alarm, advance, register, accepted, deleted, mishaps>>
  BY DEF QueueWrite
<1>2. /\ calls[c].base = st /\ st.exists
      /\ \A d \in Callers : calls[d].stage = "catalog" => d = c
      /\ register.stage = "none"
  BY <1>1 DEF AgentInv, AwaitSound
<1>3. PICK p \in Prompts : calls[c].prompt = <<p>>
  BY <1>1 DEF AgentInv, AwaitSound
<1>4. calls[c].prompt[1] = p
  BY <1>3
<1>5. \/ /\ UNCHANGED <<st, order>> /\ calls' = [calls EXCEPT ![c] = NoCall]
      \/ /\ ~Known(st, p)
         /\ st' = [st EXCEPT !.pending = Append(@, p), !.phase = "queued", !.attempt = 0]
         /\ order' = Append(order, p)
         /\ calls' = [calls EXCEPT ![c] = [NoCall EXCEPT !.stage = "report"]]
  BY <1>2, <1>4 DEF QueueWrite
<1> QED
  BY <1>1, <1>2, <1>5

\* A prompt that is queued.
LEMMA QueuedState ==
  ASSUME NEW s \in AgentState, NEW p \in Prompts
  PROVE  LET t == [s EXCEPT !.pending = Append(@, p), !.phase = "queued", !.attempt = 0] IN
         /\ t \in AgentState /\ t.exists = s.exists /\ t.pending = Append(s.pending, p)
         /\ t.delivered = s.delivered /\ t.phase = "queued" /\ t.attempt = 0
<1>1. Append(s.pending, p) \in Seq(Prompts) /\ "queued" \in Phases /\ 0 \in Nat
  BY DEF AgentState, Phases
<1> QED
  BY <1>1, Zenon DEF AgentState

\* The state with the prompt is a state, and nobody awaits any more.
LEMMA QueueWriteInv ==
  ASSUME AgentInv, NEW c \in Callers, QueueWrite(c)
  PROVE  AgentInv'
<1>1. /\ st.exists /\ register.stage = "none"
      /\ \A d \in Callers : d # c => calls[d].stage # "catalog"
      /\ UNCHANGED <<alarm, advance, register, accepted, deleted, mishaps>>
  BY QueueWriteIs
<1>2. /\ NoCall.stage = "none"
      /\ NoCall \in CallRecords
      /\ [NoCall EXCEPT !.stage = "report"].stage = "report"
      /\ [NoCall EXCEPT !.stage = "report"] \in CallRecords
  BY CallType
<1>3. CASE UNCHANGED <<st, order>> /\ calls' = [calls EXCEPT ![c] = NoCall]
  BY <1>1, <1>2, <1>3, FreeStep DEF AgentInv, Shape, DeletedStaysDeleted, AttemptSound, StartSound
<1>4. ASSUME NEW p \in Prompts,
             st' = [st EXCEPT !.pending = Append(@, p), !.phase = "queued", !.attempt = 0],
             order' = Append(order, p),
             calls' = [calls EXCEPT ![c] = [NoCall EXCEPT !.stage = "report"]]
      PROVE  AgentInv'
  <2>1. st' \in AgentState /\ st'.exists = st.exists /\ st'.attempt = 0
    BY <1>4, QueuedState DEF AgentInv, Shape
  <2>2. order' \in Seq(Prompts)
    BY <1>4 DEF AgentInv, Shape
  <2>3. AttemptSound'
    BY <2>1, Bounds DEF AttemptSound
  <2>4. DeletedStaysDeleted' /\ StartSound'
    BY <1>1, <2>1 DEF AgentInv, DeletedStaysDeleted, StartSound
  <2>5. /\ \A d \in Callers : calls'[d].stage # "catalog"
        /\ calls' \in [Callers -> CallRecords]
    BY <1>1, <1>2, <1>4 DEF AgentInv, Shape
  <2> QED
    BY <1>1, <2>1, <2>2, <2>3, <2>4, <2>5, FreeStep DEF AgentInv, Shape
<1> QED
  BY <1>3, <1>4, QueueWriteIs

\* The other requests, while no handler awaits.
LEMMA RequestInv ==
  ASSUME AgentInv, Overlaps = {}, ~Blocked,
         \/ MarkLost \/ MarkDeleted
         \/ \E c \in Callers : RetrySession(c) \/ QueueArm(c) \/ RetryArm(c)
  PROVE  AgentInv'
<1>1. /\ register.stage = "none" /\ \A c \in Callers : calls[c].stage # "catalog"
  BY BlockedIs
<1>2. /\ st \in AgentState /\ calls \in [Callers -> CallRecords] /\ alarm \in BOOLEAN
      /\ mishaps \subseteq Mishaps
  BY DEF AgentInv, Shape
<1>3. CASE MarkLost
  <2>1. st' \in AgentState /\ st'.exists = st.exists /\ st'.attempt = 0 /\ st'.phase = "lost"
    <3>1. "lost" \in Phases /\ 0 \in Nat /\ st' = [st EXCEPT !.phase = "lost", !.attempt = 0]
      BY <1>3 DEF MarkLost, Phases
    <3>2. st' \in AgentState
      BY <1>2, <3>1, StateType
    <3> QED
      BY <1>2, <3>1, <3>2, Zenon DEF AgentState
  <2>2. AttemptSound' /\ DeletedStaysDeleted' /\ StartSound'
    BY <1>3, <2>1, Bounds DEF MarkLost, AgentInv, AttemptSound, DeletedStaysDeleted, StartSound
  <2>3. alarm' = FALSE /\ mishaps' \subseteq Mishaps
    BY <1>2, <1>3 DEF MarkLost, Mishaps
  <2> QED
    BY <1>1, <1>3, <2>1, <2>2, <2>3, FreeStep DEF MarkLost, AgentInv, Shape
<1>4. CASE MarkDeleted
  <2>1. AttemptSound' /\ DeletedStaysDeleted' /\ StartSound'
    BY <1>4, NothingType, Bounds DEF MarkDeleted, AttemptSound, DeletedStaysDeleted, StartSound
  <2> QED
    BY <1>1, <1>4, <2>1, NothingType, FreeStep DEF MarkDeleted, AgentInv, Shape
<1>5. ASSUME NEW c \in Callers, RetrySession(c)  PROVE AgentInv'
  <2> DEFINE phase == IF st.pending # <<>> THEN "queued" ELSE "working"
  <2>1. /\ phase \in Phases /\ phase # "failed" /\ 0 \in Nat
        /\ st' = [st EXCEPT !.phase = phase, !.attempt = 0]
    BY <1>5 DEF RetrySession, Phases
  <2> HIDE DEF phase
  <2>2. st' \in AgentState
    BY <1>2, <2>1, StateType
  <2>3. st'.exists = st.exists /\ st'.attempt = 0
    BY <1>2, <2>1, Zenon DEF AgentState
  <2>4. AttemptSound' /\ DeletedStaysDeleted' /\ StartSound'
    BY <1>5, <2>3, Bounds
    DEF RetrySession, AgentInv, AttemptSound, DeletedStaysDeleted, StartSound
  <2>5. /\ calls' \in [Callers -> CallRecords]
        /\ \A d \in Callers : calls'[d].stage # "catalog"
    BY <1>1, <1>2, <1>5, CallType DEF RetrySession
  <2> QED
    BY <1>1, <1>5, <2>2, <2>4, <2>5, FreeStep DEF RetrySession, AgentInv, Shape
<1>6. ASSUME NEW c \in Callers, QueueArm(c) \/ RetryArm(c)  PROVE AgentInv'
  <2>1. /\ calls' = [calls EXCEPT ![c] = NoCall] /\ alarm' \in BOOLEAN
        /\ UNCHANGED <<st, advance, register, accepted, order, deleted, mishaps>>
    BY <1>2, <1>6 DEF QueueArm, RetryArm, AgentState, NeedsDispatch
  <2>2. /\ calls' \in [Callers -> CallRecords]
        /\ \A d \in Callers : calls'[d].stage # "catalog"
    BY <1>1, <1>2, <2>1, CallType
  <2>3. AttemptSound' /\ DeletedStaysDeleted' /\ StartSound'
    BY <2>1 DEF AgentInv, AttemptSound, DeletedStaysDeleted, StartSound
  <2> QED
    BY <1>1, <2>1, <2>2, <2>3, FreeStep DEF AgentInv, Shape
<1> QED
  BY <1>3, <1>4, <1>5, <1>6

\* A registration begins: it remembers the state it read.
LEMMA RegisterStarts ==
  ASSUME AgentInv, Overlaps = {}, ~Blocked, EnsureRegistered \/ AlarmFire
  PROVE  AgentInv'
<1>1. /\ register.stage = "none" /\ \A c \in Callers : calls[c].stage # "catalog"
  BY BlockedIs
<1>2. /\ UNCHANGED <<st, calls, accepted, order, deleted, mishaps>>
      /\ alarm' \in BOOLEAN
      /\ advance' \in [stage : AdvanceStages, prompt : Seq(Prompts)]
  <2>1. CASE EnsureRegistered
    BY <2>1 DEF EnsureRegistered, AgentInv, Shape
  <2>2. CASE AlarmFire
    <3>1. /\ [advance EXCEPT !.stage = "register"] \in [stage : AdvanceStages, prompt : Seq(Prompts)]
          /\ [advance EXCEPT !.stage = "registered"] \in [stage : AdvanceStages, prompt : Seq(Prompts)]
      BY DEF AgentInv, Shape, AdvanceStages
    <3> QED
      BY <2>2, <3>1 DEF AlarmFire, AgentInv, Shape
  <2> QED
    BY <2>1, <2>2
<1>3. \/ UNCHANGED register
      \/ st.exists /\ register' = [stage |-> "row", base |-> st]
  BY <1>1 DEF EnsureRegistered, AlarmFire, NeedsDispatch
<1>4. register' \in [stage : {"none", "row", "init"}, base : AgentState]
  BY <1>3 DEF AgentInv, Shape
<1>5. Shape'
  BY <1>2, <1>4 DEF AgentInv, Shape
<1>6. AwaitSound'
  BY <1>1, <1>2, <1>3 DEF AwaitSound
<1>7. \/ UNCHANGED advance
      \/ st.exists /\ st.phase # "failed"
  BY DEF EnsureRegistered, AlarmFire, NeedsDispatch
<1>8. DeletedStaysDeleted' /\ AttemptSound' /\ StartSound'
  BY <1>2, <1>7 DEF AgentInv, DeletedStaysDeleted, AttemptSound, StartSound
<1> QED
  BY <1>5, <1>6, <1>8 DEF AgentInv

\* A registration ends, or an eviction ends everything that was waiting.
LEMMA RegisterEnds ==
  ASSUME AgentInv, RegisterStep \/ Restart \/ \E c \in Callers : QueueRefused(c)
  PROVE  AgentInv'
<1>1. /\ st \in AgentState /\ calls \in [Callers -> CallRecords] /\ alarm \in BOOLEAN
      /\ mishaps \subseteq Mishaps
      /\ register \in [stage : {"none", "row", "init"}, base : AgentState]
      /\ advance \in [stage : AdvanceStages, prompt : Seq(Prompts)]
  BY DEF AgentInv, Shape
<1>2. CASE RegisterRow
  <2>1. /\ UNCHANGED <<st, alarm, advance, calls, accepted, order, deleted, mishaps>>
        /\ register' = [register EXCEPT !.stage = "init"] /\ register.stage = "row"
    BY <1>2 DEF RegisterRow
  <2>2. Shape'
    BY <1>1, <2>1 DEF AgentInv, Shape
  <2>3. AwaitSound'
    BY <1>1, <2>1 DEF AgentInv, AwaitSound
  <2> QED
    BY <2>1, <2>2, <2>3 DEF AgentInv, DeletedStaysDeleted, AttemptSound, StartSound
<1>3. ASSUME RegisterDone \/ RegisterFail  PROVE AgentInv'
  <2>1. /\ UNCHANGED <<alarm, calls, accepted, order, deleted, mishaps>>
        /\ register.stage # "none" /\ register' = NoRegister
        /\ \/ UNCHANGED advance
           \/ /\ advance.stage = "register"
              /\ \/ advance' = [advance EXCEPT !.stage = "registered"]
                 \/ advance' = [advance EXCEPT !.stage = "unregistered"]
        /\ \/ UNCHANGED st
           \/ st' = [register.base EXCEPT !.registered = TRUE]
    BY <1>3 DEF RegisterDone, RegisterFail
  <2>2. register.base = st /\ \A c \in Callers : calls[c].stage # "catalog"
    BY <2>1 DEF AgentInv, AwaitSound
  <2>3. /\ st' \in AgentState /\ st'.exists = st.exists /\ st'.attempt = st.attempt
        /\ st'.phase = st.phase
    <3>1. [st EXCEPT !.registered = TRUE] \in AgentState
      BY <1>1 DEF AgentState
    <3> QED
      BY <1>1, <2>1, <2>2, <3>1 DEF AgentState
  <2>4. /\ advance' \in [stage : AdvanceStages, prompt : Seq(Prompts)]
        /\ advance'.stage = "none" <=> advance.stage = "none"
    BY <1>1, <2>1 DEF AdvanceStages
  <2>5. Shape'
    BY <2>1, <2>3, <2>4, NothingType DEF AgentInv, Shape
  <2>6. AwaitSound'
    BY <2>1, <2>2, NothingType DEF AwaitSound
  <2>7. DeletedStaysDeleted' /\ AttemptSound' /\ StartSound'
    BY <2>1, <2>3, <2>4 DEF AgentInv, DeletedStaysDeleted, AttemptSound, StartSound
  <2> QED
    BY <2>5, <2>6, <2>7 DEF AgentInv
<1>4. CASE Restart
  <2>1. /\ UNCHANGED <<st, accepted, order, deleted>>
        /\ advance' = NoAdvance /\ register' = NoRegister
        /\ calls' = [c \in Callers |-> NoCall]
        /\ alarm' \in BOOLEAN
        /\ mishaps' \subseteq Mishaps
    BY <1>1, <1>4 DEF Restart, Unheard, Mishaps, NeedsDispatch, AgentState
  <2>2. calls' \in [Callers -> CallRecords] /\ \A c \in Callers : calls'[c].stage = "none"
    BY <2>1, CallType
  <2>3. Shape'
    BY <2>1, <2>2, NothingType DEF AgentInv, Shape
  <2>4. AwaitSound'
    BY <2>1, <2>2, NothingType DEF AwaitSound
  <2>5. DeletedStaysDeleted' /\ AttemptSound' /\ StartSound'
    BY <2>1, NothingType DEF AgentInv, DeletedStaysDeleted, AttemptSound, StartSound
  <2> QED
    BY <2>3, <2>4, <2>5 DEF AgentInv
<1>5. ASSUME NEW c \in Callers, QueueRefused(c)  PROVE AgentInv'
  <2>1. /\ calls[c].stage = "catalog" /\ calls' = [calls EXCEPT ![c] = NoCall]
        /\ UNCHANGED <<st, alarm, advance, register, accepted, order, deleted, mishaps>>
    BY <1>5 DEF QueueRefused
  <2>2. /\ calls' \in [Callers -> CallRecords] /\ register.stage = "none"
        /\ \A d \in Callers : calls'[d].stage # "catalog"
    BY <1>1, <2>1, CallType DEF AgentInv, AwaitSound
  <2>3. DeletedStaysDeleted' /\ AttemptSound' /\ StartSound'
    BY <2>1 DEF AgentInv, DeletedStaysDeleted, AttemptSound, StartSound
  <2> QED
    BY <1>1, <2>1, <2>2, <2>3, FreeStep DEF AgentInv, Shape
<1> QED
  BY <1>2, <1>3, <1>4, <1>5 DEF RegisterStep

\* What a step of the dispatch does to the state and the stage.
LEMMA AdvanceKeeps ==
  ASSUME AgentInv, AdvanceStep
  PROVE  /\ UNCHANGED <<register, calls, order, deleted>> /\ alarm' \in BOOLEAN
         /\ st' \in AgentState /\ st'.exists = st.exists
         /\ advance.stage # "none"
         /\ advance' \in [stage : AdvanceStages, prompt : Seq(Prompts)]
         /\ accepted' \in Seq(Prompts) /\ mishaps' \subseteq Mishaps
         /\ AttemptSound'
<1>1. /\ st \in AgentState /\ advance \in [stage : AdvanceStages, prompt : Seq(Prompts)]
      /\ accepted \in Seq(Prompts) /\ alarm \in BOOLEAN /\ mishaps \subseteq Mishaps
      /\ st.attempt \in Nat /\ st.attempt <= RetryBackoffs + 1
      /\ RetryBackoffs \in Nat
  BY Bounds DEF AgentInv, Shape, AttemptSound, AgentState
<1>2. advance.stage # "none" => st.attempt <= RetryBackoffs
  BY DEF AgentInv, AttemptSound
<1>3. ASSUME NEW stage \in AdvanceStages
      PROVE  /\ [advance EXCEPT !.stage = stage] \in [stage : AdvanceStages, prompt : Seq(Prompts)]
             /\ [NoAdvance EXCEPT !.stage = stage] \in [stage : AdvanceStages, prompt : Seq(Prompts)]
             /\ [NoAdvance EXCEPT !.stage = stage].stage = stage
  BY <1>1, NothingType
<1>4. CASE AdvanceAbandoned \/ AdvanceBackoff
  BY <1>1, <1>2, <1>4, NothingType DEF AdvanceAbandoned, AdvanceBackoff, AttemptSound
<1>5. CASE AdvanceWoken \/ AdvanceSurvived \/ AdvanceAdmitted
  <2>1. PICK to \in AdvanceStages :
          /\ advance' = [advance EXCEPT !.stage = to]
          /\ UNCHANGED <<st, alarm, register, calls, accepted, order, deleted, mishaps>>
          /\ advance.stage # "none"
    BY <1>5 DEF AdvanceWoken, AdvanceSurvived, AdvanceAdmitted, Goto, AdvanceStages
  <2> QED
    BY <1>1, <1>2, <1>3, <2>1 DEF AttemptSound
<1>6. CASE AdvanceStart \/ AdvanceCreated
  <2>1. PICK to \in AdvanceStages :
          /\ advance' = [advance EXCEPT !.stage = to]
          /\ UNCHANGED <<alarm, register, calls, accepted, order, deleted, mishaps>>
          /\ advance.stage # "none"
    BY <1>6 DEF AdvanceStart, AdvanceCreated, Goto, AdvanceStages
  <2>2. st' = [st EXCEPT !.phase = "starting"] \/ st' = [st EXCEPT !.opencode = TRUE]
    BY <1>6 DEF AdvanceStart, AdvanceCreated, Goto, Update
  <2>3. st' \in AgentState /\ st'.exists = st.exists /\ st'.attempt = st.attempt
    BY <1>1, <2>2 DEF AgentState, Phases
  <2> QED
    BY <1>1, <1>2, <1>3, <2>1, <2>3 DEF AttemptSound
<1>7. CASE AdvancePick
  <2>1. /\ UNCHANGED <<st, alarm, register, calls, accepted, order, deleted, mishaps>>
        /\ advance.stage # "none"
    BY <1>7 DEF AdvancePick
  <2>2. advance' \in [stage : AdvanceStages, prompt : Seq(Prompts)]
    <3>1. CASE st.pending = <<>>
      BY <1>3, <1>7, <3>1 DEF AdvancePick, AdvanceStages
    <3>2. CASE st.pending # <<>>
      <4>1. Head(st.pending) \in Prompts
        BY <1>1, <3>2 DEF AgentState
      <4>2. <<Head(st.pending)>> \in Seq(Prompts) /\ "prompt" \in AdvanceStages
        BY <4>1 DEF AdvanceStages
      <4> QED
        BY <1>7, <3>2, <4>2 DEF AdvancePick
    <3> QED
      BY <3>1, <3>2
  <2> QED
    BY <1>1, <1>2, <2>1, <2>2 DEF AttemptSound
<1>8. CASE PromptAccepted
  <2>1. /\ UNCHANGED <<st, alarm, register, calls, order, deleted, mishaps>>
        /\ advance.stage # "none" /\ advance' = [advance EXCEPT !.stage = "reply"]
        /\ accepted' = accepted \o advance.prompt
    BY <1>8 DEF PromptAccepted, Goto
  <2>2. accepted' \in Seq(Prompts)
    BY <1>1, <2>1
  <2> QED
    BY <1>1, <1>2, <1>3, <2>1, <2>2 DEF AttemptSound, AdvanceStages
<1>9. CASE AdvanceDequeue
  <2> DEFINE pending == Without(st.pending, advance.prompt[1])
             delivered == LastN(st.delivered \o advance.prompt, DeliveredWindow)
  <2>1. /\ UNCHANGED <<alarm, register, calls, accepted, order, deleted, mishaps>>
        /\ advance.stage # "none" /\ advance' = [advance EXCEPT !.stage = "loop"]
        /\ st' = [st EXCEPT !.pending = pending, !.delivered = delivered]
    BY <1>9 DEF AdvanceDequeue, Goto, Update
  <2>2. pending \in Seq(Prompts)
    BY <1>1, WithoutType DEF AgentState
  <2>3. st.delivered \o advance.prompt \in Seq(Prompts) /\ DeliveredWindow \in Nat
    BY <1>1, Bounds DEF AgentState
  <2>4. delivered \in Seq(Prompts)
    BY <2>3, LastNType
  <2> HIDE DEF pending, delivered
  <2>5. st' \in AgentState /\ st'.exists = st.exists /\ st'.attempt = st.attempt
    BY <1>1, <2>1, <2>2, <2>4, Zenon DEF AgentState
  <2> QED
    BY <1>1, <1>2, <1>3, <2>1, <2>5 DEF AttemptSound, AdvanceStages
<1>10. CASE AdvanceEnd \/ AdvanceLost
  <2>1. PICK phase \in Phases : st' = [st EXCEPT !.phase = phase, !.attempt = 0]
    BY <1>10 DEF AdvanceEnd, AdvanceLost, Goto, Update, Phases
  <2>2. /\ UNCHANGED <<alarm, register, calls, accepted, order, deleted, mishaps>>
        /\ advance.stage # "none"
        /\ advance' = NoAdvance \/ advance' = [advance EXCEPT !.stage = "none"]
    BY <1>10 DEF AdvanceEnd, AdvanceLost, Goto
  <2>3. advance' \in [stage : AdvanceStages, prompt : Seq(Prompts)]
    <3>1. NoAdvance \in [stage : AdvanceStages, prompt : Seq(Prompts)]
      BY NothingType
    <3>2. [advance EXCEPT !.stage = "none"] \in [stage : AdvanceStages, prompt : Seq(Prompts)]
      BY <1>3 DEF AdvanceStages
    <3> QED
      BY <2>2, <3>1, <3>2
  <2>4. st' \in AgentState
    BY <1>1, <2>1, StateType
  <2>5. st'.exists = st.exists /\ st'.attempt = 0
    BY <1>1, <2>1, Zenon DEF AgentState
  <2> QED
    BY <1>1, <2>2, <2>3, <2>4, <2>5 DEF AttemptSound
<1>11. CASE AdvanceFail
  <2> DEFINE exhausted == st.attempt + 1 > RetryBackoffs
             phase == IF exhausted THEN "failed" ELSE "queued"
  <2>1. /\ UNCHANGED <<alarm, register, calls, accepted, order, deleted>>
        /\ advance.stage # "none" /\ mishaps' = mishaps \cup Unheard
        /\ advance' = IF exhausted THEN NoAdvance ELSE [NoAdvance EXCEPT !.stage = "backoff"]
        /\ st' = [st EXCEPT !.phase = phase, !.attempt = @ + 1]
    BY <1>11 DEF AdvanceFail, Update, FailingStages
  <2>2. phase \in Phases /\ (phase = "failed" <=> exhausted) /\ st.attempt + 1 \in Nat
    BY <1>1 DEF Phases
  <2>3. /\ st' \in AgentState /\ st'.exists = st.exists /\ st'.attempt = st.attempt + 1
        /\ st'.phase = phase
    <3> HIDE DEF phase
    <3> QED
      BY <1>1, <2>1, <2>2, Zenon DEF AgentState
  <2>4. /\ advance' \in [stage : AdvanceStages, prompt : Seq(Prompts)]
        /\ exhausted => advance'.stage = "none"
    BY <1>3, <2>1, NothingType DEF AdvanceStages
  <2>5. mishaps' \subseteq Mishaps
    BY <1>1, <2>1 DEF Unheard, Mishaps
  <2>6. AttemptSound'
    BY <1>1, <1>2, <2>1, <2>2, <2>3, <2>4 DEF AttemptSound
  <2> QED
    BY <1>1, <2>1, <2>3, <2>4, <2>5, <2>6
<1> QED
  BY <1>4, <1>5, <1>6, <1>7, <1>8, <1>9, <1>10, <1>11 DEF AdvanceStep

\* A step of the dispatch keeps AgentInv.
LEMMA AdvanceInv ==
  ASSUME AgentInv, Overlaps = {}, ~Blocked, AdvanceStep
  PROVE  AgentInv'
<1>1. /\ register.stage = "none" /\ \A c \in Callers : calls[c].stage # "catalog"
  BY BlockedIs
<1>2. /\ UNCHANGED <<register, calls, order, deleted>> /\ alarm' \in BOOLEAN
      /\ st' \in AgentState /\ st'.exists = st.exists /\ advance.stage # "none"
      /\ advance' \in [stage : AdvanceStages, prompt : Seq(Prompts)]
      /\ accepted' \in Seq(Prompts) /\ mishaps' \subseteq Mishaps
      /\ AttemptSound'
  BY AdvanceKeeps
<1>3. DeletedStaysDeleted' /\ StartSound'
  BY <1>2 DEF AgentInv, DeletedStaysDeleted, StartSound
<1> QED
  BY <1>1, <1>2, <1>3, FreeStep DEF AgentInv, Shape

\* Every step keeps AgentInv.
LEMMA NextInv ==
  ASSUME AgentInv, Overlaps = {}, [Next]_vars
  PROVE  AgentInv'
<1>1. CASE UNCHANGED vars
  BY <1>1 DEF vars, AgentInv, Shape, AwaitSound, DeletedStaysDeleted, AttemptSound, StartSound
<1>2. CASE RegisterStep \/ Restart \/ \E c \in Callers : QueueWrite(c) \/ QueueRefused(c)
  BY <1>2, RegisterEnds, QueueWriteInv
<1>3. CASE ~Blocked /\ AdvanceStep
  BY <1>3, AdvanceInv
<1>4. CASE ~Blocked /\ (Request \/ AlarmFire \/ \E c \in Callers : CallStep(c))
  BY <1>4, StartSessionInv, QueueReadInv, RequestInv, RegisterStarts DEF Request, CallStep
<1> QED
  BY <1>1, <1>2, <1>3, <1>4 DEF Next

\* Initially there is no session.
LEMMA InitInv == ASSUME Init PROVE AgentInv
<1>1. Shape
  <2>1. <<>> \in Seq(Prompts) /\ FALSE \in BOOLEAN /\ {} \subseteq Mishaps
    OBVIOUS
  <2>2. calls \in [Callers -> CallRecords]
    BY CallType DEF Init
  <2> QED
    BY <2>1, <2>2, NothingType, Zenon DEF Init, Shape
<1>2. AwaitSound /\ DeletedStaysDeleted /\ AttemptSound /\ StartSound
  BY NothingType, CallType, Bounds
  DEF Init, AwaitSound, DeletedStaysDeleted, AttemptSound, StartSound
<1> QED
  BY <1>1, <1>2 DEF AgentInv

\* AgentInv is an invariant of the agent.
THEOREM AgentInvHolds ==
  ASSUME Overlaps = {}
  PROVE  Spec => []AgentInv
<1>1. Init => AgentInv
  BY InitInv
<1>2. AgentInv /\ [Next]_vars => AgentInv'
  BY NextInv
<1> QED
  BY <1>1, <1>2, PTL DEF Spec

\* Deleted: update, queuePrompt and register, which write the state, never write
\* the storage of a session that markDeleted has emptied.
THEOREM DeletedStaysDeletedHolds ==
  ASSUME Overlaps = {}
  PROVE  Spec => []DeletedStaysDeleted
<1>1. AgentInv => DeletedStaysDeleted
  BY DEF AgentInv
<1> QED
  BY <1>1, AgentInvHolds, PTL

-----------------------------------------------------------------------------
\* Somebody drives the queue

\* A dispatch that has found the queue empty is about to end: what was queued
\* since is driven by an alarm or by the request that queued it.
EndSound ==
    advance.stage = "end" /\ st.exists /\ st.pending # <<>> /\ "lost" \notin mishaps =>
        \/ alarm
        \/ \E c \in Callers : calls[c].stage = "report"

DriveInv == QueueIsDriven /\ EndSound

\* A request or an await that ends leaves the queue driven.
LEMMA RequestDrives ==
  ASSUME AgentInv, DriveInv, NEW c \in Callers,
         QueueRefused(c) \/ QueueArm(c) \/ RetryArm(c) \/ RetrySession(c) \/ QueueWrite(c)
  PROVE  DriveInv'
<1>1. /\ st \in AgentState /\ calls \in [Callers -> CallRecords] /\ alarm \in BOOLEAN
  BY DEF AgentInv, Shape
<1>2. CASE QueueRefused(c)
  <2>1. /\ \A d \in Callers : calls[d].stage \in {"report", "retry"} => calls'[d] = calls[d]
        /\ UNCHANGED <<st, alarm, advance, mishaps>>
    BY <1>1, <1>2 DEF QueueRefused
  <2> QED
    BY <2>1 DEF DriveInv, QueueIsDriven, EndSound, NeedsDispatch
<1>3. CASE QueueArm(c)
  <2>1. UNCHANGED <<st, advance, mishaps>> /\ alarm' = (alarm \/ st.exists)
    BY <1>3 DEF QueueArm
  <2> QED
    BY <1>1, <2>1 DEF DriveInv, QueueIsDriven, EndSound, NeedsDispatch
<1>4. CASE RetryArm(c)
  <2>1. /\ \A d \in Callers : calls[d].stage = "report" => calls'[d] = calls[d]
        /\ UNCHANGED <<st, advance, mishaps>> /\ alarm' = (alarm \/ NeedsDispatch(st))
    BY <1>1, <1>4 DEF RetryArm
  <2> QED
    BY <1>1, <2>1 DEF DriveInv, QueueIsDriven, EndSound
<1>5. CASE RetrySession(c)
  <2>1. /\ calls[c].stage = "none" /\ UNCHANGED <<advance, alarm, mishaps>>
        /\ calls' = [calls EXCEPT ![c] = [NoCall EXCEPT !.stage = "retry"]]
        /\ st'.exists = st.exists /\ st'.pending = st.pending
    BY <1>1, <1>5 DEF RetrySession, AgentState
  <2>2. /\ calls'[c].stage = "retry"
        /\ \A d \in Callers : calls[d].stage = "report" => calls'[d] = calls[d]
    BY <1>1, <2>1, CallType
  <2> QED
    BY <2>1, <2>2 DEF DriveInv, QueueIsDriven, EndSound
<1>6. CASE QueueWrite(c)
  <2>1. calls[c].stage = "catalog" /\ UNCHANGED <<advance, alarm, mishaps>>
    BY <1>6 DEF QueueWrite
  <2>2. CASE UNCHANGED st /\ calls' = [calls EXCEPT ![c] = NoCall]
    <3>1. \A d \in Callers : calls[d].stage \in {"report", "retry"} => calls'[d] = calls[d]
      BY <1>1, <2>1, <2>2
    <3> QED
      BY <2>1, <2>2, <3>1 DEF DriveInv, QueueIsDriven, EndSound, NeedsDispatch
  <2>3. CASE calls' = [calls EXCEPT ![c] = [NoCall EXCEPT !.stage = "report"]]
    <3>1. calls'[c].stage = "report"
      BY <1>1, <2>3, CallType
    <3> QED
      BY <3>1 DEF DriveInv, QueueIsDriven, EndSound
  <2> QED
    BY <1>6, <2>2, <2>3, QueueWriteIs
<1> QED
  BY <1>2, <1>3, <1>4, <1>5, <1>6

\* A step of the dispatch leaves the queue driven.
LEMMA AdvanceDrives ==
  ASSUME AgentInv, DriveInv, AdvanceStep
  PROVE  DriveInv'
<1>1. /\ st \in AgentState /\ advance \in [stage : AdvanceStages, prompt : Seq(Prompts)]
      /\ UNCHANGED calls
  BY AdvanceKeeps DEF AgentInv, Shape
<1>2. CASE AdvanceAbandoned
  BY <1>2, NothingType DEF AdvanceAbandoned, DriveInv, QueueIsDriven, EndSound, NeedsDispatch
<1>3. CASE AdvanceBackoff
  BY <1>3 DEF AdvanceBackoff, DriveInv, QueueIsDriven, EndSound
<1>4. CASE \/ AdvanceStart \/ AdvanceWoken \/ AdvanceSurvived
           \/ AdvanceAdmitted \/ AdvanceCreated \/ PromptAccepted \/ AdvanceDequeue
  <2>1. advance'.stage \notin {"none", "end"}
    BY <1>1, <1>4 DEF AdvanceStart, AdvanceWoken, AdvanceSurvived, AdvanceAdmitted,
                      AdvanceCreated, PromptAccepted, AdvanceDequeue, Goto
  <2> QED
    BY <2>1 DEF DriveInv, QueueIsDriven, EndSound
<1>5. CASE AdvancePick
  <2>1. CASE st.pending = <<>>
    BY <1>5, <2>1, NothingType DEF AdvancePick, DriveInv, QueueIsDriven, EndSound, NeedsDispatch
  <2>2. CASE st.pending # <<>>
    BY <1>5, <2>2 DEF AdvancePick, DriveInv, QueueIsDriven, EndSound
  <2> QED
    BY <2>1, <2>2
<1>6. CASE AdvanceEnd
  <2>1. /\ advance.stage = "end" /\ advance'.stage = "none" /\ UNCHANGED <<alarm, mishaps>>
        /\ st'.pending = st.pending /\ st'.exists = st.exists /\ st.exists
    BY <1>1, <1>6 DEF AdvanceEnd, Goto, Update, AgentState
  <2> QED
    BY <1>1, <2>1 DEF DriveInv, QueueIsDriven, EndSound, NeedsDispatch
<1>7. CASE AdvanceLost
  <2>1. st'.phase = "lost" /\ advance' = NoAdvance
    BY <1>1, <1>7 DEF AdvanceLost, Update, AgentState
  <2> QED
    BY <2>1, NothingType DEF DriveInv, QueueIsDriven, EndSound, NeedsDispatch
<1>8. CASE AdvanceFail
  <2>1. \/ st'.phase = "failed" /\ advance' = NoAdvance
        \/ advance'.stage = "backoff"
    <3>1. CASE st.attempt + 1 > RetryBackoffs
      BY <1>1, <1>8, <3>1, Zenon DEF AdvanceFail, Update, AgentState
    <3>2. CASE ~(st.attempt + 1 > RetryBackoffs)
      <4>1. advance' = [NoAdvance EXCEPT !.stage = "backoff"]
        BY <1>8, <3>2, Zenon DEF AdvanceFail
      <4> QED
        BY <4>1 DEF NoAdvance
    <3> QED
      BY <3>1, <3>2
  <2> QED
    BY <2>1, NothingType DEF DriveInv, QueueIsDriven, EndSound, NeedsDispatch
<1> QED
  BY <1>2, <1>3, <1>4, <1>5, <1>6, <1>7, <1>8 DEF AdvanceStep

\* The other steps leave the queue driven.
LEMMA OtherDrives ==
  ASSUME AgentInv, DriveInv,
         \/ \E p \in Prompts : StartSession(p)
         \/ \E c \in Callers, p \in Prompts : QueueRead(c, p)
         \/ MarkLost \/ MarkDeleted \/ EnsureRegistered \/ AlarmFire \/ RegisterStep \/ Restart
  PROVE  DriveInv'
<1>1. /\ st \in AgentState /\ calls \in [Callers -> CallRecords] /\ alarm \in BOOLEAN
      /\ advance \in [stage : AdvanceStages, prompt : Seq(Prompts)]
  BY DEF AgentInv, Shape
<1>2. CASE \E p \in Prompts : StartSession(p)
  BY <1>2 DEF StartSession, DriveInv, QueueIsDriven, EndSound
<1>3. ASSUME NEW c \in Callers, NEW p \in Prompts, QueueRead(c, p)  PROVE DriveInv'
  <2>1. /\ \A d \in Callers : calls[d].stage \in {"report", "retry"} => calls'[d] = calls[d]
        /\ UNCHANGED <<st, alarm, advance, mishaps>>
    BY <1>1, <1>3 DEF QueueRead
  <2> QED
    BY <2>1 DEF DriveInv, QueueIsDriven, EndSound, NeedsDispatch
<1>4. CASE MarkLost
  BY <1>4 DEF MarkLost, DriveInv, QueueIsDriven, EndSound
<1>5. CASE MarkDeleted
  BY <1>5, NothingType DEF MarkDeleted, DriveInv, QueueIsDriven, EndSound, NeedsDispatch
<1>6. CASE EnsureRegistered
  BY <1>6 DEF EnsureRegistered, DriveInv, QueueIsDriven, EndSound, NeedsDispatch
<1>7. CASE AlarmFire
  <2>1. /\ UNCHANGED <<st, calls>>
        /\ \/ ~NeedsDispatch(st) /\ UNCHANGED advance /\ advance.stage = "none"
           \/ advance'.stage \in {"registered", "register"}
    BY <1>1, <1>7 DEF AlarmFire
  <2> QED
    BY <2>1 DEF DriveInv, QueueIsDriven, EndSound, NeedsDispatch
<1>8. CASE RegisterStep
  <2>1. UNCHANGED <<alarm, calls, mishaps>>
    BY <1>8 DEF RegisterStep, RegisterRow, RegisterDone, RegisterFail
  <2>2. advance'.stage = advance.stage \/ advance'.stage \in {"registered", "unregistered"}
    BY <1>1, <1>8 DEF RegisterStep, RegisterRow, RegisterDone, RegisterFail
  <2>3. UNCHANGED st \/ st' = [st EXCEPT !.registered = TRUE]
    BY <1>8 DEF RegisterStep, RegisterRow, RegisterDone, RegisterFail, AgentInv, AwaitSound
  <2>4. st'.exists = st.exists /\ st'.pending = st.pending /\ st'.phase = st.phase
    BY <1>1, <2>3 DEF AgentState
  <2> QED
    BY <2>1, <2>2, <2>4 DEF DriveInv, QueueIsDriven, EndSound, NeedsDispatch
<1>9. CASE Restart
  <2>1. /\ alarm' = (alarm \/ NeedsDispatch(st)) /\ UNCHANGED st /\ advance' = NoAdvance
    BY <1>9 DEF Restart
  <2> QED
    BY <1>1, <2>1, NothingType DEF DriveInv, QueueIsDriven, EndSound, NeedsDispatch
<1> QED
  BY <1>2, <1>3, <1>4, <1>5, <1>6, <1>7, <1>8, <1>9

\* A queue that needs dispatch has an alarm, a dispatch or a request that will
\* dispatch it: queuePrompt and retrySession set the alarm after their report,
\* dispatchPending re-reads the queue before it ends, and the constructor
\* re-arms what an eviction stopped.
THEOREM QueueIsDrivenHolds ==
  ASSUME Overlaps = {}
  PROVE  Spec => []QueueIsDriven
<1>1. Init => DriveInv
  BY NothingType DEF Init, DriveInv, QueueIsDriven, EndSound, NeedsDispatch
<1>2. AgentInv /\ DriveInv /\ [Next]_vars => DriveInv'
  <2> SUFFICES ASSUME AgentInv, DriveInv, [Next]_vars  PROVE DriveInv'
    OBVIOUS
  <2>1. CASE UNCHANGED vars
    BY <2>1 DEF vars, DriveInv, QueueIsDriven, EndSound, NeedsDispatch
  <2>2. CASE Next
    BY <2>2, RequestDrives, AdvanceDrives, OtherDrives DEF Next, Request, CallStep
  <2> QED
    BY <2>1, <2>2
<1>3. DriveInv => QueueIsDriven
  BY DEF DriveInv
<1> QED
  BY <1>1, <1>2, <1>3, AgentInvHolds, PTL DEF Spec

-----------------------------------------------------------------------------
\* The queue: order, delivery, loss

\* Prompts whose answer has come: the last accepted one may be waiting for it.
Confirmed == Len(accepted) - IF advance.stage = "reply" THEN 1 ELSE 0

\* The prompt being dispatched is the head of the queue, which holds no id twice.
HeadSound ==
    /\ advance.stage \in {"prompt", "reply"} /\ st.exists =>
          st.pending # <<>> /\ advance.prompt = <<st.pending[1]>>
    /\ \A i, j \in 1..Len(st.pending) : st.pending[i] = st.pending[j] => i = j

\* Nothing taken is lost, and what waits for its answer has been accepted.
KeptSound ==
    /\ TakenPromptsKept
    /\ advance.stage = "reply" /\ st.exists => st.pending[1] \in Range(accepted)

\* While every answer comes, what was taken is what was confirmed, then what is
\* queued; the delivered ids are the last confirmed ones; and no id was taken
\* again before the queue had forgotten it.
OrderSound ==
    "unheard" \notin mishaps =>
        /\ advance.stage = "reply" => Len(accepted) > 0
        /\ \A i \in 1..Len(accepted) : i <= Len(order) /\ accepted[i] = order[i]
        /\ \A i, j \in 1..Len(order) :
              i < j /\ order[i] = order[j] => j - i > DeliveredWindow
        /\ st.exists =>
              /\ Len(order) = Confirmed + Len(st.pending)
              /\ \A i \in 1..Len(st.pending) : order[Confirmed + i] = st.pending[i]
              /\ Len(st.delivered) =
                    IF Confirmed > DeliveredWindow THEN DeliveredWindow ELSE Confirmed
              /\ \A i \in 1..Len(st.delivered) :
                    st.delivered[i] = order[Confirmed - Len(st.delivered) + i]

QueueInv == HeadSound /\ KeptSound /\ OrderSound

\* The kinds of step, by what they do to the queue.
StayStep ==
    /\ UNCHANGED <<accepted, order, deleted>>
    /\ st'.exists = st.exists /\ st'.pending = st.pending /\ st'.delivered = st.delivered
    /\ advance'.stage \in {"prompt", "reply"} => UNCHANGED advance
    /\ mishaps \subseteq mishaps'
    /\ advance.stage = "reply" /\ advance'.stage # "reply" /\ st.exists => "unheard" \in mishaps'

TakeStep(p) ==
    /\ st.exists /\ ~Known(st, p)
    /\ st'.exists /\ st'.pending = Append(st.pending, p) /\ st'.delivered = st.delivered
    /\ order' = Append(order, p)
    /\ UNCHANGED <<advance, accepted, deleted, mishaps>>

HeadStep ==
    /\ st.exists /\ st.pending # <<>>
    /\ advance.stage # "reply"
    /\ advance' = [stage |-> "prompt", prompt |-> <<st.pending[1]>>]
    /\ UNCHANGED <<st, accepted, order, deleted, mishaps>>

AcceptStep ==
    /\ st.exists
    /\ advance.stage = "prompt"
    /\ advance' = [advance EXCEPT !.stage = "reply"]
    /\ accepted' = accepted \o advance.prompt
    /\ UNCHANGED <<st, order, deleted, mishaps>>

DropStep ==
    /\ st.exists
    /\ advance.stage = "reply"
    /\ advance'.stage = "loop"
    /\ st'.exists /\ st'.pending = Without(st.pending, advance.prompt[1])
    /\ st'.delivered = LastN(st.delivered \o advance.prompt, DeliveredWindow)
    /\ UNCHANGED <<accepted, order, deleted, mishaps>>

\* Every step is of one of the kinds, or starts or deletes the session.
LEMMA NextKinds ==
  ASSUME AgentInv, Overlaps = {}, [Next]_vars
  PROVE  \/ StayStep \/ HeadStep \/ AcceptStep \/ DropStep \/ MarkDeleted
         \/ \E p \in Prompts : TakeStep(p)
         \/ \E p \in Prompts : StartSession(p)
<1>1. /\ st \in AgentState /\ advance \in [stage : AdvanceStages, prompt : Seq(Prompts)]
  BY DEF AgentInv, Shape
<1>2. CASE \/ UNCHANGED vars \/ EnsureRegistered
           \/ \E c \in Callers : QueueRefused(c) \/ CallStep(c) \/ \E p \in Prompts : QueueRead(c, p)
  <2>1. UNCHANGED <<st, advance, accepted, order, deleted, mishaps>>
    BY <1>2 DEF vars, EnsureRegistered, QueueRefused, CallStep, QueueArm, RetryArm, QueueRead
  <2> QED
    BY <2>1 DEF StayStep
<1>3. CASE MarkLost \/ \E c \in Callers : RetrySession(c)
  <2>1. UNCHANGED <<advance, accepted, order, deleted>> /\ mishaps \subseteq mishaps'
    BY <1>3 DEF MarkLost, RetrySession
  <2>2. PICK phase : st' = [st EXCEPT !.phase = phase, !.attempt = 0]
    BY <1>3 DEF MarkLost, RetrySession
  <2>3. st'.exists = st.exists /\ st'.pending = st.pending /\ st'.delivered = st.delivered
    BY <1>1, <2>2, Zenon DEF AgentState
  <2> QED
    BY <2>1, <2>3 DEF StayStep
<1>4. CASE AlarmFire
  <2>1. UNCHANGED <<st, accepted, order, deleted, mishaps>> /\ advance.stage = "none"
    BY <1>4 DEF AlarmFire
  <2>2. advance'.stage \in {"none", "registered", "register"}
    BY <1>1, <1>4 DEF AlarmFire
  <2> QED
    BY <2>1, <2>2 DEF StayStep
<1>5. CASE RegisterStep
  <2>1. UNCHANGED <<accepted, order, deleted, mishaps>>
    BY <1>5 DEF RegisterStep, RegisterRow, RegisterDone, RegisterFail
  <2>2. \/ UNCHANGED advance
        \/ advance.stage = "register" /\ advance'.stage \in {"registered", "unregistered"}
    BY <1>1, <1>5 DEF RegisterStep, RegisterRow, RegisterDone, RegisterFail
  <2>3. UNCHANGED st \/ st' = [st EXCEPT !.registered = TRUE]
    BY <1>5 DEF RegisterStep, RegisterRow, RegisterDone, RegisterFail, AgentInv, AwaitSound
  <2>4. st'.exists = st.exists /\ st'.pending = st.pending /\ st'.delivered = st.delivered
    BY <1>1, <2>3 DEF AgentState
  <2> QED
    BY <2>1, <2>2, <2>4 DEF StayStep
<1>6. CASE Restart
  <2>1. /\ UNCHANGED <<st, accepted, order, deleted>> /\ advance' = NoAdvance
        /\ mishaps' = mishaps \cup Unheard
    BY <1>6 DEF Restart
  <2> QED
    BY <2>1, NothingType DEF StayStep, Unheard
<1>7. ASSUME NEW c \in Callers, QueueWrite(c)
      PROVE  StayStep \/ \E p \in Prompts : TakeStep(p)
  <2>1. st.exists /\ UNCHANGED <<advance, accepted, deleted, mishaps>>
    BY <1>7, QueueWriteIs
  <2>2. CASE UNCHANGED <<st, order>>
    BY <2>1, <2>2 DEF StayStep
  <2>3. ASSUME NEW p \in Prompts, ~Known(st, p), order' = Append(order, p),
               st' = [st EXCEPT !.pending = Append(@, p), !.phase = "queued", !.attempt = 0]
        PROVE  TakeStep(p)
    <3>1. /\ st'.exists = st.exists /\ st'.pending = Append(st.pending, p)
          /\ st'.delivered = st.delivered
      BY <1>1, <2>3, QueuedState
    <3> QED
      BY <2>1, <2>3, <3>1 DEF TakeStep
  <2> QED
    BY <1>7, <2>2, <2>3, QueueWriteIs
<1>8. CASE AdvanceStep
  <2>1. CASE AdvanceAbandoned \/ AdvanceBackoff \/ AdvanceWoken \/ AdvanceSurvived \/ AdvanceAdmitted
    <3>1. /\ UNCHANGED <<st, accepted, order, deleted, mishaps>>
          /\ advance'.stage \notin {"prompt", "reply"}
          /\ advance.stage = "reply" => ~st.exists
      BY <1>1, <2>1, NothingType DEF AdvanceAbandoned, AdvanceBackoff, AdvanceWoken, AdvanceSurvived,
                                     AdvanceAdmitted, Goto
    <3> QED
      BY <3>1 DEF StayStep
  <2>2. CASE AdvanceStart \/ AdvanceCreated \/ AdvanceEnd \/ AdvanceLost
    <3>1. /\ UNCHANGED <<accepted, order, deleted, mishaps>> /\ advance.stage # "reply"
          /\ advance'.stage \notin {"prompt", "reply"}
      BY <1>1, <2>2, NothingType DEF AdvanceStart, AdvanceCreated, AdvanceEnd, AdvanceLost, Goto
    <3>2. \/ st' = [st EXCEPT !.phase = "starting"] \/ st' = [st EXCEPT !.opencode = TRUE]
          \/ \E phase \in Phases : st' = [st EXCEPT !.phase = phase, !.attempt = 0]
      BY <2>2 DEF AdvanceStart, AdvanceCreated, AdvanceEnd, AdvanceLost, Goto, Update, Phases
    <3>3. st'.exists = st.exists /\ st'.pending = st.pending /\ st'.delivered = st.delivered
      BY <1>1, <3>2 DEF AgentState
    <3> QED
      BY <3>1, <3>3 DEF StayStep
  <2>3. CASE AdvanceFail
    <3>1. /\ UNCHANGED <<accepted, order, deleted>> /\ mishaps' = mishaps \cup Unheard
          /\ advance' = NoAdvance \/ advance' = [NoAdvance EXCEPT !.stage = "backoff"]
      BY <2>3 DEF AdvanceFail
    <3>2. advance'.stage \notin {"prompt", "reply"}
      BY <3>1 DEF NoAdvance
    <3>3. PICK phase, attempt : st' = [st EXCEPT !.phase = phase, !.attempt = attempt]
      BY <2>3 DEF AdvanceFail, Update
    <3>4. st'.exists = st.exists /\ st'.pending = st.pending /\ st'.delivered = st.delivered
      BY <1>1, <3>3, Zenon DEF AgentState
    <3> QED
      BY <3>1, <3>2, <3>4 DEF StayStep, Unheard
  <2>4. CASE AdvancePick
    <3>1. /\ UNCHANGED <<st, accepted, order, deleted, mishaps>> /\ st.exists
          /\ advance.stage = "loop"
      BY <2>4 DEF AdvancePick
    <3>2. CASE st.pending = <<>>
      <4>1. advance'.stage = "end"
        BY <2>4, <3>2 DEF AdvancePick, NoAdvance
      <4> QED
        BY <3>1, <4>1 DEF StayStep
    <3>3. CASE st.pending # <<>>
      <4>1. Head(st.pending) = st.pending[1]
        BY <1>1, <3>3 DEF AgentState
      <4> QED
        BY <2>4, <3>1, <3>3, <4>1 DEF AdvancePick, HeadStep
    <3> QED
      BY <3>2, <3>3
  <2>5. CASE PromptAccepted
    BY <2>5 DEF PromptAccepted, Goto, AcceptStep
  <2>6. CASE AdvanceDequeue
    <3> DEFINE pending == Without(st.pending, advance.prompt[1])
               delivered == LastN(st.delivered \o advance.prompt, DeliveredWindow)
    <3>1. /\ UNCHANGED <<accepted, order, deleted, mishaps>> /\ st.exists
          /\ advance.stage = "reply" /\ advance' = [advance EXCEPT !.stage = "loop"]
          /\ st' = [st EXCEPT !.pending = pending, !.delivered = delivered]
      BY <2>6 DEF AdvanceDequeue, Goto, Update
    <3>2. st'.exists = st.exists /\ st'.pending = pending /\ st'.delivered = delivered
      <4> HIDE DEF pending, delivered
      <4> QED
        BY <1>1, <3>1, Zenon DEF AgentState
    <3>3. advance'.stage = "loop"
      BY <1>1, <3>1
    <3> QED
      BY <3>1, <3>2, <3>3 DEF DropStep
  <2> QED
    BY <1>8, <2>1, <2>2, <2>3, <2>4, <2>5, <2>6 DEF AdvanceStep
<1> QED
  BY <1>2, <1>3, <1>4, <1>5, <1>6, <1>7, <1>8 DEF Next, Request

\* The sequences of the agent.
LEMMA AgentSequences ==
  ASSUME AgentInv
  PROVE  /\ st.pending \in Seq(Prompts) /\ st.delivered \in Seq(Prompts)
         /\ accepted \in Seq(Prompts) /\ order \in Seq(Prompts)
         /\ advance.prompt \in Seq(Prompts)
         /\ Len(accepted) \in Nat /\ Len(st.pending) \in Nat /\ Len(st.delivered) \in Nat
         /\ Len(order) \in Nat /\ DeliveredWindow \in Nat
         /\ Confirmed \in Int
  BY Bounds DEF AgentInv, Shape, AgentState, Confirmed

\* The head of the queue and the absence of repetitions in it.
LEMMA HeadKept ==
  ASSUME AgentInv, AgentInv', HeadSound,
         \/ StayStep \/ HeadStep \/ AcceptStep \/ DropStep \/ MarkDeleted
         \/ \E p \in Prompts : TakeStep(p)
         \/ \E p \in Prompts : StartSession(p)
  PROVE  HeadSound'
<1>1. /\ st \in AgentState /\ advance \in [stage : AdvanceStages, prompt : Seq(Prompts)]
      /\ st.pending \in Seq(Prompts)
  BY AgentSequences DEF AgentInv, Shape
<1>2. CASE StayStep
  BY <1>2 DEF StayStep, HeadSound
<1>3. CASE HeadStep \/ AcceptStep
  BY <1>1, <1>3 DEF HeadStep, AcceptStep, HeadSound
<1>4. CASE DropStep
  <2>1. /\ st.exists /\ advance.stage = "reply" /\ advance'.stage = "loop"
        /\ st'.pending = Without(st.pending, advance.prompt[1])
    BY <1>4 DEF DropStep
  <2>2. st'.pending = Tail(st.pending) /\ st.pending # <<>>
    <3>1. st.pending # <<>> /\ advance.prompt[1] = st.pending[1]
      BY <2>1 DEF HeadSound
    <3> QED
      BY <1>1, <2>1, <3>1, WithoutHead DEF HeadSound
  <2>3. \A i \in 1..Len(st'.pending) : i + 1 \in 1..Len(st.pending) /\ st'.pending[i] = st.pending[i + 1]
    BY <1>1, <2>2
  <2> QED
    BY <1>1, <2>1, <2>2, <2>3 DEF HeadSound
<1>5. CASE MarkDeleted
  BY <1>5, NothingType DEF MarkDeleted, HeadSound
<1>6. ASSUME NEW p \in Prompts, TakeStep(p)  PROVE HeadSound'
  <2>1. /\ p \notin Range(st.pending) /\ st'.pending = Append(st.pending, p) /\ st.exists
        /\ UNCHANGED advance
    BY <1>6 DEF TakeStep, Known
  <2>2. \A i \in 1..Len(st.pending) : st.pending[i] # p
    BY <2>1 DEF Range
  <2>3. /\ Len(st'.pending) = Len(st.pending) + 1 /\ st'.pending[Len(st.pending) + 1] = p
        /\ \A i \in 1..Len(st.pending) : st'.pending[i] = st.pending[i]
    BY <1>1, <2>1
  <2>4. Len(st.pending) \in Nat /\ (st.pending # <<>> => 1 \in 1..Len(st.pending))
    BY <1>1
  <2>5. advance'.stage \in {"prompt", "reply"} =>
           st'.pending # <<>> /\ advance'.prompt = <<st'.pending[1]>>
    <3> SUFFICES ASSUME advance.stage \in {"prompt", "reply"}
                 PROVE  st'.pending # <<>> /\ advance.prompt = <<st'.pending[1]>>
      BY <2>1
    <3>1. st.pending # <<>> /\ advance.prompt = <<st.pending[1]>>
      BY <2>1 DEF HeadSound
    <3>2. st'.pending[1] = st.pending[1] /\ Len(st'.pending) > 0
      BY <2>3, <2>4, <3>1
    <3> QED
      BY <3>1, <3>2
  <2>6. \A i, j \in 1..Len(st'.pending) : st'.pending[i] = st'.pending[j] => i = j
    <3> SUFFICES ASSUME NEW i \in 1..Len(st.pending) + 1, NEW j \in 1..Len(st.pending) + 1,
                        st'.pending[i] = st'.pending[j]
                 PROVE  i = j
      BY <2>3
    <3>1. CASE i \in 1..Len(st.pending) /\ j \in 1..Len(st.pending)
      BY <2>3, <3>1 DEF HeadSound
    <3>2. CASE i = Len(st.pending) + 1 \/ j = Len(st.pending) + 1
      BY <2>2, <2>3, <2>4, <3>2
    <3> QED
      BY <2>4, <3>1, <3>2
  <2> QED
    BY <2>5, <2>6 DEF HeadSound
<1>7. ASSUME NEW p \in Prompts, StartSession(p)  PROVE HeadSound'
  <2>1. st'.pending = <<p>> /\ advance.stage = "none" /\ UNCHANGED advance
    BY <1>7, NothingType DEF StartSession, AgentInv, StartSound, AgentState
  <2> QED
    BY <2>1 DEF HeadSound
<1> QED
  BY <1>2, <1>3, <1>4, <1>5, <1>6, <1>7

\* No prompt the queue has taken is lost.
LEMMA KeptKept ==
  ASSUME AgentInv, HeadSound, KeptSound,
         \/ StayStep \/ HeadStep \/ AcceptStep \/ DropStep \/ MarkDeleted
         \/ \E p \in Prompts : TakeStep(p)
         \/ \E p \in Prompts : StartSession(p)
  PROVE  KeptSound'
<1>1. /\ st \in AgentState /\ advance \in [stage : AdvanceStages, prompt : Seq(Prompts)]
      /\ st.pending \in Seq(Prompts) /\ accepted \in Seq(Prompts) /\ order \in Seq(Prompts)
  BY AgentSequences DEF AgentInv, Shape
<1>2. CASE StayStep
  BY <1>2 DEF StayStep, KeptSound, TakenPromptsKept
<1>3. CASE HeadStep
  BY <1>3 DEF HeadStep, KeptSound, TakenPromptsKept
<1>4. CASE AcceptStep
  <2>1. /\ accepted' = accepted \o <<st.pending[1]>> /\ st.pending # <<>> /\ st.exists
        /\ UNCHANGED <<st, order, deleted>>
    BY <1>4 DEF AcceptStep, HeadSound
  <2>2. Range(accepted') = Range(accepted) \cup {st.pending[1]}
    <3>1. st.pending[1] \in Prompts
      BY <1>1, <2>1
    <3> QED
      BY <1>1, <2>1, <3>1, RangeOfAppend
  <2> QED
    BY <2>1, <2>2 DEF KeptSound, TakenPromptsKept
<1>5. CASE DropStep
  <2>1. /\ st.exists /\ advance.stage = "reply" /\ advance'.stage = "loop"
        /\ st'.pending = Without(st.pending, advance.prompt[1])
        /\ UNCHANGED <<accepted, order, deleted>>
    BY <1>5 DEF DropStep
  <2>2. st'.pending = Tail(st.pending) /\ st.pending # <<>>
    <3>1. st.pending # <<>> /\ advance.prompt[1] = st.pending[1]
      BY <2>1 DEF HeadSound
    <3> QED
      BY <1>1, <2>1, <3>1, WithoutHead DEF HeadSound
  <2>3. Range(st.pending) \subseteq Range(st'.pending) \cup {st.pending[1]}
    <3> SUFFICES ASSUME NEW i \in 1..Len(st.pending), i # 1
                 PROVE  st.pending[i] \in Range(st'.pending)
      BY DEF Range
    <3>1. i - 1 \in 1..Len(st'.pending) /\ st'.pending[i - 1] = st.pending[i]
      BY <1>1, <2>2
    <3>2. DOMAIN st'.pending = 1..Len(st'.pending)
      BY <1>1, <2>2
    <3> QED
      BY <3>1, <3>2 DEF Range
  <2> QED
    BY <2>1, <2>3 DEF KeptSound, TakenPromptsKept
<1>6. CASE MarkDeleted
  BY <1>6, NothingType DEF MarkDeleted, KeptSound, TakenPromptsKept
<1>7. ASSUME NEW p \in Prompts, TakeStep(p)  PROVE KeptSound'
  <2>1. /\ st'.pending = Append(st.pending, p) /\ order' = Append(order, p)
        /\ UNCHANGED <<advance, accepted, deleted>> /\ st.exists
    BY <1>7 DEF TakeStep
  <2>2. /\ Range(st'.pending) = Range(st.pending) \cup {p}
        /\ Range(order') = Range(order) \cup {p}
    BY <1>1, <2>1, RangeOfAppend
  <2>3. st.pending # <<>> => st'.pending[1] = st.pending[1]
    BY <1>1, <2>1
  <2> QED
    BY <2>1, <2>2, <2>3 DEF KeptSound, TakenPromptsKept, HeadSound
<1>8. ASSUME NEW p \in Prompts, StartSession(p)  PROVE KeptSound'
  <2>1. /\ st'.pending = <<p>> /\ order' = <<p>> /\ advance.stage = "none"
        /\ UNCHANGED <<advance, accepted, deleted>>
    BY <1>8, NothingType DEF StartSession, AgentInv, StartSound, AgentState
  <2> QED
    BY <2>1 DEF KeptSound, TakenPromptsKept
<1> QED
  BY <1>2, <1>3, <1>4, <1>5, <1>6, <1>7, <1>8

\* The order of the queue while every answer comes.
LEMMA OrderKept ==
  ASSUME AgentInv, AgentInv', HeadSound, OrderSound,
         \/ StayStep \/ HeadStep \/ AcceptStep \/ DropStep \/ MarkDeleted
         \/ \E p \in Prompts : TakeStep(p)
         \/ \E p \in Prompts : StartSession(p)
  PROVE  OrderSound'
<1> DEFINE C == Confirmed
           W == DeliveredWindow
<1>1. /\ st \in AgentState /\ advance \in [stage : AdvanceStages, prompt : Seq(Prompts)]
      /\ st.pending \in Seq(Prompts) /\ accepted \in Seq(Prompts) /\ order \in Seq(Prompts)
      /\ st.delivered \in Seq(Prompts) /\ W \in Nat /\ C \in Int
  BY AgentSequences DEF AgentInv, Shape
<1>0. C \in Int /\ W \in Nat
  BY <1>1
<1>9. /\ Len(st.pending) \in Nat /\ Len(st.delivered) \in Nat /\ Len(order) \in Nat
      /\ Len(accepted) \in Nat
  BY <1>1
<1>2. CASE StayStep
  <2> SUFFICES ASSUME "unheard" \notin mishaps'  PROVE OrderSound'
    BY DEF OrderSound
  <2>1. "unheard" \notin mishaps
    BY <1>2 DEF StayStep
  <2>2. /\ advance'.stage = "reply" => advance.stage = "reply"
        /\ st'.exists => st.exists /\ Confirmed' = Confirmed
    BY <1>2 DEF StayStep, Confirmed
  <2> QED
    BY <1>2, <2>1, <2>2 DEF StayStep, OrderSound
<1>3. CASE HeadStep
  <2>1. Confirmed' = Confirmed /\ advance'.stage = "prompt"
    BY <1>3 DEF HeadStep, Confirmed
  <2> QED
    BY <1>3, <2>1 DEF HeadStep, OrderSound
<1>4. CASE AcceptStep
  <2> SUFFICES ASSUME "unheard" \notin mishaps'  PROVE OrderSound'
    BY DEF OrderSound
  <2>1. /\ accepted' = accepted \o <<st.pending[1]>> /\ st.pending # <<>> /\ st.exists
        /\ UNCHANGED <<st, order, mishaps>>
        /\ advance.stage = "prompt" /\ advance'.stage = "reply"
    BY <1>1, <1>4 DEF AcceptStep, HeadSound
  <2>2. /\ Len(accepted') = Len(accepted) + 1
        /\ accepted'[Len(accepted) + 1] = st.pending[1]
        /\ \A i \in 1..Len(accepted) : accepted'[i] = accepted[i]
        /\ Len(accepted) \in Nat /\ Len(st.pending) \in Nat /\ 1 \in 1..Len(st.pending)
    <3>1. st.pending[1] \in Prompts
      BY <1>1, <2>1
    <3> QED
      BY <1>1, <2>1, <3>1
  <2>3. C = Len(accepted) /\ Confirmed' = C
    BY <2>1, <2>2 DEF Confirmed
  <2>4. order[Len(accepted) + 1] = st.pending[1] /\ Len(accepted) + 1 <= Len(order)
    BY <1>1, <2>1, <2>2, <2>3 DEF OrderSound
  <2>5. \A i \in 1..Len(accepted') : i <= Len(order) /\ accepted'[i] = order[i]
    <3> SUFFICES ASSUME NEW i \in 1..Len(accepted) + 1
                 PROVE  i <= Len(order) /\ accepted'[i] = order[i]
      BY <2>2
    <3>1. CASE i \in 1..Len(accepted)
      BY <2>1, <2>2, <3>1 DEF OrderSound
    <3>2. CASE i = Len(accepted) + 1
      BY <2>2, <2>4, <3>2
    <3> QED
      BY <2>2, <3>1, <3>2
  <2>6. "unheard" \notin mishaps /\ Len(accepted') > 0
    BY <2>1, <2>2
  <2>7. /\ \A i, j \in 1..Len(order') :
              i < j /\ order'[i] = order'[j] => j - i > DeliveredWindow
        /\ Len(order') = Confirmed' + Len(st'.pending)
        /\ \A i \in 1..Len(st'.pending) : order'[Confirmed' + i] = st'.pending[i]
        /\ Len(st'.delivered) =
              IF Confirmed' > DeliveredWindow THEN DeliveredWindow ELSE Confirmed'
        /\ \A i \in 1..Len(st'.delivered) :
              st'.delivered[i] = order'[Confirmed' - Len(st'.delivered) + i]
    BY <2>1, <2>3, <2>6, Zenon DEF OrderSound
  <2>8. \A i \in 1..Len(accepted') : i <= Len(order') /\ accepted'[i] = order'[i]
    BY <2>1, <2>5
  <2> QED
    BY <2>6, <2>7, <2>8, Zenon DEF OrderSound
<1>5. CASE DropStep
  <2> SUFFICES ASSUME "unheard" \notin mishaps'  PROVE OrderSound'
    BY DEF OrderSound
  <2> DEFINE x == st.pending[1]
             s == st.delivered \o <<x>>
  <2>1. /\ st.exists /\ advance.stage = "reply" /\ advance'.stage = "loop"
        /\ st'.pending = Without(st.pending, advance.prompt[1])
        /\ st'.delivered = LastN(st.delivered \o advance.prompt, W)
        /\ UNCHANGED <<accepted, order, mishaps>>
    BY <1>5 DEF DropStep
  <2>2. advance.prompt = <<x>> /\ st.pending # <<>> /\ x \in Prompts
    BY <1>1, <2>1 DEF HeadSound
  <2>3. st'.pending = Tail(st.pending)
    <3>1. advance.prompt[1] = st.pending[1]
      BY <2>2
    <3> QED
      BY <1>1, <2>1, <2>2, <3>1, WithoutHead DEF HeadSound
  <2>4. st'.delivered = LastN(s, W) /\ s \in Seq(Prompts) /\ Len(s) = Len(st.delivered) + 1
    BY <1>1, <2>1, <2>2
  <2>5. /\ s[Len(st.delivered) + 1] = x
        /\ \A i \in 1..Len(st.delivered) : s[i] = st.delivered[i]
        /\ Len(st.delivered) \in Nat /\ Len(accepted) \in Nat /\ Len(order) \in Nat
        /\ Len(st.pending) \in Nat /\ 1 \in 1..Len(st.pending)
    BY <1>1, <2>2
  <2>6. /\ Len(LastN(s, W)) = IF Len(s) > W THEN W ELSE Len(s)
        /\ \A i \in 1..Len(LastN(s, W)) : LastN(s, W)[i] = s[Len(s) - Len(LastN(s, W)) + i]
    BY <1>1, <2>4, LastNType
  <2> HIDE DEF s, x
  <2>7. /\ Len(accepted) > 0 /\ C = Len(accepted) - 1 /\ Confirmed' = C + 1
    BY <2>1, <2>5 DEF Confirmed, OrderSound
  <2>8. /\ Len(order) = C + Len(st.pending)
        /\ \A i \in 1..Len(st.pending) : order[C + i] = st.pending[i]
        /\ Len(st.delivered) = IF C > W THEN W ELSE C
        /\ \A i \in 1..Len(st.delivered) : st.delivered[i] = order[C - Len(st.delivered) + i]
    BY <2>1 DEF OrderSound
  <2>9. /\ Len(st'.pending) = Len(st.pending) - 1
        /\ \A i \in 1..Len(st'.pending) : st'.pending[i] = st.pending[i + 1]
    BY <1>1, <2>2, <2>3
  <2>10. /\ Len(order') = Confirmed' + Len(st'.pending)
         /\ \A i \in 1..Len(st'.pending) : order'[Confirmed' + i] = st'.pending[i]
    <3>1. Len(order') = Confirmed' + Len(st'.pending)
      BY <1>1, <2>1, <2>5, <2>7, <2>8, <2>9
    <3>2. ASSUME NEW i \in 1..Len(st'.pending)  PROVE order[C + 1 + i] = st'.pending[i]
      <4>1. i + 1 \in 1..Len(st.pending) /\ C + (i + 1) = C + 1 + i
        BY <1>1, <2>5, <2>9
      <4> QED
        BY <2>8, <2>9, <4>1
    <3> QED
      BY <2>1, <2>7, <3>1, <3>2
  <2>11. \A i \in 1..Len(s) : s[i] = order[C - Len(st.delivered) + i]
    <3> SUFFICES ASSUME NEW i \in 1..Len(st.delivered) + 1
                 PROVE  s[i] = order[C - Len(st.delivered) + i]
      BY <2>4
    <3>1. CASE i \in 1..Len(st.delivered)
      BY <2>5, <2>8, <3>1
    <3>2. CASE i = Len(st.delivered) + 1
      <4>1. C - Len(st.delivered) + i = C + 1
        BY <1>0, <1>9, <3>2, NextPlace
      <4> QED
        BY <2>5, <2>8, <3>2, <4>1 DEF x
    <3> QED
      BY <2>5, <3>1, <3>2
  <2>12. Len(st'.delivered) = IF Confirmed' > W THEN W ELSE Confirmed'
    BY <1>1, <2>4, <2>5, <2>6, <2>7, <2>8
  <2>13. \A i \in 1..Len(st'.delivered) :
            st'.delivered[i] = order[Confirmed' - Len(st'.delivered) + i]
    <3> SUFFICES ASSUME NEW i \in 1..Len(st'.delivered)
                 PROVE  st'.delivered[i] = order[Confirmed' - Len(st'.delivered) + i]
      OBVIOUS
    <3> DEFINE j == Len(s) - Len(st'.delivered) + i
    <3>1. st'.delivered[i] = s[j]
      BY <2>4, <2>6
    <3>2. Len(st'.delivered) \in Nat /\ Len(st'.delivered) <= Len(s)
      BY <1>1, <2>4, <2>5, <2>6
    <3>3. j \in 1..Len(s) /\ C - Len(st.delivered) + j = Confirmed' - Len(st'.delivered) + i
      <4>1. j \in 1..Len(s)
        BY <2>4, <2>5, <3>2
      <4>2. C - Len(st.delivered) + j = Confirmed' - Len(st'.delivered) + i
        <5>1. i \in Int /\ Len(s) = Len(st.delivered) + 1 /\ Confirmed' = C + 1
          BY <2>4, <2>7
        <5>2. Confirmed' \in Int /\ Len(s) \in Nat /\ Len(st'.delivered) \in Nat
          BY <1>0, <1>9, <3>2, <5>1
        <5>3. PICK c \in Int, b \in Int, d \in Nat, l \in Nat, e \in Nat :
                 c = C /\ b = Confirmed' /\ d = Len(st.delivered) /\ l = Len(s)
                 /\ e = Len(st'.delivered)
          BY <1>0, <1>9, <5>2, Zenon
        <5>4. c - d + (l - e + i) = b - e + i
          <6>1. b = c + 1 /\ l = d + 1 /\ i \in Int
            BY <5>1, <5>3, Zenon
          <6> QED
            BY <6>1
        <5> QED
          BY <5>3, <5>4, Zenon
      <4> QED
        BY <4>1, <4>2
    <3> QED
      BY <2>11, <3>1, <3>3
  <2> QED
    BY <2>1, <2>10, <2>12, <2>13 DEF OrderSound
<1>6. CASE MarkDeleted
  BY <1>6, NothingType DEF MarkDeleted, OrderSound
<1>7. ASSUME NEW p \in Prompts, TakeStep(p)  PROVE OrderSound'
  <2> SUFFICES ASSUME "unheard" \notin mishaps'  PROVE OrderSound'
    BY DEF OrderSound
  <2>1. /\ st.exists /\ st'.pending = Append(st.pending, p) /\ order' = Append(order, p)
        /\ st'.delivered = st.delivered /\ UNCHANGED <<advance, accepted, mishaps>>
        /\ p \notin Range(st.pending) /\ p \notin Range(st.delivered)
    BY <1>7 DEF TakeStep, Known
  <2>2. Confirmed' = C
    BY <2>1 DEF Confirmed
  <2>3. /\ Len(order') = Len(order) + 1 /\ order'[Len(order) + 1] = p
        /\ \A i \in 1..Len(order) : order'[i] = order[i]
        /\ Len(st'.pending) = Len(st.pending) + 1 /\ st'.pending[Len(st.pending) + 1] = p
        /\ \A i \in 1..Len(st.pending) : st'.pending[i] = st.pending[i]
        /\ Len(order) \in Nat /\ Len(st.pending) \in Nat /\ Len(st.delivered) \in Nat
        /\ Len(accepted) \in Nat
    BY <1>1, <2>1
  <2>4. /\ \A i \in 1..Len(st.pending) : st.pending[i] # p
        /\ \A i \in 1..Len(st.delivered) : st.delivered[i] # p
    BY <1>1, <2>1 DEF Range
  <2>5. /\ Len(order) = C + Len(st.pending)
        /\ \A i \in 1..Len(st.pending) : order[C + i] = st.pending[i]
        /\ Len(st.delivered) = IF C > W THEN W ELSE C
        /\ \A i \in 1..Len(st.delivered) : st.delivered[i] = order[C - Len(st.delivered) + i]
    BY <2>1 DEF OrderSound
  <2>6. ASSUME NEW i \in 1..Len(order), order[i] = p
        PROVE  Len(order) + 1 - i > W
    <3>1. ~(i > C)
      <4> SUFFICES ASSUME i > C  PROVE FALSE
        OBVIOUS
      <4>1. Len(order) = C + Len(st.pending) /\ i \in Int /\ i <= Len(order)
        BY <1>9, <2>5
      <4>2. i - C \in 1..Len(st.pending) /\ C + (i - C) = i
        BY <1>0, <1>9, <4>1, QueuedPlace
      <4> QED
        BY <2>4, <2>5, <2>6, <4>2
    <3>2. ~(i > C - Len(st.delivered))
      <4> SUFFICES ASSUME i > C - Len(st.delivered)  PROVE FALSE
        OBVIOUS
      <4> DEFINE j == i - (C - Len(st.delivered))
      <4>1. j \in 1..Len(st.delivered) /\ C - Len(st.delivered) + j = i
        <5>1. i \in Int /\ i <= C
          BY <1>0, <3>1
        <5> QED
          BY <1>0, <1>9, <5>1, DeliveredPlace
      <4> QED
        BY <2>4, <2>5, <2>6, <4>1
    <3>3. /\ C \in Int /\ Len(st.delivered) \in Nat /\ Len(st.pending) \in Nat /\ i \in Int /\ i >= 1
          /\ Len(order) = C + Len(st.pending) /\ i <= C - Len(st.delivered)
      BY <1>0, <2>3, <2>5, <3>2
    <3>4. Len(st.delivered) = W
      BY <1>0, <2>5, <3>3
    <3> QED
      BY <1>0, <3>3, <3>4
  <2>7. \A i, j \in 1..Len(order') : i < j /\ order'[i] = order'[j] => j - i > W
    <3> SUFFICES ASSUME NEW i \in 1..Len(order) + 1, NEW j \in 1..Len(order) + 1,
                        i < j, order'[i] = order'[j]
                 PROVE  j - i > W
      BY <2>3
    <3>1. i \in 1..Len(order) /\ order'[i] = order[i]
      BY <2>3
    <3>2. CASE j \in 1..Len(order)
      BY <2>1, <2>3, <3>1, <3>2 DEF OrderSound
    <3>3. CASE j = Len(order) + 1
      <4>1. order[i] = p
        BY <2>3, <3>1, <3>3
      <4> QED
        BY <2>6, <3>1, <3>3, <4>1
    <3>4. j \in 1..Len(order) \/ j = Len(order) + 1
      BY <1>9
    <3> QED
      BY <3>2, <3>3, <3>4
  <2>8. \A i \in 1..Len(accepted') : i <= Len(order') /\ accepted'[i] = order'[i]
    BY <2>1, <2>3 DEF OrderSound
  <2>9. /\ Len(order') = Confirmed' + Len(st'.pending)
        /\ \A i \in 1..Len(st'.pending) : order'[Confirmed' + i] = st'.pending[i]
    <3>1. C \in Nat
      BY <1>1, <2>3, <2>1 DEF OrderSound, Confirmed
    <3>2. Len(order') = Confirmed' + Len(st'.pending)
      BY <1>1, <2>2, <2>3, <2>5
    <3>3. ASSUME NEW i \in 1..Len(st.pending) + 1  PROVE order'[C + i] = st'.pending[i]
      <4>1. CASE i \in 1..Len(st.pending)
        <5>1. C + i \in 1..Len(order)
          BY <2>3, <2>5, <3>1, <4>1
        <5> QED
          BY <2>3, <2>5, <4>1, <5>1
      <4>2. CASE i = Len(st.pending) + 1
        <5>1. C + i = Len(order) + 1
          BY <2>3, <2>5, <3>1, <4>2
        <5> QED
          BY <2>3, <4>2, <5>1
      <4> QED
        BY <2>3, <4>1, <4>2
    <3> QED
      BY <2>2, <2>3, <3>2, <3>3
  <2>10. \A i \in 1..Len(st'.delivered) :
            st'.delivered[i] = order'[Confirmed' - Len(st'.delivered) + i]
    <3> SUFFICES ASSUME NEW i \in 1..Len(st.delivered)
                 PROVE  st.delivered[i] = order'[C - Len(st.delivered) + i]
      BY <2>1, <2>2
    <3>1. Len(st.delivered) <= C /\ C <= Len(order)
      BY <1>0, <2>3, <2>5
    <3>2. C - Len(st.delivered) + i \in 1..Len(order)
      BY <1>0, <1>9, <3>1, PlaceInOrder
    <3> QED
      BY <2>3, <2>5, <3>2
  <2> QED
    BY <2>1, <2>2, <2>5, <2>7, <2>8, <2>9, <2>10 DEF OrderSound
<1>8. ASSUME NEW p \in Prompts, StartSession(p)  PROVE OrderSound'
  <2>1. /\ accepted' = <<>> /\ order' = <<p>> /\ advance'.stage = "none"
    BY <1>8 DEF StartSession, AgentInv, StartSound
  <2>2. st'.pending = <<p>> /\ st'.delivered = <<>>
    BY <1>8, NothingType DEF StartSession, AgentState
  <2>3. Confirmed' = 0
    BY <2>1 DEF Confirmed
  <2> QED
    BY <1>1, <2>1, <2>2, <2>3 DEF OrderSound
<1> QED
  BY <1>2, <1>3, <1>4, <1>5, <1>6, <1>7, <1>8

\* QueueInv is an invariant of the agent.
LEMMA QueueInvHolds ==
  ASSUME Overlaps = {}
  PROVE  Spec => []QueueInv
<1>1. Init => QueueInv
  BY NothingType, Bounds
  DEF Init, QueueInv, HeadSound, KeptSound, OrderSound, TakenPromptsKept, Range
<1>2. AgentInv /\ AgentInv' /\ QueueInv /\ [Next]_vars => QueueInv'
  BY NextKinds, HeadKept, KeptKept, OrderKept DEF QueueInv
<1> QED
  BY <1>1, <1>2, AgentInvHolds, PTL DEF Spec

\* What dispatchPending takes out of the queue is what the container has, and
\* nothing that was queued meanwhile goes with it.
THEOREM TakenPromptsKeptHolds ==
  ASSUME Overlaps = {}
  PROVE  Spec => []TakenPromptsKept
<1>1. QueueInv => TakenPromptsKept
  BY DEF QueueInv, KeptSound
<1> QED
  BY <1>1, QueueInvHolds, PTL

\* Prompts reach the container in the order they were taken, none twice, as far
\* back as deliveredPromptIds goes and as long as every answer comes.
THEOREM DeliveredInOrderOnceHolds ==
  ASSUME Overlaps = {}
  PROVE  Spec => []DeliveredInOrderOnce
<1>1. AgentInv /\ QueueInv => DeliveredInOrderOnce
  <2> SUFFICES ASSUME AgentInv, QueueInv, "unheard" \notin mishaps
               PROVE  /\ IsPrefix(accepted, order)
                      /\ \A i, j \in 1..Len(accepted) :
                            i < j /\ accepted[i] = accepted[j] => j - i > DeliveredWindow
    BY DEF DeliveredInOrderOnce
  <2>1. accepted \in Seq(Prompts) /\ order \in Seq(Prompts)
    BY AgentSequences
  <2>2. \A i \in 1..Len(accepted) : i <= Len(order) /\ accepted[i] = order[i]
    BY DEF QueueInv, OrderSound
  <2>3. Len(accepted) <= Len(order)
    BY <2>1, <2>2
  <2>4. SubSeq(accepted, 1, Len(accepted)) = SubSeq(order, 1, Len(accepted))
    BY <2>1, <2>2, <2>3
  <2>5. \A i, j \in 1..Len(accepted) :
           i < j /\ accepted[i] = accepted[j] => j - i > DeliveredWindow
    BY <2>1, <2>2, <2>3 DEF QueueInv, OrderSound
  <2> QED
    BY <2>3, <2>4, <2>5 DEF IsPrefix
<1> QED
  BY <1>1, AgentInvHolds, QueueInvHolds, PTL
=============================================================================
