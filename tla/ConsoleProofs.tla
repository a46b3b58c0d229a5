---------------------------- MODULE ConsoleProofs ----------------------------
(***************************************************************************)
(* Proofs about SessionConsole, for every number of clients, every budget  *)
(* and every title.                                                        *)
(*                                                                         *)
(* A request carries what it read; the invariant says what that still      *)
(* means when it is used, whatever the others did since: the status it     *)
(* read is the coordinator's if nothing was counted since, the generation  *)
(* it resolved still runs or nothing ran for a moment, and the session it  *)
(* found is one its agent had registered.                                  *)
(***************************************************************************)
EXTENDS SessionConsole, TLAPS

-----------------------------------------------------------------------------
\* Types

Stages == {"free", "list", "session", "status", "delete", "write", "instance", "ready", "again",
           "lost", "patch", "act", "mark", "epoch", "call", "asleep", "gone", "mirror", "done"}
Outs == Lifecycles \cup {"none", "absent", "cached", "cleaned", "deleting", "404", "409", "500", "503",
                         "202", "pending", "live", "ok"}

Request == [route : Routes, at : Stages, arg : Nat \cup HandTitles,
            rec : [phase : Phases, conv : Convs, unread : Nat],
            epoch : Nat, read : Lifecycles \cup {"none"}, seq : Nat, slept : BOOLEAN,
            out : Outs, conv : Convs]
Agent == [phase : Phases \cup {"none", "deleted"}, conv : Convs, registered : BOOLEAN]
Runtime == [lc : Lifecycles, seq : Nat, epoch : Nat]
Push == [lc : Lifecycles, seq : Nat]

Types ==
    /\ left \in Budget
    /\ agent \in Agent /\ row \in Row /\ rt \in Runtime /\ pushes \subseteq Push
    /\ made \in Convs /\ lostConv \in Convs /\ mirror \in Convs
    /\ page \in [seen : Nat, acked : Nat]
    /\ reqs \in [Clients -> Request]
    /\ missed \in BOOLEAN

-----------------------------------------------------------------------------
\* The inductive invariant

\* The agent has registered its session at some point.
Contacted == agent.registered \/ agent.phase = "deleted"

\* A row is there while its session is registered; before that there is
\* nothing the coordinator could have said of it, and only a deleted session
\* loses its row.
SessionSound ==
    /\ agent.registered => row.exists /\ agent.phase \notin {"none", "deleted"}
    /\ ~Contacted => ~row.exists /\ rt.seq = 0 /\ rt.lc = "sleeping" /\ pushes = {}
    /\ row.exists /\ row.lifecycle \in {"deleting", "delete_failed"} => agent.phase = "deleted"

\* A mirror write carries the lifecycle of its change.
PushSound == \A p \in pushes : p.seq <= rt.seq /\ (p.seq = rt.seq => p.lc = rt.lc)

\* The row holds the newest observation, unless one is on its way or was missed.
RowSound ==
    row.exists =>
        /\ row.seq <= rt.seq
        /\ missed \/ row.seq = rt.seq \/ \E p \in pushes : p.seq = rt.seq
        /\ row.seq = rt.seq /\ ~row.query => row.lc = rt.lc

\* Where a request got to, and what it found on its way.
Known404(r) ==
    /\ r.at # "free" => agent.phase # "none"
    /\ r.at \notin {"free", "session", "list", "done"} => Contacted
    /\ r.out = "404" => agent.phase = "deleted"

Routed(r) ==
    /\ r.at \in {"status", "lost", "patch", "list", "again", "write", "mark", "instance", "act", "delete"}
          => r.route \notin PassiveRoutes
    /\ r.route = "rename" => r.arg \in HandTitles

\* The status that was read is the coordinator's, unless it has changed since.
ReadSound(r) ==
    r.at \in {"lost", "patch"} =>
        /\ r.read \in Lifecycles /\ r.seq <= rt.seq
        /\ r.seq = rt.seq => r.read \in {rt.lc, "error"}

\* The generation that was resolved runs, or nothing did for a moment.
EpochSound(r) ==
    /\ r.at \in {"call", "gone"} => r.slept \/ (rt.lc \in Running /\ rt.epoch = r.epoch)
    /\ r.at = "asleep" => r.slept
    /\ r.at = "done" /\ r.out = "sleeping" /\ r.route \in PassiveRoutes => r.slept

\* Only an answer carries a conversation.
ConvSound(r) ==
    r.conv # 0 => r.at = "done" /\ r.route = "transcript" /\ r.conv = r.rec.conv

RequestSound(r) == Known404(r) /\ Routed(r) /\ ReadSound(r) /\ EpochSound(r) /\ ConvSound(r)

Inv == Types /\ SessionSound /\ PushSound /\ RowSound /\ \A c \in Clients : RequestSound(reqs[c])

-----------------------------------------------------------------------------
\* Values

\* The session a request found is one whose agent knows it.
LEMMA PhaseFacts ==
    /\ Phases \subseteq Phases \cup {"none", "deleted"}
    /\ "none" \notin Phases /\ "deleted" \notin Phases
    /\ Running \subseteq Lifecycles /\ "sleeping" \notin Running /\ "waking" \notin Running
    /\ "none" \notin Lifecycles
  BY DEF Phases, Running, Lifecycles

\* What the checks of the code compare a stage or a route with are the stages
\* and routes there are.
LEMMA FreeType == Free \in Request /\ NoRow \in Row
  BY DEF Free, Request, Projection, NoRow, Row, Routes, Stages, Outs, Phases, Convs, Lifecycles, CleanedLifecycles

\* A row without a session is no row (SELECT of a row that is not there).
LEMMA ProjectionType ==
  ASSUME NEW r \in Row
  PROVE  Projection(r) \in [phase : Phases, conv : Convs, unread : Nat]
  BY DEF Projection, Row

\* What an UPDATE of other columns leaves alone.
SameCache(r, s) ==
    /\ s \in Row /\ s.exists = r.exists
    /\ s.lc = r.lc /\ s.query = r.query /\ s.seq = r.seq /\ s.lifecycle = r.lifecycle

\* The registry edits and the agent's reports write other columns than the
\* cached status (hub-store.ts).
LEMMA EditsKeepCache ==
  ASSUME NEW r \in Row
  PROVE  /\ \A phase \in Phases, conv \in Convs : SameCache(r, UpdateSession(r, phase, conv))
         /\ \A at \in Nat : SameCache(r, MarkSessionUnread(r, at)) /\ SameCache(r, MarkSessionRead(r, at))
         /\ \A title \in HandTitles : SameCache(r, RenameSession(r, title))
         /\ SameCache(r, UpdateTitle(r, "auto"))
         /\ SameCache(r, ClearSessionUnread(r))
         /\ \A pinned \in BOOLEAN : SameCache(r, SetSessionPinned(r, pinned))
<1>1. ASSUME NEW phase \in Phases, NEW conv \in Convs PROVE SameCache(r, UpdateSession(r, phase, conv))
  <2> DEFINE kept == IF conv = 0 THEN r.conv ELSE conv
             new == [r EXCEPT !.phase = phase, !.conv = kept]
  <2>1. kept \in Convs
    BY DEF Row
  <2>2. UpdateSession(r, phase, conv) = IF r.exists THEN new ELSE r
    BY DEF UpdateSession, On
  <2> HIDE DEF kept
  <2>3. /\ new \in Row /\ new.exists = r.exists /\ new.lc = r.lc /\ new.query = r.query /\ new.seq = r.seq
        /\ new.lifecycle = r.lifecycle
    BY <2>1 DEF Row
  <2> HIDE DEF new
  <2> QED
    BY <2>2, <2>3 DEF SameCache
<1>2. \A at \in Nat : SameCache(r, MarkSessionUnread(r, at))
  BY DEF SameCache, MarkSessionUnread, On, Row
<1>3. \A at \in Nat : SameCache(r, MarkSessionRead(r, at))
  BY DEF SameCache, MarkSessionRead, On, Row
<1>4. \A title \in HandTitles : SameCache(r, RenameSession(r, title))
  BY DEF SameCache, RenameSession, On, Row
<1>5. SameCache(r, UpdateTitle(r, "auto"))
  BY DEF SameCache, UpdateTitle, On, Row
<1>6. SameCache(r, ClearSessionUnread(r))
  BY DEF SameCache, ClearSessionUnread, On, Row
<1>7. \A pinned \in BOOLEAN : SameCache(r, SetSessionPinned(r, pinned))
  BY DEF SameCache, SetSessionPinned, On, Row
<1> QED
  BY <1>1, <1>2, <1>3, <1>4, <1>5, <1>6, <1>7

\* Setting the query flag only makes the list ask.
LEMMA StatusQueryKeeps ==
  ASSUME NEW r \in Row
  PROVE  LET s == MarkSessionStatusQuery(r) IN
         /\ s \in Row /\ s.exists = r.exists /\ s.lc = r.lc /\ s.seq = r.seq /\ s.lifecycle = r.lifecycle
         /\ s.query \/ ~r.exists
  BY DEF MarkSessionStatusQuery, On, Row

\* A status is mirrored onto the row, if there is one.
LEMMA PatchKeeps ==
  ASSUME NEW r \in Row, NEW lc \in Lifecycles, NEW seq \in Nat
  PROVE  LET s == PatchSessionRuntimeStatus(r, lc, seq) IN
         /\ s \in Row /\ s.exists = r.exists /\ s.lifecycle = r.lifecycle
         /\ r.exists => s.lc = lc /\ s.seq = seq /\ (lc = "error" => s.query)
         /\ ~r.exists => s = r
  BY DEF PatchSessionRuntimeStatus, On, Row, RuntimeLifecycleNeedsStatusQuery

-----------------------------------------------------------------------------
\* What a step does to the parts of the invariant it hardly touches.

\* A session that is there stays known: it may be deleted, not forgotten.
Forward ==
    /\ agent.phase # "none" => agent'.phase # "none"
    /\ Contacted => Contacted'
    /\ agent.phase = "deleted" => agent'.phase = "deleted"

Others(c) == \A d \in Clients \ {c} : reqs'[d] = reqs[d]

\* What the other requests know stays true while the lifecycle does.
LEMMA KnowledgeKept ==
  ASSUME Forward, rt' = rt, NEW r, RequestSound(r)
  PROVE  RequestSound(r)'
  BY DEF Forward, RequestSound, Known404, Routed, ReadSound, EpochSound, ConvSound

\* A step of somebody else leaves every request as it was, and what it knows true.
LEMMA RequestsKept ==
  ASSUME Inv, Forward, rt' = rt, reqs' = reqs
  PROVE  \A d \in Clients : RequestSound(reqs[d])'
  BY KnowledgeKept DEF Inv

\* A step of one request leaves the others as they were, and what they know true.
LEMMA OthersKept ==
  ASSUME Inv, Forward, rt' = rt, NEW c \in Clients, Others(c), RequestSound(reqs[c])'
  PROVE  \A d \in Clients : RequestSound(reqs[d])'
<1> SUFFICES ASSUME NEW d \in Clients, d # c PROVE RequestSound(reqs[d])'
  OBVIOUS
<1>1. RequestSound(reqs[d]) /\ reqs'[d] = reqs[d]
  BY DEF Inv, Others
<1> DEFINE r == reqs[d]
<1>2. PICK q : q = r
  OBVIOUS
<1>3. RequestSound(q)'
  BY <1>1, <1>2, KnowledgeKept
<1> QED
  BY <1>1, <1>2, <1>3

\* An edit of other columns leaves the cache and the session as sound as they were.
LEMMA EditKeeps ==
  ASSUME Inv, SameCache(row, row'), UNCHANGED <<rt, pushes, missed>>
  PROVE  RowSound' /\ PushSound'
  BY DEF Inv, SameCache, RowSound, PushSound

\* So does the row of a session that is held, whatever its phase becomes.
LEMMA EditKeepsSession ==
  ASSUME Inv, SameCache(row, row'), UNCHANGED <<rt, pushes>>, agent'.registered = agent.registered,
         agent.phase # "deleted", agent'.phase \notin {"none", "deleted"}
  PROVE  SessionSound'
  BY DEF Inv, SameCache, SessionSound, Contacted

\* The agent and what it says of the row are as they were.
LEMMA SessionKept ==
  ASSUME Inv, UNCHANGED <<agent, rt, pushes>>, row'.exists = row.exists, row'.lifecycle = row.lifecycle
  PROVE  SessionSound' /\ Forward
  BY DEF Inv, SessionSound, Contacted, Forward

\* The row and the writes on their way to it are as they were.
LEMMA RowKept ==
  ASSUME Inv, UNCHANGED <<row, rt, pushes, missed>>
  PROVE  RowSound' /\ PushSound'
  BY DEF Inv, RowSound, PushSound

\* One request is replaced by what becomes of it.
LEMMA RequestChanged ==
  ASSUME Types, NEW c \in Clients, NEW q \in Request, reqs' = [reqs EXCEPT ![c] = q]
  PROVE  reqs' \in [Clients -> Request] /\ Others(c) /\ reqs'[c] = q
  BY DEF Types, Others

\* Go, Answer and AnswerFrom change the stage and the answer of one request.
LEMMA GoKeeps ==
  ASSUME Types, NEW c \in Clients, NEW at \in Stages, Go(c, at)
  PROVE  /\ reqs' \in [Clients -> Request] /\ Others(c)
         /\ reqs'[c].at = at /\ reqs'[c].route = reqs[c].route /\ reqs'[c].arg = reqs[c].arg
         /\ reqs'[c].rec = reqs[c].rec /\ reqs'[c].epoch = reqs[c].epoch /\ reqs'[c].read = reqs[c].read
         /\ reqs'[c].seq = reqs[c].seq /\ reqs'[c].slept = reqs[c].slept /\ reqs'[c].out = reqs[c].out
         /\ reqs'[c].conv = reqs[c].conv
<1> DEFINE r == reqs[c]
           q == [r EXCEPT !.at = at]
<1>1. r \in Request
  BY DEF Types
<1>2. reqs' = [reqs EXCEPT ![c] = q]
  BY DEF Go
<1> HIDE DEF r
<1>3. /\ q \in Request /\ q.at = at /\ q.route = r.route /\ q.arg = r.arg /\ q.rec = r.rec /\ q.epoch = r.epoch
      /\ q.read = r.read /\ q.seq = r.seq /\ q.slept = r.slept /\ q.out = r.out /\ q.conv = r.conv
  BY <1>1 DEF Request
<1> HIDE DEF q
<1> QED
  BY <1>2, <1>3, RequestChanged DEF r

\* Answer ends one request with an outcome.
LEMMA AnswerKeeps ==
  ASSUME Types, NEW c \in Clients, NEW out \in Outs, Answer(c, out)
  PROVE  /\ reqs' \in [Clients -> Request] /\ Others(c)
         /\ reqs'[c].at = "done" /\ reqs'[c].route = reqs[c].route /\ reqs'[c].arg = reqs[c].arg
         /\ reqs'[c].rec = reqs[c].rec /\ reqs'[c].slept = reqs[c].slept /\ reqs'[c].out = out
         /\ reqs'[c].conv = reqs[c].conv
<1> DEFINE r == reqs[c]
           q == [r EXCEPT !.at = "done", !.out = out]
<1>1. "done" \in Stages
  BY DEF Stages
<1>2. r \in Request
  BY DEF Types
<1>3. reqs' = [reqs EXCEPT ![c] = q]
  BY DEF Answer
<1> HIDE DEF r
<1>4. /\ q \in Request /\ q.at = "done" /\ q.route = r.route /\ q.arg = r.arg /\ q.rec = r.rec
      /\ q.slept = r.slept /\ q.out = out /\ q.conv = r.conv
  BY <1>1, <1>2 DEF Request
<1> HIDE DEF q
<1> QED
  BY <1>3, <1>4, RequestChanged DEF r

\* AnswerFrom ends it with the conversation the answer shows, too.
LEMMA AnswerFromKeeps ==
  ASSUME Types, NEW c \in Clients, NEW out \in Outs, NEW conv \in Convs, AnswerFrom(c, out, conv)
  PROVE  /\ reqs' \in [Clients -> Request] /\ Others(c)
         /\ reqs'[c].at = "done" /\ reqs'[c].route = reqs[c].route /\ reqs'[c].arg = reqs[c].arg
         /\ reqs'[c].rec = reqs[c].rec /\ reqs'[c].slept = reqs[c].slept /\ reqs'[c].out = out
         /\ reqs'[c].conv = conv
<1> DEFINE r == reqs[c]
           q == [r EXCEPT !.at = "done", !.out = out, !.conv = conv]
<1>1. "done" \in Stages
  BY DEF Stages
<1>2. r \in Request
  BY DEF Types
<1>3. reqs' = [reqs EXCEPT ![c] = q]
  BY DEF AnswerFrom
<1> HIDE DEF r
<1>4. /\ q \in Request /\ q.at = "done" /\ q.route = r.route /\ q.arg = r.arg /\ q.rec = r.rec
      /\ q.slept = r.slept /\ q.out = out /\ q.conv = conv
  BY <1>1, <1>2 DEF Request
<1> HIDE DEF q
<1> QED
  BY <1>3, <1>4, RequestChanged DEF r

\* A budget that is drawn on stays one.
LEMMA BudgetType ==
  ASSUME Types
  PROVE  /\ left.marks > 0 => [left EXCEPT !.marks = @ - 1] \in Budget
         /\ left.faults > 0 => [left EXCEPT !.faults = @ - 1] \in Budget
         /\ left.turns > 0 => [left EXCEPT !.turns = @ - 1] \in Budget
         /\ left.syncs > 0 => [left EXCEPT !.syncs = @ - 1] \in Budget
         /\ left.requests > 0 => [left EXCEPT !.requests = @ - 1] \in Budget
         /\ left.marks \in Nat
<1>1. left.marks > 0 => [left EXCEPT !.marks = @ - 1] \in Budget
  BY DEF Types, Budget
<1>2. left.faults > 0 => [left EXCEPT !.faults = @ - 1] \in Budget
  BY DEF Types, Budget
<1>3. left.turns > 0 => [left EXCEPT !.turns = @ - 1] \in Budget
  BY DEF Types, Budget
<1>4. left.syncs > 0 => [left EXCEPT !.syncs = @ - 1] \in Budget
  BY DEF Types, Budget
<1>5. left.requests > 0 => [left EXCEPT !.requests = @ - 1] \in Budget
  BY DEF Types, Budget
<1>6. left.marks \in Nat
  BY DEF Types, Budget
<1> QED
  BY <1>1, <1>2, <1>3, <1>4, <1>5, <1>6

-----------------------------------------------------------------------------
\* The coordinator, the container and the agent

\* A change of the public lifecycle sends its mirror write.
LEMMA TurnedKeeps ==
  ASSUME Inv, NEW lc \in Lifecycles, Turned(lc), row' = row, missed' = missed
  PROVE  /\ left' \in Budget /\ rt' \in Runtime /\ pushes' \subseteq Push
         /\ rt'.lc = lc /\ rt'.seq = rt.seq + 1
         /\ rt'.epoch = IF lc = "waking" THEN rt.epoch + 1 ELSE rt.epoch
         /\ PushSound' /\ RowSound'
<1>1. /\ rt' = [lc |-> lc, seq |-> rt.seq + 1, epoch |-> IF lc = "waking" THEN rt.epoch + 1 ELSE rt.epoch]
      /\ pushes' = pushes \cup {[lc |-> lc, seq |-> rt.seq + 1]}
      /\ rt.seq \in Nat /\ rt.epoch \in Nat /\ pushes \subseteq Push
  BY DEF Turned, MaybeSyncRuntimeCache, Inv, Types, Runtime
<1>2. left' \in Budget
  BY BudgetType DEF Turned, Inv
<1>3. rt' \in Runtime /\ pushes' \subseteq Push
  BY <1>1 DEF Runtime, Push
<1>4. PushSound'
  BY <1>1 DEF Inv, PushSound, Push
<1>5. [lc |-> lc, seq |-> rt.seq + 1] \in pushes' /\ row.seq \in Nat /\ rt'.seq = rt.seq + 1
  BY <1>1 DEF Inv, Types, Row
<1>6. RowSound'
  <2> SUFFICES ASSUME row.exists PROVE RowSound'
    BY DEF RowSound
  <2>1. row.seq <= rt.seq
    BY DEF Inv, RowSound
  <2>2. row.seq <= rt.seq + 1 /\ row.seq # rt.seq + 1
    BY <1>1, <1>5, <2>1
  <2>3. \E p \in pushes' : p.seq = rt'.seq
    BY <1>5
  <2> QED
    BY <1>5, <2>2, <2>3 DEF RowSound
<1> QED
  BY <1>1, <1>2, <1>3, <1>4, <1>6

\* Whoever was asking while nothing ran has met that.
LEMMA TurnedRequests ==
  ASSUME Inv, Forward, NEW lc \in Lifecycles, NEW asleep \in BOOLEAN,
         lc \notin Running => asleep, rt.seq \in Nat,
         rt'.lc = lc, rt'.seq = rt.seq + 1,
         rt'.epoch = IF lc = "waking" THEN rt.epoch + 1 ELSE rt.epoch,
         reqs' = [d \in Clients |-> [reqs[d] EXCEPT !.slept = @ \/ (asleep /\ reqs[d].at # "free")]]
  PROVE  reqs' \in [Clients -> Request] /\ \A d \in Clients : RequestSound(reqs[d])'
<1> SUFFICES ASSUME NEW d \in Clients PROVE reqs'[d] \in Request /\ RequestSound(reqs[d])'
  OBVIOUS
<1> DEFINE r == reqs[d]
           x == r.slept \/ (asleep /\ r.at # "free")
<1>1. r \in Request /\ RequestSound(r)
  BY DEF Inv, Types
<1>2. x \in BOOLEAN
  OBVIOUS
<1>3. reqs'[d] = [r EXCEPT !.slept = x]
  OBVIOUS
<1>4. (r.slept => x) /\ (asleep /\ r.at # "free" => x)
  OBVIOUS
<1> HIDE DEF x
<1>5. PICK q : q = [r EXCEPT !.slept = x]
  OBVIOUS
<1>6. /\ q \in Request /\ q.at = r.at /\ q.route = r.route /\ q.arg = r.arg /\ q.rec = r.rec /\ q.epoch = r.epoch
      /\ q.read = r.read /\ q.seq = r.seq /\ q.out = r.out /\ q.conv = r.conv /\ q.slept = x
  BY <1>1, <1>2, <1>5 DEF Request
<1>7. r.seq \in Nat
  BY <1>1 DEF Request
<1>8. Known404(q)' /\ Routed(q)' /\ ConvSound(q)'
  BY <1>1, <1>6 DEF RequestSound, Known404, Routed, ConvSound, Forward
<1>9. ReadSound(q)'
  BY <1>1, <1>6, <1>7 DEF RequestSound, ReadSound
<1>10. EpochSound(q)'
  <2>1. q.at \in {"call", "gone"} => q.slept \/ (lc \in Running /\ rt'.epoch = q.epoch)
    BY <1>1, <1>4, <1>6, PhaseFacts DEF RequestSound, EpochSound
  <2>2. q.at = "asleep" => q.slept
    BY <1>1, <1>4, <1>6 DEF RequestSound, EpochSound
  <2>3. q.at = "done" /\ q.out = "sleeping" /\ q.route \in PassiveRoutes => q.slept
    BY <1>1, <1>4, <1>6 DEF RequestSound, EpochSound
  <2> QED
    BY <2>1, <2>2, <2>3 DEF EpochSound
<1> QED
  BY <1>3, <1>5, <1>6, <1>8, <1>9, <1>10 DEF RequestSound

\* What every step has to show.
LEMMA Assemble ==
  ASSUME Types', SessionSound', PushSound', RowSound', \A d \in Clients : RequestSound(reqs[d])'
  PROVE  Inv'
  BY DEF Inv

\* The lifecycle of an instance that was woken goes on.
LEMMA TurnKeeps ==
  ASSUME Inv, NEW lc \in Lifecycles, Turn(lc)
  PROVE  Inv'
<1>1. Turned(lc) /\ row' = row /\ missed' = missed /\ agent' = agent /\ rt.lc # "sleeping"
  BY DEF Turn
<1>2. Forward /\ Contacted /\ rt.seq \in Nat
  BY <1>1 DEF Inv, SessionSound, Forward, Contacted, Types, Runtime
<1>3. /\ left' \in Budget /\ rt' \in Runtime /\ pushes' \subseteq Push
      /\ rt'.lc = lc /\ rt'.seq = rt.seq + 1
      /\ rt'.epoch = IF lc = "waking" THEN rt.epoch + 1 ELSE rt.epoch
      /\ PushSound' /\ RowSound'
  BY <1>1, TurnedKeeps
<1>4. reqs' \in [Clients -> Request] /\ \A d \in Clients : RequestSound(reqs[d])'
  <2> DEFINE asleep == lc \notin Running
  <2>1. asleep \in BOOLEAN
    OBVIOUS
  <2>2. reqs' = [d \in Clients |-> [reqs[d] EXCEPT !.slept = @ \/ (asleep /\ reqs[d].at # "free")]]
    BY DEF Turn, Slept
  <2> HIDE DEF asleep
  <2>3. lc \notin Running => asleep
    BY DEF asleep
  <2> QED
    BY <1>2, <1>3, <2>1, <2>2, <2>3, TurnedRequests
<1>5. Types'
  BY <1>1, <1>3, <1>4 DEF Turn, Inv, Types
<1>6. SessionSound'
  BY <1>1, <1>2 DEF Inv, SessionSound, Contacted
<1> QED
  BY <1>3, <1>4, <1>5, <1>6, Assemble

\* A status is mirrored onto the row: the newest one settles what was missed, an
\* older one over a newer one is a miss, and any other finds a newer one on its
\* way (syncSessionRuntimeCache, patchSessionRuntimeStatus).
LEMMA PatchedSound ==
  ASSUME Inv, NEW lc \in Lifecycles, NEW seq \in Nat, seq <= rt.seq,
         seq = rt.seq => lc \in {rt.lc, "error"},
         row' = PatchSessionRuntimeStatus(row, lc, seq), missed' = MissedBy(row, seq), rt' = rt,
         \A p \in pushes : p.seq # seq => p \in pushes'
  PROVE  RowSound' /\ row' \in Row /\ missed' \in BOOLEAN
         /\ row'.exists = row.exists /\ row'.lifecycle = row.lifecycle
<1>1. row \in Row /\ missed \in BOOLEAN /\ row.seq \in Nat /\ rt.seq \in Nat
  BY DEF Inv, Types, Row, Runtime
<1>2. /\ row' \in Row /\ row'.exists = row.exists /\ row'.lifecycle = row.lifecycle
      /\ row.exists => row'.lc = lc /\ row'.seq = seq /\ (lc = "error" => row'.query)
  BY <1>1, PatchKeeps
<1>3. missed' \in BOOLEAN
  BY <1>1 DEF MissedBy
<1>4. ASSUME row.exists PROVE RowSound'
  <2>1. row.seq <= rt.seq /\ (missed \/ row.seq = rt.seq \/ \E p \in pushes : p.seq = rt.seq)
    BY <1>4 DEF Inv, RowSound
  <2>2. row'.lc = lc /\ row'.seq = seq /\ (lc = "error" => row'.query)
    BY <1>2, <1>4
  <2>3. row'.seq = rt.seq /\ ~row'.query => row'.lc = rt.lc
    BY <2>2
  <2>4. missed' \/ seq = rt.seq \/ \E p \in pushes' : p.seq = rt.seq
    <3>1. CASE seq < row.seq
      BY <3>1, <1>4 DEF MissedBy
    <3>2. CASE ~(seq < row.seq) /\ seq # rt.seq
      <4>1. missed' = missed
        BY <3>2, <1>4 DEF MissedBy
      <4>2. row.seq # rt.seq
        BY <3>2, <1>1, <2>1
      <4>3. ASSUME NEW p \in pushes, p.seq = rt.seq PROVE p \in pushes'
        BY <4>3, <3>2
      <4> QED
        BY <4>1, <4>2, <4>3, <2>1
    <3> QED
      BY <3>1, <3>2
  <2> QED
    BY <2>2, <2>3, <2>4 DEF RowSound
<1>5. ASSUME ~row.exists PROVE RowSound'
  BY <1>2, <1>5 DEF RowSound
<1> QED
  BY <1>2, <1>3, <1>4, <1>5

\* The Sandbox exports, and the coordinator's mirror writes land or fail.
LEMMA MirrorsKeep ==
  ASSUME Inv, ExportTranscript \/ \E p \in pushes : PushLands(p) \/ PushFails(p)
  PROVE  Inv'
<1>1. CASE ExportTranscript
  <2>1. Types'
    BY <1>1 DEF ExportTranscript, Inv, Types
  <2>2. SessionSound' /\ Forward
    BY <1>1, SessionKept DEF ExportTranscript
  <2>3. \A d \in Clients : RequestSound(reqs[d])'
    BY <1>1, <2>2, RequestsKept DEF ExportTranscript
  <2> QED
    BY <1>1, <2>1, <2>2, <2>3, RowKept, Assemble DEF ExportTranscript
<1>2. ASSUME NEW p \in pushes, PushLands(p) PROVE Inv'
  <2>1. p.lc \in Lifecycles /\ p.seq \in Nat /\ p.seq <= rt.seq /\ (p.seq = rt.seq => p.lc \in {rt.lc, "error"})
    BY DEF Inv, Types, Push, PushSound
  <2>2. RowSound' /\ row' \in Row /\ missed' \in BOOLEAN
        /\ row'.exists = row.exists /\ row'.lifecycle = row.lifecycle
    <3>1. \A q \in pushes : q.seq # p.seq => q \in pushes'
      BY <1>2 DEF PushLands
    <3> QED
      BY <1>2, <2>1, <3>1, PatchedSound DEF PushLands
  <2>3. Types'
    BY <1>2, <2>2 DEF PushLands, Inv, Types
  <2>4. Contacted /\ SessionSound' /\ Forward
    BY <1>2, <2>2 DEF PushLands, Inv, SessionSound, Contacted, Forward
  <2>5. \A d \in Clients : RequestSound(reqs[d])'
    BY <1>2, <2>4, RequestsKept DEF PushLands
  <2>6. PushSound'
    BY <1>2 DEF PushLands, Inv, PushSound
  <2> QED
    BY <2>2, <2>3, <2>4, <2>5, <2>6, Assemble
<1>3. ASSUME NEW p \in pushes, PushFails(p) PROVE Inv'
  <2>1. Types'
    BY <1>3, BudgetType DEF PushFails, Inv, Types
  <2>2. Contacted /\ SessionSound' /\ Forward
    BY <1>3 DEF PushFails, Inv, SessionSound, Contacted, Forward
  <2>3. \A d \in Clients : RequestSound(reqs[d])'
    BY <1>3, <2>2, RequestsKept DEF PushFails
  <2>4. PushSound' /\ RowSound'
    BY <1>3 DEF PushFails, Inv, PushSound, RowSound
  <2> QED
    BY <2>1, <2>2, <2>3, <2>4, Assemble
<1> QED
  BY <1>1, <1>2, <1>3

\* The agent registers its session, which is then there.
LEMMA RegistersKeeps ==
  ASSUME Inv, Registers, UNCHANGED <<rt, pushes, missed>>
  PROVE  /\ agent' \in Agent /\ row' \in Row /\ row'.exists /\ SessionSound' /\ Forward
         /\ Contacted' /\ RowSound' /\ PushSound'
<1>1. /\ agent \in Agent /\ row \in Row /\ Known /\ ~agent.registered
      /\ agent' = [agent EXCEPT !.registered = TRUE] /\ row' = InsertSessionRow(row)
  BY DEF Registers, Inv, Types
<1>2. agent' \in Agent /\ agent'.registered /\ agent'.phase = agent.phase /\ agent.phase \in Phases
  BY <1>1 DEF Agent, Known
<1>3. ~Contacted /\ ~row.exists /\ rt.seq = 0 /\ pushes = {}
  BY <1>1 DEF Contacted, Known, Inv, SessionSound
<1>4. /\ row' \in Row /\ row'.exists /\ row'.seq = 0 /\ row'.query /\ row'.lifecycle = "ready"
  <2>1. row' = [NoRow EXCEPT !.exists = TRUE, !.phase = agent.phase]
    BY <1>1, <1>3 DEF InsertSessionRow
  <2>2. NoRow \in Row /\ NoRow.seq = 0 /\ NoRow.query = TRUE /\ NoRow.lifecycle = "ready"
    BY FreeType DEF NoRow
  <2> QED
    BY <1>2, <2>1, <2>2 DEF Row
<1>5. RowSound' /\ PushSound'
  BY <1>3, <1>4 DEF RowSound, PushSound
<1>6. SessionSound' /\ Forward /\ Contacted'
  BY <1>1, <1>2, <1>3, <1>4 DEF Known, SessionSound, Contacted, Forward
<1> QED
  BY <1>2, <1>4, <1>5, <1>6

\* update() in the agent of a session that is there: its state, and the report.
LEMMA AgentUpdateKeeps ==
  ASSUME Inv, agent.registered, NEW phase \in Phases, NEW conv \in Convs, AgentUpdate(phase, conv),
         UNCHANGED <<rt, pushes, missed>>
  PROVE  /\ agent' \in Agent /\ row' \in Row /\ SessionSound' /\ Forward /\ RowSound' /\ PushSound'
<1>1. /\ agent \in Agent /\ row \in Row /\ agent' = [agent EXCEPT !.phase = phase, !.conv = conv]
      /\ row' = UpdateSession(row, phase, conv)
  BY DEF AgentUpdate, Inv, Types
<1>2. agent' \in Agent /\ agent'.registered /\ agent'.phase = phase
  BY <1>1 DEF Agent
<1>3. SameCache(row, row') /\ row' \in Row
  BY <1>1, EditsKeepCache DEF SameCache
<1>4. RowSound' /\ PushSound'
  BY <1>3, EditKeeps
<1>5. SessionSound' /\ Forward
  BY <1>2, <1>3, PhaseFacts DEF Inv, SessionSound, Contacted, Forward, SameCache
<1> QED
  BY <1>2, <1>3, <1>4, <1>5

\* The agent is made, registers, and takes its prompt to OpenCode.
LEMMA AgentKeeps ==
  ASSUME Inv, CreateSession \/ AgentRegisters \/ Dispatch \/ DispatchFails
  PROVE  Inv'
<1>1. agent \in Agent /\ row \in Row /\ rt \in Runtime
  BY DEF Inv, Types
<1>2. CASE CreateSession
  <2>1. agent' \in Agent /\ agent'.phase = "queued" /\ agent'.registered = agent.registered
    BY <1>1, <1>2 DEF CreateSession, Agent, Phases
  <2>2. Types'
    BY <1>2, <2>1 DEF CreateSession, Inv, Types
  <2>3. SessionSound' /\ Forward
    BY <1>2, <2>1 DEF CreateSession, Inv, SessionSound, Contacted, Forward
  <2>4. \A d \in Clients : RequestSound(reqs[d])'
    BY <1>2, <2>3, RequestsKept DEF CreateSession
  <2> QED
    BY <1>2, <2>2, <2>3, <2>4, RowKept, Assemble DEF CreateSession
<1>3. CASE AgentRegisters
  <2>1. /\ agent' \in Agent /\ row' \in Row /\ row'.exists /\ SessionSound' /\ Forward
        /\ Contacted' /\ RowSound' /\ PushSound'
    BY <1>3, RegistersKeeps DEF AgentRegisters
  <2>2. Types'
    BY <1>3, <2>1 DEF AgentRegisters, Inv, Types
  <2>3. \A d \in Clients : RequestSound(reqs[d])'
    BY <1>3, <2>1, RequestsKept DEF AgentRegisters
  <2> QED
    BY <2>1, <2>2, <2>3, Assemble
<1>4. CASE DispatchFails
  <2>1. /\ agent.phase = "starting" /\ agent' = [agent EXCEPT !.phase = "failed"]
        /\ row' = MarkSessionUnread(UpdateSession(row, "failed", agent.conv), left.marks)
        /\ left' \in Budget /\ left.marks \in Nat
    BY <1>4, BudgetType DEF DispatchFails, Inv
  <2>2. agent' \in Agent /\ agent'.registered = agent.registered /\ agent'.phase = "failed"
    BY <1>1, <2>1 DEF Agent, Phases
  <2>3. SameCache(row, row')
    <3>1. "failed" \in Phases /\ agent.conv \in Convs
      BY <1>1 DEF Phases, Agent
    <3>2. SameCache(row, UpdateSession(row, "failed", agent.conv))
      BY <1>1, <3>1, EditsKeepCache
    <3> QED
      BY <2>1, <3>2, EditsKeepCache DEF SameCache
  <2>4. SessionSound' /\ Forward
    BY <1>4, <2>1, <2>2, <2>3, EditKeepsSession DEF DispatchFails, Forward, Contacted
  <2>5. Types'
    BY <1>4, <2>1, <2>2, <2>3 DEF DispatchFails, Inv, Types, SameCache
  <2>6. \A d \in Clients : RequestSound(reqs[d])'
    BY <1>4, <2>4, RequestsKept DEF DispatchFails
  <2>7. RowSound' /\ PushSound'
    BY <1>4, <2>3, EditKeeps DEF DispatchFails
  <2> QED
    BY <2>4, <2>5, <2>6, <2>7, Assemble
<1>5. CASE Dispatch
  <2>1. agent.registered /\ Contacted /\ UNCHANGED <<lostConv, mirror, page, missed>>
    BY <1>5 DEF Dispatch, Contacted
  <2>2. ASSUME NEW phase \in Phases, NEW conv \in Convs, AgentUpdate(phase, conv),
               UNCHANGED <<rt, pushes, reqs>>, made' \in Convs, left' \in Budget
        PROVE  Inv'
    <3>1. agent' \in Agent /\ row' \in Row /\ SessionSound' /\ Forward /\ RowSound' /\ PushSound'
      BY <2>1, <2>2, AgentUpdateKeeps
    <3>2. Types'
      BY <2>1, <2>2, <3>1 DEF Inv, Types
    <3>3. \A d \in Clients : RequestSound(reqs[d])'
      BY <2>2, <3>1, RequestsKept
    <3> QED
      BY <3>1, <3>2, <3>3, Assemble
  <2>3. {"starting", "working"} \subseteq Phases /\ agent.conv \in Convs /\ made \in Convs /\ left \in Budget
    BY DEF Phases, Inv, Types, Agent
  <2>4. CASE agent.phase = "queued" /\ AgentUpdate("starting", agent.conv) /\ UNCHANGED <<rt, pushes, made, reqs, left>>
    BY <2>2, <2>3, <2>4
  <2>5. CASE /\ agent.phase = "starting" /\ rt.lc = "sleeping" /\ Turned("waking")
             /\ Slept(TRUE) /\ UNCHANGED <<agent, row, made>>
    <3>1. "waking" \in Lifecycles /\ rt.seq \in Nat /\ Forward
      BY <1>1, <2>5 DEF Lifecycles, Runtime, Forward, Contacted
    <3>2. /\ left' \in Budget /\ rt' \in Runtime /\ pushes' \subseteq Push
          /\ rt'.lc = "waking" /\ rt'.seq = rt.seq + 1 /\ rt'.epoch = rt.epoch + 1
          /\ PushSound' /\ RowSound'
      BY <2>1, <2>5, <3>1, TurnedKeeps
    <3>3. reqs' \in [Clients -> Request] /\ \A d \in Clients : RequestSound(reqs[d])'
      <4>1. reqs' = [d \in Clients |-> [reqs[d] EXCEPT !.slept = @ \/ (TRUE /\ reqs[d].at # "free")]]
        BY <2>5 DEF Slept
      <4> QED
        BY <3>1, <3>2, <4>1, TurnedRequests
    <3>4. Types'
      BY <2>1, <2>5, <3>2, <3>3 DEF Inv, Types
    <3>5. SessionSound'
      BY <2>1, <2>5 DEF Inv, SessionSound, Contacted
    <3> QED
      BY <3>2, <3>3, <3>4, <3>5, Assemble
  <2>6. CASE /\ agent.phase = "starting" /\ rt.lc \in Running /\ agent.conv = 0 /\ made < 2
             /\ made' = made + 1
             /\ \/ /\ AgentUpdate("starting", made + 1)
                   /\ UNCHANGED left
                \/ /\ left.faults > 0 /\ left' = [left EXCEPT !.faults = @ - 1]
                   /\ UNCHANGED <<agent, row>>
             /\ UNCHANGED <<rt, pushes, reqs>>
    <3>1. made + 1 \in Convs
      BY <2>3, <2>6 DEF Convs
    <3>2. CASE AgentUpdate("starting", made + 1) /\ UNCHANGED left
      BY <2>2, <2>3, <2>6, <3>1, <3>2
    <3>3. CASE UNCHANGED <<agent, row>> /\ left.faults > 0 /\ left' = [left EXCEPT !.faults = @ - 1]
      <4>1. Types'
        BY <2>1, <2>6, <3>1, <3>3, BudgetType DEF Inv, Types
      <4>2. SessionSound' /\ Forward
        BY <2>6, <3>3, SessionKept
      <4>3. \A d \in Clients : RequestSound(reqs[d])'
        BY <2>6, <4>2, RequestsKept
      <4> QED
        BY <2>1, <2>6, <3>3, <4>1, <4>2, <4>3, RowKept, Assemble
    <3> QED
      BY <2>6, <3>2, <3>3
  <2>7. CASE /\ agent.phase = "starting" /\ rt.lc \in Running /\ agent.conv # 0
             /\ AgentUpdate("working", agent.conv)
             /\ UNCHANGED <<rt, pushes, made, reqs, left>>
    BY <2>2, <2>3, <2>7
  <2> QED
    BY <1>5, <2>4, <2>5, <2>6, <2>7 DEF Dispatch
<1> QED
  BY <1>2, <1>3, <1>4, <1>5

\* What the Sandbox and the Hub write on the row.
LEMMA RegistryKeeps ==
  ASSUME Inv, NoteSessionUnread \/ SyncTitle \/ HubFinishes
  PROVE  Inv'
<1>1. row \in Row /\ left.marks \in Nat
  BY BudgetType DEF Inv, Types
<1>2. CASE NoteSessionUnread \/ SyncTitle
  <2>1. UNCHANGED <<agent, rt, pushes, made, lostConv, mirror, page, reqs, missed>> /\ left' \in Budget
    BY <1>2, BudgetType DEF NoteSessionUnread, SyncTitle, Inv
  <2>2. SameCache(row, row')
    BY <1>1, <1>2, EditsKeepCache DEF NoteSessionUnread, SyncTitle
  <2>3. Types'
    BY <2>1, <2>2 DEF Inv, Types, SameCache
  <2>4. SessionSound' /\ Forward
    BY <2>1, <2>2, SessionKept DEF SameCache
  <2>5. \A d \in Clients : RequestSound(reqs[d])'
    BY <2>1, <2>4, RequestsKept
  <2> QED
    BY <2>1, <2>2, <2>3, <2>4, <2>5, EditKeeps, Assemble
<1>3. CASE HubFinishes
  <2>1. UNCHANGED <<agent, rt, pushes, made, lostConv, mirror, page, reqs, missed, left>> /\ row.exists /\ Contacted
    BY <1>3 DEF HubFinishes, Inv, SessionSound
  <2>2. CASE row.lifecycle = "deleting" /\ row' = NoRow
    <3>1. ~row'.exists /\ row' \in Row
      BY <2>2, FreeType DEF NoRow
    <3>2. SessionSound' /\ Forward
      BY <2>1, <2>2, <3>1 DEF Inv, SessionSound, Contacted, Forward
    <3>3. Types' /\ PushSound' /\ RowSound'
      BY <2>1, <3>1 DEF Inv, Types, PushSound, RowSound
    <3>4. \A d \in Clients : RequestSound(reqs[d])'
      BY <2>1, <3>2, RequestsKept
    <3> QED
      BY <3>2, <3>3, <3>4, Assemble
  <2>3. ASSUME NEW l \in {"delete_failed", "cleaning", "cleaned"}, row' = [row EXCEPT !.lifecycle = l],
               l = "delete_failed" => row.lifecycle = "deleting"
        PROVE  Inv'
    <3>1. /\ row' \in Row /\ row'.exists = row.exists /\ row'.lc = row.lc /\ row'.seq = row.seq
          /\ row'.query = row.query /\ row'.lifecycle = l
      BY <1>1, <2>3 DEF Row, CleanedLifecycles
    <3>2. SessionSound' /\ Forward
      BY <2>1, <2>3, <3>1 DEF Inv, SessionSound, Contacted, Forward
    <3>3. Types' /\ PushSound' /\ RowSound'
      BY <2>1, <3>1 DEF Inv, Types, PushSound, RowSound
    <3>4. \A d \in Clients : RequestSound(reqs[d])'
      BY <2>1, <3>2, RequestsKept
    <3> QED
      BY <3>2, <3>3, <3>4, Assemble
  <2> QED
    BY <1>3, <2>2, <2>3 DEF HubFinishes
<1> QED
  BY <1>2, <1>3

-----------------------------------------------------------------------------
\* Requests

\* A step that only moves one request on.
LEMMA RequestMoves ==
  ASSUME Inv, NEW c \in Clients, Others(c), reqs' \in [Clients -> Request], RequestSound(reqs[c])',
         left' \in Budget, page' \in [seen : Nat, acked : Nat],
         UNCHANGED <<agent, row, rt, pushes, made, lostConv, mirror, missed>>
  PROVE  Inv'
<1>1. SessionSound' /\ Forward
  BY SessionKept
<1>2. Types'
  BY DEF Inv, Types
<1> QED
  BY <1>1, <1>2, OthersKept, RowKept, Assemble

\* A request begins with nothing found yet.
LEMMA BeginSound ==
  ASSUME Inv, NEW c \in Clients, NEW route \in Routes, NEW arg \in Nat \cup HandTitles,
         route = "rename" => arg \in HandTitles, Begin(c, route, arg)
  PROVE  /\ left' \in Budget /\ reqs' \in [Clients -> Request] /\ Others(c)
         /\ agent' = agent /\ rt' = rt => RequestSound(reqs[c])'
<1> DEFINE f == Free
           stage == IF route = "list" THEN "list" ELSE "session"
           asleep == Asleep
           q == [f EXCEPT !.route = route, !.arg = arg, !.at = stage, !.slept = asleep]
<1>1. reqs' = [reqs EXCEPT ![c] = q] /\ agent.phase # "none" /\ left' \in Budget
  BY BudgetType DEF Begin, Inv
<1>2. f \in Request /\ f.out = "none" /\ f.conv = 0
  BY FreeType DEF Free
<1>3. asleep \in BOOLEAN /\ stage \in Stages
  BY DEF Asleep, Stages
<1> HIDE DEF f, stage, asleep
<1>4. /\ q \in Request /\ q.at = stage /\ q.route = route /\ q.arg = arg /\ q.out = "none" /\ q.conv = 0
  BY <1>2, <1>3 DEF Request
<1> HIDE DEF q
<1>5. reqs' \in [Clients -> Request] /\ Others(c) /\ reqs'[c] = q
  BY <1>1, <1>4, RequestChanged DEF Inv
<1>6. "list" \notin PassiveRoutes
  BY DEF PassiveRoutes
<1>7. ASSUME agent' = agent, rt' = rt PROVE RequestSound(reqs[c])'
  BY <1>1, <1>4, <1>5, <1>6, <1>7 DEF stage, RequestSound, Known404, Routed, ReadSound, EpochSound, ConvSound
<1> QED
  BY <1>1, <1>5, <1>7

\* A request arrives, or its answer is delivered.
LEMMA ArriveKeeps ==
  ASSUME Inv, NEW c \in Clients, Arrive(c),
         UNCHANGED <<agent, row, rt, pushes, made, lostConv, mirror, missed>>
  PROVE  Inv'
<1>1. left.routes \subseteq Routes /\ page \in [seen : Nat, acked : Nat]
  BY DEF Inv, Types, Budget
<1>2. ASSUME NEW route \in left.routes \ {"ack", "rename"}, Begin(c, route, 0), UNCHANGED page PROVE Inv'
  <2>1. route \in Routes /\ 0 \in Nat \cup HandTitles /\ route # "rename"
    BY <1>1, <1>2
  <2> QED
    BY <1>1, <1>2, <2>1, BeginSound, RequestMoves
<1>3. ASSUME NEW title \in HandTitles, Begin(c, "rename", title), UNCHANGED page, "rename" \in left.routes PROVE Inv'
  <2>1. "rename" \in Routes /\ title \in Nat \cup HandTitles
    BY <1>1, <1>3
  <2> QED
    BY <1>1, <1>3, <2>1, BeginSound, RequestMoves
<1>4. ASSUME "ack" \in left.routes, Begin(c, "ack", page.seen), page' = [page EXCEPT !.acked = page.seen]
      PROVE  Inv'
  <2>1. "ack" \in Routes /\ page.seen \in Nat \cup HandTitles /\ page' \in [seen : Nat, acked : Nat]
    BY <1>1, <1>4
  <2> QED
    BY <1>1, <1>4, <2>1, BeginSound, RequestMoves
<1> QED
  BY <1>2, <1>3, <1>4 DEF Arrive

\* The client takes the answer, and is free for another request.
LEMMA DeliverKeeps ==
  ASSUME Inv, NEW c \in Clients, Deliver(c),
         UNCHANGED <<agent, row, rt, pushes, made, lostConv, mirror, missed, left>>
  PROVE  Inv'
<1>1. reqs' \in [Clients -> Request] /\ Others(c) /\ reqs'[c] = Free
  BY FreeType, RequestChanged DEF Deliver, Inv
<1>2. page' \in [seen : Nat, acked : Nat]
  BY DEF Deliver, Inv, Types, Request
<1>3. RequestSound(reqs[c])'
  <2>1. Free.at = "free" /\ Free.route = "view" /\ Free.out = "none" /\ Free.conv = 0
    BY DEF Free
  <2> QED
    BY <1>1, <2>1 DEF RequestSound, Known404, Routed, ReadSound, EpochSound, ConvSound
<1>4. left' \in Budget
  BY DEF Inv, Types
<1> QED
  BY <1>1, <1>2, <1>3, <1>4, RequestMoves

\* A request that is past its session goes on to a stage that claims nothing.
PlainStages == {"status", "delete", "write", "instance", "ready", "again", "act", "mark", "epoch", "mirror"}
AskedStages == {"status", "lost", "patch", "list", "again", "write", "mark", "instance", "act", "delete"}

\* Going on to such a stage keeps what the request knows.
LEMMA GoSound ==
  ASSUME Inv, NEW c \in Clients, NEW at \in PlainStages, Go(c, at), Forward,
         reqs[c].at \notin {"free", "session", "list", "done"},
         at \in AskedStages => reqs[c].route \notin PassiveRoutes
  PROVE  reqs' \in [Clients -> Request] /\ Others(c) /\ RequestSound(reqs[c])'
<1>1. at \in Stages /\ Types /\ RequestSound(reqs[c])
  BY DEF PlainStages, Stages, Inv
<1>2. /\ reqs' \in [Clients -> Request] /\ Others(c)
      /\ reqs'[c].at = at /\ reqs'[c].route = reqs[c].route /\ reqs'[c].arg = reqs[c].arg
      /\ reqs'[c].rec = reqs[c].rec /\ reqs'[c].out = reqs[c].out /\ reqs'[c].conv = reqs[c].conv
  BY <1>1, GoKeeps
<1> QED
  BY <1>1, <1>2 DEF PlainStages, AskedStages, Forward, RequestSound, Known404, Routed, ReadSound, EpochSound,
     ConvSound

\* A request that is answered without a transcript.
LEMMA AnswerSound ==
  ASSUME Inv, NEW c \in Clients, NEW out \in Outs, Answer(c, out), Forward,
         reqs[c].at \notin {"free", "done"},
         out = "404" => agent'.phase = "deleted",
         out = "sleeping" => reqs[c].route \notin PassiveRoutes
  PROVE  reqs' \in [Clients -> Request] /\ Others(c) /\ RequestSound(reqs[c])'
<1>1. Types /\ RequestSound(reqs[c])
  BY DEF Inv
<1>2. /\ reqs' \in [Clients -> Request] /\ Others(c)
      /\ reqs'[c].at = "done" /\ reqs'[c].route = reqs[c].route /\ reqs'[c].arg = reqs[c].arg
      /\ reqs'[c].rec = reqs[c].rec /\ reqs'[c].out = out /\ reqs'[c].conv = reqs[c].conv
  BY <1>1, AnswerKeeps
<1> QED
  BY <1>1, <1>2 DEF Forward, RequestSound, Known404, Routed, ReadSound, EpochSound, ConvSound

\* A request that met a session that cannot be asked answers that it sleeps.
LEMMA AsleepSound ==
  ASSUME Inv, NEW c \in Clients, Forward, reqs[c].at \notin {"free", "session", "list", "done"},
         reqs' = [reqs EXCEPT ![c].at = "asleep", ![c].slept = TRUE]
  PROVE  reqs' \in [Clients -> Request] /\ Others(c) /\ RequestSound(reqs[c])'
<1> DEFINE r == reqs[c]
           q == [r EXCEPT !.at = "asleep", !.slept = TRUE]
<1>1. r \in Request /\ RequestSound(r) /\ Types /\ r.at \notin {"free", "session", "list", "done"}
  BY DEF Inv, Types
<1>2. reqs' = [reqs EXCEPT ![c] = q]
  OBVIOUS
<1> HIDE DEF r
<1>3. /\ q \in Request /\ q.at = "asleep" /\ q.route = r.route /\ q.arg = r.arg /\ q.out = r.out /\ q.conv = r.conv
      /\ q.slept = TRUE
  BY <1>1 DEF Request, Stages
<1> HIDE DEF q
<1>4. reqs' \in [Clients -> Request] /\ Others(c) /\ reqs'[c] = q
  BY <1>1, <1>2, <1>3, RequestChanged
<1>5. RequestSound(reqs[c])'
  BY <1>1, <1>3, <1>4 DEF Forward, RequestSound, Known404, Routed, ReadSound, EpochSound, ConvSound
<1> QED
  BY <1>4, <1>5

\* The words a route answers with.
LEMMA OutFacts ==
    /\ {"404", "409", "500", "503", "202", "pending", "live", "ok", "error", "sleeping", "deleting", "cleaned",
        "absent", "cached"} \subseteq Outs
    /\ Lifecycles \subseteq Outs
  BY DEF Outs, Lifecycles

\* A row that is missing from a request that found its session was deleted.
LEMMA GoneIsDeleted ==
  ASSUME Inv, Contacted, ~row.exists
  PROVE  agent.phase = "deleted"
  BY DEF Inv, SessionSound, Contacted

\* The checks that read the row and touch nothing else.
LEMMA ChecksKeep ==
  ASSUME Inv, NEW c \in Clients, RequireAgain(c) \/ CheckInstance(c) \/ CheckReady(c) \/ SettleFailure(c),
         UNCHANGED <<agent, row, rt, pushes, made, lostConv, mirror, page, missed, left>>
  PROVE  Inv'
<1> DEFINE r == reqs[c]
<1>1. /\ r \in Request /\ RequestSound(r) /\ row \in Row /\ Types
      /\ left' \in Budget /\ page' \in [seen : Nat, acked : Nat] /\ Forward
  BY DEF Inv, Types, Forward, Contacted
<1>2. r.at \notin {"free", "session", "list", "done"}
  BY DEF RequireAgain, CheckInstance, CheckReady, SettleFailure
<1>3. Contacted
  BY <1>1, <1>2 DEF RequestSound, Known404
<1>4. ASSUME NEW at \in PlainStages, Go(c, at), at \in AskedStages => r.route \notin PassiveRoutes PROVE Inv'
  BY <1>1, <1>2, <1>4, GoSound, RequestMoves
<1>5. ASSUME NEW out \in {"409", "pending", "error", "404"}, Answer(c, out), out = "404" => ~row.exists PROVE Inv'
  <2>1. out \in Outs /\ (out = "404" => agent'.phase = "deleted")
    BY <1>1, <1>3, <1>5, OutFacts, GoneIsDeleted DEF Forward
  <2> QED
    BY <1>1, <1>2, <1>5, <2>1, AnswerSound, RequestMoves
<1>6. ASSUME NEW q \in Request, reqs' = [reqs EXCEPT ![c] = q], RequestSound(q) PROVE Inv'
  <2>1. reqs' \in [Clients -> Request] /\ Others(c) /\ reqs'[c] = q
    BY <1>1, <1>6, RequestChanged
  <2>2. RequestSound(reqs[c])'
    BY <1>1, <1>6, <2>1, KnowledgeKept DEF RequestSound
  <2> QED
    BY <1>1, <2>1, <2>2, RequestMoves
<1>7. CASE RequireAgain(c)
  <2>1. CASE row.exists
    <3> DEFINE q == [r EXCEPT !.rec = Projection(row), !.at = "status"]
    <3>1. reqs' = [reqs EXCEPT ![c] = q] /\ r.at = "again"
      BY <1>7, <2>1 DEF RequireAgain
    <3>2. Projection(row) \in [phase : Phases, conv : Convs, unread : Nat]
      BY <1>1, ProjectionType
    <3> HIDE DEF r
    <3>3. /\ q \in Request /\ q.at = "status" /\ q.route = r.route /\ q.arg = r.arg /\ q.out = r.out /\ q.conv = r.conv
      BY <1>1, <3>2 DEF Request, Stages
    <3> HIDE DEF q
    <3>4. RequestSound(q)
      BY <1>1, <1>3, <3>1, <3>3 DEF RequestSound, Known404, Routed, ReadSound, EpochSound, ConvSound
    <3> QED
      BY <1>6, <3>1, <3>3, <3>4
  <2>2. CASE ~row.exists
    BY <1>5, <1>7, <2>2 DEF RequireAgain
  <2> QED
    BY <2>1, <2>2
<1>8. CASE CheckInstance(c)
  <2>1. Answer(c, "409") \/ (Go(c, "act") /\ r.at = "instance")
    BY <1>8 DEF CheckInstance
  <2>2. r.at = "instance" => r.route \notin PassiveRoutes
    BY <1>1 DEF RequestSound, Routed
  <2> QED
    BY <1>4, <1>5, <2>1, <2>2 DEF PlainStages
<1>9. ASSUME reqs' = [reqs EXCEPT ![c].at = "asleep", ![c].slept = TRUE] PROVE Inv'
  BY <1>1, <1>2, <1>9, AsleepSound, RequestMoves
<1>10. CASE CheckReady(c)
  <2>1. Answer(c, "pending") \/ Answer(c, "409") \/ Go(c, "epoch")
        \/ reqs' = [reqs EXCEPT ![c].at = "asleep", ![c].slept = TRUE]
    BY <1>10 DEF CheckReady
  <2>2. "epoch" \in PlainStages /\ "epoch" \notin AskedStages
    BY DEF PlainStages, AskedStages
  <2> QED
    BY <1>4, <1>5, <1>9, <2>1, <2>2
<1>11. CASE SettleFailure(c)
  <2>1. CASE IsRuntimeGoneError(c) /\ Go(c, "asleep")
    <3>1. r.slept
      BY <1>1, <1>11, <2>1 DEF SettleFailure, IsRuntimeGoneError, RequestSound, EpochSound
    <3>2. "asleep" \in Stages /\ r.at = "gone"
      BY <1>11 DEF Stages, SettleFailure
    <3>3. /\ reqs' \in [Clients -> Request] /\ Others(c)
          /\ reqs'[c].at = "asleep" /\ reqs'[c].route = r.route /\ reqs'[c].arg = r.arg
          /\ reqs'[c].slept = r.slept /\ reqs'[c].out = r.out /\ reqs'[c].conv = r.conv
      BY <1>1, <2>1, <3>2, GoKeeps
    <3>4. RequestSound(reqs[c])'
      BY <1>1, <1>3, <3>1, <3>2, <3>3
         DEF Forward, RequestSound, Known404, Routed, ReadSound, EpochSound, ConvSound
    <3> QED
      BY <1>1, <3>3, <3>4, RequestMoves
  <2>2. CASE Go(c, "mirror")
    <3>1. "mirror" \in PlainStages /\ "mirror" \notin AskedStages
      BY DEF PlainStages, AskedStages
    <3> QED
      BY <1>4, <2>2, <3>1
  <2>3. CASE Answer(c, "error")
    BY <1>5, <2>3
  <2> QED
    BY <1>11, <2>1, <2>2, <2>3 DEF SettleFailure
<1> QED
  BY <1>7, <1>8, <1>10, <1>11

\* A request that found its session remembers the row it found.
LEMMA FoundSound ==
  ASSUME Inv, NEW c \in Clients, reqs[c].at = "session", NEW rec \in [phase : Phases, conv : Convs, unread : Nat],
         reqs' = [reqs EXCEPT ![c].rec = rec, ![c].at = FirstStage(reqs[c].route)],
         Forward, Contacted', rt' = rt
  PROVE  reqs' \in [Clients -> Request] /\ Others(c) /\ RequestSound(reqs[c])'
<1> DEFINE r == reqs[c]
           at == FirstStage(r.route)
           q == [r EXCEPT !.rec = rec, !.at = at]
<1>1. r \in Request /\ RequestSound(r) /\ r.at = "session" /\ Types
  BY DEF Inv, Types
<1>2. reqs' = [reqs EXCEPT ![c] = q]
  OBVIOUS
<1>3. at \in {"status", "delete", "write", "instance", "ready"}
  BY DEF FirstStage
<1>4. at \in AskedStages => r.route \notin PassiveRoutes
  BY DEF FirstStage, AskedStages, PassiveRoutes, WriteRoutes, IntentRoutes
<1> HIDE DEF r, at
<1>5. /\ q \in Request /\ q.at = at /\ q.route = r.route /\ q.arg = r.arg /\ q.out = r.out /\ q.conv = r.conv
  BY <1>1, <1>3 DEF Request, Stages
<1> HIDE DEF q
<1>6. reqs' \in [Clients -> Request] /\ Others(c) /\ reqs'[c] = q
  BY <1>1, <1>2, <1>5, RequestChanged
<1>7. RequestSound(reqs[c])'
  BY <1>1, <1>3, <1>4, <1>5, <1>6 DEF AskedStages, Forward, RequestSound, Known404, Routed, ReadSound,
     EpochSound, ConvSound
<1> QED
  BY <1>6, <1>7

\* requireSession: a session that its agent holds is found, or registers.
LEMMA RequireSessionKeeps ==
  ASSUME Inv, NEW c \in Clients, RequireSession(c),
         UNCHANGED <<rt, pushes, made, lostConv, mirror, page, missed, left>>
  PROVE  Inv'
<1>1. Types /\ reqs[c].at = "session" /\ RequestSound(reqs[c]) /\ left' \in Budget
      /\ page' \in [seen : Nat, acked : Nat]
  BY DEF Inv, Types, RequireSession
<1>2. CASE /\ row.exists /\ UNCHANGED <<agent, row>>
           /\ reqs' = [reqs EXCEPT ![c].rec = Projection(row), ![c].at = FirstStage(reqs[c].route)]
  <2>1. Forward /\ Contacted' /\ Projection(row) \in [phase : Phases, conv : Convs, unread : Nat]
    BY <1>2, ProjectionType DEF Inv, SessionSound, Forward, Contacted, Types
  <2> QED
    BY <1>1, <1>2, <2>1, FoundSound, RequestMoves
<1>3. CASE /\ Registers
           /\ reqs' = [reqs EXCEPT ![c].rec = Projection(row'), ![c].at = FirstStage(reqs[c].route)]
  <2>1. /\ agent' \in Agent /\ row' \in Row /\ SessionSound' /\ Forward
        /\ Contacted' /\ RowSound' /\ PushSound'
    BY <1>3, RegistersKeeps
  <2>2. Projection(row') \in [phase : Phases, conv : Convs, unread : Nat]
    BY <2>1, ProjectionType
  <2> DEFINE rec == Projection(row')
  <2>3. PICK p \in [phase : Phases, conv : Convs, unread : Nat] : p = rec
    BY <2>2
  <2>4. reqs' \in [Clients -> Request] /\ Others(c) /\ RequestSound(reqs[c])'
    BY <1>1, <1>3, <2>1, <2>3, FoundSound
  <2>5. Types'
    BY <2>1, <2>4 DEF Inv, Types
  <2> QED
    BY <2>1, <2>4, <2>5, OthersKept, Assemble
<1>4. CASE ~row.exists /\ ~(Known /\ ~agent.registered) /\ Answer(c, "404") /\ UNCHANGED <<agent, row>>
  <2>1. agent.phase = "deleted"
    BY <1>1, <1>4 DEF Known, RequestSound, Known404, Inv, SessionSound
  <2>2. Forward /\ "404" \in Outs
    BY <1>4, OutFacts DEF Forward, Contacted
  <2> QED
    BY <1>1, <1>4, <2>1, <2>2, AnswerSound, RequestMoves
<1> QED
  BY <1>2, <1>3, <1>4 DEF RequireSession

\* The list answers from the row, or asks.
LEMMA GetSessionListViewKeeps ==
  ASSUME Inv, NEW c \in Clients, GetSessionListView(c),
         UNCHANGED <<agent, row, rt, pushes, made, lostConv, mirror, page, missed, left>>
  PROVE  Inv'
<1> DEFINE r == reqs[c]
           at == IF row.exists /\ SessionNeedsLiveStatusQuery(row) THEN "status" ELSE "done"
           out == IF ~row.exists THEN "absent"
                  ELSE IF SessionNeedsLiveStatusQuery(row) THEN r.out ELSE "cached"
           q == [r EXCEPT !.rec = Projection(row), !.at = at, !.out = out]
<1>1. /\ r \in Request /\ RequestSound(r) /\ r.at = "list" /\ Types /\ row \in Row /\ Forward
      /\ left' \in Budget /\ page' \in [seen : Nat, acked : Nat]
  BY DEF Inv, Types, GetSessionListView, Forward, Contacted
<1>2. reqs' = [reqs EXCEPT ![c] = q]
  BY DEF GetSessionListView
<1>3. /\ at \in {"status", "done"} /\ out \in {"absent", "cached", r.out}
      /\ at = "status" => Contacted /\ out = r.out
  BY DEF Inv, SessionSound, Contacted
<1>4. Projection(row) \in [phase : Phases, conv : Convs, unread : Nat]
  BY <1>1, ProjectionType
<1>5. r.out \in Outs /\ r.route \notin PassiveRoutes
  BY <1>1 DEF RequestSound, Routed, Request
<1> HIDE DEF r, at, out
<1>6. out \in Outs /\ at \in Stages
  BY <1>3, <1>5, OutFacts DEF Stages
<1>7. /\ q \in Request /\ q.at = at /\ q.route = r.route /\ q.arg = r.arg /\ q.out = out /\ q.conv = r.conv
  BY <1>1, <1>4, <1>6 DEF Request
<1> HIDE DEF q
<1>8. reqs' \in [Clients -> Request] /\ Others(c) /\ reqs'[c] = q
  BY <1>1, <1>2, <1>7, RequestChanged
<1>9. RequestSound(reqs[c])'
  BY <1>1, <1>3, <1>5, <1>7, <1>8 DEF Forward, RequestSound, Known404, Routed, ReadSound, EpochSound, ConvSound
<1> QED
  BY <1>1, <1>8, <1>9, RequestMoves

\* getInstanceView: the status a request reads is the coordinator's as it is, or
\* 'error' for one that could not be read.
LEMMA GetInstanceViewKeeps ==
  ASSUME Inv, NEW c \in Clients, GetInstanceView(c),
         UNCHANGED <<agent, row, rt, pushes, made, lostConv, mirror, page, missed>>
  PROVE  Inv'
<1> DEFINE r == reqs[c]
<1>1. /\ r \in Request /\ RequestSound(r) /\ r.at = "status" /\ Types /\ Forward /\ rt \in Runtime
      /\ page' \in [seen : Nat, acked : Nat]
  BY DEF Inv, Types, GetInstanceView, Forward, Contacted
<1>2. left' \in Budget
  BY <1>1, BudgetType DEF GetInstanceView, Types
<1>3. Contacted /\ r.route \notin PassiveRoutes /\ r.conv = 0
  BY <1>1 DEF RequestSound, Known404, Routed, ConvSound
<1>4. ASSUME NEW out \in {"cleaned", "deleting"}, Answer(c, out) PROVE Inv'
  <2>1. out \in Outs
    BY OutFacts
  <2> QED
    BY <1>1, <1>2, <1>4, <2>1, AnswerSound, RequestMoves
<1>5. ASSUME NEW lc \in {rt.lc, "error"}, 
             reqs' = [reqs EXCEPT ![c].read = lc, ![c].seq = rt.seq, ![c].at = "lost"]
      PROVE  Inv'
  <2> DEFINE q == [r EXCEPT !.read = lc, !.seq = rt.seq, !.at = "lost"]
  <2>1. reqs' = [reqs EXCEPT ![c] = q]
    BY <1>5
  <2>2. lc \in Lifecycles /\ rt.seq \in Nat
    BY <1>1 DEF Runtime, Lifecycles
  <2> HIDE DEF r
  <2>3. /\ q \in Request /\ q.at = "lost" /\ q.route = r.route /\ q.arg = r.arg /\ q.out = r.out /\ q.conv = r.conv
        /\ q.read = lc /\ q.seq = rt.seq
    BY <1>1, <2>2 DEF Request, Stages
  <2> HIDE DEF q
  <2>4. reqs' \in [Clients -> Request] /\ Others(c) /\ reqs'[c] = q
    BY <1>1, <2>1, <2>3, RequestChanged
  <2>5. RequestSound(reqs[c])'
    BY <1>1, <1>3, <2>2, <2>3, <2>4 DEF Forward, RequestSound, Known404, Routed, ReadSound, EpochSound, ConvSound
  <2> QED
    BY <1>1, <1>2, <2>4, <2>5, RequestMoves
<1> QED
  BY <1>4, <1>5 DEF GetInstanceView

\* resolveRunningRuntimeEpoch: the generation a request resolves is the one that runs.
LEMMA ResolveKeeps ==
  ASSUME Inv, NEW c \in Clients, ResolveRunningRuntimeEpoch(c),
         UNCHANGED <<agent, row, rt, pushes, made, lostConv, mirror, page, missed>>
  PROVE  Inv'
<1> DEFINE r == reqs[c]
<1>1. /\ r \in Request /\ RequestSound(r) /\ r.at = "epoch" /\ Types /\ Forward /\ rt \in Runtime
      /\ page' \in [seen : Nat, acked : Nat]
  BY DEF Inv, Types, ResolveRunningRuntimeEpoch, Forward, Contacted
<1>2. left' \in Budget
  BY <1>1, BudgetType DEF ResolveRunningRuntimeEpoch, Types
<1>3. CASE rt.lc \in Running /\ reqs' = [reqs EXCEPT ![c].epoch = rt.epoch, ![c].at = "call"]
  <2> DEFINE q == [r EXCEPT !.epoch = rt.epoch, !.at = "call"]
  <2>1. reqs' = [reqs EXCEPT ![c] = q]
    BY <1>3
  <2>2. rt.epoch \in Nat
    BY <1>1 DEF Runtime
  <2> HIDE DEF r
  <2>3. /\ q \in Request /\ q.at = "call" /\ q.route = r.route /\ q.arg = r.arg /\ q.out = r.out /\ q.conv = r.conv
        /\ q.epoch = rt.epoch
    BY <1>1, <2>2 DEF Request, Stages
  <2> HIDE DEF q
  <2>4. reqs' \in [Clients -> Request] /\ Others(c) /\ reqs'[c] = q
    BY <1>1, <2>1, <2>3, RequestChanged
  <2>5. RequestSound(reqs[c])'
    BY <1>1, <1>3, <2>3, <2>4 DEF Forward, RequestSound, Known404, Routed, ReadSound, EpochSound, ConvSound
  <2> QED
    BY <1>1, <1>2, <2>4, <2>5, RequestMoves
<1>4. CASE Answer(c, "409")
  <2>1. "409" \in Outs
    BY OutFacts
  <2> QED
    BY <1>1, <1>2, <1>4, <2>1, AnswerSound, RequestMoves
<1>5. CASE reqs' = [reqs EXCEPT ![c].at = "asleep", ![c].slept = TRUE]
  BY <1>1, <1>2, <1>5, AsleepSound, RequestMoves
<1> QED
  BY <1>3, <1>4, <1>5 DEF ResolveRunningRuntimeEpoch

\* A transcript answer names the conversation the request found.
LEMMA AnswerFromSound ==
  ASSUME Inv, NEW c \in Clients, NEW out \in Outs, NEW conv \in Convs, AnswerFrom(c, out, conv), Forward,
         reqs[c].at \notin {"free", "done"}, out # "404",
         out = "sleeping" => reqs[c].slept,
         conv # 0 => reqs[c].route = "transcript" /\ conv = reqs[c].rec.conv
  PROVE  reqs' \in [Clients -> Request] /\ Others(c) /\ RequestSound(reqs[c])'
<1>1. Types /\ RequestSound(reqs[c])
  BY DEF Inv
<1>2. /\ reqs' \in [Clients -> Request] /\ Others(c)
      /\ reqs'[c].at = "done" /\ reqs'[c].route = reqs[c].route /\ reqs'[c].arg = reqs[c].arg
      /\ reqs'[c].rec = reqs[c].rec /\ reqs'[c].slept = reqs[c].slept /\ reqs'[c].out = out
      /\ reqs'[c].conv = conv
  BY <1>1, AnswerFromKeeps
<1> QED
  BY <1>1, <1>2 DEF Forward, RequestSound, Known404, Routed, ReadSound, EpochSound, ConvSound

\* The call to the Sandbox, and the answer a session that sleeps is given.
LEMMA CallSandboxKeeps ==
  ASSUME Inv, NEW c \in Clients, CallSandbox(c),
         UNCHANGED <<agent, row, rt, pushes, made, lostConv, mirror, page, missed>>
  PROVE  Inv'
<1> DEFINE r == reqs[c]
<1>1. /\ r \in Request /\ RequestSound(r) /\ r.at = "call" /\ Types /\ Forward
      /\ page' \in [seen : Nat, acked : Nat]
  BY DEF Inv, Types, CallSandbox, Forward, Contacted
<1>2. left' \in Budget
  BY <1>1, BudgetType DEF CallSandbox, Types
<1>3. CASE r.route \in {"abort", "answer"} /\ Go(c, "mark")
  <2>1. "mark" \in PlainStages /\ r.route \notin PassiveRoutes
    BY <1>3 DEF PlainStages, PassiveRoutes
  <2> QED
    BY <1>1, <1>2, <1>3, <2>1, GoSound, RequestMoves
<1>4. CASE AnswerFrom(c, "live", IF r.route = "transcript" THEN r.rec.conv ELSE 0)
  <2> DEFINE conv == IF r.route = "transcript" THEN r.rec.conv ELSE 0
  <2>1. "live" \in Outs /\ conv \in Convs /\ (conv # 0 => r.route = "transcript" /\ conv = r.rec.conv)
    BY <1>1, OutFacts DEF Request, Convs
  <2> HIDE DEF conv
  <2>2. AnswerFrom(c, "live", conv)
    BY <1>4 DEF conv
  <2> QED
    BY <1>1, <1>2, <2>1, <2>2, AnswerFromSound, RequestMoves
<1>5. CASE Answer(c, "500")
  <2>1. "500" \in Outs
    BY OutFacts
  <2> QED
    BY <1>1, <1>2, <1>5, <2>1, AnswerSound, RequestMoves
<1>6. CASE Go(c, "gone")
  <2>1. "gone" \in Stages /\ Contacted
    BY <1>1 DEF Stages, RequestSound, Known404
  <2>2. /\ reqs' \in [Clients -> Request] /\ Others(c)
        /\ reqs'[c].at = "gone" /\ reqs'[c].route = r.route /\ reqs'[c].arg = r.arg
        /\ reqs'[c].slept = r.slept /\ reqs'[c].out = r.out /\ reqs'[c].conv = r.conv /\ reqs'[c].epoch = r.epoch
    BY <1>1, <1>6, <2>1, GoKeeps
  <2>3. RequestSound(reqs[c])'
    BY <1>1, <2>1, <2>2 DEF Forward, RequestSound, Known404, Routed, ReadSound, EpochSound, ConvSound
  <2> QED
    BY <1>1, <1>2, <2>2, <2>3, RequestMoves
<1> QED
  BY <1>3, <1>4, <1>5, <1>6 DEF CallSandbox

\* A route answers from what it has: the word for asleep, and the mirror if it is
\* this conversation's (readTranscriptMirrorFor).
LEMMA AnswerAsleepKeeps ==
  ASSUME Inv, NEW c \in Clients, AnswerAsleep(c),
         UNCHANGED <<agent, row, rt, pushes, made, lostConv, mirror, page, missed, left>>
  PROVE  Inv'
<1> DEFINE r == reqs[c]
           conv == IF r.route = "transcript" THEN ReadTranscriptMirrorFor(c) ELSE 0
           out == IF r.at = "asleep" THEN "sleeping" ELSE "error"
<1>1. /\ r \in Request /\ RequestSound(r) /\ r.at \in {"asleep", "mirror"} /\ Types /\ Forward
      /\ page' \in [seen : Nat, acked : Nat] /\ left' \in Budget
  BY DEF Inv, Types, AnswerAsleep, Forward, Contacted
<1>2. conv \in Convs /\ (conv # 0 => r.route = "transcript" /\ conv = r.rec.conv)
  BY <1>1 DEF ReadTranscriptMirrorFor, Types, Convs
<1>3. out \in Outs /\ out # "404" /\ (out = "sleeping" => r.slept)
  BY <1>1, OutFacts DEF RequestSound, EpochSound
<1>4. AnswerFrom(c, out, conv)
  BY DEF AnswerAsleep
<1> HIDE DEF out, conv
<1> QED
  BY <1>1, <1>2, <1>3, <1>4, AnswerFromSound, RequestMoves

\* A write of a request that leaves the cached status alone, or makes the list ask.
Edited(r, s) ==
    /\ s \in Row /\ s.exists = r.exists /\ s.lc = r.lc /\ s.seq = r.seq /\ s.lifecycle = r.lifecycle
    /\ s.query \/ s.query = r.query

\* Such a write leaves the cache as sound as it was.
LEMMA EditedKeeps ==
  ASSUME Inv, Edited(row, row'), UNCHANGED <<rt, pushes, missed>>
  PROVE  RowSound' /\ PushSound'
  BY DEF Inv, Edited, RowSound, PushSound

\* markSessionStatusQuery is such a write.
LEMMA StatusQueryEdits ==
  ASSUME NEW r \in Row
  PROVE  Edited(r, MarkSessionStatusQuery(r))
<1>1. CASE r.exists
  BY <1>1, StatusQueryKeeps DEF Edited
<1>2. CASE ~r.exists
  BY <1>2 DEF MarkSessionStatusQuery, On, Edited
<1> QED
  BY <1>1, <1>2

\* So is one that leaves the cached status alone.
LEMMA SameCacheEdits ==
  ASSUME NEW r, NEW s, SameCache(r, s)
  PROVE  Edited(r, s)
  BY DEF SameCache, Edited

\* A step of one request that writes the row so, and nothing else.
LEMMA RequestWrites ==
  ASSUME Inv, NEW c \in Clients, Others(c), reqs' \in [Clients -> Request], RequestSound(reqs[c])',
         left' \in Budget, Edited(row, row'),
         UNCHANGED <<agent, rt, pushes, made, lostConv, mirror, page, missed>>
  PROVE  Inv'
<1>1. SessionSound' /\ Forward
  BY SessionKept DEF Edited
<1>2. Types'
  BY DEF Inv, Types, Edited
<1> QED
  BY <1>1, <1>2, OthersKept, EditedKeeps, Assemble

\* getSessionView: what was read is mirrored onto the row.
LEMMA CacheStatusKeeps ==
  ASSUME Inv, NEW c \in Clients, CacheStatus(c),
         UNCHANGED <<agent, rt, pushes, made, lostConv, mirror, page, left>>
  PROVE  Inv'
<1> DEFINE r == reqs[c]
<1>1. /\ r \in Request /\ RequestSound(r) /\ r.at = "patch" /\ Types
  BY DEF Inv, Types, CacheStatus
<1>2. /\ r.read \in Lifecycles /\ r.seq \in Nat /\ r.seq <= rt.seq /\ (r.seq = rt.seq => r.read \in {rt.lc, "error"})
      /\ r.route \notin PassiveRoutes /\ "404" \notin Lifecycles
  BY <1>1 DEF RequestSound, ReadSound, Routed, Request, Lifecycles, Running
<1>3. RowSound' /\ row' \in Row /\ missed' \in BOOLEAN
      /\ row'.exists = row.exists /\ row'.lifecycle = row.lifecycle
  BY <1>2, PatchedSound DEF CacheStatus
<1>4. SessionSound' /\ Forward
  BY <1>3, SessionKept
<1>5. reqs' \in [Clients -> Request] /\ Others(c) /\ RequestSound(reqs[c])'
  <2>1. r.read \in Outs /\ Answer(c, r.read)
    BY <1>2, OutFacts DEF CacheStatus
  <2> QED
    BY <1>1, <1>2, <1>4, <2>1, AnswerSound
<1>6. Types'
  BY <1>3, <1>5 DEF Inv, Types
<1>7. PushSound'
  BY DEF Inv, PushSound
<1> QED
  BY <1>3, <1>4, <1>5, <1>6, <1>7, OthersKept, Assemble

\* The registry edits of the routes.
LEMMA WriteRowKeeps ==
  ASSUME Inv, NEW c \in Clients, WriteRow(c),
         UNCHANGED <<agent, rt, pushes, made, lostConv, mirror, page, missed>>
  PROVE  Inv'
<1> DEFINE r == reqs[c]
<1>1. /\ r \in Request /\ RequestSound(r) /\ r.at = "write" /\ Types /\ Forward /\ row \in Row /\ left \in Budget
  BY DEF Inv, Types, WriteRow, Forward, Contacted
<1>2. r.route \notin PassiveRoutes /\ "again" \in PlainStages /\ "ok" \in Outs
  BY <1>1, OutFacts DEF RequestSound, Routed, PlainStages
<1>3. left' \in Budget /\ left.marks \in Nat
  BY <1>1, BudgetType DEF WriteRow
<1>4. Go(c, "again") => reqs' \in [Clients -> Request] /\ Others(c) /\ RequestSound(reqs[c])'
  BY <1>1, <1>2, GoSound
<1>5. Answer(c, "ok") => reqs' \in [Clients -> Request] /\ Others(c) /\ RequestSound(reqs[c])'
  BY <1>1, <1>2, AnswerSound
<1>6. (Go(c, "again") \/ Answer(c, "ok")) /\ SameCache(row, row')
  <2>1. CASE r.route = "ack" /\ row' = MarkSessionRead(row, r.arg) /\ Answer(c, "ok")
    BY <1>1, <2>1 DEF SameCache, MarkSessionRead, On, Row
  <2>2. CASE r.route = "rename" /\ row' = RenameSession(row, r.arg) /\ Go(c, "again")
    BY <1>1, <2>2, EditsKeepCache DEF RequestSound, Routed
  <2>3. CASE r.route = "pin" /\ row' = SetSessionPinned(row, ~row.pinned) /\ Go(c, "again")
    <3>1. (~row.pinned) \in BOOLEAN
      BY <1>1 DEF Row
    <3> QED
      BY <1>1, <2>3, <3>1, EditsKeepCache
  <2>4. CASE r.route = "clear" /\ row' = ClearSessionUnread(row) /\ Go(c, "again")
    BY <1>1, <2>4, EditsKeepCache
  <2>5. CASE r.route = "unread" /\ row' = MarkSessionUnread(row, left.marks) /\ Go(c, "again")
    BY <1>1, <1>3, <2>5, EditsKeepCache
  <2> QED
    BY <2>1, <2>2, <2>3, <2>4, <2>5 DEF WriteRow
<1>7. Edited(row, row')
  BY <1>6, SameCacheEdits
<1> QED
  BY <1>3, <1>4, <1>5, <1>6, <1>7, RequestWrites

\* What an act that succeeded leaves on the row (clearSessionUnread,
\* markSessionStatusQuery).
LEMMA MarkRowKeeps ==
  ASSUME Inv, NEW c \in Clients, MarkRow(c),
         UNCHANGED <<agent, rt, pushes, made, lostConv, mirror, page, missed, left>>
  PROVE  Inv'
<1> DEFINE r == reqs[c]
<1>1. /\ r \in Request /\ RequestSound(r) /\ r.at = "mark" /\ Types /\ Forward /\ row \in Row /\ left' \in Budget
  BY DEF Inv, Types, MarkRow, Forward, Contacted
<1>2. r.route \notin PassiveRoutes /\ "again" \in PlainStages /\ "ok" \in Outs
  BY <1>1, OutFacts DEF RequestSound, Routed, PlainStages
<1>3. Edited(row, row')
  BY <1>1, EditsKeepCache, SameCacheEdits, StatusQueryEdits DEF MarkRow
<1>4. reqs' \in [Clients -> Request] /\ Others(c) /\ RequestSound(reqs[c])'
  <2>1. CASE Answer(c, "ok")
    BY <1>1, <1>2, <2>1, AnswerSound
  <2>2. CASE Go(c, "again")
    BY <1>1, <1>2, <2>2, GoSound
  <2> QED
    BY <2>1, <2>2 DEF MarkRow
<1> QED
  BY <1>1, <1>3, <1>4, RequestWrites

\* markSessionLost: a loss the container reported is the agent's, and the row's.
LEMMA MarkSessionLostKeeps ==
  ASSUME Inv, NEW c \in Clients, MarkSessionLost(c),
         UNCHANGED <<rt, pushes, made, lostConv, mirror, page, missed>>
  PROVE  Inv'
<1> DEFINE r == reqs[c]
<1>1. /\ r \in Request /\ RequestSound(r) /\ r.at = "lost" /\ Types /\ row \in Row /\ agent \in Agent
      /\ Go(c, "patch") /\ "patch" \in Stages /\ "lost" \in Phases /\ 0 \in Convs
  BY DEF Inv, Types, MarkSessionLost, Stages, Phases, Convs
<1>2. left' \in Budget /\ left.marks \in Nat
  BY <1>1, BudgetType DEF MarkSessionLost, Types
<1>3. Contacted
  BY <1>1 DEF RequestSound, Known404
<1>4. agent' \in Agent /\ SameCache(row, row') /\ SessionSound' /\ Forward
  <2>1. SameCache(row, UpdateSession(row, "lost", 0))
    BY <1>1, EditsKeepCache
  <2>2. CASE /\ Known /\ agent' = [agent EXCEPT !.phase = "lost"]
             /\ row' = MarkSessionUnread(UpdateSession(row, "lost", 0), left.marks)
    <3>1. SameCache(row, row')
      BY <1>2, <2>1, <2>2, EditsKeepCache DEF SameCache
    <3>2. agent' \in Agent /\ agent'.registered = agent.registered /\ agent'.phase = "lost"
      BY <1>1, <2>2 DEF Agent
    <3>3. SessionSound'
      BY <2>2, <3>1, <3>2, EditKeepsSession DEF Known
    <3> QED
      BY <2>2, <3>1, <3>2, <3>3 DEF Known, Forward, Contacted
  <2>3. CASE row' = UpdateSession(row, "lost", 0) /\ UNCHANGED agent
    BY <1>1, <2>1, <2>3, SessionKept DEF SameCache
  <2>4. CASE UNCHANGED <<agent, row>>
    BY <1>1, <2>4, SessionKept DEF SameCache
  <2> QED
    BY <2>2, <2>3, <2>4 DEF MarkSessionLost
<1>5. /\ reqs' \in [Clients -> Request] /\ Others(c)
      /\ reqs'[c].at = "patch" /\ reqs'[c].route = r.route /\ reqs'[c].arg = r.arg /\ reqs'[c].read = r.read
      /\ reqs'[c].seq = r.seq /\ reqs'[c].out = r.out /\ reqs'[c].conv = r.conv
  BY <1>1, GoKeeps
<1>6. RequestSound(reqs[c])'
  BY <1>1, <1>3, <1>4, <1>5 DEF Forward, RequestSound, Known404, Routed, ReadSound, EpochSound, ConvSound
<1>7. Types'
  BY <1>2, <1>4, <1>5 DEF Inv, Types, SameCache
<1> QED
  BY <1>4, <1>5, <1>6, <1>7, OthersKept, EditKeeps, Assemble

\* queuePrompt and retrySession report to the row of a session that is held.
LEMMA SendOrRetryKeeps ==
  ASSUME Inv, NEW c \in Clients, SendOrRetry(c),
         UNCHANGED <<rt, pushes, made, lostConv, mirror, page, missed, left>>
  PROVE  Inv'
<1> DEFINE r == reqs[c]
<1>1. /\ r \in Request /\ RequestSound(r) /\ r.at = "act" /\ Types /\ row \in Row /\ agent \in Agent
      /\ left' \in Budget /\ page' \in [seen : Nat, acked : Nat]
  BY DEF Inv, Types, SendOrRetry
<1>2. r.route \notin PassiveRoutes /\ {"again", "mark"} \subseteq PlainStages /\ "500" \in Outs
  BY <1>1, OutFacts DEF RequestSound, Routed, PlainStages
<1>3. CASE /\ Known /\ agent' = [agent EXCEPT !.phase = "queued"]
           /\ row' = MarkSessionStatusQuery(UpdateSession(row, "queued", agent.conv))
           /\ Go(c, IF r.route = "send" THEN "mark" ELSE "again")
  <2>1. agent' \in Agent /\ agent'.registered = agent.registered /\ agent'.phase = "queued"
    BY <1>1, <1>3 DEF Agent, Phases
  <2>2. Edited(row, row')
    <3> DEFINE s == UpdateSession(row, "queued", agent.conv)
    <3>1. SameCache(row, s)
      BY <1>1, EditsKeepCache DEF Phases, Agent
    <3>2. row' = MarkSessionStatusQuery(s)
      BY <1>3
    <3> HIDE DEF s
    <3>3. Edited(s, row')
      BY <3>1, <3>2, StatusQueryEdits DEF SameCache
    <3> QED
      BY <3>1, <3>3 DEF SameCache, Edited
  <2>3. SessionSound' /\ Forward
    BY <1>3, <2>1, <2>2 DEF Known, Inv, SessionSound, Contacted, Edited, Forward
  <2>4. reqs' \in [Clients -> Request] /\ Others(c) /\ RequestSound(reqs[c])'
    BY <1>1, <1>2, <1>3, <2>3, GoSound
  <2>5. Types'
    BY <1>1, <2>1, <2>2, <2>4 DEF Inv, Types, Edited
  <2> QED
    BY <2>2, <2>3, <2>4, <2>5, OthersKept, EditedKeeps, Assemble
<1>4. CASE UNCHANGED <<agent, row>> /\ (Go(c, "again") \/ Answer(c, "500"))
  <2>1. Forward
    BY <1>4 DEF Forward, Contacted
  <2>2. reqs' \in [Clients -> Request] /\ Others(c) /\ RequestSound(reqs[c])'
    <3>1. CASE Go(c, "again")
      BY <1>1, <1>2, <2>1, <3>1, GoSound
    <3>2. CASE Answer(c, "500")
      BY <1>1, <1>2, <2>1, <3>2, AnswerSound
    <3> QED
      BY <1>4, <3>1, <3>2
  <2> QED
    BY <1>1, <1>4, <2>2, RequestMoves
<1> QED
  BY <1>3, <1>4 DEF SendOrRetry

\* The delete route clears the agent, and then marks the row.
LEMMA DeleteSessionKeeps ==
  ASSUME Inv, NEW c \in Clients, DeleteSession(c),
         UNCHANGED <<rt, pushes, made, lostConv, mirror, page, missed, left>>
  PROVE  Inv'
<1> DEFINE r == reqs[c]
<1>1. /\ r \in Request /\ RequestSound(r) /\ r.at = "delete" /\ Types /\ row \in Row /\ left' \in Budget
  BY DEF Inv, Types, DeleteSession
<1>2. CASE agent' = [phase |-> "deleted", conv |-> 0, registered |-> FALSE] /\ UNCHANGED <<row, reqs>>
  <2>1. agent' \in Agent /\ agent'.phase = "deleted" /\ agent'.registered = FALSE
    BY <1>2 DEF Agent, Convs
  <2>2. SessionSound' /\ Forward
    BY <2>1 DEF SessionSound, Contacted, Forward
  <2>3. Types'
    BY <1>1, <1>2, <2>1 DEF Types
  <2> QED
    BY <1>2, <2>2, <2>3, RequestsKept, RowKept, Assemble
<1>3. CASE /\ agent.phase = "deleted" /\ row' = BeginDelete(row)
           /\ Answer(c, IF row.exists THEN "202" ELSE "404") /\ UNCHANGED agent
  <2>1. /\ row' \in Row /\ row'.exists = row.exists /\ row'.lc = row.lc /\ row'.seq = row.seq
        /\ row'.query = row.query
    BY <1>1, <1>3 DEF BeginDelete, On, Row
  <2>2. SessionSound' /\ Forward
    BY <1>3, <2>1 DEF Inv, SessionSound, Contacted, Forward
  <2>3. RowSound' /\ PushSound'
    BY <2>1 DEF Inv, RowSound, PushSound
  <2>4. reqs' \in [Clients -> Request] /\ Others(c) /\ RequestSound(reqs[c])'
    <3> DEFINE out == IF row.exists THEN "202" ELSE "404"
    <3>1. out \in Outs /\ out # "sleeping"
      BY OutFacts
    <3>2. Answer(c, out) /\ agent'.phase = "deleted"
      BY <1>3
    <3> HIDE DEF out
    <3> QED
      BY <1>1, <2>2, <3>1, <3>2, AnswerSound
  <2>5. Types'
    BY <1>1, <1>3, <2>1, <2>4 DEF Types
  <2> QED
    BY <2>2, <2>3, <2>4, <2>5, OthersKept, Assemble
<1> QED
  BY <1>2, <1>3 DEF DeleteSession

\* wakeSession: the wake it asks for is a change of the lifecycle like any other.
LEMMA WakeSessionKeeps ==
  ASSUME Inv, NEW c \in Clients, WakeSession(c),
         UNCHANGED <<agent, row, made, lostConv, mirror, page, missed>>
  PROVE  Inv'
<1> DEFINE r == reqs[c]
<1>1. /\ r \in Request /\ RequestSound(r) /\ r.at = "act" /\ Types /\ left \in Budget /\ rt.seq \in Nat
      /\ page' \in [seen : Nat, acked : Nat] /\ Forward
  BY DEF Inv, Types, WakeSession, Forward, Contacted, Runtime
<1>2. r.route \notin PassiveRoutes /\ "mark" \in PlainStages /\ "503" \in Outs /\ Contacted
  BY <1>1, OutFacts DEF RequestSound, Routed, PlainStages, Known404
<1>3. CASE /\ Turned("waking")
           /\ reqs' = [d \in Clients |-> [reqs[d] EXCEPT !.slept = @ \/ reqs[d].at # "free"]]
  <2>1. "waking" \in Lifecycles
    BY DEF Lifecycles
  <2>2. /\ left' \in Budget /\ rt' \in Runtime /\ pushes' \subseteq Push
        /\ rt'.lc = "waking" /\ rt'.seq = rt.seq + 1 /\ rt'.epoch = rt.epoch + 1
        /\ PushSound' /\ RowSound'
    BY <1>3, <2>1, TurnedKeeps
  <2>3. reqs' \in [Clients -> Request] /\ \A d \in Clients : RequestSound(reqs[d])'
    <3>1. reqs' = [d \in Clients |-> [reqs[d] EXCEPT !.slept = @ \/ (TRUE /\ reqs[d].at # "free")]]
      BY <1>3
    <3> QED
      BY <1>1, <2>1, <2>2, <3>1, TurnedRequests
  <2>4. Types'
    BY <1>1, <2>2, <2>3 DEF Types
  <2>5. SessionSound'
    BY <1>2 DEF Inv, SessionSound, Contacted
  <2> QED
    BY <2>2, <2>3, <2>4, <2>5, Assemble
<1>4. CASE (Go(c, "mark") \/ Answer(c, "503")) /\ UNCHANGED <<rt, pushes, left>>
  <2>1. reqs' \in [Clients -> Request] /\ Others(c) /\ RequestSound(reqs[c])'
    <3>1. CASE Go(c, "mark")
      BY <1>1, <1>2, <3>1, GoSound
    <3>2. CASE Answer(c, "503")
      BY <1>1, <1>2, <3>2, AnswerSound
    <3> QED
      BY <1>4, <3>1, <3>2
  <2> QED
    BY <1>1, <1>4, <2>1, RequestMoves
<1> QED
  BY <1>3, <1>4 DEF WakeSession

-----------------------------------------------------------------------------
\* The specification

\* Every step of a route keeps the invariant.
LEMMA RequestStepKeeps ==
  ASSUME Inv, NEW c \in Clients, RequestStep(c)
  PROVE  Inv'
<1>1. CASE Arrive(c) /\ UNCHANGED <<agent, row, rt, pushes, made, lostConv, mirror, missed>>
  BY <1>1, ArriveKeeps
<1>2. CASE MarkSessionLost(c) /\ UNCHANGED <<rt, pushes, made, lostConv, mirror, page, missed>>
  BY <1>2, MarkSessionLostKeeps
<1>3. CASE /\ RequireSession(c) \/ DeleteSession(c) \/ SendOrRetry(c)
           /\ UNCHANGED <<rt, pushes, made, lostConv, mirror, page, missed, left>>
  BY <1>3, RequireSessionKeeps, DeleteSessionKeeps, SendOrRetryKeeps
<1>4. CASE /\ \/ GetSessionListView(c) \/ RequireAgain(c) \/ CheckInstance(c) \/ CheckReady(c)
              \/ SettleFailure(c) \/ AnswerAsleep(c)
           /\ UNCHANGED <<agent, row, rt, pushes, made, lostConv, mirror, page, missed, left>>
  BY <1>4, GetSessionListViewKeeps, ChecksKeep, AnswerAsleepKeeps
<1>5. CASE /\ GetInstanceView(c) \/ ResolveRunningRuntimeEpoch(c) \/ CallSandbox(c)
           /\ UNCHANGED <<agent, row, rt, pushes, made, lostConv, mirror, page, missed>>
  BY <1>5, GetInstanceViewKeeps, ResolveKeeps, CallSandboxKeeps
<1>6. CASE CacheStatus(c) /\ UNCHANGED <<agent, rt, pushes, made, lostConv, mirror, page, left>>
  BY <1>6, CacheStatusKeeps
<1>7. CASE WriteRow(c) /\ UNCHANGED <<agent, rt, pushes, made, lostConv, mirror, page, missed>>
  BY <1>7, WriteRowKeeps
<1>8. CASE WakeSession(c) /\ UNCHANGED <<agent, row, made, lostConv, mirror, page, missed>>
  BY <1>8, WakeSessionKeeps
<1>9. CASE MarkRow(c) /\ UNCHANGED <<agent, rt, pushes, made, lostConv, mirror, page, missed, left>>
  BY <1>9, MarkRowKeeps
<1>10. CASE Deliver(c) /\ UNCHANGED <<agent, row, rt, pushes, made, lostConv, mirror, missed, left>>
  BY <1>10, DeliverKeeps
<1> QED
  BY <1>1, <1>2, <1>3, <1>4, <1>5, <1>6, <1>7, <1>8, <1>9, <1>10 DEF RequestStep

\* A step that changes nothing keeps it.
LEMMA StutterKeeps ==
  ASSUME Inv, UNCHANGED vars
  PROVE  Inv'
  BY DEF Inv, vars, Types, SessionSound, Contacted, PushSound, RowSound, RequestSound, Known404, Routed,
     ReadSound, EpochSound, ConvSound

\* Every step keeps the invariant.
LEMMA NextKeeps ==
  ASSUME Inv, [Next]_vars
  PROVE  Inv'
<1>1. CASE \E lc \in Lifecycles : Turn(lc)
  BY <1>1, TurnKeeps
<1>2. CASE ExportTranscript \/ \E p \in pushes : PushLands(p) \/ PushFails(p)
  BY <1>2, MirrorsKeep
<1>3. CASE CreateSession \/ AgentRegisters \/ Dispatch \/ DispatchFails
  BY <1>3, AgentKeeps
<1>4. CASE NoteSessionUnread \/ SyncTitle \/ HubFinishes
  BY <1>4, RegistryKeeps
<1>5. CASE \E c \in Clients : RequestStep(c)
  BY <1>5, RequestStepKeeps
<1>6. CASE UNCHANGED vars
  BY <1>6, StutterKeeps
<1> QED
  BY <1>1, <1>2, <1>3, <1>4, <1>5, <1>6 DEF Next

\* A behaviour begins with a session not yet made, or one that has worked.
LEMMA InitInv == Init => Inv
<1> SUFFICES ASSUME Init PROVE Inv
  OBVIOUS
<1>1. /\ left \in Budget /\ (left.awake => left.settled)
      /\ rt = [lc |-> IF left.awake THEN "idle" ELSE "sleeping", epoch |-> 0, seq |-> 0]
      /\ pushes = {} /\ lostConv = 0 /\ page = [seen |-> 0, acked |-> 0] /\ missed = FALSE
      /\ reqs = [c \in Clients |-> Free]
  BY ConsoleAssumption DEF Init
<1>2. rt \in Runtime /\ rt.seq = 0
  BY <1>1 DEF Runtime, Lifecycles, Running
<1>3. /\ reqs \in [Clients -> Request]
      /\ \A c \in Clients : RequestSound(reqs[c])
  <2>1. Free.at = "free" /\ Free.route = "view" /\ Free.out = "none" /\ Free.conv = 0
    BY DEF Free
  <2> QED
    BY <1>1, <2>1, FreeType DEF RequestSound, Known404, Routed, ReadSound, EpochSound, ConvSound
<1>4. PushSound
  BY <1>1 DEF PushSound
<1>5. /\ agent \in Agent /\ row \in Row /\ made \in Convs /\ mirror \in Convs
      /\ SessionSound /\ RowSound
  <2>1. CASE /\ ~left.settled
             /\ agent = [phase |-> "none", conv |-> 0, registered |-> FALSE]
             /\ row = NoRow /\ made = 0 /\ mirror = 0
    <3>1. agent \in Agent /\ row \in Row /\ made \in Convs /\ mirror \in Convs
      BY <2>1, FreeType DEF Agent, Convs
    <3>2. ~row.exists /\ rt.lc = "sleeping"
      BY <1>1, <2>1 DEF NoRow
    <3> QED
      BY <1>1, <1>2, <2>1, <3>1, <3>2 DEF SessionSound, Contacted, RowSound
  <2>2. CASE /\ left.settled
             /\ agent = [phase |-> "working", conv |-> 1, registered |-> TRUE]
             /\ row = [NoRow EXCEPT !.exists = TRUE, !.phase = "working", !.conv = 1,
                                    !.lc = rt.lc, !.query = FALSE]
             /\ made = 1 /\ mirror = 1
    <3>1. agent \in Agent /\ made \in Convs /\ mirror \in Convs
      BY <2>2 DEF Agent, Convs, Phases
    <3>2. /\ row \in Row /\ row.exists /\ row.seq = 0 /\ row.lc = rt.lc /\ row.lifecycle = "ready"
      <4>1. NoRow \in Row /\ NoRow.seq = 0 /\ NoRow.lifecycle = "ready"
        BY FreeType DEF NoRow
      <4>2. rt.lc \in Lifecycles /\ "working" \in Phases /\ 1 \in Convs
        BY <1>2 DEF Runtime, Phases, Convs
      <4> QED
        BY <2>2, <4>1, <4>2 DEF Row
    <3> QED
      BY <1>2, <2>2, <3>1, <3>2 DEF SessionSound, Contacted, RowSound
  <2> QED
    BY <2>1, <2>2 DEF Init
<1>6. lostConv \in Convs /\ page \in [seen : Nat, acked : Nat] /\ pushes \subseteq Push /\ missed \in BOOLEAN
  <2>1. lostConv \in Convs
    BY <1>1 DEF Convs
  <2>2. page \in [seen : Nat, acked : Nat]
    BY <1>1
  <2>3. pushes \subseteq Push /\ missed \in BOOLEAN
    BY <1>1
  <2> QED
    BY <2>1, <2>2, <2>3
<1>7. Types
  BY <1>1, <1>2, <1>3, <1>5, <1>6 DEF Types
<1> QED
  BY <1>3, <1>4, <1>5, <1>7 DEF Inv

\* What a request carries means what the invariant says, in every reachable state.
THEOREM InvHolds == Spec => []Inv
<1>1. Init => Inv
  BY InitInv
<1>2. Inv /\ [Next]_vars => Inv'
  BY NextKeeps
<1> QED
  BY <1>1, <1>2, PTL DEF Spec

\* Every variable keeps its type, the columns of the row included (TypeOK).
THEOREM TypeCorrect == Spec => []TypeOK
<1>1. Inv => TypeOK
  BY DEF Inv, Types, TypeOK, Agent, Runtime, Request
<1> QED
  BY <1>1, InvHolds, PTL

\* The list can be wrong about a session only while the newest mirror write is
\* on its way, was lost, or was undone by an older one (getSessionListView,
\* syncSessionRuntimeCache, patchSessionRuntimeStatus).
THEOREM CacheWrongOnlyIfOvertakenHolds == Spec => []CacheWrongOnlyIfOvertaken
<1>1. Inv => CacheWrongOnlyIfOvertaken
  <2> SUFFICES ASSUME Inv, row.exists, ~SessionNeedsLiveStatusQuery(row), row.lifecycle = "ready", row.lc # rt.lc
               PROVE  missed \/ \E p \in pushes : p.seq = rt.seq
    BY DEF CacheWrongOnlyIfOvertaken
  <2>1. ~row.query
    BY DEF SessionNeedsLiveStatusQuery
  <2> QED
    BY <2>1 DEF Inv, RowSound
<1> QED
  BY <1>1, InvHolds, PTL

\* A transcript is of its conversation, 'sleeping' was so at some point of the
\* request, and only a deleted session is not found (readTranscriptMirrorFor,
\* resolveRunningRuntimeEpoch, requireSession).
THEOREM AnswersAreTrueHolds == Spec => []AnswersAreTrue
<1>1. Inv => TranscriptIsOfItsConversation
  BY DEF Inv, RequestSound, ConvSound, TranscriptIsOfItsConversation
<1>2. Inv => SleepingMeansSlept
  BY DEF Inv, RequestSound, EpochSound, SleepingMeansSlept
<1>3. Inv => CreatedIsFound
  BY DEF Inv, RequestSound, Known404, CreatedIsFound
<1>4. Inv => AnswersAreTrue
  BY <1>1, <1>2, <1>3 DEF AnswersAreTrue
<1> QED
  BY <1>4, InvHolds, PTL

=============================================================================
