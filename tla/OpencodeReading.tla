-------------------------- MODULE OpencodeReading --------------------------
(***************************************************************************)
(* Three readers of what OpenCode says, each a loop over input that comes  *)
(* piece by piece: the splitter of the event stream into frames            *)
(* (SseFrameBuffer and the filter behind it in src/src/session-events.ts), *)
(* the walk from a subagent up to its session (src/src/session-lineage.ts) *)
(* and the probe that tells whether anything runs                          *)
(* (src/src/opencode-activity.ts).  `reader` is one of them at work.       *)
(***************************************************************************)
EXTENDS Naturals, Sequences, FiniteSets

CONSTANTS
    Streams,         \* event streams: sequences over "x", "r", "n" (CR, LF)
    Trees,           \* OpenCode's sessions: id -> parent, or NoParent
    MaxLineageDepth,
    Locations,       \* directories of sessions
    Answers          \* answers to one status query

\* What a session has for a parent that has none.
NoParent == ""

ASSUME ReadingAssumption ==
    /\ MaxLineageDepth \in Nat
    /\ \A s \in Streams : s \in Seq({"x", "r", "n"})
    /\ \A t \in Trees : NoParent \notin DOMAIN t
    /\ Answers \subseteq [ok : BOOLEAN, statuses : SUBSET {"busy", "retry", "idle", "strange"}]

VARIABLE reader

ReadingInit ==
    \/ \E s \in Streams : reader = [kind |-> "frames", input |-> s, used |-> 0, buffer |-> <<>>, out |-> <<>>]
    \/ \E t \in Trees : \E from \in DOMAIN t \cup {"gone"} :
          reader = [kind |-> "lineage", tree |-> t, from |-> from, current |-> from, seen |-> {}, chain |-> <<>>,
                    hop |-> 0, answer |-> "walking"]
    \/ \E known \in SUBSET Locations, v2 \in Answers :
          \E legacy \in [known -> Answers] :
             reader = [kind |-> "activity", legacy |-> legacy, v2 |-> v2, heard |-> {}, state |-> "asking"]

-----------------------------------------------------------------------------
\* Frames

\* /\r?\n\r?\n/ at place i of s: the place where it ends, 0 if it is not there.
At(s, i) == IF i <= Len(s) THEN s[i] ELSE "end"
SeparatorEnd(s, i) ==
    LET p == IF At(s, i) = "r" THEN i + 1 ELSE i
        q == IF At(s, p + 1) = "r" THEN p + 2 ELSE p + 1
    IN IF At(s, p) = "n" /\ At(s, q) = "n" THEN q ELSE 0

\* Where separators begin at place i or later.
Separators(s, i) == {j \in i .. Len(s) : SeparatorEnd(s, j) # 0}

\* The frames of s from place i on, and what is left behind the last one, when
\* those of later places are known.
SplitFrom(s, i, from) ==
    LET starts == Separators(s, i)
        j == CHOOSE j \in starts : \A k \in starts : j <= k
        more == from[SeparatorEnd(s, j) + 1]
    IN IF starts = {} THEN [frames |-> <<>>, rest |-> SubSeq(s, i, Len(s))]
       ELSE [frames |-> <<SubSeq(s, i, j - 1)>> \o more.frames, rest |-> more.rest]

Split(s) == LET from[i \in 1 .. Len(s) + 1] == SplitFrom(s, i, from) IN from[1]

\* Mutant: what is left of a chunk is not kept for the next one.
PushForgets(buffer, chunk) == [Split(buffer \o chunk) EXCEPT !.rest = <<>>]

\* SseFrameBuffer.push
Push(buffer, chunk) == Split(buffer \o chunk)

\* transform: one chunk of the body.
Transform(k) ==
    /\ reader.kind = "frames" /\ reader.used + k <= Len(reader.input)
    /\ LET pushed == Push(reader.buffer, SubSeq(reader.input, reader.used + 1, reader.used + k)) IN
       reader' = [reader EXCEPT !.used = @ + k, !.buffer = pushed.rest, !.out = @ \o pushed.frames]

-----------------------------------------------------------------------------
\* Lineage; "root" is the container's own session.

Settle(a) == reader' = [reader EXCEPT !.answer = a]

WithinDepth(hop) == hop <= MaxLineageDepth

\* One turn of the loop of walkSessionLineage.
WalkHop ==
    LET id == reader.current
        chain == <<id>> \o reader.chain
    IN /\ reader.kind = "lineage" /\ reader.answer = "walking"
       /\ IF ~WithinDepth(reader.hop) \/ id \in reader.seen \/ id \notin DOMAIN reader.tree THEN Settle("undefined")
          ELSE IF id = "root" THEN reader' = [reader EXCEPT !.chain = chain, !.answer = "found"]
          ELSE IF reader.tree[id] = NoParent THEN Settle("undefined")
          ELSE reader' = [reader EXCEPT !.chain = chain, !.seen = @ \cup {id}, !.current = reader.tree[id],
                                        !.hop = @ + 1]

-----------------------------------------------------------------------------
\* Activity

\* An answer is ok or not, and has the statuses of the sessions it lists.

\* classifyLegacySessionStatuses
ClassifyLegacy(a) ==
    IF ~a.ok THEN "unknown"
    ELSE IF a.statuses \cap {"busy", "retry"} # {} THEN "active"
    ELSE IF "strange" \in a.statuses THEN "unknown" ELSE "idle"

\* classifyV2ActiveSessions: to be listed is to be active.
ClassifyV2(a) == IF ~a.ok THEN "unknown" ELSE IF a.statuses # {} THEN "active" ELSE "idle"

\* aggregateActivityClassifications
Aggregate(states) ==
    IF "active" \in states THEN "active" ELSE IF "unknown" \in states \/ states = {} THEN "unknown" ELSE "idle"

Sources == DOMAIN reader.legacy \cup {"v2"}

Heard(s) ==
    /\ reader.kind = "activity" /\ s \in Sources \ reader.heard
    /\ reader' = [reader EXCEPT !.heard = @ \cup {s}]

\* queryOpenCodeActivity, when every query is answered.  No known location is
\* itself unknown.
Classified ==
    /\ reader.kind = "activity" /\ reader.heard = Sources /\ reader.state = "asking"
    /\ LET legacy == {ClassifyLegacy(reader.legacy[l]) : l \in DOMAIN reader.legacy} IN
       reader' = [reader EXCEPT !.state = Aggregate((IF legacy = {} THEN {"unknown"} ELSE legacy)
                                                      \cup {ClassifyV2(reader.v2)})]

ReadingNext ==
    \/ reader.kind = "frames" /\ \E k \in 1 .. Len(reader.input) : Transform(k)
    \/ WalkHop
    \/ \E s \in Locations \cup {"v2"} : Heard(s)
    \/ Classified

ReadingSpec == ReadingInit /\ [][ReadingNext]_reader

-----------------------------------------------------------------------------
\* Properties

\* However the body is cut into chunks, in the middle of a separator too, the
\* frames that came out are those of the bytes read so far.
ChunksDoNotShow ==
    reader.kind = "frames" =>
        LET whole == Split(SubSeq(reader.input, 1, reader.used)) IN
        reader.out = whole.frames /\ reader.buffer = whole.rest

\* The ways down from the root to a session.
Paths(tree, from) ==
    {p \in UNION {[1 .. n -> DOMAIN tree] : n \in 1 .. MaxLineageDepth + 1} :
        /\ p[1] = "root" /\ p[Len(p)] = from
        /\ \A i \in 2 .. Len(p) : p[i] # "root" /\ tree[p[i]] = p[i - 1]}

\* The walk finds a session exactly if its parents lead to the container's
\* root over at most MaxLineageDepth steps, and then the chain is that path,
\* root first: parents that run in a circle or out of the tree never do.
LineageIsThePath ==
    reader.kind = "lineage" /\ reader.answer # "walking" =>
        LET paths == Paths(reader.tree, reader.from) IN
        (reader.answer = "found" /\ reader.chain \in paths) \/ (reader.answer = "undefined" /\ paths = {})

\* A container is called idle, which lets it be stopped, only if every source
\* was asked, answered, and named nothing that runs or that is not understood.
IdleIsEarned ==
    reader.kind = "activity" /\ reader.state = "idle" =>
        /\ DOMAIN reader.legacy # {} /\ reader.v2.ok /\ reader.v2.statuses = {}
        /\ \A l \in DOMAIN reader.legacy : reader.legacy[l].ok /\ reader.legacy[l].statuses \subseteq {"idle"}

\* Each reader computes what its definition over the whole input says, however
\* the input is cut, ordered or broken: the frames of the stream, the path to a
\* subagent, and that a container is idle.
ReaderIsRight == ChunksDoNotShow /\ LineageIsThePath /\ IdleIsEarned
=============================================================================
