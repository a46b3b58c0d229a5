------------------------------ MODULE LivePage ------------------------------
(***************************************************************************)
(* The page of one session (src/web/src/useTranscript.ts,                  *)
(* src/web/src/optimistic.ts and the sending half of SessionPage.tsx) and  *)
(* the event stream that feeds it (src/src/session-events.ts).  The page   *)
(* reads the whole transcript, keeps it current from the stream, reads it  *)
(* again when the stream says so, and shows a bubble for every prompt the  *)
(* transcript does not have yet.                                           *)
(*                                                                         *)
(* A read is asked, served and arrives; several may be under way, and they *)
(* overtake each other and the stream.  The stream breaks without notice.  *)
(* A message has one part, whose version grows and which is not removed on *)
(* its own (message.part.removed).  What a read of a sleeping              *)
(* session returns is taken to be complete: TranscriptMirror is about      *)
(* that.  The state "pending" behaves as "sleeping" does and is left out.  *)
(***************************************************************************)
EXTENDS Naturals, Sequences, FiniteSets, SequencesExt

CONSTANTS
    Texts,           \* what a user may send
    MaxEdits,        \* bound: changes of the conversation
    MaxSends,        \* bound: prompts
    MaxWakes,        \* bound: wakes of the container
    MaxBreaks,       \* bound: losses of the stream
    MaxRefreshes,    \* bound: presses of the refresh button
    MaxReads         \* bound: reads under way at once

\* The text of a message whose part is not there yet.
NoText == ""

ASSUME LivePageAssumption ==
    /\ NoText \notin Texts
    /\ MaxEdits \in Nat /\ MaxSends \in Nat /\ MaxWakes \in Nat /\ MaxBreaks \in Nat
    /\ MaxRefreshes \in Nat /\ MaxReads \in Nat

VARIABLES
    conv,            \* OpenCode's conversation: id -> [role, text, ver]
    edits,           \* changes of it so far
    running,         \* the container runs
    wakes,           \* its wakes so far
    stream,          \* the event stream: [at, frames]
    view,            \* what the page shows: [msgs, reported, asOf, wakes, failed, overtaken, rewound, key, hidden]
    asked, served,   \* reads under way: how many wait, and what was read for the others
    prompts,         \* every prompt sent: [text, after, at, id, withdrawn]
    bubbles,         \* the optimistic ones, by their places in prompts
    sending,         \* the prompt whose request is out, 0 for none
    breaks, refreshes

liveVars == <<conv, edits, running, wakes, stream, view, asked, served, prompts, bubbles, sending,
              breaks, refreshes>>
convVars == <<conv, edits, running, wakes>>
sends == <<prompts, sending>>

Empty == [i \in {} |-> 0]
Ids(msgs) == DOMAIN msgs
NewestOf(ids) == IF ids = {} THEN 0 ELSE CHOOSE i \in ids : \A j \in ids : j <= i
With(msgs, id, m) == [i \in Ids(msgs) \cup {id} |-> IF i = id THEN m ELSE msgs[i]]
Without(msgs, id) == [i \in Ids(msgs) \ {id} |-> msgs[i]]

LiveInit ==
    /\ conv = Empty /\ edits = 0 /\ running \in BOOLEAN /\ wakes = 0
    /\ stream = [at |-> "connecting", frames |-> <<>>]
    /\ view = [msgs |-> Empty, reported |-> "none", asOf |-> 0, wakes |-> 0, failed |-> FALSE,
               overtaken |-> FALSE, rewound |-> FALSE, key |-> running, hidden |-> FALSE]
    /\ asked = 1 /\ served = <<>>
    /\ prompts = <<>> /\ bubbles = {} /\ sending = 0 /\ breaks = 0 /\ refreshes = 0

-----------------------------------------------------------------------------
\* The container.  Frames of a change go into the stream that is attached.

\* forwardSessionEventStream: frames of this session, in order.
Forwarded(fs) ==
    IF stream.at = "attached" THEN [stream EXCEPT !.frames = @ \o fs] ELSE stream

\* OpenCode takes the oldest queued prompt.
Delivered(n) ==
    LET id == edits + 1 IN
    /\ running /\ edits < MaxEdits
    /\ prompts[n].at = "queued" /\ \A m \in 1 .. n - 1 : prompts[m].at # "queued"
    /\ edits' = id /\ conv' = With(conv, id, [role |-> "user", text |-> prompts[n].text, ver |-> 1])
    /\ prompts' = [prompts EXCEPT ![n].at = "delivered", ![n].id = id]
    /\ stream' = Forwarded(<<[kind |-> "message", no |-> id, id |-> id, role |-> "user"],
                             [kind |-> "part", no |-> id, id |-> id, text |-> prompts[n].text, ver |-> 1]>>)
    /\ UNCHANGED <<running, wakes, view, asked, served, bubbles, sending, breaks, refreshes>>

Replies ==
    LET id == edits + 1 IN
    /\ running /\ edits < MaxEdits
    /\ edits' = id /\ conv' = With(conv, id, [role |-> "assistant", text |-> NoText, ver |-> 0])
    /\ stream' = Forwarded(<<[kind |-> "message", no |-> id, id |-> id, role |-> "assistant"]>>)
    /\ UNCHANGED <<running, wakes, view, asked, served, sends, bubbles, breaks, refreshes>>

Grows(id) ==
    /\ running /\ edits < MaxEdits /\ conv[id].role = "assistant"
    /\ edits' = edits + 1 /\ conv' = [conv EXCEPT ![id].ver = @ + 1]
    /\ stream' = Forwarded(<<[kind |-> "part", no |-> edits', id |-> id, text |-> NoText, ver |-> conv[id].ver + 1]>>)
    /\ UNCHANGED <<running, wakes, view, asked, served, sends, bubbles, breaks, refreshes>>

Removes(id) ==
    /\ running /\ edits < MaxEdits
    /\ edits' = edits + 1 /\ conv' = Without(conv, id)
    /\ stream' = Forwarded(<<[kind |-> "removed", no |-> edits', id |-> id]>>)
    /\ UNCHANGED <<running, wakes, view, asked, served, sends, bubbles, breaks, refreshes>>

Wakes ==
    /\ ~running /\ wakes < MaxWakes
    /\ running' = TRUE /\ wakes' = wakes + 1
    /\ UNCHANGED <<conv, edits, stream, view, asked, served, sends, bubbles, breaks, refreshes>>

\* A graceful stop ends the upstream, which flush reports; a kill does not.
Stops(graceful) ==
    /\ running /\ running' = FALSE
    /\ stream' = IF stream.at # "attached" THEN stream
                 ELSE IF graceful
                 THEN [at |-> "ending", frames |-> Append(stream.frames, [kind |-> "hub", state |-> "ended"])]
                 ELSE [at |-> "severed", frames |-> <<>>]
    /\ UNCHANGED <<conv, edits, wakes, view, asked, served, sends, bubbles, breaks, refreshes>>

-----------------------------------------------------------------------------
\* The stream

\* The events route: attach, or say that there is nothing to attach to and
\* close (closedSessionEventStream).
Attach ==
    /\ stream.at = "connecting"
    /\ stream' = IF running THEN [at |-> "attached", frames |-> <<[kind |-> "hub", state |-> "live"]>>]
                 ELSE [at |-> "ending", frames |-> <<[kind |-> "hub", state |-> "sleeping"]>>]
    /\ UNCHANGED <<convVars, view, asked, served, sends, bubbles, breaks, refreshes>>

\* The connection dies and neither side is told.
Sever ==
    /\ stream.at = "attached" /\ breaks < MaxBreaks
    /\ breaks' = breaks + 1 /\ stream' = [at |-> "severed", frames |-> <<>>]
    /\ UNCHANGED <<convVars, view, asked, served, sends, bubbles, refreshes>>

\* The missing heartbeat or the end of the stream is an error to the browser,
\* which connects again by itself ...
Reconnects ==
    /\ stream.at = "severed" \/ (stream.at = "ending" /\ stream.frames = <<>>)
    /\ stream' = [at |-> "connecting", frames |-> <<>>]
    /\ UNCHANGED <<convVars, view, asked, served, sends, bubbles, breaks, refreshes>>

\* ... or gives up for good.  Then reopen makes a new stream, but not while
\* the tab is hidden.
GivesUp ==
    /\ stream.at \in {"connecting", "severed"} /\ breaks < MaxBreaks
    /\ breaks' = breaks + 1
    /\ stream' = [at |-> IF view.hidden THEN "closed" ELSE "connecting", frames |-> <<>>]
    /\ UNCHANGED <<convVars, view, asked, served, sends, bubbles, refreshes>>

Hide ==
    /\ ~view.hidden /\ breaks < MaxBreaks
    /\ view' = [view EXCEPT !.hidden = TRUE]
    /\ UNCHANGED <<convVars, stream, asked, served, sends, bubbles, breaks, refreshes>>

Show ==
    /\ view.hidden
    /\ view' = [view EXCEPT !.hidden = FALSE]
    /\ stream' = [stream EXCEPT !.at = IF @ = "closed" THEN "connecting" ELSE @]
    /\ UNCHANGED <<convVars, asked, served, sends, bubbles, breaks, refreshes>>

\* The poll of the session record sees the container come or go: runtimeKey
\* changes, and with it the stream.
RuntimeKeyChanges ==
    /\ view.key # running /\ ~view.hidden
    /\ view' = [view EXCEPT !.key = running]
    /\ stream' = [at |-> "connecting", frames |-> <<>>]
    /\ UNCHANGED <<convVars, asked, served, sends, bubbles, breaks, refreshes>>

-----------------------------------------------------------------------------
\* Bubbles

\* userMessageText: only of a user's message, and only once its part is there.
Shown(msgs, id) == id \in Ids(msgs) /\ msgs[id].role = "user" /\ msgs[id].ver > 0

\* Mutant: the watermark is not looked at.
MatchesAnywhere(msgs, n, id) == Shown(msgs, id) /\ msgs[id].text = prompts[n].text

\* A message may stand for a prompt if the text is the same and it is newer
\* than what the page showed when the prompt was sent.
Matches(msgs, n, id) == Shown(msgs, id) /\ msgs[id].text = prompts[n].text /\ id > prompts[n].after

\* The messages the bubbles up to n take, when those before it took `before`.
Taken(pending, msgs, n, before) ==
    LET left == {id \in Ids(msgs) \ before : n \in pending /\ Matches(msgs, n, id)} IN
    IF left = {} THEN before ELSE before \cup {CHOOSE i \in left : \A j \in left : i <= j}

\* reconcileOptimisticPrompts: in order, each bubble takes the first message
\* that is left; the ones without one stay.
ReconcileOptimisticPrompts(pending, msgs) ==
    LET taken[n \in 0 .. Len(prompts)] == IF n = 0 THEN {} ELSE Taken(pending, msgs, n, taken[n - 1])
    IN {n \in pending : taken[n] = taken[n - 1]}

\* send: the bubble at once, then the request.
Send(text) ==
    /\ sending = 0 /\ Len(prompts) < MaxSends
    /\ prompts' = Append(prompts, [text |-> text, after |-> NewestOf(Ids(view.msgs)), at |-> "out", id |-> 0,
                                   withdrawn |-> FALSE])
    /\ sending' = Len(prompts') /\ bubbles' = bubbles \cup {sending'}
    /\ UNCHANGED <<convVars, stream, view, asked, served, breaks, refreshes>>

SendArrives ==
    /\ sending # 0 /\ prompts[sending].at = "out"
    /\ prompts' = [prompts EXCEPT ![sending].at = "queued"]
    /\ UNCHANGED <<convVars, stream, view, asked, served, bubbles, sending, breaks, refreshes>>

SendReturns ==
    /\ sending # 0 /\ prompts[sending].at # "out"
    /\ sending' = 0
    /\ UNCHANGED <<convVars, stream, view, asked, served, prompts, bubbles, breaks, refreshes>>

\* The request fails, or only its answer is lost: the bubble is withdrawn and
\* the composer gets its text back.
SendFails ==
    /\ sending # 0
    /\ prompts' = [prompts EXCEPT ![sending].withdrawn = TRUE,
                                  ![sending].at = IF @ = "out" THEN "failed" ELSE @]
    /\ bubbles' = bubbles \ {sending}
    /\ sending' = 0
    /\ UNCHANGED <<convVars, stream, view, asked, served, breaks, refreshes>>

-----------------------------------------------------------------------------
\* The transcript

Served == [msgs |-> conv, asOf |-> edits, wakes |-> wakes, state |-> IF running THEN "live" ELSE "sleeping",
           early |-> FALSE]

AskRead == asked + Len(served) < MaxReads /\ asked' = asked + 1

LoadServed ==
    /\ asked > 0 /\ asked' = asked - 1
    /\ served' = Append(served, Served)
    /\ UNCHANGED <<convVars, stream, view, sends, bubbles, breaks, refreshes>>

\* load: what was read replaces what is shown, whatever arrived since.
LoadArrives(i) ==
    LET read == served[i] IN
    /\ served' = RemoveAt(served, i)
    /\ view' = [view EXCEPT !.msgs = read.msgs, !.reported = read.state, !.failed = @ /\ read.early,
                            !.wakes = read.wakes, !.overtaken = read.asOf < view.asOf, !.rewound = FALSE,
                            !.asOf = IF read.asOf < @ THEN @ ELSE read.asOf]
    /\ bubbles' = ReconcileOptimisticPrompts(bubbles, read.msgs)
    /\ UNCHANGED <<convVars, stream, asked, sends, breaks, refreshes>>

\* A read that fails leaves an error on the page until the next one arrives,
\* which may be one that was served before.
LoadFails ==
    /\ asked > 0 /\ asked' = asked - 1
    /\ view' = [view EXCEPT !.failed = TRUE]
    /\ served' = [i \in DOMAIN served |-> [served[i] EXCEPT !.early = TRUE]]
    /\ UNCHANGED <<convVars, stream, sends, bubbles, breaks, refreshes>>

\* The refresh button: a read and a new stream.
Refresh ==
    /\ refreshes < MaxRefreshes /\ refreshes' = refreshes + 1
    /\ AskRead /\ stream' = [at |-> "connecting", frames |-> <<>>]
    /\ UNCHANGED <<convVars, view, served, sends, bubbles, breaks>>

\* Mutant: a frame that repeats the state does not lead to a read.
RereadsOnChange(state) == state = "ended" \/ state # view.reported

\* The hub frames that lead to a read: the end of a stream, a stream that is
\* live (there was a gap before it), and a state that is not the last one.
Rereads(state) == state = "ended" \/ state = "live" \/ state # view.reported

HubFrame(f) ==
    /\ IF Rereads(f.state) THEN AskRead ELSE UNCHANGED asked
    /\ view' = IF f.state = "ended" THEN view ELSE [view EXCEPT !.reported = f.state]
    /\ UNCHANGED bubbles

\* apply: a message keeps the parts that came before it, and a part without a
\* message makes an assistant's.
Applied(msgs, f) ==
    CASE f.kind = "message" -> With(msgs, f.id, IF f.id \in Ids(msgs) THEN [msgs[f.id] EXCEPT !.role = f.role]
                                                ELSE [role |-> f.role, text |-> NoText, ver |-> 0])
      [] f.kind = "removed" -> Without(msgs, f.id)
      [] f.kind = "part" -> With(msgs, f.id, [role |-> IF f.id \in Ids(msgs) THEN msgs[f.id].role ELSE "assistant",
                                               text |-> f.text, ver |-> f.ver])

OpencodeFrame(f) ==
    LET msgs == Applied(view.msgs, f) IN
    /\ view' = [view EXCEPT !.msgs = msgs, !.rewound = f.no < view.asOf,
                            !.asOf = IF f.no < @ THEN @ ELSE f.no]
    /\ bubbles' = ReconcileOptimisticPrompts(bubbles, msgs)
    /\ UNCHANGED asked

FrameArrives ==
    /\ stream.at \in {"attached", "ending"} /\ stream.frames # <<>>
    /\ stream' = [stream EXCEPT !.frames = Tail(@)]
    /\ IF Head(stream.frames).kind = "hub" THEN HubFrame(Head(stream.frames)) ELSE OpencodeFrame(Head(stream.frames))
    /\ UNCHANGED <<convVars, served, sends, breaks, refreshes>>

ConversationNext ==
    \/ \E n \in DOMAIN prompts : Delivered(n)
    \/ Replies \/ (\E id \in Ids(conv) : Grows(id) \/ Removes(id))
ReadNext == LoadServed \/ (\E i \in DOMAIN served : LoadArrives(i)) \/ FrameArrives \/ Attach
BreakNext ==
    \/ Wakes \/ (\E graceful \in BOOLEAN : Stops(graceful))
    \/ Sever \/ Reconnects \/ GivesUp \/ Hide \/ Show \/ RuntimeKeyChanges \/ Refresh \/ LoadFails
SendNext == (\E text \in Texts : Send(text)) \/ SendArrives \/ SendReturns \/ SendFails

LiveNext == ConversationNext \/ ReadNext \/ BreakNext \/ SendNext

LiveSpec == LiveInit /\ [][LiveNext]_liveVars

-----------------------------------------------------------------------------
\* Properties

\* When everything under way has arrived, and the page takes itself to be live
\* or the session to be asleep as it is, the page shows the conversation as it
\* is, through every loss of the stream and every stop and wake.  What excuses
\* it is a read that failed and was not followed by another.  A page that is
\* live may also have been overtaken: a late read replaced what was newer.  One
\* asleep may not know of a wake and a stop that both happened behind its back,
\* and its last frame may have repeated what a read already had.  And a page
\* somebody looks at is never left with a stream that has given up: no event
\* would come any more to have it opened again.
PageIsCurrent ==
    /\ stream.at = "closed" => view.hidden
    /\ asked = 0 /\ served = <<>> /\ stream.frames = <<>> =>
        /\ stream.at = "attached" => view.msgs = conv \/ view.overtaken \/ view.failed
        /\ stream.at = "ending" /\ ~running /\ view.reported = "sleeping" =>
              view.msgs = conv \/ view.failed \/ view.wakes # wakes \/ view.rewound

\* A prompt that OpenCode does not have yet keeps its bubble, and one whose
\* message is on the page has none: a bubble goes for its own message only.
\* What excuses it is another prompt with the same text: the message of that
\* one is newer than what the page showed when this one was sent, or was
\* removed again and its bubble took this one's.
BubblesAreHonest ==
    \A n \in DOMAIN prompts :
        LET twins == {m \in DOMAIN prompts \ {n} : prompts[m].text = prompts[n].text} IN
        /\ prompts[n].at \in {"out", "queued"} /\ ~prompts[n].withdrawn =>
              n \in bubbles \/ \E m \in twins : prompts[m].id > prompts[n].after
        /\ prompts[n].at = "delivered" /\ Shown(view.msgs, prompts[n].id) =>
              n \notin bubbles \/ \E m \in twins : ~Shown(view.msgs, prompts[m].id)

=============================================================================
