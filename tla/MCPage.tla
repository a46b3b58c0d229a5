------------------------------- MODULE MCPage -------------------------------
(***************************************************************************)
(* What the browser is told of sessions.  A behaviour is about one topic;  *)
(* the variables of the others stay as they start.                         *)
(*   deletion  the registry and the Hub with one session                   *)
(*   breaks    the page of a session while its stream breaks               *)
(*   bubbles   the page of a session while prompts are sent                *)
(*   reading   the readers of what OpenCode says                           *)
(***************************************************************************)
EXTENDS TLC, HubDeletion, LivePage, OpencodeReading

CONSTANTS s1, x, y
OneSession == {s1}
NoSession == {}

MCTexts == {x, y}
Symmetry == Permutations(MCTexts)

MCStreams == UNION {[1 .. n -> {"x", "r", "n"}] : n \in 0 .. 6}
MCTrees ==
    LET ids == {"a", "b", "c"} IN
    {[i \in ids \cup {"root"} |-> IF i = "root" THEN NoParent ELSE up[i]] : up \in [ids -> ids \cup {"root", "gone", NoParent}]}
MCAnswers ==
    {[ok |-> FALSE, statuses |-> {}]} \cup
    [ok : {TRUE}, statuses : SUBSET {"busy", "retry", "idle", "strange"}]

VARIABLE topic

ReaderAtRest == reader = [kind |-> "frames", input |-> <<>>, used |-> 0, buffer |-> <<>>, out |-> <<>>]

MCInit ==
    /\ topic \in {"deletion", "breaks", "bubbles", "reading"}
    /\ Init
    /\ LiveInit
    /\ topic \in {"deletion", "reading"} => running
    /\ IF topic = "reading" THEN ReadingInit ELSE ReaderAtRest

\* Prompts are sent from a page whose stream holds.  Where it breaks, three
\* things happen: changes of the conversation, wakes, breaks and refreshes.
PageNext ==
    \/ ConversationNext
    \/ ReadNext
    \/ topic = "breaks" /\ BreakNext
    \/ topic = "bubbles" /\ SendNext

MCNext ==
    /\ UNCHANGED topic
    /\ \/ topic = "deletion" /\ Next /\ UNCHANGED <<liveVars, reader>>
       \/ /\ topic \in {"breaks", "bubbles"} /\ PageNext /\ UNCHANGED <<vars, reader>>
          /\ topic = "breaks" => edits' + wakes' + breaks' + refreshes' <= 3
       \/ topic = "reading" /\ ReadingNext /\ UNCHANGED <<vars, liveVars>>

MCSpec == MCInit /\ [][MCNext]_<<topic, vars, liveVars, reader>>
=============================================================================
