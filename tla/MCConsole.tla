----------------------------- MODULE MCConsole -----------------------------
(***************************************************************************)
(* The session routes with two concurrent requests, in five settings: the  *)
(* status cache, the passive reads, the edits of the row, and a session    *)
(* that is lost, or cleaned or deleted, under the requests.                *)
(***************************************************************************)
EXTENDS SessionConsole, TLC

CONSTANTS c1, c2

MCClients == {c1, c2}
MCTitles == {"mine"}
Symmetry == Permutations(MCClients)

None == [settled |-> TRUE, awake |-> FALSE, routes |-> {}, requests |-> 2, marks |-> 0, turns |-> 0,
         faults |-> 0, late |-> 1, syncs |-> 0, losses |-> 0, cleans |-> 0]

Caching == [None EXCEPT !.routes = {"view", "list", "wake", "abort"}, !.turns = 4,
                        !.faults = 1, !.late = 2]
Reading == [None EXCEPT !.settled = FALSE, !.requests = 1, !.turns = 5, !.faults = 2, !.cleans = 1,
                        !.routes = PassiveRoutes \cup {"files", "answer", "pin", "clear"}]
Editing == [None EXCEPT !.routes = {"view", "ack", "rename", "unread", "send"},
                        !.awake = TRUE, !.marks = 1, !.syncs = 1]
Losing == [None EXCEPT !.routes = {"view", "send", "retry", "wake"}, !.turns = 2,
                       !.marks = 1, !.losses = 1]
Ending == [None EXCEPT !.settled = FALSE, !.routes = {"view", "list", "send", "delete"},
                       !.turns = 2, !.cleans = 1]

MCBudgets == {Caching, Reading, Editing, Losing, Ending}
=============================================================================
