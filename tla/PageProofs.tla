----------------------------- MODULE PageProofs -----------------------------
(***************************************************************************)
(* Proofs about what the browser is told of sessions: HubDeletion, for any *)
(* set of sessions and any number of requests, operations, failures and    *)
(* interrupted alarm handlers, LivePage, for any conversation and any      *)
(* number of reads, frames, breaks, wakes and stops, and OpencodeReading,  *)
(* for any stream, tree of sessions and answers.                           *)
(*                                                                         *)
(* In the Hub everything turns on its attempt, which remembers a session   *)
(* and an operation while other requests change the registry under it.     *)
(* Operation ids are fresh, so an attempt whose id is still on the row is  *)
(* the one that was asked for.  On the page it turns on what is on its way *)
(* to it: a read, a frame that will ask for one, or frames that lead from  *)
(* what is shown to the conversation as it is.  A reader is right because  *)
(* what it has so far determines, with what is still to come, the same     *)
(* answer as the whole does.                                               *)
(***************************************************************************)
EXTENDS HubDeletion, LivePage, OpencodeReading, SequenceTheorems, WellFoundedInduction, TLAPS

-----------------------------------------------------------------------------
\* The Hub


Attempting == {"agent", "close", "send", "purge", "mark", "finish", "defer", "fail"}
Resting == {"none", "next", "nextClean", "check", "checkClean"}
AttemptStages == Attempting \cup Resting

Hub == [at : AttemptStages, kind : {"none", "delete", "clean"}, id : Seq(Sessions), op : Nat]

Sweep == [at : {"none", "loop", "close"}, todo : SUBSET Sessions, claimed : BOOLEAN, id : Seq(Sessions)]

\* A sweep that is not under way has claimed nothing.
SweepSound == sweep \in Sweep /\ (sweep.at = "none" => ~sweep.claimed)

\* The types the argument needs.
Shape ==
    /\ row \in [Sessions -> Row]
    /\ alarm \in BOOLEAN
    /\ hub \in Hub
    /\ agent \in [Sessions -> {"quiet", "pending", "deleted"}]
    /\ sandbox \in [Sessions -> {"there", "purging", "gone"}]
    /\ del \in [Sessions -> {"none", "claim", "poke", "close"}]
    /\ SweepSound
    /\ fresh \in Nat
    /\ failed \in BOOLEAN

\* Operation ids on rows and in the attempt were drawn before.
DrawnSound ==
    /\ \A s \in Sessions : row[s].op <= fresh
    /\ hub.op <= fresh

\* What the attempt on a session has established so far.
AttemptOn(s) ==
    /\ hub.kind \in {"delete", "clean"}
    /\ hub.op # NoOp
    /\ hub.kind = "clean" /\ row[s].op = hub.op => row[s].lifecycle # "deleting"
    /\ hub.kind = "clean" /\ hub.at # "agent" /\ hub.at # "fail" => agent[s] = "deleted"
    /\ hub.at \in {"mark", "finish"} => sandbox[s] = "gone"

\* An attempt is about one session.
AttemptSound == hub.at \in Attempting => \E s \in Sessions : hub.id = <<s>> /\ AttemptOn(s)

\* Between the two queries that end the handler: a deletion claimed in between
\* has poked the Hub or will.
CheckSound ==
    hub.at = "checkClean" /\ ~failed /\ (\E s \in Sessions : ClaimedFor(s, "deleting")) =>
        alarm \/ \E s \in Sessions : del[s] = "poke"

\* The inductive invariant.
Inv ==
    /\ Shape /\ DrawnSound /\ AttemptSound /\ CheckSound
    /\ ReleasedWhenPurged
    /\ PokedClaimsAttended

-----------------------------------------------------------------------------
\* The registry

\* No operation is not an operation.
LEMMA NoOpType == NoOp \in Nat /\ NoOp = 0
  BY DEF NoOp

\* A session that a delete or a sweep claims: its row changes, the others do not.
LEMMA RowsAfter ==
  ASSUME row \in [Sessions -> Row], NEW s \in Sessions, NEW lifecycle \in Lifecycles, NEW op \in Nat,
         row' = [row EXCEPT ![s].lifecycle = lifecycle, ![s].op = op]
  PROVE  /\ row' \in [Sessions -> Row]
         /\ row'[s].lifecycle = lifecycle /\ row'[s].op = op
         /\ \A t \in Sessions \ {s} : row'[t] = row[t]
<1> DEFINE c == [row[s] EXCEPT !.lifecycle = lifecycle, !.op = op]
<1>1. row' = [row EXCEPT ![s] = c]
  OBVIOUS
<1>2. c \in Row /\ c.lifecycle = lifecycle /\ c.op = op
  BY DEF Row
<1> HIDE DEF c
<1> QED
  BY <1>1, <1>2

\* Activity is all that a report or the passing of days changes on a row.
LEMMA BusyAfter ==
  ASSUME row \in [Sessions -> Row], NEW s \in Sessions, NEW b \in BOOLEAN,
         row' = [row EXCEPT ![s].busy = b]
  PROVE  /\ row' \in [Sessions -> Row]
         /\ \A t \in Sessions : row'[t].lifecycle = row[t].lifecycle /\ row'[t].op = row[t].op
<1> DEFINE c == [row[s] EXCEPT !.busy = b]
<1>1. row' = [row EXCEPT ![s] = c]
  OBVIOUS
<1>2. c \in Row /\ c.lifecycle = row[s].lifecycle /\ c.op = row[s].op
  BY DEF Row
<1> HIDE DEF c
<1> QED
  BY <1>1, <1>2

-----------------------------------------------------------------------------
\* Steps that change neither the registry's claims nor the attempt

\* A report, an idle day, a prompt, a wake or a purge that ends: no claim, no
\* attempt, no alarm and no request changes; no agent comes back and no Sandbox
\* that is gone returns.
LEMMA QuietStep ==
  ASSUME Inv, row' \in [Sessions -> Row],
         \A s \in Sessions : row'[s].lifecycle = row[s].lifecycle /\ row'[s].op = row[s].op,
         agent' \in [Sessions -> {"quiet", "pending", "deleted"}],
         \A s \in Sessions : agent[s] = "deleted" => agent'[s] = "deleted",
         sandbox' \in [Sessions -> {"there", "purging", "gone"}],
         \A s \in Sessions : sandbox[s] = "gone" => sandbox'[s] = "gone",
         failed' \in BOOLEAN, failed => failed',
         UNCHANGED <<alarm, hub, del, sweep, fresh>>
  PROVE  Inv'
<1>1. Shape' /\ DrawnSound'
  BY DEF Inv, Shape, DrawnSound, SweepSound
<1>2. \A s \in Sessions : AttemptOn(s) => AttemptOn(s)'
  BY DEF AttemptOn
<1>3. AttemptSound'
  BY <1>2 DEF Inv, AttemptSound
<1>4. \A s \in Sessions : \A l \in Lifecycles : ClaimedFor(s, l) <=> ClaimedFor(s, l)'
  BY DEF ClaimedFor
<1>5. CheckSound'
  BY <1>4 DEF Inv, CheckSound, Lifecycles
<1>6. ReleasedWhenPurged'
  BY DEF Inv, ReleasedWhenPurged
<1>7. PokedClaimsAttended'
  BY <1>4 DEF Inv, PokedClaimsAttended, ClaimsAttended, Claimed, Lifecycles
<1> QED
  BY <1>1, <1>3, <1>5, <1>6, <1>7 DEF Inv

\* reportToHub and GrowIdle touch a row's activity only.
LEMMA ReportRow ==
  ASSUME Inv, NEW s \in Sessions, ReportOrFail(s)
  PROVE  /\ row' \in [Sessions -> Row]
         /\ \A t \in Sessions : row'[t].lifecycle = row[t].lifecycle /\ row'[t].op = row[t].op
         /\ failed' \in BOOLEAN /\ (failed => failed')
<1>1. row \in [Sessions -> Row] /\ failed \in BOOLEAN
  BY DEF Inv, Shape
<1>2. \/ row' = row \/ row' = [row EXCEPT ![s].busy = TRUE]
  BY DEF ReportOrFail, Report
<1>3. failed' \in BOOLEAN /\ (failed => failed')
  BY <1>1 DEF ReportOrFail
<1> QED
  BY <1>1, <1>2, <1>3, BusyAfter

\* The steps of prompts, of idle days and of the Sandbox.
LEMMA PromptStepsInv ==
  ASSUME Inv, NEW s \in Sessions,
         \/ PromptCheck(s) \/ PromptStep(s) \/ GrowIdle(s) \/ SandboxEnds(s)
  PROVE  Inv'
<1>1. /\ row \in [Sessions -> Row] /\ failed \in BOOLEAN
      /\ agent \in [Sessions -> {"quiet", "pending", "deleted"}]
      /\ sandbox \in [Sessions -> {"there", "purging", "gone"}]
  BY DEF Inv, Shape
<1>2. CASE PromptCheck(s)
  BY <1>1, <1>2, QuietStep DEF PromptCheck, others
<1>3. CASE PromptQueue(s)
  BY <1>1, <1>3, QuietStep DEF PromptQueue
<1>4. CASE PromptReport(s)
  BY <1>1, <1>4, ReportRow, QuietStep DEF PromptReport, others
<1>5. CASE DispatchBegin(s)
  BY <1>1, <1>5, ReportRow, QuietStep DEF DispatchBegin, others
<1>6. CASE DispatchWake(s)
  BY <1>1, <1>6, QuietStep DEF DispatchWake
<1>7. CASE GrowIdle(s)
  BY <1>1, <1>7, BusyAfter, QuietStep DEF GrowIdle, others, requests
<1>8. CASE SandboxEnds(s)
  BY <1>1, <1>8, QuietStep DEF SandboxEnds, requests
<1> QED
  BY <1>2, <1>3, <1>4, <1>5, <1>6, <1>7, <1>8 DEF PromptStep

-----------------------------------------------------------------------------
\* Deleting

\* A row that is claimed for a new operation: the attempt in flight is not for it.
LEMMA ClaimInv ==
  ASSUME Inv, NEW s \in Sessions, NEW lifecycle \in {"deleting", "cleaning"},
         fresh' = fresh + 1,
         row' = [row EXCEPT ![s].lifecycle = lifecycle, ![s].op = fresh + 1],
         del' \in [Sessions -> {"none", "claim", "poke", "close"}],
         \A t \in Sessions : del[t] = "poke" => del'[t] = "poke",
         SweepSound', sweep.claimed => sweep'.claimed,
         lifecycle = "deleting" => del'[s] = "poke",
         lifecycle = "cleaning" => sweep'.claimed,
         UNCHANGED <<alarm, hub, agent, sandbox, failed>>
  PROVE  Inv'
<1>1. row \in [Sessions -> Row] /\ fresh \in Nat /\ fresh + 1 \in Nat
  BY DEF Inv, Shape
<1>2. /\ row' \in [Sessions -> Row]
      /\ row'[s].lifecycle = lifecycle /\ row'[s].op = fresh + 1
      /\ \A t \in Sessions \ {s} : row'[t] = row[t]
  BY <1>1, RowsAfter DEF Lifecycles
<1>3. Shape'
  BY <1>1, <1>2 DEF Inv, Shape
<1>4. DrawnSound'
  <2>1. \A t \in Sessions : row[t].op \in Nat /\ row[t].op <= fresh
    BY <1>1 DEF Inv, DrawnSound, Row
  <2>2. hub.op \in Nat /\ hub.op <= fresh
    BY DEF Inv, DrawnSound, Shape, Hub
  <2> QED
    BY <1>1, <1>2, <2>1, <2>2 DEF DrawnSound
<1>5. AttemptSound'
  <2>1. hub.op # fresh + 1
    <3>1. hub.op \in Nat /\ hub.op <= fresh
      BY DEF Inv, DrawnSound, Shape, Hub
    <3> QED
      BY <1>1, <3>1
  <2>2. \A t \in Sessions : AttemptOn(t) => AttemptOn(t)'
    BY <1>2, <2>1 DEF AttemptOn
  <2> QED
    BY <2>2 DEF Inv, AttemptSound
<1>6. \A t \in Sessions : t # s => \A l \in Lifecycles : ClaimedFor(t, l)' <=> ClaimedFor(t, l)
  BY <1>2 DEF ClaimedFor
<1>7. CheckSound'
  <2>1. CASE lifecycle = "deleting"
    BY <2>1 DEF CheckSound
  <2>2. CASE lifecycle = "cleaning"
    <3>1. \A t \in Sessions : ClaimedFor(t, "deleting")' => ClaimedFor(t, "deleting")
      BY <1>2, <1>6, <2>2 DEF ClaimedFor, Lifecycles
    <3> QED
      BY <3>1 DEF Inv, CheckSound
  <2> QED
    BY <2>1, <2>2
<1>8. ReleasedWhenPurged'
  BY <1>2 DEF Inv, ReleasedWhenPurged
<1>9. PokedClaimsAttended'
  BY DEF PokedClaimsAttended, ClaimsAttended
<1> QED
  BY <1>3, <1>4, <1>5, <1>7, <1>8, <1>9 DEF Inv

\* Requests that move on, and the pokes and failures they leave: no row, no
\* attempt and no other object's end changes.
LEMMA RequestStep ==
  ASSUME Inv,
         agent' \in [Sessions -> {"quiet", "pending", "deleted"}],
         \A s \in Sessions : agent[s] = "deleted" => agent'[s] = "deleted",
         alarm' \in BOOLEAN, alarm => alarm',
         del' \in [Sessions -> {"none", "claim", "poke", "close"}],
         SweepSound',
         failed' \in BOOLEAN, failed => failed',
         failed' \/ alarm' \/ \A s \in Sessions : del[s] = "poke" => del'[s] = "poke",
         failed' \/ alarm' \/ (sweep.claimed => sweep'.claimed),
         UNCHANGED <<row, hub, sandbox, fresh>>
  PROVE  Inv'
<1>1. Shape' /\ DrawnSound'
  BY DEF Inv, Shape, DrawnSound, SweepSound
<1>2. \A s \in Sessions : AttemptOn(s) => AttemptOn(s)'
  BY DEF AttemptOn
<1>3. AttemptSound'
  BY <1>2 DEF Inv, AttemptSound
<1>4. \A s \in Sessions : \A l \in Lifecycles : ClaimedFor(s, l) <=> ClaimedFor(s, l)'
  BY DEF ClaimedFor
<1>5. CheckSound'
  BY <1>4 DEF Inv, CheckSound, Lifecycles
<1>6. ReleasedWhenPurged'
  BY DEF Inv, ReleasedWhenPurged
<1>7. PokedClaimsAttended'
  BY <1>4 DEF Inv, PokedClaimsAttended, ClaimsAttended, Claimed, Lifecycles
<1> QED
  BY <1>1, <1>3, <1>5, <1>6, <1>7 DEF Inv

\* DELETE: asked for, claimed, poked, closed, or dead between two of them.
LEMMA DeleteStepsInv ==
  ASSUME Inv, NEW s \in Sessions,
         DeleteSession(s) \/ DeleteInstance(s) \/ DeleteStep(s) \/ DeleteDies(s)
  PROVE  Inv'
<1>1. /\ row \in [Sessions -> Row] /\ failed \in BOOLEAN /\ alarm \in BOOLEAN
      /\ agent \in [Sessions -> {"quiet", "pending", "deleted"}]
      /\ del \in [Sessions -> {"none", "claim", "poke", "close"}]
      /\ SweepSound
  BY DEF Inv, Shape
<1>0. UNCHANGED sweep => SweepSound'
  BY <1>1 DEF SweepSound
<1>2. CASE DeleteSession(s)
  BY <1>0, <1>1, <1>2, RequestStep DEF DeleteSession
<1>3. CASE DeleteInstance(s)
  BY <1>0, <1>1, <1>3, RequestStep DEF DeleteInstance, others
<1>4. CASE DeleteClaim(s)
  <2>1. CASE row[s].lifecycle = "absent" \/ ClaimedFor(s, "deleting")
    <3>1. del' = [del EXCEPT ![s] = IF row[s].lifecycle = "absent" THEN "none" ELSE "poke"]
          /\ del[s] = "claim" /\ UNCHANGED <<row, fresh, alarm, hub, others, sweep, failed>>
      BY <1>4, <2>1 DEF DeleteClaim
    <3> QED
      BY <1>0, <1>1, <3>1, RequestStep DEF others
  <2>2. CASE ~(row[s].lifecycle = "absent" \/ ClaimedFor(s, "deleting"))
    <3>1. /\ fresh' = fresh + 1
          /\ row' = [row EXCEPT ![s].lifecycle = "deleting", ![s].op = fresh + 1]
          /\ del' = [del EXCEPT ![s] = "poke"]
          /\ UNCHANGED <<alarm, hub, others, sweep, failed>>
      BY <1>4, <2>2 DEF DeleteClaim
    <3> QED
      BY <1>0, <1>1, <3>1, ClaimInv DEF others
  <2> QED
    BY <2>1, <2>2
<1>5. CASE DeletePoke(s)
  BY <1>0, <1>1, <1>5, RequestStep DEF DeletePoke, others
<1>6. CASE DeleteClose(s)
  BY <1>0, <1>1, <1>6, RequestStep DEF DeleteClose
<1>7. CASE DeleteDies(s)
  BY <1>0, <1>1, <1>7, RequestStep DEF DeleteDies, others
<1> QED
  BY <1>2, <1>3, <1>4, <1>5, <1>6, <1>7 DEF DeleteStep

\* The sweep: a scan, claims, closed coordinators, one poke at the end.
LEMMA SweepStepsInv ==
  ASSUME Inv, SweepScan \/ SweepStep \/ SweepDies
  PROVE  Inv'
<1>1. /\ row \in [Sessions -> Row] /\ failed \in BOOLEAN /\ alarm \in BOOLEAN
      /\ agent \in [Sessions -> {"quiet", "pending", "deleted"}]
      /\ del \in [Sessions -> {"none", "claim", "poke", "close"}]
      /\ SweepSound /\ sweep \in Sweep
  BY DEF Inv, Shape, SweepSound
<1>2. NoSweep \in Sweep /\ NoSweep.claimed = FALSE
  BY DEF NoSweep, Sweep
<1>3. CASE SweepScan
  <2> DEFINE w == [NoSweep EXCEPT !.at = "loop", !.todo = {s \in Sessions : CleanupEligible(s)}]
  <2>1. sweep' = w /\ sweep.at = "none"
    BY <1>3 DEF SweepScan
  <2>2. w \in Sweep /\ w.at = "loop"
    BY <1>2 DEF Sweep
  <2> QED
    BY <1>1, <1>3, <2>1, <2>2, RequestStep DEF SweepScan, others, SweepSound
<1>4. CASE SweepClose
  <2> DEFINE w == [sweep EXCEPT !.at = "loop", !.id = <<>>]
  <2>1. sweep' = w
    BY <1>4 DEF SweepClose
  <2>2. w \in Sweep /\ w.at = "loop" /\ w.claimed = sweep.claimed
    <3>1. <<>> \in Seq(Sessions)
      OBVIOUS
    <3> QED
      BY <1>1, <3>1, Zenon DEF Sweep
  <2> QED
    BY <1>1, <1>4, <2>1, <2>2, RequestStep DEF SweepClose, SweepSound
<1>5. CASE SweepPoke
  BY <1>1, <1>2, <1>5, RequestStep DEF SweepPoke, others, SweepSound, Sweep
<1>6. CASE SweepDies
  BY <1>1, <1>2, <1>6, RequestStep DEF SweepDies, others, SweepSound
<1>7. ASSUME NEW s \in Sessions, SweepClaim(s)
      PROVE  Inv'
  <2>1. CASE CleanupEligible(s)
    <3> DEFINE w == [sweep EXCEPT !.todo = @ \ {s}, !.at = "close", !.claimed = TRUE, !.id = <<s>>]
    <3>1. sweep' = w
      BY <1>7, <2>1 DEF SweepClaim
    <3>2. <<s>> \in Seq(Sessions) /\ sweep.todo \ {s} \in SUBSET Sessions
      BY <1>1 DEF Sweep
    <3>3. w \in Sweep /\ w.at = "close" /\ w.claimed = TRUE
      BY <1>1, <3>2, Zenon DEF Sweep
    <3> QED
      BY <1>1, <1>7, <2>1, <3>1, <3>3, ClaimInv DEF SweepClaim, others, SweepSound
  <2>2. CASE ~CleanupEligible(s)
    <3> DEFINE w == [sweep EXCEPT !.todo = @ \ {s}]
    <3>1. sweep' = w
      BY <1>7, <2>2 DEF SweepClaim
    <3>2. w \in Sweep /\ w.at = sweep.at /\ w.claimed = sweep.claimed
      BY <1>1 DEF Sweep
    <3> QED
      BY <1>1, <1>7, <2>2, <3>1, <3>2, RequestStep DEF SweepClaim, others, SweepSound
  <2> QED
    BY <2>1, <2>2
<1> QED
  BY <1>3, <1>4, <1>5, <1>6, <1>7 DEF SweepStep

-----------------------------------------------------------------------------
\* The Hub's alarm handler

\* While the handler is at work no claim is stranded; what is left to see is
\* its attempt and the rows it lets go of.
LEMMA HubAtWork ==
  ASSUME Inv, hub' \in Hub, hub'.at \notin {"none", "checkClean"}, hub'.op <= fresh, AttemptSound',
         row' \in [Sessions -> Row], \A s \in Sessions : row'[s].op <= fresh,
         ReleasedWhenPurged',
         agent' \in [Sessions -> {"quiet", "pending", "deleted"}],
         sandbox' \in [Sessions -> {"there", "purging", "gone"}],
         alarm' \in BOOLEAN, UNCHANGED <<del, sweep, fresh, failed>>
  PROVE  Inv'
<1>1. Shape' /\ DrawnSound'
  BY DEF Inv, Shape, DrawnSound, SweepSound
<1>2. CheckSound' /\ PokedClaimsAttended'
  BY DEF CheckSound, PokedClaimsAttended, ClaimsAttended
<1> QED
  BY <1>1, <1>2 DEF Inv

\* Moving on keeps the attempt's session, kind and operation (HubGoto).
LEMMA HubGotoType ==
  ASSUME Inv, NEW from \in AttemptStages, NEW to \in AttemptStages, HubGoto(from, to)
  PROVE  /\ hub.at = from /\ hub' \in Hub /\ hub'.at = to
         /\ hub'.kind = hub.kind /\ hub'.id = hub.id /\ hub'.op = hub.op /\ hub'.op <= fresh
  BY DEF Inv, Shape, DrawnSound, Hub, HubGoto

\* A step of the attempt on a session that touches no row.
LEMMA AttemptStep ==
  ASSUME Inv, NEW from \in Attempting, NEW to \in Attempting \cup {"check"}, HubGoto(from, to),
         NEW s \in Sessions, hub.id = <<s>>, to \in Attempting => AttemptOn(s)',
         agent' \in [Sessions -> {"quiet", "pending", "deleted"}],
         \A t \in Sessions : agent[t] = "deleted" => agent'[t] = "deleted",
         sandbox' \in [Sessions -> {"there", "purging", "gone"}],
         \A t \in Sessions : sandbox[t] = "gone" => sandbox'[t] = "gone",
         UNCHANGED <<row, alarm, del, sweep, fresh, failed>>
  PROVE  Inv'
<1>1. /\ hub' \in Hub /\ hub'.at = to /\ hub'.id = hub.id /\ hub'.op <= fresh
      /\ hub'.at \notin {"none", "checkClean"}
  BY HubGotoType DEF Attempting, AttemptStages, Resting
<1>2. AttemptSound'
  BY <1>1 DEF AttemptSound, Attempting
<1>3. ReleasedWhenPurged'
  BY DEF Inv, ReleasedWhenPurged
<1>4. /\ row' \in [Sessions -> Row] /\ alarm' \in BOOLEAN /\ \A t \in Sessions : row'[t].op <= fresh
  BY DEF Inv, Shape, DrawnSound
<1> QED
  BY <1>1, <1>2, <1>3, <1>4, HubAtWork

\* The alarm goes off; an alarm that is being handled is no longer set.
LEMMA HubFireInv ==
  ASSUME Inv, HubFire
  PROVE  Inv'
<1>1. /\ hub' \in Hub /\ hub'.at = "next" /\ hub'.op <= fresh
  BY HubGotoType DEF HubFire, AttemptStages, Resting
<1>2. AttemptSound'
  BY <1>1 DEF AttemptSound, Attempting
<1>3. ReleasedWhenPurged'
  BY DEF Inv, ReleasedWhenPurged, HubFire, others
<1>4. /\ row' \in [Sessions -> Row] /\ \A s \in Sessions : row'[s].op <= fresh
      /\ agent' \in [Sessions -> {"quiet", "pending", "deleted"}]
      /\ sandbox' \in [Sessions -> {"there", "purging", "gone"}]
      /\ UNCHANGED <<del, sweep, fresh, failed>> /\ alarm' = FALSE
  BY DEF Inv, Shape, DrawnSound, HubFire, others, requests
<1> QED
  BY <1>1, <1>2, <1>3, <1>4, HubAtWork

\* The oldest claim becomes the attempt, or there is none of this kind.
LEMMA HubTakes ==
  ASSUME Inv, UNCHANGED <<row, alarm, others, requests, fresh, failed>>,
         hub' \in Hub, hub'.at \notin {"none", "checkClean"}, hub'.op <= fresh,
         hub'.at \in Attempting => \E s \in Sessions : hub'.id = <<s>> /\ AttemptOn(s)'
  PROVE  Inv'
<1>1. AttemptSound'
  BY DEF AttemptSound
<1>2. ReleasedWhenPurged'
  BY DEF Inv, ReleasedWhenPurged, others
<1>3. /\ row' \in [Sessions -> Row] /\ \A s \in Sessions : row'[s].op <= fresh
      /\ agent' \in [Sessions -> {"quiet", "pending", "deleted"}]
      /\ sandbox' \in [Sessions -> {"there", "purging", "gone"}]
      /\ UNCHANGED <<del, sweep, fresh, failed>> /\ alarm' \in BOOLEAN
  BY DEF Inv, Shape, DrawnSound, others, requests
<1> QED
  BY <1>1, <1>2, <1>3, HubAtWork

\* Resting, the handler has no attempt.
LEMMA NoHubType ==
  ASSUME Inv, NEW at \in Resting, hub' = [NoHub EXCEPT !.at = at]
  PROVE  hub' \in Hub /\ hub'.at = at /\ hub'.op <= fresh /\ hub'.at \notin Attempting
<1>1. 0 <= fresh /\ 0 \in Nat /\ <<>> \in Seq(Sessions)
  BY DEF Inv, Shape
<1>2. hub' = [at |-> at, kind |-> "none", id |-> <<>>, op |-> 0]
  BY DEF NoHub, NoOp
<1>3. hub'.at = at /\ hub'.op = 0
  BY <1>2
<1>4. hub' \in Hub
  <2>1. at \in AttemptStages /\ "none" \in {"none", "delete", "clean"}
    BY DEF AttemptStages
  <2>2. [at |-> at, kind |-> "none", id |-> <<>>, op |-> 0] \in Hub
    BY <1>1, <2>1, Zenon DEF Hub
  <2> QED
    BY <1>2, <2>2
<1> QED
  BY <1>1, <1>3, <1>4 DEF Attempting, Resting

\* nextPendingDeletion: a claimed row and its operation.
LEMMA HubNextDeletionInv ==
  ASSUME Inv, HubNextDeletion
  PROVE  Inv'
<1>1. UNCHANGED <<row, alarm, others, requests, fresh, failed>>
  BY DEF HubNextDeletion
<1>2. CASE hub' = [NoHub EXCEPT !.at = "nextClean"]
  BY <1>1, <1>2, NoHubType, HubTakes DEF Resting
<1>3. ASSUME NEW s \in Sessions, ClaimedFor(s, "deleting"),
             hub' = [at |-> "close", kind |-> "delete", id |-> <<s>>, op |-> row[s].op]
      PROVE  Inv'
  <2>1. row[s].op \in Nat /\ row[s].op <= fresh /\ row[s].op # NoOp /\ <<s>> \in Seq(Sessions)
    BY <1>3 DEF Inv, Shape, DrawnSound, Row, ClaimedFor
  <2>2. hub'.at = "close" /\ hub'.kind = "delete" /\ hub'.id = <<s>> /\ hub'.op = row[s].op
    BY <1>3
  <2>3. hub' \in Hub
    BY <1>3, <2>1 DEF Hub, AttemptStages, Attempting
  <2>4. AttemptOn(s)'
    BY <2>1, <2>2 DEF AttemptOn
  <2> QED
    BY <1>1, <2>1, <2>2, <2>3, <2>4, HubTakes
<1> QED
  BY <1>2, <1>3 DEF HubNextDeletion, NextPending, Pending

\* nextPendingCleanup: a row claimed for cleaning is not claimed for deletion.
LEMMA HubNextCleanupInv ==
  ASSUME Inv, HubNextCleanup
  PROVE  Inv'
<1>1. UNCHANGED <<row, alarm, others, requests, fresh, failed>>
  BY DEF HubNextCleanup
<1>2. CASE hub' = [NoHub EXCEPT !.at = "check"]
  BY <1>1, <1>2, NoHubType, HubTakes DEF Resting
<1>3. ASSUME NEW s \in Sessions, ClaimedFor(s, "cleaning"),
             hub' = [at |-> "agent", kind |-> "clean", id |-> <<s>>, op |-> row[s].op]
      PROVE  Inv'
  <2>1. /\ row[s].op \in Nat /\ row[s].op <= fresh /\ row[s].op # NoOp /\ <<s>> \in Seq(Sessions)
        /\ row[s].lifecycle = "cleaning"
    BY <1>3 DEF Inv, Shape, DrawnSound, Row, ClaimedFor
  <2>2. hub'.at = "agent" /\ hub'.kind = "clean" /\ hub'.id = <<s>> /\ hub'.op = row[s].op
    BY <1>3
  <2>3. hub' \in Hub
    BY <1>3, <2>1 DEF Hub, AttemptStages, Attempting
  <2>4. AttemptOn(s)'
    BY <1>1, <2>1, <2>2 DEF AttemptOn
  <2> QED
    BY <1>1, <2>1, <2>2, <2>3, <2>4, HubTakes
<1> QED
  BY <1>2, <1>3 DEF HubNextCleanup, NextPending, Pending

\* The calls of an attempt: the agent is cleared, the coordinator closed, the
\* Sandbox purged, and marked only when it is gone.
LEMMA AttemptCallsInv ==
  ASSUME Inv,
         \/ HubClearAgent \/ HubClose \/ HubSend \/ HubPurged \/ HubTerminationPending
         \/ HubTimeout \/ HubMarkDeleted \/ HubThrow \/ HubDefer
  PROVE  Inv'
<1>1. /\ agent \in [Sessions -> {"quiet", "pending", "deleted"}]
      /\ sandbox \in [Sessions -> {"there", "purging", "gone"}]
  BY DEF Inv, Shape
<1>2. hub.at \in Attempting
  BY DEF HubClearAgent, HubClose, HubSend, HubPurged, HubTerminationPending, HubTimeout,
         HubMarkDeleted, HubThrow, HubDefer, HubGoto, Attempting
<1>3. PICK s \in Sessions : hub.id = <<s>> /\ AttemptOn(s)
  BY <1>2 DEF Inv, AttemptSound
<1>4. hub.id[1] = s
  BY <1>3
<1>5. ASSUME NEW from \in Attempting, NEW to \in Attempting, HubGoto(from, to)
      PROVE  /\ hub.at = from /\ hub'.at = to /\ hub'.kind = hub.kind /\ hub'.op = hub.op
             /\ hub'.id = hub.id
  BY <1>5, HubGotoType DEF AttemptStages
<1>6. CASE HubClearAgent
  <2>1. HubGoto("agent", "close") /\ agent' = [agent EXCEPT ![s] = "deleted"]
        /\ UNCHANGED <<row, alarm, sandbox, requests, fresh, failed>>
    BY <1>4, <1>6 DEF HubClearAgent
  <2>2. AttemptOn(s)'
    BY <1>1, <1>3, <1>5, <2>1 DEF AttemptOn, Attempting
  <2> QED
    BY <1>1, <1>3, <2>1, <2>2, AttemptStep DEF Attempting, requests
<1>7. CASE HubClose
  <2>1. HubGoto("close", "send") /\ UNCHANGED <<row, alarm, agent, sandbox, requests, fresh, failed>>
    BY <1>7 DEF HubClose
  <2>2. AttemptOn(s)'
    BY <1>3, <1>5, <2>1 DEF AttemptOn, Attempting
  <2> QED
    BY <1>1, <1>3, <2>1, <2>2, AttemptStep DEF Attempting, requests
<1>8. CASE HubSend
  <2>1. /\ HubGoto("send", "purge")
        /\ sandbox' = [sandbox EXCEPT ![s] = IF @ = "gone" THEN @ ELSE "purging"]
        /\ UNCHANGED <<row, alarm, agent, requests, fresh, failed>>
    BY <1>4, <1>8 DEF HubSend
  <2>2. AttemptOn(s)'
    BY <1>3, <1>5, <2>1 DEF AttemptOn, Attempting
  <2> QED
    BY <1>1, <1>3, <2>1, <2>2, AttemptStep DEF Attempting, requests
<1>9. CASE HubPurged
  <2>1. /\ HubGoto("purge", "mark") /\ sandbox[s] = "gone"
        /\ UNCHANGED <<row, alarm, agent, sandbox, requests, fresh, failed>>
    BY <1>4, <1>9 DEF HubPurged, others
  <2>2. AttemptOn(s)'
    BY <1>3, <1>5, <2>1 DEF AttemptOn, Attempting
  <2> QED
    BY <1>1, <1>3, <2>1, <2>2, AttemptStep DEF Attempting, requests
<1>10. CASE HubTerminationPending \/ HubTimeout
  <2>1. HubGoto("purge", "defer") /\ UNCHANGED <<row, alarm, agent, sandbox, requests, fresh, failed>>
    BY <1>10 DEF HubTerminationPending, HubTimeout, others
  <2>2. AttemptOn(s)'
    BY <1>3, <1>5, <2>1 DEF AttemptOn, Attempting
  <2> QED
    BY <1>1, <1>3, <2>1, <2>2, AttemptStep DEF Attempting, requests
<1>11. CASE HubMarkDeleted
  <2>1. HubGoto("mark", "finish") /\ UNCHANGED <<row, alarm, agent, sandbox, requests, fresh, failed>>
    BY <1>11 DEF HubMarkDeleted
  <2>2. AttemptOn(s)'
    BY <1>3, <1>5, <2>1 DEF AttemptOn, Attempting
  <2> QED
    BY <1>1, <1>3, <2>1, <2>2, AttemptStep DEF Attempting, requests
<1>12. CASE HubThrow
  <2>1. PICK from \in {"agent", "close", "send", "purge", "mark", "finish"} : HubGoto(from, "fail")
    BY <1>12 DEF HubThrow
  <2>2. UNCHANGED <<row, alarm, agent, sandbox, requests, fresh, failed>>
    BY <1>12 DEF HubThrow, others
  <2>3. AttemptOn(s)'
    BY <1>3, <1>5, <2>1, <2>2 DEF AttemptOn, Attempting
  <2> QED
    BY <1>1, <1>3, <2>1, <2>2, <2>3, AttemptStep DEF Attempting, requests
<1>13. CASE HubDefer
  <2>1. HubGoto("defer", "check") /\ UNCHANGED <<row, alarm, agent, sandbox, requests, fresh, failed>>
    BY <1>13 DEF HubDefer, others
  <2> QED
    BY <1>1, <1>3, <2>1, AttemptStep DEF Attempting, requests
<1> QED
  BY <1>6, <1>7, <1>8, <1>9, <1>10, <1>11, <1>12, <1>13

\* finishDelete and finishClean let go of the row only for the attempt's own
\* operation, and only after the Sandbox was gone.
LEMMA HubFinishInv ==
  ASSUME Inv, HubFinish
  PROVE  Inv'
<1>1. /\ hub.at = "finish" /\ hub' \in Hub /\ hub'.at = "check" /\ hub'.op <= fresh
  BY HubGotoType DEF HubFinish, AttemptStages, Attempting, Resting
<1>2. PICK s \in Sessions : hub.id = <<s>> /\ AttemptOn(s)
  BY <1>1 DEF Inv, AttemptSound, Attempting
<1>3. /\ hub.id[1] = s /\ sandbox[s] = "gone"
      /\ hub.kind = "clean" => agent[s] = "deleted"
  BY <1>1, <1>2 DEF AttemptOn
<1>4. UNCHANGED <<alarm, agent, sandbox, del, sweep, fresh, failed>>
  BY DEF HubFinish, others, requests
<1>5. /\ row \in [Sessions -> Row] /\ \A t \in Sessions : row[t].op <= fresh
      /\ 0 <= fresh /\ alarm \in BOOLEAN
      /\ agent \in [Sessions -> {"quiet", "pending", "deleted"}]
      /\ sandbox \in [Sessions -> {"there", "purging", "gone"}]
  BY DEF Inv, Shape, DrawnSound
<1>6. CASE row' = row
  <2>1. ReleasedWhenPurged' /\ AttemptSound'
    BY <1>1, <1>4, <1>6 DEF Inv, ReleasedWhenPurged, AttemptSound, Attempting
  <2> QED
    BY <1>1, <1>4, <1>5, <1>6, <2>1, HubAtWork
<1>7. ASSUME NEW lifecycle \in {"absent", "cleaned"},
             lifecycle = "cleaned" => agent[s] = "deleted",
             row' = [row EXCEPT ![s].lifecycle = lifecycle, ![s].op = NoOp]
      PROVE  Inv'
  <2>1. /\ row' \in [Sessions -> Row]
        /\ row'[s].lifecycle = lifecycle /\ row'[s].op = NoOp
        /\ \A t \in Sessions \ {s} : row'[t] = row[t]
    BY <1>5, <1>7, NoOpType, RowsAfter DEF Lifecycles
  <2>2. ReleasedWhenPurged' /\ AttemptSound'
    BY <1>1, <1>3, <1>4, <1>7, <2>1 DEF Inv, ReleasedWhenPurged, AttemptSound, Attempting
  <2>3. \A t \in Sessions : row'[t].op <= fresh
    BY <1>5, <2>1, NoOpType
  <2> QED
    BY <1>1, <1>4, <1>5, <2>1, <2>2, <2>3, HubAtWork
<1>8. \/ row' = row
      \/ hub.kind = "delete" /\ row' = [row EXCEPT ![s].lifecycle = "absent", ![s].op = NoOp]
      \/ hub.kind = "clean" /\ row' = [row EXCEPT ![s].lifecycle = "cleaned", ![s].op = NoOp]
  BY <1>2, <1>3 DEF HubFinish, AttemptOn
<1> QED
  BY <1>3, <1>6, <1>7, <1>8

\* markDeleteFailed and markCleanFailed leave the operation id on the row.
LEMMA HubFailInv ==
  ASSUME Inv, HubFail
  PROVE  Inv'
<1>1. /\ hub.at = "fail" /\ hub' \in Hub /\ hub'.at = "check" /\ hub'.op <= fresh
  BY HubGotoType DEF HubFail, AttemptStages, Attempting, Resting
<1>2. PICK s \in Sessions : hub.id = <<s>> /\ AttemptOn(s)
  BY <1>1 DEF Inv, AttemptSound, Attempting
<1>3. UNCHANGED <<alarm, agent, sandbox, del, sweep, fresh, failed>>
  BY DEF HubFail, others, requests
<1>4. /\ row \in [Sessions -> Row] /\ \A t \in Sessions : row[t].op <= fresh
      /\ alarm \in BOOLEAN
      /\ agent \in [Sessions -> {"quiet", "pending", "deleted"}]
      /\ sandbox \in [Sessions -> {"there", "purging", "gone"}]
  BY DEF Inv, Shape, DrawnSound
<1>5. CASE row' = row
  <2>1. ReleasedWhenPurged' /\ AttemptSound'
    BY <1>1, <1>3, <1>5 DEF Inv, ReleasedWhenPurged, AttemptSound, Attempting
  <2> QED
    BY <1>1, <1>3, <1>4, <1>5, <2>1, HubAtWork
<1>6. ASSUME NEW lifecycle \in {"delete_failed", "clean_failed"},
             row' = [row EXCEPT ![s].lifecycle = lifecycle]
      PROVE  Inv'
  <2> DEFINE c == [row[s] EXCEPT !.lifecycle = lifecycle]
  <2>1. row' = [row EXCEPT ![s] = c]
    BY <1>6
  <2>2. c \in Row /\ c.lifecycle = lifecycle /\ c.op = row[s].op
    BY <1>4 DEF Row, Lifecycles
  <2> HIDE DEF c
  <2>3. /\ row' \in [Sessions -> Row] /\ row'[s].lifecycle = lifecycle
        /\ \A t \in Sessions : row'[t].op = row[t].op
        /\ \A t \in Sessions \ {s} : row'[t] = row[t]
    BY <1>4, <2>1, <2>2
  <2>4. ReleasedWhenPurged' /\ AttemptSound'
    BY <1>1, <1>3, <1>6, <2>3 DEF Inv, ReleasedWhenPurged, AttemptSound, Attempting
  <2> QED
    BY <1>1, <1>3, <1>4, <2>3, <2>4, HubAtWork
<1>7. \/ row' = row
      \/ row' = [row EXCEPT ![s].lifecycle = "delete_failed"]
      \/ row' = [row EXCEPT ![s].lifecycle = "clean_failed"]
  <2>1. hub.id[1] = s
    BY <1>2
  <2> QED
    BY <2>1 DEF HubFail
<1> QED
  BY <1>5, <1>6, <1>7

\* At rest with its alarm set, the Hub attends whatever is claimed.
LEMMA HubRests ==
  ASSUME Inv, UNCHANGED <<row, agent, sandbox, del, sweep, fresh, failed>>,
         hub' \in Hub, hub'.at = "none", hub'.op <= fresh, alarm' = TRUE
  PROVE  Inv'
<1>1. Shape' /\ DrawnSound'
  BY DEF Inv, Shape, DrawnSound, SweepSound
<1>2. AttemptSound' /\ ReleasedWhenPurged' /\ CheckSound' /\ PokedClaimsAttended'
  BY DEF Inv, AttemptSound, Attempting, ReleasedWhenPurged, CheckSound, PokedClaimsAttended,
         ClaimsAttended
<1> QED
  BY <1>1, <1>2 DEF Inv

\* hasPendingDeletion: only without a claimed deletion does the handler look on.
LEMMA HubCheckInv ==
  ASSUME Inv, HubCheck
  PROVE  Inv'
<1>1. UNCHANGED <<row, agent, sandbox, del, sweep, fresh, failed>>
  BY DEF HubCheck, others, requests
<1>2. CASE Pending("deleting") # {}
  <2>1. alarm' = TRUE /\ hub' = NoHub
    BY <1>2 DEF HubCheck
  <2>2. hub' = [NoHub EXCEPT !.at = "none"]
    BY <2>1 DEF NoHub
  <2>3. hub' \in Hub /\ hub'.at = "none" /\ hub'.op <= fresh /\ hub'.at \notin Attempting
    BY <2>2, NoHubType DEF Resting
  <2> QED
    BY <1>1, <2>1, <2>3, HubRests
<1>3. CASE Pending("deleting") = {}
  <2>1. alarm' = alarm /\ hub' = [NoHub EXCEPT !.at = "checkClean"]
    BY <1>3 DEF HubCheck
  <2>2. hub' \in Hub /\ hub'.at = "checkClean" /\ hub'.op <= fresh /\ hub'.at \notin Attempting
    BY <2>1, NoHubType DEF Resting
  <2>3. ~\E s \in Sessions : ClaimedFor(s, "deleting")'
    BY <1>1, <1>3 DEF Pending, ClaimedFor
  <2>4. CheckSound' /\ PokedClaimsAttended'
    BY <2>2, <2>3 DEF CheckSound, PokedClaimsAttended, ClaimsAttended
  <2>5. Shape' /\ DrawnSound'
    BY <1>1, <2>1, <2>2 DEF Inv, Shape, DrawnSound, SweepSound
  <2>6. AttemptSound' /\ ReleasedWhenPurged'
    BY <1>1, <2>2 DEF Inv, AttemptSound, ReleasedWhenPurged
  <2> QED
    BY <2>4, <2>5, <2>6 DEF Inv
<1> QED
  BY <1>2, <1>3

\* hasPendingCleanup: the handler ends over no claim without its alarm set.
LEMMA HubCheckCleanupInv ==
  ASSUME Inv, HubCheckCleanup
  PROVE  Inv'
<1>1. /\ UNCHANGED <<row, agent, sandbox, del, sweep, fresh, failed>>
      /\ hub.at = "checkClean" /\ hub' = NoHub
      /\ alarm' = (alarm \/ Pending("cleaning") # {})
  BY DEF HubCheckCleanup, others, requests
<1>2. hub' \in Hub /\ hub'.at = "none" /\ hub'.op <= fresh /\ hub'.at \notin Attempting
  <2>1. hub' = [NoHub EXCEPT !.at = "none"]
    BY <1>1 DEF NoHub
  <2> QED
    BY <2>1, NoHubType DEF Resting
<1>3. alarm \in BOOLEAN /\ alarm' \in BOOLEAN
  BY <1>1 DEF Inv, Shape
<1>4. CASE alarm'
  BY <1>1, <1>2, <1>3, <1>4, HubRests
<1>5. CASE ~alarm'
  <2>1. ~alarm /\ ~\E s \in Sessions : ClaimedFor(s, "cleaning")
    BY <1>1, <1>3, <1>5 DEF Pending
  <2>2. ~failed /\ (\E s \in Sessions : ClaimedFor(s, "deleting")) => \E s \in Sessions : del[s] = "poke"
    BY <1>1, <2>1 DEF Inv, CheckSound
  <2>3. PokedClaimsAttended'
    BY <1>1, <2>1, <2>2 DEF PokedClaimsAttended, ClaimsAttended, Claimed, ClaimedFor
  <2>4. Shape' /\ DrawnSound'
    BY <1>1, <1>2, <1>3 DEF Inv, Shape, DrawnSound, SweepSound
  <2>5. AttemptSound' /\ ReleasedWhenPurged' /\ CheckSound'
    BY <1>1, <1>2 DEF Inv, AttemptSound, ReleasedWhenPurged, CheckSound
  <2> QED
    BY <2>3, <2>4, <2>5 DEF Inv
<1> QED
  BY <1>4, <1>5

\* An interrupted handler is delivered its alarm again.
LEMMA HubCrashInv ==
  ASSUME Inv, HubCrash
  PROVE  Inv'
<1>1. UNCHANGED <<row, agent, sandbox, del, sweep, fresh, failed>> /\ alarm' = TRUE /\ hub' = NoHub
  BY DEF HubCrash, others, requests
<1>2. hub' = [NoHub EXCEPT !.at = "none"]
  BY <1>1 DEF NoHub
<1>3. hub' \in Hub /\ hub'.at = "none" /\ hub'.op <= fresh /\ hub'.at \notin Attempting
  BY <1>2, NoHubType DEF Resting
<1> QED
  BY <1>1, <1>3, HubRests

-----------------------------------------------------------------------------
\* The whole

\* Every session starts ready and unclaimed, its Sandbox there.
LEMMA InitInv == Init => Inv
<1> SUFFICES ASSUME Init PROVE Inv
  OBVIOUS
<1>1. /\ row = [s \in Sessions |-> [lifecycle |-> "ready", op |-> NoOp, busy |-> TRUE]]
      /\ alarm = FALSE /\ hub = NoHub
      /\ agent = [s \in Sessions |-> IF s \in Initialized THEN "quiet" ELSE "pending"]
      /\ sandbox = [s \in Sessions |-> "there"] /\ del = [s \in Sessions |-> "none"]
      /\ sweep = NoSweep /\ fresh = 0 /\ failed = FALSE
  BY Zenon DEF Init
<1>2. \A s \in Sessions : row[s] \in Row /\ row[s].lifecycle = "ready" /\ row[s].op = 0
  BY <1>1 DEF Row, Lifecycles, NoOp
<1>3. hub \in Hub /\ hub.at = "none" /\ hub.op = 0
  <2>1. hub = [at |-> "none", kind |-> "none", id |-> <<>>, op |-> 0]
    BY <1>1 DEF NoHub, NoOp
  <2>2. "none" \in AttemptStages /\ <<>> \in Seq(Sessions) /\ 0 \in Nat
    BY DEF AttemptStages, Resting
  <2> QED
    BY <2>1, <2>2, Zenon DEF Hub
<1>4. SweepSound
  <2>1. <<>> \in Seq(Sessions) /\ {} \in SUBSET Sessions
    OBVIOUS
  <2> QED
    BY <1>1, <2>1 DEF SweepSound, NoSweep, Sweep
<1>5. Shape
  BY <1>1, <1>2, <1>3, <1>4 DEF Shape
<1>6. DrawnSound /\ AttemptSound /\ CheckSound /\ ReleasedWhenPurged
  BY <1>1, <1>2, <1>3 DEF DrawnSound, AttemptSound, Attempting, CheckSound, ReleasedWhenPurged
<1>7. PokedClaimsAttended
  BY <1>2 DEF PokedClaimsAttended, ClaimsAttended, Claimed, ClaimedFor
<1> QED
  BY <1>5, <1>6, <1>7 DEF Inv

\* A step of anyone preserves the invariant.
LEMMA NextInv == Inv /\ [Next]_vars => Inv'
<1> SUFFICES ASSUME Inv, [Next]_vars PROVE Inv'
  OBVIOUS
<1>1. ASSUME NEW s \in Sessions,
             \/ DeleteSession(s) \/ DeleteInstance(s) \/ DeleteStep(s) \/ DeleteDies(s)
             \/ PromptCheck(s) \/ PromptStep(s) \/ GrowIdle(s) \/ SandboxEnds(s)
      PROVE  Inv'
  BY <1>1, DeleteStepsInv, PromptStepsInv
<1>2. CASE SweepScan \/ SweepStep \/ SweepDies
  BY <1>2, SweepStepsInv
<1>3. CASE HubStep \/ HubThrow \/ HubCrash
  BY <1>3, HubFireInv, HubNextDeletionInv, HubNextCleanupInv, AttemptCallsInv, HubFinishInv,
     HubFailInv, HubCheckInv, HubCheckCleanupInv, HubCrashInv DEF HubStep
<1>4. CASE UNCHANGED vars
  <2>1. UNCHANGED <<row, agent, sandbox, failed, alarm, hub, del, sweep, fresh>>
    BY <1>4 DEF vars
  <2> QED
    BY <2>1, QuietStep DEF Inv, Shape
<1> QED
  BY <1>1, <1>2, <1>3, <1>4 DEF Next

\* The invariant holds in every reachable state.
THEOREM InvHolds == Spec => []Inv
  BY InitInv, NextInv, PTL DEF Spec

\* A row disappears or is marked cleaned only when its Sandbox is gone, and a
\* cleaned session has no agent left (finishDelete, finishClean after purgeInstance
\* or cleanInstance), for any interleaving of deletions, sweeps and prompts.
THEOREM ReleasedWhenPurgedHolds == Spec => []ReleasedWhenPurged
<1>1. Inv => ReleasedWhenPurged
  BY DEF Inv
<1> QED
  BY <1>1, InvHolds, PTL

\* No claim is stranded: the Hub rests over no claimed row without its alarm set
\* or a poke to come (hasPendingDeletion, hasPendingCleanup, Hub.poke).
THEOREM PokedClaimsAttendedHolds == Spec => []PokedClaimsAttended
<1>1. Inv => PokedClaimsAttended
  BY DEF Inv
<1> QED
  BY <1>1, InvHolds, PTL

\* Rows that no step of the Hub ends keep the lifecycle 'deleting'.
LEMMA OnlyHubEndsDeletion ==
  ASSUME Inv, [Next]_vars, NEW s \in Sessions,
         row[s].lifecycle = "deleting", row'[s].lifecycle # "deleting"
  PROVE  HubFinish \/ HubFail
<1>1. row \in [Sessions -> Row]
  BY DEF Inv, Shape
<1>2. ASSUME row' = row
      PROVE  FALSE
  BY <1>2
<1>3. ASSUME NEW t \in Sessions,
             \/ DeleteSession(t) \/ DeleteInstance(t) \/ DeletePoke(t) \/ DeleteClose(t)
             \/ DeleteDies(t) \/ PromptCheck(t) \/ PromptQueue(t) \/ DispatchWake(t) \/ SandboxEnds(t)
      PROVE  FALSE
  BY <1>3, <1>2 DEF DeleteSession, DeleteInstance, DeletePoke, DeleteClose, DeleteDies,
     PromptCheck, PromptQueue, DispatchWake, SandboxEnds
<1>4. ASSUME NEW t \in Sessions, DeleteClaim(t)
      PROVE  FALSE
  <2>1. \/ row' = row
        \/ fresh + 1 \in Nat /\ row' = [row EXCEPT ![t].lifecycle = "deleting", ![t].op = fresh + 1]
    BY <1>4 DEF DeleteClaim, Inv, Shape
  <2> QED
    BY <1>1, <1>2, <2>1, RowsAfter DEF Lifecycles
<1>5. ASSUME NEW t \in Sessions, PromptReport(t) \/ DispatchBegin(t) \/ GrowIdle(t)
      PROVE  FALSE
  <2>1. \A u \in Sessions : row'[u].lifecycle = row[u].lifecycle
    BY <1>1, <1>5, ReportRow, BusyAfter DEF PromptReport, DispatchBegin, GrowIdle
  <2> QED
    BY <2>1
<1>6. ASSUME NEW t \in Sessions, SweepClaim(t)
      PROVE  FALSE
  <2>1. CASE CleanupEligible(t)
    <3>1. /\ t # s /\ fresh + 1 \in Nat
          /\ row' = [row EXCEPT ![t].lifecycle = "cleaning", ![t].op = fresh + 1]
      BY <1>6, <2>1 DEF SweepClaim, CleanupEligible, Inv, Shape
    <3> QED
      BY <1>1, <3>1, RowsAfter DEF Lifecycles
  <2>2. CASE ~CleanupEligible(t)
    BY <1>2, <1>6, <2>2 DEF SweepClaim
  <2> QED
    BY <2>1, <2>2
<1>7. ASSUME \/ SweepScan \/ SweepClose \/ SweepPoke \/ SweepDies \/ HubFire \/ HubNextDeletion
             \/ HubNextCleanup \/ HubClearAgent \/ HubClose \/ HubSend \/ HubPurged
             \/ HubTerminationPending \/ HubTimeout \/ HubMarkDeleted \/ HubDefer \/ HubCheck
             \/ HubCheckCleanup \/ HubThrow \/ HubCrash \/ UNCHANGED vars
      PROVE  FALSE
  BY <1>7, <1>2 DEF SweepScan, SweepClose, SweepPoke, SweepDies, HubFire, HubNextDeletion,
     HubNextCleanup, HubClearAgent, HubClose, HubSend, HubPurged, HubTerminationPending,
     HubTimeout, HubMarkDeleted, HubDefer, HubCheck, HubCheckCleanup, HubThrow, HubCrash, vars
<1> QED
  BY <1>3, <1>4, <1>5, <1>6, <1>7, Zenon DEF Next, DeleteStep, PromptStep, SweepStep, HubStep

\* A deletion ends only with the attempt made for that very operation (fencedOn):
\* a cleanup or an earlier attempt that comes back late finds another id on the
\* row, since ids are fresh.
THEOREM DeletionEnds == Spec => DeletionEndsWithItsAttempt
<1>1. Inv /\ [Next]_vars =>
        [\A s \in Sessions :
            row[s].lifecycle = "deleting" /\ row'[s].lifecycle # "deleting" =>
                hub.kind = "delete" /\ hub.id = <<s>> /\ hub.op = row[s].op]_vars
  <2> SUFFICES ASSUME Inv, [Next]_vars, NEW s \in Sessions,
                      row[s].lifecycle = "deleting", row'[s].lifecycle # "deleting"
               PROVE  hub.kind = "delete" /\ hub.id = <<s>> /\ hub.op = row[s].op
    OBVIOUS
  <2>1. HubFinish \/ HubFail
    BY OnlyHubEndsDeletion
  <2>2. PICK t \in Sessions : hub.id = <<t>> /\ AttemptOn(t)
    BY <2>1 DEF Inv, AttemptSound, Attempting, HubFinish, HubFail, HubGoto
  <2>3. hub.id[1] = t /\ row \in [Sessions -> Row]
    BY <2>2 DEF Inv, Shape
  <2>4. FencedOn(t, hub.op)
    BY <2>1, <2>3 DEF HubFinish, HubFail
  <2>5. t = s
    <3>1. CASE HubFinish
      BY <2>3, <3>1 DEF HubFinish
    <3>2. CASE HubFail
      BY <2>3, <3>2 DEF HubFail
    <3> QED
      BY <2>1, <3>1, <3>2
  <2> QED
    BY <2>2, <2>4, <2>5 DEF AttemptOn, FencedOn
<1> QED
  BY <1>1, InvHolds, PTL DEF Spec, DeletionEndsWithItsAttempt

-----------------------------------------------------------------------------
\* The page

Roles == {"user", "assistant"}
Message == [role : Roles, text : Texts \cup {NoText}, ver : Nat]
Transcripts == UNION {[ids -> Message] : ids \in SUBSET Nat}

\* What the stream carries.
HubFrames == [kind : {"hub"}, state : {"live", "sleeping", "ended"}]
MessageFrames == [kind : {"message"}, no : Nat, id : Nat, role : Roles]
PartFrames == [kind : {"part"}, no : Nat, id : Nat, text : Texts \cup {NoText}, ver : Nat]
RemovedFrames == [kind : {"removed"}, no : Nat, id : Nat]
Changes == MessageFrames \cup PartFrames \cup RemovedFrames
Frames == HubFrames \cup Changes

LiveStreams == [at : {"connecting", "attached", "ending", "severed", "closed"}, frames : Seq(Frames)]
Views == [msgs : Transcripts, reported : {"none", "live", "sleeping"}, asOf : Nat, wakes : Nat,
          failed : BOOLEAN, overtaken : BOOLEAN, rewound : BOOLEAN, key : BOOLEAN, hidden : BOOLEAN]
Reads == [msgs : Transcripts, asOf : Nat, wakes : Nat, state : {"live", "sleeping"}, early : BOOLEAN]
Prompts == [text : Texts, after : Nat, at : {"out", "queued", "failed", "delivered"}, id : Nat, withdrawn : BOOLEAN]

\* The types the argument needs.
LiveShape ==
    /\ conv \in Transcripts /\ edits \in Nat /\ running \in BOOLEAN /\ wakes \in Nat
    /\ stream \in LiveStreams /\ view \in Views
    /\ asked \in Nat /\ served \in Seq(Reads) /\ prompts \in Seq(Prompts)

\* The changes among the frames of a queue, and those after an edit.
ChangesOf(fs) == {fs[i] : i \in {j \in DOMAIN fs : fs[j].kind # "hub"}}
ChangesAfter(fs, n) == {f \in ChangesOf(fs) : f.no > n}

\* A set of changes tells something of a message.
Tells(S, kind, id) == \E f \in S : f.kind = kind /\ f.id = id

\* The transcript msgs becomes the conversation c when the changes S are
\* applied to it: what they do not tell of, it has as the conversation has.
Leads(msgs, S, c) ==
    /\ \A id \in Ids(msgs) \ Ids(c) : Tells(S, "removed", id)
    /\ \A id \in Ids(c) :
         /\ \/ Tells(S, "message", id)
            \/ id \in Ids(msgs) /\ msgs[id].role = c[id].role
            \/ id \notin Ids(msgs) /\ c[id].role = "assistant" /\ Tells(S, "part", id)
         /\ \/ Tells(S, "part", id)
            \/ id \in Ids(msgs) /\ msgs[id].text = c[id].text /\ msgs[id].ver = c[id].ver
            \/ id \notin Ids(msgs) /\ c[id].text = NoText /\ c[id].ver = 0 /\ Tells(S, "message", id)

\* Messages and changes are numbered by the edits that brought them.
MessagesNumbered(msgs, e) == \A id \in Ids(msgs) : id <= e
QueueNumbered(fs, e) == \A i \in DOMAIN fs : fs[i].kind # "hub" => fs[i].id <= fs[i].no /\ fs[i].no <= e

\* Frame i of a queue says what is so in the conversation c, or is followed by
\* one that does.
FrameTrue(fs, i, c) ==
    LET f == fs[i] IN
    /\ f.kind = "message" /\ f.id \in Ids(c) => f.role = c[f.id].role
    /\ f.kind = "part" /\ f.id \in Ids(c) =>
          \/ f.text = c[f.id].text /\ f.ver = c[f.id].ver
          \/ \E j \in DOMAIN fs : j > i /\ fs[j].kind = "part" /\ fs[j].id = f.id
    /\ f.kind = "removed" => f.id \notin Ids(c)
    /\ f.id \notin Ids(c) =>
          \/ f.kind = "removed"
          \/ \E j \in DOMAIN fs : j > i /\ fs[j].kind = "removed" /\ fs[j].id = f.id

\* Frame j comes after frame i: a later change, or the part of the user's message
\* that frame i brought; and nothing is told of a message that was removed.
FramesInOrder(fs, i, j) ==
    /\ fs[i].no <= fs[j].no
    /\ fs[i].no = fs[j].no =>
          /\ fs[i].kind = "message" /\ fs[i].role = "user" /\ fs[i].id = fs[i].no
          /\ fs[j].kind = "part" /\ fs[j].id = fs[i].id
    /\ fs[i].kind = "removed" => fs[j].id # fs[i].id

\* The changes of a queue, taken in order, end in the conversation c.
QueueTrue(fs, c) ==
    \A i \in DOMAIN fs : fs[i].kind # "hub" =>
        /\ FrameTrue(fs, i, c)
        /\ \A j \in DOMAIN fs : j > i /\ fs[j].kind # "hub" => FramesInOrder(fs, i, j)

\* All of them are older than edit e.
QueueOld(fs, e) == \A i \in DOMAIN fs : fs[i].kind # "hub" => fs[i].no < e

ConvSound ==
    /\ MessagesNumbered(conv, edits)
    /\ \A id \in Ids(conv) : conv[id].role = "assistant" => conv[id].text = NoText

ViewSound == MessagesNumbered(view.msgs, edits) /\ view.asOf <= edits /\ view.wakes <= wakes

\* A read under way: what it holds is no newer than the conversation, and one
\* of the container asleep as it is now holds the conversation.
ReadSound(read) ==
    /\ MessagesNumbered(read.msgs, edits) /\ read.asOf <= edits /\ read.wakes <= wakes
    /\ read.asOf = edits => read.msgs = conv
    /\ read.wakes = wakes /\ read.state = "sleeping" => ~running /\ read.asOf = edits

ReadsSound == \A i \in DOMAIN served : ReadSound(served[i])
\* A stream that was given up is one of a hidden page, and one that broke off
\* carries nothing.
ClosedSound ==
    /\ stream.at = "closed" => view.hidden
    /\ stream.at \in {"connecting", "severed", "closed"} => stream.frames = <<>>

\* Reads since edit b lead to the conversation with the frames still to come,
\* or the page is already further.
ReadsLead(b) ==
    \A i \in DOMAIN served : served[i].asOf >= b =>
        \/ served[i].asOf < view.asOf
        \/ Leads(served[i].msgs, ChangesAfter(stream.frames, served[i].asOf), conv)

\* Something under way will make the page current, or it is on its way.
OnItsWay(b) ==
    \/ stream.frames # <<>> /\ stream.frames[1].kind = "hub"
    \/ asked > 0
    \/ \E i \in DOMAIN served : served[i].asOf >= b
    \/ view.failed /\ \A i \in DOMAIN served : served[i].early
    \/ view.asOf >= b /\ (view.overtaken \/ Leads(view.msgs, ChangesOf(stream.frames), conv))

\* The stream has been attached since edit b.
AttachedSound ==
    stream.at = "attached" =>
        /\ running
        /\ QueueTrue(stream.frames, conv)
        /\ \A i \in DOMAIN stream.frames : stream.frames[i].kind = "hub" => i = 1 /\ stream.frames[i].state = "live"
        /\ \E b \in 0 .. edits : ReadsLead(b) /\ OnItsWay(b)

\* What is left of a stream that ends leads to the conversation, unless it
\* changed since.
EndingSound == stream.at = "ending" => QueueTrue(stream.frames, conv) \/ QueueOld(stream.frames, edits)

\* The newest message is shown as it is, if it is a user's.
NewestKept ==
    edits \in Ids(conv) /\ conv[edits].role = "user" => edits \in Ids(view.msgs) /\ view.msgs[edits] = conv[edits]

\* The page has read the conversation asleep as it is, and only frames of
\* what it read have arrived since.
Slept ==
    /\ ~running /\ view.asOf = edits
    /\ view.msgs = conv \/ view.rewound
    /\ stream.at = "ending" =>
         \/ QueueOld(stream.frames, edits)
         \/ /\ QueueTrue(stream.frames, conv) /\ NewestKept
            /\ Leads(view.msgs, ChangesOf(stream.frames), conv)

AsleepSound ==
    view.reported = "sleeping" /\ view.wakes = wakes =>
        \/ asked > 0
        \/ \E i \in DOMAIN served : served[i].wakes = wakes
        \/ view.failed
        \/ Slept

LiveInv ==
    /\ LiveShape /\ ConvSound /\ ViewSound /\ ReadsSound /\ ClosedSound
    /\ QueueNumbered(stream.frames, edits)
    /\ AttachedSound /\ EndingSound /\ AsleepSound

-----------------------------------------------------------------------------
\* Numbers

\* x is less than y.
Below == {p \in Nat \X Nat : p[1] < p[2]}

\* A set of numbers has a least one.
LEMMA LeastOf ==
    ASSUME NEW T \in SUBSET Nat, T # {}
    PROVE  \E x \in T : \A y \in T : x <= y
<1>1. IsWellFoundedOn(Below, Nat)
  BY NatLessThanWellFounded DEF OpToRel, Below
<1>2. PICK x \in T : \A y \in T : <<y, x>> \notin Below
  BY <1>1, WFMin
<1>3. \A y \in T : ~(y < x)
  <2> TAKE y \in T
  <2>1. <<y, x>> \in Nat \X Nat /\ <<y, x>>[1] = y /\ <<y, x>>[2] = x /\ <<y, x>> \notin Below
    BY <1>2
  <2>2. QED
    BY <2>1 DEF Below
<1>4. \A y \in T : x <= y
  BY <1>2, <1>3
<1>5. QED
  BY <1>2, <1>4

\* A set of numbers that are no greater than e has a greatest one.
LEMMA GreatestOf ==
    ASSUME NEW T \in SUBSET Nat, T # {}, NEW e \in Nat, \A x \in T : x <= e
    PROVE  \E x \in T : \A y \in T : y <= x
<1> DEFINE U == {n \in Nat : n <= e /\ e - n \in T}
<1>1. U # {}
  <2>1. PICK x \in T : TRUE
    OBVIOUS
  <2>2. e - x \in Nat /\ e - x <= e /\ e - (e - x) = x
    BY <2>1
  <2>3. QED
    BY <2>1, <2>2
<1>2. PICK n \in U : \A m \in U : n <= m
  BY <1>1, LeastOf
<1>3. ASSUME NEW y \in T
      PROVE  y <= e - n
  <2>1. e - y \in U
    <3>1. e - y \in Nat /\ e - y <= e /\ e - (e - y) = y
      BY <1>3
    <3>2. QED
      BY <3>1
  <2>2. n <= e - y
    BY <1>2, <2>1
  <2>3. n \in Nat /\ y \in Nat
    BY <1>2
  <2>4. QED
    BY <2>2, <2>3
<1>4. QED
  BY <1>2, <1>3

\* NewestOf picks the newest message of a transcript.
LEMMA NewestIs ==
    ASSUME NEW ids \in SUBSET Nat, NEW e \in Nat, \A i \in ids : i <= e
    PROVE  /\ NewestOf(ids) \in Nat
           /\ \A i \in ids : i <= NewestOf(ids)
           /\ ids # {} => NewestOf(ids) \in ids
<1>1. CASE ids = {}
  BY <1>1 DEF NewestOf
<1>2. CASE ids # {}
  <2>1. \E i \in ids : \A j \in ids : j <= i
    BY <1>2, GreatestOf
  <2>2. NewestOf(ids) \in ids /\ \A j \in ids : j <= NewestOf(ids)
    BY <1>2, <2>1 DEF NewestOf
  <2>3. QED
    BY <2>2
<1>3. QED
  BY <1>1, <1>2

\* With(msgs, id, m): one message is there as given, the others as they were.
LEMMA WithIs ==
    ASSUME NEW M \in Transcripts, NEW id \in Nat, NEW m \in Message
    PROVE  /\ With(M, id, m) \in Transcripts
           /\ Ids(With(M, id, m)) = Ids(M) \cup {id}
           /\ With(M, id, m)[id] = m
           /\ \A k \in Ids(M) \ {id} : With(M, id, m)[k] = M[k]
<1>1. PICK I \in SUBSET Nat : M \in [I -> Message]
  BY DEF Transcripts
<1>2. With(M, id, m) \in [I \cup {id} -> Message]
  BY <1>1 DEF With, Ids
<1>3. I \cup {id} \in SUBSET Nat
  BY <1>1
<1>4. With(M, id, m) \in Transcripts
  BY <1>2, <1>3 DEF Transcripts
<1>5. QED
  BY <1>1, <1>4 DEF With, Ids

\* Without(msgs, id): the other messages as they were.
LEMMA WithoutIs ==
    ASSUME NEW M \in Transcripts, NEW id
    PROVE  /\ Without(M, id) \in Transcripts
           /\ Ids(Without(M, id)) = Ids(M) \ {id}
           /\ \A k \in Ids(M) \ {id} : Without(M, id)[k] = M[k]
<1>1. PICK I \in SUBSET Nat : M \in [I -> Message]
  BY DEF Transcripts
<1>2. Without(M, id) \in [I \ {id} -> Message]
  BY <1>1 DEF Without, Ids
<1>3. Without(M, id) \in Transcripts
  BY <1>2 DEF Transcripts
<1>4. QED
  BY <1>1, <1>3 DEF Without, Ids

\* A transcript has messages, by number.
LEMMA TranscriptHas ==
    ASSUME NEW M \in Transcripts
    PROVE  /\ Ids(M) \subseteq Nat
           /\ \A k \in Ids(M) : M[k] \in Message
           /\ M = [k \in Ids(M) |-> M[k]]
  BY DEF Transcripts, Ids

\* Applied(msgs, f): what a frame does to the message it is about.
AppliedDoes(M, f, R) ==
    /\ f.kind = "message" =>
         /\ f.id \in Ids(R) /\ R[f.id].role = f.role
         /\ f.id \in Ids(M) => R[f.id].text = M[f.id].text /\ R[f.id].ver = M[f.id].ver
         /\ f.id \notin Ids(M) => R[f.id].text = NoText /\ R[f.id].ver = 0
    /\ f.kind = "part" =>
         /\ f.id \in Ids(R) /\ R[f.id].text = f.text /\ R[f.id].ver = f.ver
         /\ f.id \in Ids(M) => R[f.id].role = M[f.id].role
         /\ f.id \notin Ids(M) => R[f.id].role = "assistant"
    /\ f.kind = "removed" => f.id \notin Ids(R)

\* A frame of OpenCode changes the message it is about as AppliedDoes says, and
\* no other.
LEMMA AppliedIs ==
    ASSUME NEW M \in Transcripts, NEW f \in Changes
    PROVE  LET R == Applied(M, f) IN
           /\ R \in Transcripts
           /\ Ids(R) \ {f.id} = Ids(M) \ {f.id}
           /\ \A k \in Ids(M) \ {f.id} : R[k] = M[k]
           /\ AppliedDoes(M, f, R)
<1> DEFINE R == Applied(M, f)
<1>0. f.id \in Nat /\ NoText \in Texts \cup {NoText} /\ 0 \in Nat
  BY DEF Changes, MessageFrames, PartFrames, RemovedFrames
<1>1. CASE f.kind = "message"
  <2> DEFINE m == IF f.id \in Ids(M) THEN [M[f.id] EXCEPT !.role = f.role]
                  ELSE [role |-> f.role, text |-> NoText, ver |-> 0]
  <2>1. f.role \in Roles
    BY <1>1 DEF Changes, MessageFrames, PartFrames, RemovedFrames
  <2>2. m \in Message
    BY <2>1, <1>0, TranscriptHas DEF Message
  <2>3. R = With(M, f.id, m)
    BY <1>1 DEF Applied
  <2>4. f.id \in Ids(M) => m.role = f.role /\ m.text = M[f.id].text /\ m.ver = M[f.id].ver
    BY TranscriptHas DEF Message
  <2>5. f.id \notin Ids(M) => m.role = f.role /\ m.text = NoText /\ m.ver = 0
    OBVIOUS
  <2> HIDE DEF m, R
  <2>6. QED
    BY <1>0, <1>1, <2>2, <2>3, <2>4, <2>5, WithIs DEF R, AppliedDoes
<1>2. CASE f.kind = "part"
  <2> DEFINE m == [role |-> IF f.id \in Ids(M) THEN M[f.id].role ELSE "assistant",
                   text |-> f.text, ver |-> f.ver]
  <2>1. f.text \in Texts \cup {NoText} /\ f.ver \in Nat
    BY <1>2 DEF Changes, MessageFrames, PartFrames, RemovedFrames
  <2>2. m \in Message
    BY <2>1, TranscriptHas DEF Message, Roles
  <2>3. R = With(M, f.id, m)
    BY <1>2 DEF Applied
  <2>4. m.text = f.text /\ m.ver = f.ver /\ (f.id \in Ids(M) => m.role = M[f.id].role)
        /\ (f.id \notin Ids(M) => m.role = "assistant")
    OBVIOUS
  <2> HIDE DEF m, R
  <2>5. QED
    BY <1>0, <1>2, <2>2, <2>3, <2>4, WithIs DEF R, AppliedDoes
<1>3. CASE f.kind = "removed"
  <2>1. R = Without(M, f.id)
    BY <1>3 DEF Applied
  <2> HIDE DEF R
  <2>2. QED
    BY <1>3, <2>1, WithoutIs DEF R, AppliedDoes
<1>4. f.kind \in {"message", "part", "removed"}
  BY DEF Changes, MessageFrames, PartFrames, RemovedFrames
<1>5. QED
  BY <1>1, <1>2, <1>3, <1>4

-----------------------------------------------------------------------------
\* Queues

\* A frame that is not the hub's is a change.
LEMMA ChangesAreFrames ==
    ASSUME NEW fs \in Seq(Frames)
    PROVE  /\ DOMAIN fs = 1 .. Len(fs) /\ Len(fs) \in Nat
           /\ \A i \in DOMAIN fs : fs[i] \in Frames
           /\ \A i \in DOMAIN fs : fs[i].kind # "hub" => fs[i] \in Changes
           /\ ChangesOf(fs) \subseteq Changes
<1>1. \A i \in DOMAIN fs : fs[i].kind # "hub" => fs[i] \in Changes
  <2> TAKE i \in DOMAIN fs
  <2>1. fs[i] \in HubFrames \cup Changes
    BY DEF Frames
  <2>2. fs[i] \in HubFrames => fs[i].kind = "hub"
    BY DEF HubFrames
  <2>3. QED
    BY <2>1, <2>2
<1>2. QED
  BY <1>1 DEF ChangesOf

\* Taking the head of a queue.
LEMMA TailIs ==
    ASSUME NEW fs \in Seq(Frames), fs # <<>>
    PROVE  /\ Tail(fs) \in Seq(Frames) /\ 1 \in DOMAIN fs /\ Head(fs) = fs[1]
           /\ DOMAIN Tail(fs) = 1 .. Len(fs) - 1
           /\ \A i \in DOMAIN Tail(fs) : i + 1 \in DOMAIN fs /\ Tail(fs)[i] = fs[i + 1]
           /\ \A i \in DOMAIN fs : i > 1 => i - 1 \in DOMAIN Tail(fs) /\ Tail(fs)[i - 1] = fs[i]
           /\ ChangesOf(Tail(fs)) \subseteq ChangesOf(fs)
           /\ ChangesOf(fs) \subseteq ChangesOf(Tail(fs)) \cup {fs[1]}
           /\ fs[1].kind = "hub" => ChangesOf(Tail(fs)) = ChangesOf(fs)
<1> DEFINE gs == Tail(fs)
<1>1. /\ gs \in Seq(Frames) /\ 1 \in DOMAIN fs /\ Head(fs) = fs[1] /\ DOMAIN fs = 1 .. Len(fs) /\ Len(fs) \in Nat
      /\ DOMAIN gs = 1 .. Len(fs) - 1
      /\ \A i \in DOMAIN gs : gs[i] = fs[i + 1]
  OBVIOUS
<1> HIDE DEF gs
<1>2. \A i \in DOMAIN gs : i + 1 \in DOMAIN fs /\ gs[i] = fs[i + 1]
  BY <1>1
<1>3. \A i \in DOMAIN fs : i > 1 => i - 1 \in DOMAIN gs /\ gs[i - 1] = fs[i]
  BY <1>1
<1>4. ChangesOf(gs) \subseteq ChangesOf(fs)
  BY <1>2 DEF ChangesOf
<1>5. ChangesOf(fs) \subseteq ChangesOf(gs) \cup {fs[1]}
  <2> SUFFICES ASSUME NEW i \in DOMAIN fs, fs[i].kind # "hub", i # 1
               PROVE  fs[i] \in ChangesOf(gs)
    BY DEF ChangesOf
  <2>1. i > 1
    BY <1>1
  <2>2. QED
    BY <1>3, <2>1 DEF ChangesOf
<1>6. fs[1].kind = "hub" => fs[1] \notin ChangesOf(fs)
  BY DEF ChangesOf
<1>7. QED
  BY <1>1, <1>2, <1>3, <1>4, <1>5, <1>6 DEF gs

\* What is left of a queue without its head still ends in the conversation.
LEMMA QueueTrueTail ==
    ASSUME NEW fs \in Seq(Frames), fs # <<>>, NEW c, QueueTrue(fs, c)
    PROVE  QueueTrue(Tail(fs), c)
<1> DEFINE gs == Tail(fs)
<1>1. /\ DOMAIN gs \subseteq Nat
      /\ \A i \in DOMAIN gs : i + 1 \in DOMAIN fs /\ gs[i] = fs[i + 1]
      /\ \A i \in DOMAIN fs : i > 1 => i - 1 \in DOMAIN gs /\ gs[i - 1] = fs[i]
      /\ DOMAIN fs \subseteq Nat
  BY TailIs, ChangesAreFrames
<1> HIDE DEF gs
<1>2. ASSUME NEW i \in DOMAIN gs, gs[i].kind # "hub"
      PROVE  FrameTrue(gs, i, c)
  <2>1. i + 1 \in DOMAIN fs /\ gs[i] = fs[i + 1] /\ FrameTrue(fs, i + 1, c) /\ i \in Nat
    BY <1>1, <1>2 DEF QueueTrue
  <2>2. ASSUME NEW j \in DOMAIN fs, j > i + 1
        PROVE  j - 1 \in DOMAIN gs /\ j - 1 > i /\ gs[j - 1] = fs[j]
    BY <1>1, <2>1, <2>2
  <2>3. QED
    BY <2>1, <2>2 DEF FrameTrue
<1>3. ASSUME NEW i \in DOMAIN gs, gs[i].kind # "hub", NEW j \in DOMAIN gs, j > i, gs[j].kind # "hub"
      PROVE  FramesInOrder(gs, i, j)
  <2>1. /\ i + 1 \in DOMAIN fs /\ gs[i] = fs[i + 1]
        /\ j + 1 \in DOMAIN fs /\ gs[j] = fs[j + 1] /\ j + 1 > i + 1
    BY <1>1, <1>3
  <2>2. FramesInOrder(fs, i + 1, j + 1)
    BY <2>1, <1>3 DEF QueueTrue
  <2>3. QED
    BY <2>1, <2>2 DEF FramesInOrder
<1>4. QED
  BY <1>2, <1>3 DEF QueueTrue, gs

\* A page that the queue leads to the conversation is led there when the head
\* of the queue has been applied to it.
LEMMA LeadsApplied ==
    ASSUME NEW fs \in Seq(Frames), fs # <<>>, fs[1].kind # "hub",
           NEW M \in Transcripts, NEW c \in Transcripts,
           QueueTrue(fs, c), Leads(M, ChangesOf(fs), c)
    PROVE  Leads(Applied(M, fs[1]), ChangesOf(Tail(fs)), c)
<1> DEFINE f == fs[1]
           S == ChangesOf(fs)
           T == ChangesOf(Tail(fs))
           R == Applied(M, f)
<1>1. /\ 1 \in DOMAIN fs /\ f \in Changes /\ S \subseteq Changes
      /\ S \subseteq T \cup {f} /\ T \subseteq S
  BY TailIs, ChangesAreFrames
<1>2. /\ Ids(R) \ {f.id} = Ids(M) \ {f.id}
      /\ \A k \in Ids(M) \ {f.id} : R[k] = M[k]
      /\ AppliedDoes(M, f, R)
  BY <1>1, AppliedIs
<1>3. FrameTrue(fs, 1, c)
  BY <1>1 DEF QueueTrue
<1>4. ASSUME NEW j \in DOMAIN fs, j > 1, fs[j].kind # "hub"
      PROVE  fs[j] \in T
  BY <1>4, TailIs DEF ChangesOf
<1>5. f.kind \in {"message", "part", "removed"}
  BY <1>1 DEF Changes, MessageFrames, PartFrames, RemovedFrames
<1> HIDE DEF R, T, S, f
<1>6. Leads(M, S, c)
  BY DEF S
\* other messages
<1>7. ASSUME NEW k, k # f.id, NEW kind, Tells(S, kind, k)
      PROVE  Tells(T, kind, k)
  BY <1>1, <1>7 DEF Tells
<1>8. ASSUME NEW kind, kind # f.kind, Tells(S, kind, f.id)
      PROVE  Tells(T, kind, f.id)
  BY <1>1, <1>8 DEF Tells
<1>9. f.kind = "part" /\ f.id \in Ids(c) =>
         (f.text = c[f.id].text /\ f.ver = c[f.id].ver) \/ Tells(T, "part", f.id)
  BY <1>3, <1>4 DEF FrameTrue, Tells, f
<1>10. f.id \notin Ids(c) => f.kind = "removed" \/ Tells(T, "removed", f.id)
  BY <1>3, <1>4 DEF FrameTrue, Tells, f
<1>11. ASSUME NEW k \in Ids(R) \ Ids(c)
       PROVE  Tells(T, "removed", k)
  <2>1. CASE k = f.id
    BY <2>1, <1>2, <1>10, <1>11 DEF AppliedDoes
  <2>2. CASE k # f.id
    BY <2>2, <1>2, <1>6, <1>7, <1>11 DEF Leads
  <2>3. QED
    BY <2>1, <2>2
<1>12. ASSUME NEW k \in Ids(c)
       PROVE  /\ \/ Tells(T, "message", k)
                 \/ k \in Ids(R) /\ R[k].role = c[k].role
                 \/ k \notin Ids(R) /\ c[k].role = "assistant" /\ Tells(T, "part", k)
              /\ \/ Tells(T, "part", k)
                 \/ k \in Ids(R) /\ R[k].text = c[k].text /\ R[k].ver = c[k].ver
                 \/ k \notin Ids(R) /\ c[k].text = NoText /\ c[k].ver = 0 /\ Tells(T, "message", k)
  <2>0. /\ \/ Tells(S, "message", k)
           \/ k \in Ids(M) /\ M[k].role = c[k].role
           \/ k \notin Ids(M) /\ c[k].role = "assistant" /\ Tells(S, "part", k)
        /\ \/ Tells(S, "part", k)
           \/ k \in Ids(M) /\ M[k].text = c[k].text /\ M[k].ver = c[k].ver
           \/ k \notin Ids(M) /\ c[k].text = NoText /\ c[k].ver = 0 /\ Tells(S, "message", k)
    BY <1>6 DEF Leads
  <2>1. CASE k # f.id
    <3>1. /\ k \in Ids(R) <=> k \in Ids(M)
          /\ k \in Ids(M) => R[k] = M[k]
      BY <1>2, <2>1
    <3>2. QED
      BY <2>0, <2>1, <3>1, <1>7
  <2>2. CASE k = f.id /\ f.kind = "message"
    <3>1. k \in Ids(R) /\ R[k].role = c[k].role
      BY <2>2, <1>2, <1>3 DEF AppliedDoes, FrameTrue, f
    <3>2. Tells(S, "part", k) => Tells(T, "part", k)
      BY <2>2, <1>8
    <3>3. /\ k \in Ids(M) => R[k].text = M[k].text /\ R[k].ver = M[k].ver
          /\ k \notin Ids(M) => R[k].text = NoText /\ R[k].ver = 0
      BY <2>2, <1>2 DEF AppliedDoes
    <3>4. QED
      BY <2>0, <3>1, <3>2, <3>3
  <2>3. CASE k = f.id /\ f.kind = "part"
    <3>1. k \in Ids(R) /\ ((R[k].text = c[k].text /\ R[k].ver = c[k].ver) \/ Tells(T, "part", k))
      BY <2>3, <1>2, <1>9 DEF AppliedDoes
    <3>2. Tells(S, "message", k) => Tells(T, "message", k)
      BY <2>3, <1>8
    <3>3. /\ k \in Ids(M) => R[k].role = M[k].role
          /\ k \notin Ids(M) => R[k].role = "assistant"
      BY <2>3, <1>2 DEF AppliedDoes
    <3>4. QED
      BY <2>0, <3>1, <3>2, <3>3
  <2>4. ~(k = f.id /\ f.kind = "removed")
    BY <1>3 DEF FrameTrue, f
  <2>5. QED
    BY <2>1, <2>2, <2>3, <2>4, <1>5
<1>13. QED
  BY <1>11, <1>12 DEF Leads, R, T, f

\* More changes to come lead no further away, as long as they lead anywhere.
LEMMA LeadsMore ==
    ASSUME NEW M, NEW c, NEW S, NEW T, S \subseteq T, Leads(M, S, c)
    PROVE  Leads(M, T, c)
<1>1. \A kind, id : Tells(S, kind, id) => Tells(T, kind, id)
  BY DEF Tells
<1>2. QED
  BY <1>1 DEF Leads

\* The conversation leads to itself.
LEMMA LeadsItself ==
    ASSUME NEW c, NEW S
    PROVE  Leads(c, S, c)
  BY DEF Leads

\* With nothing to come, it is the conversation that is shown.
LEMMA LeadsNowhere ==
    ASSUME NEW M \in Transcripts, NEW c \in Transcripts, Leads(M, {}, c)
    PROVE  M = c
<1>1. Ids(M) = Ids(c) /\ \A k \in Ids(c) : M[k].role = c[k].role /\ M[k].text = c[k].text /\ M[k].ver = c[k].ver
  BY DEF Leads, Tells
<1>2. \A k \in Ids(c) : M[k] \in Message /\ c[k] \in Message
  BY <1>1, TranscriptHas
<1>3. ASSUME NEW a \in Message, NEW b \in Message, a.role = b.role, a.text = b.text, a.ver = b.ver
      PROVE  a = b
  BY <1>3 DEF Message
<1>4. \A k \in Ids(c) : M[k] = c[k]
  BY <1>1, <1>2, <1>3
<1>5. M = [k \in Ids(M) |-> M[k]] /\ c = [k \in Ids(c) |-> c[k]]
  BY TranscriptHas
<1>6. [k \in Ids(M) |-> M[k]] = [k \in Ids(c) |-> c[k]]
  BY <1>1, <1>4
<1>7. QED
  BY <1>5, <1>6

-----------------------------------------------------------------------------
\* Edits

\* Frames put at the end of a queue.
LEMMA AppendedIs ==
    ASSUME NEW fs \in Seq(Frames), NEW new \in Seq(Frames)
    PROVE  /\ fs \o new \in Seq(Frames)
           /\ DOMAIN (fs \o new) = 1 .. Len(fs) + Len(new)
           /\ \A i \in DOMAIN fs : i \in DOMAIN (fs \o new) /\ (fs \o new)[i] = fs[i]
           /\ \A i \in DOMAIN new : i + Len(fs) \in DOMAIN (fs \o new) /\ (fs \o new)[i + Len(fs)] = new[i]
           /\ \A i \in DOMAIN (fs \o new) : i \in DOMAIN fs \/ (i > Len(fs) /\ i - Len(fs) \in DOMAIN new)
           /\ ChangesOf(fs \o new) = ChangesOf(fs) \cup ChangesOf(new)
<1> DEFINE gs == fs \o new
<1>1. /\ gs \in Seq(Frames) /\ DOMAIN gs = 1 .. Len(fs) + Len(new) /\ Len(fs) \in Nat /\ Len(new) \in Nat
      /\ DOMAIN fs = 1 .. Len(fs) /\ DOMAIN new = 1 .. Len(new)
      /\ \A i \in DOMAIN fs : gs[i] = fs[i]
      /\ \A i \in DOMAIN gs : i > Len(fs) => gs[i] = new[i - Len(fs)]
  OBVIOUS
<1> HIDE DEF gs
<1>2. \A i \in DOMAIN new : i + Len(fs) \in DOMAIN gs /\ gs[i + Len(fs)] = new[i]
  <2> TAKE i \in DOMAIN new
  <2>1. i \in Nat /\ i >= 1 /\ i + Len(fs) \in DOMAIN gs /\ i + Len(fs) > Len(fs) /\ (i + Len(fs)) - Len(fs) = i
    BY <1>1
  <2>2. QED
    BY <1>1, <2>1
<1>3. \A i \in DOMAIN gs : i \in DOMAIN fs \/ (i > Len(fs) /\ i - Len(fs) \in DOMAIN new)
  BY <1>1
<1>4. \A i \in DOMAIN fs : i \in DOMAIN gs
  BY <1>1
<1>5. ChangesOf(gs) \subseteq ChangesOf(fs) \cup ChangesOf(new)
  BY <1>1, <1>3 DEF ChangesOf
<1>6. ChangesOf(fs) \subseteq ChangesOf(gs)
  BY <1>1, <1>4 DEF ChangesOf
<1>7. ChangesOf(new) \subseteq ChangesOf(gs)
  BY <1>2 DEF ChangesOf
<1>8. QED
  BY <1>1, <1>2, <1>3, <1>4, <1>5, <1>6, <1>7 DEF gs

\* The queue after an edit: the frames of the edit `new` are true of the new
\* conversation d, which differs from c in one message, and what older frames
\* tell of that message is overtaken by them.
LEMMA QueueTrueAppended ==
    ASSUME NEW fs \in Seq(Frames), NEW new \in Seq(Frames), NEW c, NEW d, NEW e \in Nat, NEW id \in Nat,
           QueueTrue(fs, c), QueueNumbered(fs, e), QueueTrue(new, d),
           \A i \in DOMAIN new : new[i].kind # "hub" /\ new[i].no = e + 1 /\ new[i].id = id,
           \A k \in Nat \ {id} : k \in Ids(d) <=> k \in Ids(c),
           \A k \in Ids(c) \ {id} : d[k] = c[k],
           \/ id = e + 1
           \/ /\ id \in Ids(c) /\ id \in Ids(d) /\ d[id].role = c[id].role
              /\ \E i \in DOMAIN new : new[i].kind = "part"
           \/ /\ id \in Ids(c) /\ id \notin Ids(d)
              /\ \E i \in DOMAIN new : new[i].kind = "removed"
    PROVE  QueueTrue(fs \o new, d)
<1> DEFINE gs == fs \o new
<1>1. /\ \A i \in DOMAIN fs : i \in DOMAIN gs /\ gs[i] = fs[i]
      /\ \A i \in DOMAIN new : i + Len(fs) \in DOMAIN gs /\ gs[i + Len(fs)] = new[i]
      /\ \A i \in DOMAIN gs : i \in DOMAIN fs \/ (i > Len(fs) /\ i - Len(fs) \in DOMAIN new)
  BY AppendedIs
<1>2. /\ DOMAIN fs = 1 .. Len(fs) /\ Len(fs) \in Nat /\ DOMAIN new \subseteq Nat \ {0} /\ DOMAIN gs \subseteq Nat
      /\ \A i \in DOMAIN fs : fs[i].kind # "hub" => fs[i].id \in Nat /\ fs[i].no \in Nat
  <2>1. \A f \in Changes : f.id \in Nat /\ f.no \in Nat
    BY DEF Changes, MessageFrames, PartFrames, RemovedFrames
  <2>2. DOMAIN gs = 1 .. Len(fs) + Len(new) /\ DOMAIN new = 1 .. Len(new) /\ Len(new) \in Nat
    BY AppendedIs, ChangesAreFrames
  <2>3. DOMAIN fs = 1 .. Len(fs) /\ Len(fs) \in Nat
    BY ChangesAreFrames
  <2>4. \A i \in DOMAIN fs : fs[i].kind # "hub" => fs[i].id \in Nat /\ fs[i].no \in Nat
    BY <2>1, ChangesAreFrames
  <2>5. QED
    BY <2>2, <2>3, <2>4
<1> HIDE DEF gs
<1>3. \A i \in DOMAIN new : new[i] = gs[i + Len(fs)] /\ i + Len(fs) \in DOMAIN gs /\ i + Len(fs) > Len(fs)
  BY <1>1, <1>2
<1>4. ASSUME NEW i \in DOMAIN fs, fs[i].kind # "hub"
      PROVE  FrameTrue(gs, i, d)
  <2>1. FrameTrue(fs, i, c) /\ gs[i] = fs[i] /\ fs[i].id \in Nat /\ fs[i].id <= e /\ i <= Len(fs)
    BY <1>1, <1>2, <1>4 DEF QueueTrue, QueueNumbered
  <2>2. CASE fs[i].id # id
    <3>1. fs[i].id \in Ids(d) <=> fs[i].id \in Ids(c)
      BY <2>1, <2>2
    <3>2. fs[i].id \in Ids(c) => d[fs[i].id] = c[fs[i].id]
      BY <2>2
    <3>3. \A j \in DOMAIN fs : j \in DOMAIN gs /\ gs[j] = fs[j]
      BY <1>1
    <3>4. QED
      BY <2>1, <3>1, <3>2, <3>3 DEF FrameTrue
  <2>3. CASE fs[i].id = id
    <3>1. id # e + 1
      BY <2>1, <2>3
    <3>2. CASE id \in Ids(c) /\ id \in Ids(d) /\ d[id].role = c[id].role /\ \E j \in DOMAIN new : new[j].kind = "part"
      <4>1. PICK j \in DOMAIN new : new[j].kind = "part"
        BY <3>2
      <4>2. j + Len(fs) \in DOMAIN gs /\ j + Len(fs) > i /\ gs[j + Len(fs)].kind = "part" /\ gs[j + Len(fs)].id = id
        <5>1. j + Len(fs) \in DOMAIN gs /\ gs[j + Len(fs)] = new[j]
          BY <4>1, <1>1
        <5>2. j + Len(fs) > i
          BY <4>1, <1>2, <2>1
        <5>3. QED
          BY <4>1, <5>1, <5>2
      <4>3. QED
        BY <3>2, <4>2, <2>1, <2>3 DEF FrameTrue
    <3>3. CASE id \in Ids(c) /\ id \notin Ids(d) /\ \E j \in DOMAIN new : new[j].kind = "removed"
      <4>1. PICK j \in DOMAIN new : new[j].kind = "removed"
        BY <3>3
      <4>2. j + Len(fs) \in DOMAIN gs /\ j + Len(fs) > i /\ gs[j + Len(fs)].kind = "removed" /\ gs[j + Len(fs)].id = id
        <5>1. j + Len(fs) \in DOMAIN gs /\ gs[j + Len(fs)] = new[j]
          BY <4>1, <1>1
        <5>2. j + Len(fs) > i
          BY <4>1, <1>2, <2>1
        <5>3. QED
          BY <4>1, <5>1, <5>2
      <4>3. QED
        BY <3>3, <4>2, <2>1, <2>3 DEF FrameTrue
    <3>4. QED
      BY <3>1, <3>2, <3>3
  <2>4. QED
    BY <2>2, <2>3
<1>5. ASSUME NEW i \in DOMAIN new
      PROVE  FrameTrue(gs, i + Len(fs), d)
  <2>1. FrameTrue(new, i, d) /\ gs[i + Len(fs)] = new[i]
    BY <1>1, <1>5 DEF QueueTrue
  <2>2. \A j \in DOMAIN new : j > i => j + Len(fs) \in DOMAIN gs /\ j + Len(fs) > i + Len(fs) /\ gs[j + Len(fs)] = new[j]
    BY <1>1, <1>2
  <2>3. QED
    BY <2>1, <2>2 DEF FrameTrue
<1>6. ASSUME NEW i \in DOMAIN fs, NEW j \in DOMAIN fs, fs[i].kind # "hub", fs[j].kind # "hub", j > i
      PROVE  FramesInOrder(gs, i, j)
  <2>1. FramesInOrder(fs, i, j) /\ gs[i] = fs[i] /\ gs[j] = fs[j]
    BY <1>1, <1>6 DEF QueueTrue
  <2>2. QED
    BY <2>1 DEF FramesInOrder
<1>7. ASSUME NEW i \in DOMAIN fs, NEW j \in DOMAIN new, fs[i].kind # "hub"
      PROVE  FramesInOrder(gs, i, j + Len(fs))
  <2>1. /\ gs[i] = fs[i] /\ gs[j + Len(fs)] = new[j] /\ new[j].no = e + 1 /\ new[j].id = id
        /\ fs[i].no \in Nat /\ fs[i].id \in Nat /\ fs[i].no <= e /\ fs[i].id <= fs[i].no
        /\ FrameTrue(fs, i, c)
    BY <1>1, <1>2, <1>7 DEF QueueTrue, QueueNumbered
  <2>2. fs[i].kind = "removed" => fs[i].id # id
    BY <2>1 DEF FrameTrue
  <2>3. QED
    BY <2>1, <2>2 DEF FramesInOrder
<1>8. ASSUME NEW i \in DOMAIN new, NEW j \in DOMAIN new, j > i
      PROVE  FramesInOrder(gs, i + Len(fs), j + Len(fs))
  <2>1. FramesInOrder(new, i, j) /\ gs[i + Len(fs)] = new[i] /\ gs[j + Len(fs)] = new[j]
    BY <1>1, <1>8 DEF QueueTrue
  <2>2. QED
    BY <2>1 DEF FramesInOrder
<1>9. ASSUME NEW i \in DOMAIN gs, gs[i].kind # "hub"
      PROVE  /\ FrameTrue(gs, i, d)
             /\ \A j \in DOMAIN gs : j > i /\ gs[j].kind # "hub" => FramesInOrder(gs, i, j)
  <2>1. CASE i \in DOMAIN fs
    <3>1. fs[i].kind # "hub" /\ FrameTrue(gs, i, d)
      BY <2>1, <1>1, <1>4, <1>9
    <3>2. ASSUME NEW j \in DOMAIN gs, j > i, gs[j].kind # "hub"
          PROVE  FramesInOrder(gs, i, j)
      <4>1. CASE j \in DOMAIN fs
        BY <4>1, <3>1, <3>2, <1>1, <1>6, <2>1
      <4>2. CASE j - Len(fs) \in DOMAIN new
        <5>1. (j - Len(fs)) + Len(fs) = j
          BY <1>2
        <5>2. FramesInOrder(gs, i, (j - Len(fs)) + Len(fs))
          BY <4>2, <3>1, <2>1, <1>7
        <5>3. QED
          BY <5>1, <5>2
      <4>3. QED
        BY <4>1, <4>2, <1>1
    <3>3. QED
      BY <3>1, <3>2
  <2>2. CASE i > Len(fs) /\ i - Len(fs) \in DOMAIN new
    <3>1. (i - Len(fs)) + Len(fs) = i
      BY <1>2
    <3>2. FrameTrue(gs, (i - Len(fs)) + Len(fs), d)
      BY <2>2, <1>5
    <3>3. ASSUME NEW j \in DOMAIN gs, j > i, gs[j].kind # "hub"
          PROVE  FramesInOrder(gs, i, j)
      <4>1. j \notin DOMAIN fs /\ j \in Nat /\ i \in Nat
        BY <1>2, <2>2, <3>3
      <4>2. j - Len(fs) \in DOMAIN new /\ (j - Len(fs)) + Len(fs) = j /\ j - Len(fs) > i - Len(fs)
        BY <1>1, <1>2, <4>1, <3>3
      <4>3. FramesInOrder(gs, (i - Len(fs)) + Len(fs), (j - Len(fs)) + Len(fs))
        BY <4>2, <2>2, <1>8
      <4>4. QED
        BY <4>2, <4>3, <3>1
    <3>4. QED
      BY <3>1, <3>2, <3>3
  <2>3. QED
    BY <2>1, <2>2, <1>1
<1>10. QED
  BY <1>9 DEF QueueTrue, gs

\* What led to the conversation before an edit leads, with the frames of the
\* edit, to the conversation after it.
LEMMA LeadsAppended ==
    ASSUME NEW M, NEW S, NEW T, NEW c \in Transcripts, NEW d \in Transcripts, NEW id \in Nat,
           Leads(M, S, c), Ids(M) \subseteq Nat,
           \A k \in Nat \ {id} : k \in Ids(d) <=> k \in Ids(c),
           \A k \in Ids(c) \ {id} : d[k] = c[k],
           id \notin Ids(d) => Tells(T, "removed", id),
           id \in Ids(d) =>
             /\ Tells(T, "message", id) \/ (id \in Ids(c) /\ d[id].role = c[id].role)
             /\ \/ Tells(T, "part", id)
                \/ Tells(T, "message", id) /\ id \notin Ids(M) /\ d[id].text = NoText /\ d[id].ver = 0
    PROVE  Leads(M, S \cup T, d)
<1>1. \A kind, k : Tells(S, kind, k) \/ Tells(T, kind, k) => Tells(S \cup T, kind, k)
  BY DEF Tells
<1>2. Ids(c) \subseteq Nat /\ Ids(d) \subseteq Nat
  BY TranscriptHas
<1>3. \A k \in Ids(M) \ Ids(d) : Tells(S \cup T, "removed", k)
  BY <1>1 DEF Leads
<1>4. ASSUME NEW k \in Ids(d)
      PROVE  /\ \/ Tells(S \cup T, "message", k)
                \/ k \in Ids(M) /\ M[k].role = d[k].role
                \/ k \notin Ids(M) /\ d[k].role = "assistant" /\ Tells(S \cup T, "part", k)
             /\ \/ Tells(S \cup T, "part", k)
                \/ k \in Ids(M) /\ M[k].text = d[k].text /\ M[k].ver = d[k].ver
                \/ k \notin Ids(M) /\ d[k].text = NoText /\ d[k].ver = 0 /\ Tells(S \cup T, "message", k)
  <2>1. CASE k # id
    <3>1. k \in Ids(c) /\ d[k] = c[k]
      BY <2>1, <1>2, <1>4
    <3>2. QED
      BY <3>1, <1>1 DEF Leads
  <2>2. CASE k = id
    <3>1. \/ Tells(S \cup T, "message", k)
          \/ k \in Ids(M) /\ M[k].role = d[k].role
          \/ k \notin Ids(M) /\ d[k].role = "assistant" /\ Tells(S \cup T, "part", k)
      BY <2>2, <1>1, <1>4 DEF Leads
    <3>2. \/ Tells(S \cup T, "part", k)
          \/ k \notin Ids(M) /\ d[k].text = NoText /\ d[k].ver = 0 /\ Tells(S \cup T, "message", k)
      BY <2>2, <1>1, <1>4
    <3>3. QED
      BY <3>1, <3>2
  <2>3. QED
    BY <2>1, <2>2
<1>5. QED
  BY <1>3, <1>4 DEF Leads

\* An edit of the conversation, seen from the page: message `id` is brought,
\* grows or is removed, and the frames `new` say so.
EditBy(id, new) ==
    /\ running /\ edits' = edits + 1 /\ conv' \in Transcripts /\ prompts' \in Seq(Prompts)
    /\ \A k \in Ids(conv') : conv'[k].role = "assistant" => conv'[k].text = NoText
    /\ new \in Seq(Frames) /\ QueueTrue(new, conv')
    /\ \A i \in DOMAIN new : new[i].kind # "hub" /\ new[i].no = edits + 1 /\ new[i].id = id
    /\ id \in Nat /\ id <= edits + 1
    /\ \A k \in Nat \ {id} : k \in Ids(conv') <=> k \in Ids(conv)
    /\ \A k \in Ids(conv) \ {id} : conv'[k] = conv[k]
    /\ \/ /\ id = edits + 1 /\ id \in Ids(conv') /\ Tells(ChangesOf(new), "message", id)
          /\ Tells(ChangesOf(new), "part", id) \/ (conv'[id].text = NoText /\ conv'[id].ver = 0)
       \/ /\ id \in Ids(conv) /\ id \in Ids(conv') /\ conv'[id].role = conv[id].role
          /\ Tells(ChangesOf(new), "part", id)
       \/ id \in Ids(conv) /\ id \notin Ids(conv') /\ Tells(ChangesOf(new), "removed", id)
    /\ stream' = Forwarded(new)
    /\ UNCHANGED <<running, wakes, view, asked, served>>

\* What leads to the conversation goes on doing so.
LEMMA EditLeads ==
    ASSUME NEW id, NEW new, LiveShape, ConvSound, EditBy(id, new),
           NEW M \in Transcripts, MessagesNumbered(M, edits), NEW S, Leads(M, S, conv)
    PROVE  Leads(M, S \cup ChangesOf(new), conv')
<1>1. conv \in Transcripts /\ conv' \in Transcripts /\ id \in Nat /\ Ids(M) \subseteq Nat /\ edits \in Nat
  BY TranscriptHas DEF LiveShape, EditBy
<1>2. id = edits + 1 => id \notin Ids(M)
  BY <1>1 DEF MessagesNumbered
<1>3. /\ \A k \in Nat \ {id} : k \in Ids(conv') <=> k \in Ids(conv)
      /\ \A k \in Ids(conv) \ {id} : conv'[k] = conv[k]
  BY DEF EditBy
<1>4. id \notin Ids(conv') => Tells(ChangesOf(new), "removed", id)
  BY DEF EditBy
<1>5. id \in Ids(conv') =>
        /\ Tells(ChangesOf(new), "message", id) \/ (id \in Ids(conv) /\ conv'[id].role = conv[id].role)
        /\ \/ Tells(ChangesOf(new), "part", id)
           \/ Tells(ChangesOf(new), "message", id) /\ id \notin Ids(M) /\ conv'[id].text = NoText /\ conv'[id].ver = 0
  BY <1>2 DEF EditBy
<1>6. QED
  BY <1>1, <1>3, <1>4, <1>5, LeadsAppended

\* The queue of the stream that is attached goes on ending in the conversation.
LEMMA EditQueueTrue ==
    ASSUME NEW id, NEW new, LiveShape, ConvSound, EditBy(id, new),
           QueueNumbered(stream.frames, edits), QueueTrue(stream.frames, conv)
    PROVE  QueueTrue(stream.frames \o new, conv')
<1>1. stream.frames \in Seq(Frames) /\ new \in Seq(Frames) /\ edits \in Nat /\ id \in Nat
  BY DEF LiveShape, LiveStreams, EditBy
<1>2. \A kind : Tells(ChangesOf(new), kind, id) => \E i \in DOMAIN new : new[i].kind = kind
  BY DEF Tells, ChangesOf
<1>3. \/ id = edits + 1
      \/ /\ id \in Ids(conv) /\ id \in Ids(conv') /\ conv'[id].role = conv[id].role
         /\ \E i \in DOMAIN new : new[i].kind = "part"
      \/ /\ id \in Ids(conv) /\ id \notin Ids(conv')
         /\ \E i \in DOMAIN new : new[i].kind = "removed"
  BY <1>2 DEF EditBy
<1>4. /\ QueueTrue(new, conv')
      /\ \A i \in DOMAIN new : new[i].kind # "hub" /\ new[i].no = edits + 1 /\ new[i].id = id
      /\ \A k \in Nat \ {id} : k \in Ids(conv') <=> k \in Ids(conv)
      /\ \A k \in Ids(conv) \ {id} : conv'[k] = conv[k]
  BY DEF EditBy
<1>5. QED
  BY <1>1, <1>3, <1>4, QueueTrueAppended, ZenonT(60)

\* The changes after an edit, with newer ones added.
LEMMA ChangesAfterAppended ==
    ASSUME NEW fs \in Seq(Frames), NEW new \in Seq(Frames), NEW n,
           \A f \in ChangesOf(new) : f.no > n
    PROVE  ChangesAfter(fs \o new, n) = ChangesAfter(fs, n) \cup ChangesOf(new)
<1>1. ChangesOf(fs \o new) = ChangesOf(fs) \cup ChangesOf(new)
  BY AppendedIs
<1>2. QED
  BY <1>1 DEF ChangesAfter

\* An edit while the stream is attached.
LEMMA EditAttached ==
    ASSUME NEW id, NEW new, LiveInv, EditBy(id, new), stream.at = "attached"
    PROVE  AttachedSound'
<1> DEFINE fs == stream.frames
           gs == stream.frames \o new
<1>1. /\ fs \in Seq(Frames) /\ new \in Seq(Frames) /\ edits \in Nat /\ LiveShape /\ ConvSound
      /\ QueueNumbered(fs, edits) /\ QueueTrue(fs, conv)
  BY DEF LiveInv, LiveShape, LiveStreams, AttachedSound, EditBy
<1>2. /\ stream' = [stream EXCEPT !.frames = @ \o new] /\ running' = running /\ edits' = edits + 1
      /\ view' = view /\ asked' = asked /\ served' = served
  BY DEF EditBy, Forwarded
<1>3. stream'.frames = gs /\ stream'.at = "attached"
  BY <1>2 DEF LiveInv, LiveShape, LiveStreams
<1> HIDE DEF fs, gs
<1>4. running' /\ QueueTrue(gs, conv')
  <2>1. QueueTrue(gs, conv')
    BY <1>1, EditQueueTrue DEF fs, gs
  <2>2. QED
    BY <1>2, <2>1 DEF EditBy
<1>5. /\ ChangesOf(gs) = ChangesOf(fs) \cup ChangesOf(new)
      /\ \A i \in DOMAIN fs : i \in DOMAIN gs /\ gs[i] = fs[i]
      /\ \A i \in DOMAIN gs : i \in DOMAIN fs \/ i - Len(fs) \in DOMAIN new
      /\ \A i \in DOMAIN new : i + Len(fs) \in DOMAIN gs /\ gs[i + Len(fs)] = new[i]
      /\ DOMAIN gs \subseteq Nat /\ Len(fs) \in Nat /\ Len(new) \in Nat
  <2>1. fs \o new = gs
    BY DEF fs, gs
  <2>2. /\ DOMAIN (fs \o new) = 1 .. Len(fs) + Len(new)
        /\ ChangesOf(fs \o new) = ChangesOf(fs) \cup ChangesOf(new)
        /\ \A i \in DOMAIN fs : i \in DOMAIN (fs \o new) /\ (fs \o new)[i] = fs[i]
        /\ \A i \in DOMAIN (fs \o new) : i \in DOMAIN fs \/ (i > Len(fs) /\ i - Len(fs) \in DOMAIN new)
        /\ \A i \in DOMAIN new : i + Len(fs) \in DOMAIN (fs \o new) /\ (fs \o new)[i + Len(fs)] = new[i]
    BY <1>1, AppendedIs
  <2>3. Len(fs) \in Nat /\ Len(new) \in Nat
    BY <1>1
  <2>4. DOMAIN gs \subseteq Nat
    BY <2>1, <2>2, <2>3
  <2>5. QED
    BY <2>1, <2>2, <2>3, <2>4
<1>6. ASSUME NEW i \in DOMAIN gs, gs[i].kind = "hub"
      PROVE  i = 1 /\ gs[i].state = "live"
  <2>1. i \in DOMAIN fs
    <3> SUFFICES ASSUME i - Len(fs) \in DOMAIN new PROVE FALSE
      BY <1>5
    <3>1. (i - Len(fs)) + Len(fs) = i
      BY <1>5
    <3>2. gs[i] = new[i - Len(fs)]
      BY <1>5, <3>1
    <3>3. QED
      BY <3>2, <1>6 DEF EditBy
  <2>2. QED
    BY <2>1, <1>5, <1>6 DEF LiveInv, AttachedSound, fs
<1>7. PICK b \in 0 .. edits : ReadsLead(b) /\ OnItsWay(b)
  BY DEF LiveInv, AttachedSound
<1>8. b \in 0 .. edits'
  BY <1>1, <1>2, <1>7
<1>9. \A f \in ChangesOf(new) : f.no = edits + 1
  BY DEF ChangesOf, EditBy
<1>10. ReadsLead(b)'
  <2> SUFFICES ASSUME NEW i \in DOMAIN served, served[i].asOf >= b, ~(served[i].asOf < view.asOf)
               PROVE  Leads(served[i].msgs, ChangesAfter(gs, served[i].asOf), conv')
    BY <1>2, <1>3 DEF ReadsLead
  <2>1. Leads(served[i].msgs, ChangesAfter(fs, served[i].asOf), conv)
    BY <1>7 DEF ReadsLead, fs
  <2>2. served[i] \in Reads /\ ReadSound(served[i])
    BY DEF LiveInv, LiveShape, ReadsSound
  <2>3. /\ served[i].msgs \in Transcripts /\ MessagesNumbered(served[i].msgs, edits)
        /\ served[i].asOf \in Nat /\ served[i].asOf <= edits
    BY <2>2 DEF Reads, ReadSound
  <2>4. Leads(served[i].msgs, ChangesAfter(fs, served[i].asOf) \cup ChangesOf(new), conv')
    BY <1>1, <2>1, <2>3, EditLeads
  <2>5. ChangesAfter(gs, served[i].asOf) = ChangesAfter(fs, served[i].asOf) \cup ChangesOf(new)
    <3>1. \A f \in ChangesOf(new) : f.no > served[i].asOf
      BY <1>1, <1>9, <2>3
    <3>2. QED
      BY <1>1, <3>1, ChangesAfterAppended DEF fs, gs
  <2>6. QED
    BY <2>4, <2>5
<1>11. OnItsWay(b)'
  <2>1. CASE fs # <<>> /\ fs[1].kind = "hub"
    <3>1. 1 \in DOMAIN fs
      BY <2>1, <1>1
    <3>2. 1 \in DOMAIN gs /\ gs[1] = fs[1]
      BY <3>1, <1>5
    <3>3. gs # <<>>
      BY <3>2
    <3>4. QED
      BY <2>1, <3>2, <3>3, <1>3 DEF OnItsWay
  <2>2. CASE view.asOf >= b /\ Leads(view.msgs, ChangesOf(fs), conv)
    <3>1. view.msgs \in Transcripts /\ MessagesNumbered(view.msgs, edits)
      BY DEF LiveInv, LiveShape, Views, ViewSound
    <3>2. Leads(view.msgs, ChangesOf(fs) \cup ChangesOf(new), conv')
      BY <1>1, <2>2, <3>1, EditLeads
    <3>3. QED
      BY <2>2, <3>2, <1>2, <1>3, <1>5 DEF OnItsWay
  <2>3. CASE \/ asked > 0
             \/ \E i \in DOMAIN served : served[i].asOf >= b
             \/ view.failed /\ \A i \in DOMAIN served : served[i].early
             \/ view.asOf >= b /\ view.overtaken
    BY <2>3, <1>2 DEF OnItsWay
  <2>4. QED
    BY <1>7, <2>1, <2>2, <2>3 DEF OnItsWay, fs
<1>12. QED
  BY <1>3, <1>4, <1>6, <1>8, <1>10, <1>11 DEF AttachedSound

\* An edit, wherever the stream is.
LEMMA EditKeepsLiveInv ==
    ASSUME NEW id, NEW new, LiveInv, EditBy(id, new)
    PROVE  LiveInv'
<1>1. /\ LiveShape /\ ConvSound /\ ViewSound /\ ReadsSound /\ ClosedSound
      /\ QueueNumbered(stream.frames, edits) /\ EndingSound /\ AsleepSound
  BY DEF LiveInv
<1>2. /\ running' = running /\ edits' = edits + 1 /\ view' = view /\ asked' = asked /\ served' = served
      /\ wakes' = wakes /\ running /\ stream' = Forwarded(new) /\ edits \in Nat
  BY <1>1 DEF EditBy, LiveShape
<1>3. /\ stream' \in LiveStreams /\ stream'.at = stream.at
      /\ stream'.frames = IF stream.at = "attached" THEN stream.frames \o new ELSE stream.frames
  <2>1. stream \in LiveStreams /\ new \in Seq(Frames)
    BY <1>1 DEF LiveShape, EditBy
  <2>2. stream.frames \o new \in Seq(Frames)
    BY <2>1 DEF LiveStreams
  <2>3. QED
    BY <1>2, <2>1, <2>2 DEF Forwarded, LiveStreams
<1>4. LiveShape'
  BY <1>1, <1>2, <1>3 DEF LiveShape, EditBy
<1>5. ConvSound'
  <2>1. \A k \in Ids(conv') : k \in Nat
    BY TranscriptHas DEF EditBy
  <2>2. \A k \in Ids(conv') : k <= edits + 1
    BY <1>1, <1>2, <2>1 DEF ConvSound, MessagesNumbered, EditBy
  <2>3. QED
    BY <1>2, <2>2 DEF ConvSound, MessagesNumbered, EditBy
<1>6. \A M \in Transcripts : MessagesNumbered(M, edits) => MessagesNumbered(M, edits + 1)
  BY <1>2, TranscriptHas DEF MessagesNumbered
<1>7. ViewSound'
  <2>1. view.msgs \in Transcripts /\ view.asOf \in Nat
    BY <1>1 DEF LiveShape, Views
  <2>2. QED
    BY <1>1, <1>2, <1>6, <2>1 DEF ViewSound
<1>8. ReadsSound'
  <2> SUFFICES ASSUME NEW i \in DOMAIN served
               PROVE  ReadSound(served[i])'
    BY <1>2 DEF ReadsSound
  <2>1. served[i] \in Reads /\ ReadSound(served[i])
    BY <1>1 DEF LiveShape, ReadsSound
  <2>2. served[i].msgs \in Transcripts /\ served[i].asOf \in Nat
    BY <2>1 DEF Reads
  <2>3. QED
    BY <1>2, <1>6, <2>1, <2>2 DEF ReadSound
<1>9. ClosedSound'
  BY <1>1, <1>2, <1>3 DEF ClosedSound
<1>10. QueueNumbered(stream.frames, edits)'
  <2>1. \A f \in Changes : f.no \in Nat
    BY DEF Changes, MessageFrames, PartFrames, RemovedFrames
  <2>2. stream.frames \in Seq(Frames) /\ new \in Seq(Frames)
    BY <1>1 DEF LiveShape, LiveStreams, EditBy
  <2>3. \A i \in DOMAIN stream.frames : stream.frames[i].kind # "hub" => stream.frames[i].no \in Nat
    BY <2>1, <2>2, ChangesAreFrames
  <2>4. QueueNumbered(stream.frames, edits + 1)
    BY <1>1, <1>2, <2>3 DEF QueueNumbered
  <2>5. QueueNumbered(stream.frames \o new, edits + 1)
    <3> DEFINE gs == stream.frames \o new
    <3>1. /\ \A i \in DOMAIN stream.frames : gs[i] = stream.frames[i]
          /\ \A i \in DOMAIN new : gs[i + Len(stream.frames)] = new[i]
          /\ \A i \in DOMAIN gs : i \in DOMAIN stream.frames \/ i - Len(stream.frames) \in DOMAIN new
          /\ DOMAIN gs \subseteq Nat /\ Len(stream.frames) \in Nat
      BY <2>2, AppendedIs
    <3> HIDE DEF gs
    <3>2. \A i \in DOMAIN gs : i - Len(stream.frames) \in DOMAIN new => gs[i] = new[i - Len(stream.frames)]
      <4> TAKE i \in DOMAIN gs
      <4>1. (i - Len(stream.frames)) + Len(stream.frames) = i
        BY <3>1
      <4>2. QED
        BY <3>1, <4>1
    <3>3. \A i \in DOMAIN new : new[i].id <= new[i].no /\ new[i].no <= edits + 1
      BY <1>2 DEF EditBy
    <3>4. QueueNumbered(gs, edits + 1)
      BY <2>4, <3>1, <3>2, <3>3 DEF QueueNumbered
    <3>5. QED
      BY <3>4 DEF gs
  <2>6. QED
    BY <1>2, <1>3, <2>4, <2>5
<1>11. AttachedSound'
  <2>1. CASE stream.at = "attached"
    BY <2>1, EditAttached
  <2>2. CASE stream.at # "attached"
    BY <2>2, <1>3 DEF AttachedSound
  <2>3. QED
    BY <2>1, <2>2
<1>12. EndingSound'
  <2> SUFFICES ASSUME stream.at = "ending" PROVE QueueOld(stream.frames, edits + 1)
    BY <1>2, <1>3 DEF EndingSound
  <2>1. \A f \in Changes : f.no \in Nat
    BY DEF Changes, MessageFrames, PartFrames, RemovedFrames
  <2>2. \A i \in DOMAIN stream.frames : stream.frames[i].kind # "hub" => stream.frames[i].no \in Nat
    BY <1>1, <2>1, ChangesAreFrames DEF LiveShape, LiveStreams
  <2>3. QED
    BY <1>1, <1>2, <2>2 DEF QueueNumbered, QueueOld
<1>13. AsleepSound'
  BY <1>1, <1>2 DEF AsleepSound, Slept
<1>14. QED
  BY <1>4, <1>5, <1>7, <1>8, <1>9, <1>10, <1>11, <1>12, <1>13 DEF LiveInv

\* A queue of one change, true of a conversation.
LEMMA OneFrame ==
    ASSUME NEW f \in Changes, NEW d,
           f.kind = "message" /\ f.id \in Ids(d) => f.role = d[f.id].role,
           f.kind = "part" /\ f.id \in Ids(d) => f.text = d[f.id].text /\ f.ver = d[f.id].ver,
           f.kind = "removed" <=> f.id \notin Ids(d)
    PROVE  /\ <<f>> \in Seq(Frames) /\ DOMAIN <<f>> = {1} /\ <<f>>[1] = f
           /\ QueueTrue(<<f>>, d)
           /\ ChangesOf(<<f>>) = {f}
<1>1. f \in Frames /\ f.kind # "hub"
  BY DEF Frames, Changes, MessageFrames, PartFrames, RemovedFrames
<1>2. <<f>> \in Seq(Frames) /\ DOMAIN <<f>> = {1} /\ <<f>>[1] = f
  BY <1>1
<1>3. ChangesOf(<<f>>) = {f}
  BY <1>1, <1>2 DEF ChangesOf
<1>4. QueueTrue(<<f>>, d)
  BY <1>2 DEF QueueTrue, FrameTrue
<1>5. QED
  BY <1>2, <1>3, <1>4

\* The frames of a message and of its part.
LEMMA TwoFrames ==
    ASSUME NEW f \in MessageFrames, NEW g \in PartFrames, NEW d,
           g.id = f.id, g.no = f.no, f.id = f.no, f.id \in Ids(d),
           f.role = "user", f.role = d[f.id].role, g.text = d[f.id].text, g.ver = d[f.id].ver
    PROVE  /\ <<f, g>> \in Seq(Frames) /\ DOMAIN <<f, g>> = {1, 2} /\ <<f, g>>[1] = f /\ <<f, g>>[2] = g
           /\ QueueTrue(<<f, g>>, d)
           /\ ChangesOf(<<f, g>>) = {f, g}
<1>1. f \in Frames /\ g \in Frames /\ f.kind = "message" /\ g.kind = "part" /\ f.no \in Nat
  BY DEF Frames, Changes, MessageFrames, PartFrames, RemovedFrames
<1>2. <<f, g>> \in Seq(Frames) /\ DOMAIN <<f, g>> = {1, 2} /\ <<f, g>>[1] = f /\ <<f, g>>[2] = g
  BY <1>1
<1> DEFINE q == <<f, g>>
<1> HIDE DEF q
<1>3. DOMAIN q = {1, 2} /\ q[1] = f /\ q[2] = g
  BY <1>2 DEF q
<1>4. ChangesOf(q) = {f, g}
  BY <1>1, <1>3 DEF ChangesOf
<1>5. FrameTrue(q, 1, d) /\ FrameTrue(q, 2, d)
  BY <1>1, <1>3 DEF FrameTrue
<1>6. FramesInOrder(q, 1, 2)
  BY <1>1, <1>3 DEF FramesInOrder
<1>7. QueueTrue(q, d)
  BY <1>3, <1>5, <1>6 DEF QueueTrue
<1>8. QED
  BY <1>2, <1>4, <1>7 DEF q

\* OpenCode takes a prompt.
LEMMA DeliveredEdits ==
    ASSUME LiveInv, NEW n \in DOMAIN prompts, Delivered(n)
    PROVE  \E id, new : EditBy(id, new)
<1> DEFINE id == edits + 1
           m == [role |-> "user", text |-> prompts[n].text, ver |-> 1]
           f == [kind |-> "message", no |-> id, id |-> id, role |-> "user"]
           g == [kind |-> "part", no |-> id, id |-> id, text |-> prompts[n].text, ver |-> 1]
<1>1. /\ conv \in Transcripts /\ edits \in Nat /\ prompts \in Seq(Prompts) /\ ConvSound
      /\ id \in Nat /\ prompts[n] \in Prompts /\ prompts[n].text \in Texts
  <2>1. conv \in Transcripts /\ edits \in Nat /\ prompts \in Seq(Prompts) /\ ConvSound
    BY DEF LiveInv, LiveShape
  <2>2. prompts[n] \in Prompts
    BY <2>1
  <2>3. QED
    BY <2>1, <2>2 DEF Prompts
<1>2. m \in Message /\ f \in MessageFrames /\ g \in PartFrames
  BY <1>1 DEF Message, Roles, MessageFrames, PartFrames
<1>3. /\ f.id = id /\ f.no = id /\ f.role = "user" /\ f.kind = "message"
      /\ g.id = id /\ g.no = id /\ g.text = prompts[n].text /\ g.ver = 1 /\ g.kind = "part"
      /\ m.role = "user" /\ m.text = prompts[n].text /\ m.ver = 1
  OBVIOUS
<1>4. /\ running /\ edits' = id /\ conv' = With(conv, id, m) /\ stream' = Forwarded(<<f, g>>)
      /\ UNCHANGED <<running, wakes, view, asked, served>>
  BY DEF Delivered
<1>5. prompts' \in Seq(Prompts)
  <2>1. prompts' = [prompts EXCEPT ![n].at = "delivered", ![n].id = id]
    BY DEF Delivered
  <2>2. [prompts[n] EXCEPT !.at = "delivered", !.id = id] \in Prompts
    BY <1>1 DEF Prompts
  <2>3. prompts' = [prompts EXCEPT ![n] = [prompts[n] EXCEPT !.at = "delivered", !.id = id]]
    BY <2>1, <1>1
  <2>4. QED
    BY <2>2, <2>3, <1>1
<1> HIDE DEF id, m, f, g
<1>6. /\ conv' \in Transcripts /\ Ids(conv') = Ids(conv) \cup {id} /\ conv'[id] = m
      /\ \A k \in Ids(conv) \ {id} : conv'[k] = conv[k]
  BY <1>1, <1>2, <1>4, WithIs
<1>7. /\ <<f, g>> \in Seq(Frames) /\ DOMAIN <<f, g>> = {1, 2} /\ <<f, g>>[1] = f /\ <<f, g>>[2] = g
      /\ QueueTrue(<<f, g>>, conv') /\ ChangesOf(<<f, g>>) = {f, g}
  BY <1>2, <1>3, <1>6, TwoFrames
<1>8. Tells(ChangesOf(<<f, g>>), "message", id) /\ Tells(ChangesOf(<<f, g>>), "part", id)
  BY <1>3, <1>7 DEF Tells
<1>9. \A k \in Ids(conv') : conv'[k].role = "assistant" => conv'[k].text = NoText
  BY <1>1, <1>3, <1>6 DEF ConvSound
<1>10. \A i \in DOMAIN <<f, g>> : <<f, g>>[i].kind # "hub" /\ <<f, g>>[i].no = edits + 1 /\ <<f, g>>[i].id = id
  BY <1>3, <1>7 DEF id
<1>11. EditBy(id, <<f, g>>)
  <2>1. id = edits + 1 /\ id <= edits + 1
    BY <1>1 DEF id
  <2>2. \A k \in Nat \ {id} : k \in Ids(conv') <=> k \in Ids(conv)
    BY <1>6
  <2>3. edits' = edits + 1
    BY <1>4, <2>1
  <2>4. QED
    BY <1>1, <1>4, <1>5, <1>6, <1>7, <1>8, <1>9, <1>10, <2>1, <2>2, <2>3 DEF EditBy
<1>12. QED
  BY <1>11

\* OpenCode starts a message.
LEMMA RepliesEdits ==
    ASSUME LiveInv, Replies
    PROVE  \E id, new : EditBy(id, new)
<1> DEFINE id == edits + 1
           m == [role |-> "assistant", text |-> NoText, ver |-> 0]
           f == [kind |-> "message", no |-> id, id |-> id, role |-> "assistant"]
<1>1. conv \in Transcripts /\ edits \in Nat /\ prompts \in Seq(Prompts) /\ ConvSound /\ id \in Nat
  BY DEF LiveInv, LiveShape
<1>2. m \in Message /\ f \in MessageFrames /\ f \in Changes
  BY <1>1 DEF Message, Roles, MessageFrames, Changes
<1>3. /\ f.id = id /\ f.no = id /\ f.role = "assistant" /\ f.kind = "message"
      /\ m.role = "assistant" /\ m.text = NoText /\ m.ver = 0
  OBVIOUS
<1>4. /\ running /\ edits' = id /\ conv' = With(conv, id, m) /\ stream' = Forwarded(<<f>>)
      /\ UNCHANGED <<running, wakes, view, asked, served, prompts>>
  BY DEF Replies, sends
<1> HIDE DEF id, m, f
<1>5. /\ conv' \in Transcripts /\ Ids(conv') = Ids(conv) \cup {id} /\ conv'[id] = m
      /\ \A k \in Ids(conv) \ {id} : conv'[k] = conv[k]
  BY <1>1, <1>2, <1>4, WithIs
<1>6. /\ <<f>> \in Seq(Frames) /\ DOMAIN <<f>> = {1} /\ <<f>>[1] = f
      /\ QueueTrue(<<f>>, conv') /\ ChangesOf(<<f>>) = {f}
  BY <1>2, <1>3, <1>5, OneFrame
<1>7. Tells(ChangesOf(<<f>>), "message", id)
  BY <1>3, <1>6 DEF Tells
<1>8. \A k \in Ids(conv') : conv'[k].role = "assistant" => conv'[k].text = NoText
  BY <1>1, <1>3, <1>5 DEF ConvSound
<1>9. \A i \in DOMAIN <<f>> : <<f>>[i].kind # "hub" /\ <<f>>[i].no = edits + 1 /\ <<f>>[i].id = id
  BY <1>3, <1>6 DEF id
<1>10. EditBy(id, <<f>>)
  <2>1. id = edits + 1 /\ id <= edits + 1 /\ edits' = edits + 1
    BY <1>1, <1>4 DEF id
  <2>2. \A k \in Nat \ {id} : k \in Ids(conv') <=> k \in Ids(conv)
    BY <1>5
  <2>3. prompts' \in Seq(Prompts)
    BY <1>1, <1>4
  <2>4. QED
    BY <1>1, <1>3, <1>4, <1>5, <1>6, <1>7, <1>8, <1>9, <2>1, <2>2, <2>3 DEF EditBy
<1>11. QED
  BY <1>10

\* A message grows.
LEMMA GrowsEdits ==
    ASSUME LiveInv, NEW id \in Ids(conv), Grows(id)
    PROVE  \E new : EditBy(id, new)
<1> DEFINE f == [kind |-> "part", no |-> edits + 1, id |-> id, text |-> NoText, ver |-> conv[id].ver + 1]
<1>1. /\ conv \in Transcripts /\ edits \in Nat /\ prompts \in Seq(Prompts) /\ ConvSound
      /\ id \in Nat /\ id <= edits /\ conv[id] \in Message /\ conv[id].ver \in Nat
  <2>1. conv \in Transcripts /\ edits \in Nat /\ prompts \in Seq(Prompts) /\ ConvSound
    BY DEF LiveInv, LiveShape
  <2>2. id \in Nat /\ conv[id] \in Message
    BY <2>1, TranscriptHas
  <2>3. QED
    BY <2>1, <2>2 DEF ConvSound, MessagesNumbered, Message
<1>2. conv[id].role = "assistant" /\ conv[id].text = NoText
  BY <1>1 DEF Grows, ConvSound
<1>3. f \in PartFrames /\ f \in Changes /\ f.kind = "part" /\ f.id = id /\ f.no = edits + 1 /\ f.text = NoText
      /\ f.ver = conv[id].ver + 1
  BY <1>1 DEF PartFrames, Changes
<1>4. /\ running /\ edits' = edits + 1 /\ conv' = [conv EXCEPT ![id].ver = @ + 1] /\ stream' = Forwarded(<<f>>)
      /\ UNCHANGED <<running, wakes, view, asked, served, prompts>>
  BY DEF Grows, sends
<1> HIDE DEF f
<1>5. /\ conv' \in Transcripts /\ Ids(conv') = Ids(conv)
      /\ conv'[id].role = conv[id].role /\ conv'[id].text = NoText /\ conv'[id].ver = conv[id].ver + 1
      /\ \A k \in Ids(conv) \ {id} : conv'[k] = conv[k]
  <2> DEFINE m == [conv[id] EXCEPT !.ver = @ + 1]
  <2>1. m \in Message /\ m.role = conv[id].role /\ m.text = NoText /\ m.ver = conv[id].ver + 1
    BY <1>1, <1>2 DEF Message
  <2>2. conv' = [conv EXCEPT ![id] = m]
    BY <1>4
  <2> HIDE DEF m
  <2>3. PICK I \in SUBSET Nat : conv \in [I -> Message]
    BY <1>1 DEF Transcripts
  <2>4. conv' \in [I -> Message] /\ conv'[id] = m /\ \A k \in I \ {id} : conv'[k] = conv[k]
    BY <2>1, <2>2, <2>3 DEF Ids
  <2>5. QED
    BY <2>1, <2>3, <2>4 DEF Transcripts, Ids
<1>6. /\ <<f>> \in Seq(Frames) /\ DOMAIN <<f>> = {1} /\ <<f>>[1] = f
      /\ QueueTrue(<<f>>, conv') /\ ChangesOf(<<f>>) = {f}
  BY <1>3, <1>5, OneFrame
<1>7. Tells(ChangesOf(<<f>>), "part", id)
  BY <1>3, <1>6 DEF Tells
<1>8. \A k \in Ids(conv') : conv'[k].role = "assistant" => conv'[k].text = NoText
  BY <1>1, <1>5 DEF ConvSound
<1>9. \A i \in DOMAIN <<f>> : <<f>>[i].kind # "hub" /\ <<f>>[i].no = edits + 1 /\ <<f>>[i].id = id
  BY <1>3, <1>6
<1>10. EditBy(id, <<f>>)
  <2>1. id <= edits + 1 /\ prompts' \in Seq(Prompts)
    BY <1>1, <1>4
  <2>2. \A k \in Nat \ {id} : k \in Ids(conv') <=> k \in Ids(conv)
    BY <1>5
  <2>3. QED
    BY <1>1, <1>4, <1>5, <1>6, <1>7, <1>8, <1>9, <2>1, <2>2 DEF EditBy
<1>11. QED
  BY <1>10

\* A message is removed.
LEMMA RemovesEdits ==
    ASSUME LiveInv, NEW id \in Ids(conv), Removes(id)
    PROVE  \E new : EditBy(id, new)
<1> DEFINE f == [kind |-> "removed", no |-> edits + 1, id |-> id]
<1>1. /\ conv \in Transcripts /\ edits \in Nat /\ prompts \in Seq(Prompts) /\ ConvSound
      /\ id \in Nat /\ id <= edits
  <2>1. conv \in Transcripts /\ edits \in Nat /\ prompts \in Seq(Prompts) /\ ConvSound
    BY DEF LiveInv, LiveShape
  <2>2. QED
    BY <2>1, TranscriptHas DEF ConvSound, MessagesNumbered
<1>2. f \in RemovedFrames /\ f \in Changes /\ f.kind = "removed" /\ f.id = id /\ f.no = edits + 1
  BY <1>1 DEF RemovedFrames, Changes
<1>3. /\ running /\ edits' = edits + 1 /\ conv' = Without(conv, id) /\ stream' = Forwarded(<<f>>)
      /\ UNCHANGED <<running, wakes, view, asked, served, prompts>>
  BY DEF Removes, sends
<1> HIDE DEF f
<1>4. /\ conv' \in Transcripts /\ Ids(conv') = Ids(conv) \ {id}
      /\ \A k \in Ids(conv) \ {id} : conv'[k] = conv[k]
  BY <1>1, <1>3, WithoutIs
<1>5. /\ <<f>> \in Seq(Frames) /\ DOMAIN <<f>> = {1} /\ <<f>>[1] = f
      /\ QueueTrue(<<f>>, conv') /\ ChangesOf(<<f>>) = {f}
  BY <1>2, <1>4, OneFrame
<1>6. Tells(ChangesOf(<<f>>), "removed", id)
  BY <1>2, <1>5 DEF Tells
<1>7. \A k \in Ids(conv') : conv'[k].role = "assistant" => conv'[k].text = NoText
  BY <1>1, <1>4 DEF ConvSound
<1>8. \A i \in DOMAIN <<f>> : <<f>>[i].kind # "hub" /\ <<f>>[i].no = edits + 1 /\ <<f>>[i].id = id
  BY <1>2, <1>5
<1>9. EditBy(id, <<f>>)
  <2>1. id <= edits + 1 /\ prompts' \in Seq(Prompts)
    BY <1>1, <1>3
  <2>2. \A k \in Nat \ {id} : k \in Ids(conv') <=> k \in Ids(conv)
    BY <1>4
  <2>3. QED
    BY <1>1, <1>3, <1>4, <1>5, <1>6, <1>7, <1>8, <2>1, <2>2 DEF EditBy
<1>10. QED
  BY <1>9

\* Whatever OpenCode does with the conversation keeps the invariant.
LEMMA ConversationKeepsLiveInv ==
    ASSUME LiveInv, ConversationNext
    PROVE  LiveInv'
<1>1. \E id, new : EditBy(id, new)
  <2>1. CASE \E n \in DOMAIN prompts : Delivered(n)
    BY <2>1, DeliveredEdits
  <2>2. CASE Replies
    BY <2>2, RepliesEdits
  <2>3. CASE \E id \in Ids(conv) : Grows(id) \/ Removes(id)
    BY <2>3, GrowsEdits, RemovesEdits
  <2>4. QED
    BY <2>1, <2>2, <2>3 DEF ConversationNext
<1>2. QED
  BY <1>1, EditKeepsLiveInv

-----------------------------------------------------------------------------
\* The container, the stream and the prompts

\* A step that leaves the conversation, the container and the reads alone and
\* does not touch the stream beyond breaking it off.
LEMMA BrokenOffKeepsLiveInv ==
    ASSUME LiveInv, UNCHANGED <<convVars, served, prompts>>, asked' \in Nat, asked' >= asked,
           stream' \in LiveStreams, stream'.at \in {"connecting", "severed", "closed"}, stream'.frames = <<>>,
           view' \in Views, view'.msgs = view.msgs, view'.asOf = view.asOf, view'.wakes = view.wakes,
           view'.reported = view.reported, view'.failed = view.failed, view'.rewound = view.rewound,
           stream'.at = "closed" => view'.hidden
    PROVE  LiveInv'
<1>1. /\ LiveShape /\ ConvSound /\ ViewSound /\ ReadsSound /\ AsleepSound
      /\ conv' = conv /\ edits' = edits /\ running' = running /\ wakes' = wakes /\ served' = served /\ prompts' = prompts
  BY DEF LiveInv, convVars
<1>2. LiveShape'
  BY <1>1 DEF LiveShape
<1>3. ConvSound' /\ ViewSound'
  BY <1>1 DEF ConvSound, ViewSound
<1>4. ReadsSound'
  BY <1>1 DEF ReadsSound, ReadSound
<1>5. ClosedSound' /\ QueueNumbered(stream.frames, edits)' /\ AttachedSound' /\ EndingSound'
  BY DEF ClosedSound, QueueNumbered, AttachedSound, EndingSound
<1>6. asked > 0 => asked' > 0
  BY <1>1 DEF LiveShape
<1>7. Slept => Slept'
  BY <1>1 DEF Slept
<1>8. AsleepSound'
  BY <1>1, <1>6, <1>7 DEF AsleepSound
<1>9. QED
  BY <1>2, <1>3, <1>4, <1>5, <1>8 DEF LiveInv

\* A step that changes nothing the argument speaks of.
LEMMA AsideKeepsLiveInv ==
    ASSUME LiveInv, UNCHANGED <<convVars, served, asked, stream>>, prompts' \in Seq(Prompts),
           view' \in Views, view' = [view EXCEPT !.hidden = view'.hidden], stream.at = "closed" => view'.hidden
    PROVE  LiveInv'
<1>1. /\ LiveShape /\ ConvSound /\ ViewSound /\ ReadsSound /\ AsleepSound /\ AttachedSound /\ EndingSound
      /\ ClosedSound /\ QueueNumbered(stream.frames, edits)
      /\ conv' = conv /\ edits' = edits /\ running' = running /\ wakes' = wakes /\ served' = served
      /\ asked' = asked /\ stream' = stream
  BY DEF LiveInv, convVars
<1>2. /\ view'.msgs = view.msgs /\ view'.asOf = view.asOf /\ view'.wakes = view.wakes
      /\ view'.reported = view.reported /\ view'.failed = view.failed /\ view'.rewound = view.rewound
      /\ view'.overtaken = view.overtaken
  BY <1>1 DEF LiveShape, Views
<1>3. LiveShape'
  BY <1>1 DEF LiveShape
<1>4. ConvSound' /\ ViewSound'
  BY <1>1, <1>2 DEF ConvSound, ViewSound
<1>5. ReadsSound'
  BY <1>1 DEF ReadsSound, ReadSound
<1>6. ClosedSound' /\ QueueNumbered(stream.frames, edits)' /\ EndingSound'
  BY <1>1 DEF ClosedSound, EndingSound
<1>7. AttachedSound'
  BY <1>1, <1>2 DEF AttachedSound, ReadsLead, OnItsWay
<1>8. AsleepSound'
  BY <1>1, <1>2 DEF AsleepSound, Slept, NewestKept
<1>9. QED
  BY <1>3, <1>4, <1>5, <1>6, <1>7, <1>8 DEF LiveInv

\* A wake: what the page was told of the container asleep is of an earlier one.
LEMMA WakesKeepsLiveInv ==
    ASSUME LiveInv, Wakes
    PROVE  LiveInv'
<1>1. /\ LiveShape /\ ConvSound /\ ViewSound /\ ReadsSound /\ AttachedSound /\ EndingSound
      /\ QueueNumbered(stream.frames, edits) /\ ClosedSound
      /\ conv' = conv /\ edits' = edits /\ running' = TRUE /\ ~running /\ wakes' = wakes + 1 /\ wakes \in Nat
      /\ view' = view /\ served' = served /\ asked' = asked /\ stream' = stream /\ prompts' = prompts
  BY DEF LiveInv, Wakes, sends, LiveShape
<1>2. LiveShape' /\ ConvSound'
  BY <1>1 DEF LiveShape, ConvSound
<1>3. ViewSound' /\ view'.wakes # wakes'
  BY <1>1 DEF ViewSound, LiveShape, Views
<1>4. ReadsSound'
  <2> SUFFICES ASSUME NEW i \in DOMAIN served
               PROVE  ReadSound(served[i])'
    BY <1>1 DEF ReadsSound
  <2>1. served[i] \in Reads /\ ReadSound(served[i])
    BY <1>1 DEF LiveShape, ReadsSound
  <2>2. served[i].wakes \in Nat
    BY <2>1 DEF Reads
  <2>3. QED
    BY <1>1, <2>1, <2>2 DEF ReadSound
<1>5. ClosedSound' /\ QueueNumbered(stream.frames, edits)' /\ EndingSound' /\ AttachedSound'
  BY <1>1 DEF ClosedSound, EndingSound, AttachedSound
<1>6. AsleepSound'
  BY <1>3 DEF AsleepSound
<1>7. QED
  BY <1>2, <1>3, <1>4, <1>5, <1>6 DEF LiveInv

\* A stop: the stream ends with the frames it has, or is gone.
LEMMA StopsKeepsLiveInv ==
    ASSUME LiveInv, NEW graceful \in BOOLEAN, Stops(graceful)
    PROVE  LiveInv'
<1>1. /\ LiveShape /\ ConvSound /\ ViewSound /\ ReadsSound /\ AttachedSound /\ EndingSound /\ AsleepSound
      /\ QueueNumbered(stream.frames, edits) /\ ClosedSound
      /\ conv' = conv /\ edits' = edits /\ running' = FALSE /\ running /\ wakes' = wakes
      /\ view' = view /\ served' = served /\ asked' = asked /\ prompts' = prompts
      /\ stream \in LiveStreams /\ stream.frames \in Seq(Frames)
  BY DEF LiveInv, Stops, sends, LiveShape, LiveStreams
<1> DEFINE ended == [kind |-> "hub", state |-> "ended"]
           fs == stream.frames
           gs == Append(stream.frames, ended)
<1>2. ended \in Frames /\ ended.kind = "hub"
  BY DEF Frames, HubFrames
<1>3. stream' = IF stream.at # "attached" THEN stream
                ELSE IF graceful THEN [at |-> "ending", frames |-> gs]
                ELSE [at |-> "severed", frames |-> <<>>]
  BY DEF Stops
<1>4. /\ gs \in Seq(Frames) /\ DOMAIN fs = 1 .. Len(fs) /\ Len(fs) \in Nat
      /\ DOMAIN gs = 1 .. Len(fs) + 1 /\ gs[Len(fs) + 1] = ended
      /\ \A i \in DOMAIN fs : i \in DOMAIN gs /\ gs[i] = fs[i]
  BY <1>1, <1>2
<1> HIDE DEF ended, gs, fs
<1>5. \A i \in DOMAIN gs : gs[i].kind # "hub" => i \in DOMAIN fs /\ gs[i] = fs[i]
  BY <1>2, <1>4
<1>6. QueueTrue(fs, conv) => QueueTrue(gs, conv)
  <2> SUFFICES ASSUME QueueTrue(fs, conv), NEW i \in DOMAIN gs, gs[i].kind # "hub"
               PROVE  /\ FrameTrue(gs, i, conv)
                      /\ \A j \in DOMAIN gs : j > i /\ gs[j].kind # "hub" => FramesInOrder(gs, i, j)
    BY DEF QueueTrue
  <2>1. i \in DOMAIN fs /\ gs[i] = fs[i] /\ FrameTrue(fs, i, conv)
    BY <1>5 DEF QueueTrue
  <2>2. FrameTrue(gs, i, conv)
    BY <2>1, <1>4 DEF FrameTrue
  <2>3. ASSUME NEW j \in DOMAIN gs, j > i, gs[j].kind # "hub"
        PROVE  FramesInOrder(gs, i, j)
    <3>1. j \in DOMAIN fs /\ gs[j] = fs[j]
      BY <2>3, <1>5
    <3>2. FramesInOrder(fs, i, j)
      BY <3>1, <2>1, <2>3 DEF QueueTrue
    <3>3. QED
      BY <3>1, <3>2, <2>1 DEF FramesInOrder
  <2>4. QED
    BY <2>2, <2>3
<1>7. QueueNumbered(fs, edits) => QueueNumbered(gs, edits)
  BY <1>5 DEF QueueNumbered
<1>8. stream' \in LiveStreams
  BY <1>1, <1>3, <1>4 DEF LiveStreams
<1>9. LiveShape'
  BY <1>1, <1>8 DEF LiveShape
<1>10. ConvSound' /\ ViewSound'
  BY <1>1 DEF ConvSound, ViewSound
<1>11. ReadsSound'
  BY <1>1 DEF ReadsSound, ReadSound
<1>12. AsleepSound'
  BY <1>1 DEF AsleepSound, Slept
<1>13. CASE stream.at # "attached"
  <2>1. stream' = stream
    BY <1>3, <1>13
  <2>2. ClosedSound' /\ QueueNumbered(stream.frames, edits)' /\ EndingSound' /\ AttachedSound'
    BY <1>1, <1>13, <2>1 DEF ClosedSound, EndingSound, AttachedSound
  <2>3. QED
    BY <1>9, <1>10, <1>11, <1>12, <2>2 DEF LiveInv
<1>14. CASE stream.at = "attached" /\ graceful
  <2>1. stream'.at = "ending" /\ stream'.frames = gs
    BY <1>3, <1>14
  <2>2. QueueTrue(gs, conv) /\ QueueNumbered(gs, edits)
    BY <1>1, <1>6, <1>7, <1>14 DEF AttachedSound, fs
  <2>3. ClosedSound' /\ QueueNumbered(stream.frames, edits)' /\ EndingSound' /\ AttachedSound'
    BY <1>1, <2>1, <2>2 DEF ClosedSound, EndingSound, AttachedSound
  <2>4. QED
    BY <1>9, <1>10, <1>11, <1>12, <2>3 DEF LiveInv
<1>15. CASE stream.at = "attached" /\ ~graceful
  <2>1. stream'.at = "severed" /\ stream'.frames = <<>>
    BY <1>3, <1>15
  <2>2. ClosedSound' /\ QueueNumbered(stream.frames, edits)' /\ EndingSound' /\ AttachedSound'
    BY <2>1 DEF ClosedSound, QueueNumbered, EndingSound, AttachedSound
  <2>3. QED
    BY <1>9, <1>10, <1>11, <1>12, <2>2 DEF LiveInv
<1>16. QED
  BY <1>13, <1>14, <1>15

\* A stream is attached, and its first frame will lead to a read; or it says
\* that the container sleeps and ends.
LEMMA AttachKeepsLiveInv ==
    ASSUME LiveInv, Attach
    PROVE  LiveInv'
<1> DEFINE live == [kind |-> "hub", state |-> "live"]
           sleeping == [kind |-> "hub", state |-> "sleeping"]
<1>1. /\ LiveShape /\ ConvSound /\ ViewSound /\ ReadsSound /\ AsleepSound /\ edits \in Nat
      /\ conv' = conv /\ edits' = edits /\ running' = running /\ wakes' = wakes
      /\ view' = view /\ served' = served /\ asked' = asked /\ prompts' = prompts
      /\ stream' = IF running THEN [at |-> "attached", frames |-> <<live>>] ELSE [at |-> "ending", frames |-> <<sleeping>>]
      /\ stream.at = "connecting"
  BY DEF LiveInv, Attach, sends, LiveShape, convVars
<1>2. /\ live \in Frames /\ live.kind = "hub" /\ live.state = "live"
      /\ sleeping \in Frames /\ sleeping.kind = "hub"
  BY DEF Frames, HubFrames
<1> HIDE DEF live, sleeping
<1>3. /\ <<live>> \in Seq(Frames) /\ <<sleeping>> \in Seq(Frames)
      /\ DOMAIN <<live>> = {1} /\ DOMAIN <<sleeping>> = {1} /\ <<live>>[1] = live /\ <<sleeping>>[1] = sleeping
      /\ <<live>> # <<>>
  BY <1>2
<1>4. stream' \in LiveStreams
  BY <1>1, <1>3 DEF LiveStreams
<1>5. LiveShape' /\ ConvSound' /\ ViewSound'
  BY <1>1, <1>4 DEF LiveShape, ConvSound, ViewSound
<1>6. ReadsSound'
  BY <1>1 DEF ReadsSound, ReadSound
<1>7. CASE running
  <2>1. stream'.at = "attached" /\ stream'.frames = <<live>>
    BY <1>1, <1>7
  <2>2. QueueTrue(<<live>>, conv) /\ QueueNumbered(<<live>>, edits)
    BY <1>2, <1>3 DEF QueueTrue, QueueNumbered
  <2>3. OnItsWay(edits)'
    BY <2>1, <1>2, <1>3 DEF OnItsWay
  <2>4. ReadsLead(edits)'
    <3> SUFFICES ASSUME NEW i \in DOMAIN served, served[i].asOf >= edits
                 PROVE  Leads(served[i].msgs, ChangesAfter(<<live>>, served[i].asOf), conv)
      BY <1>1, <2>1 DEF ReadsLead
    <3>1. served[i] \in Reads /\ ReadSound(served[i])
      BY <1>1 DEF LiveShape, ReadsSound
    <3>2. served[i].asOf = edits
      BY <1>1, <3>1 DEF Reads, ReadSound
    <3>3. QED
      BY <3>1, <3>2, LeadsItself DEF ReadSound
  <2>5. edits \in 0 .. edits'
    BY <1>1
  <2>6. AttachedSound'
    <3>1. \E b \in 0 .. edits' : ReadsLead(b)' /\ OnItsWay(b)'
      BY <1>1, <2>3, <2>4, <2>5
    <3>2. \A i \in DOMAIN <<live>> : <<live>>[i].kind = "hub" => i = 1 /\ <<live>>[i].state = "live"
      BY <1>2, <1>3
    <3>3. QED
      BY <1>1, <1>7, <2>1, <2>2, <3>1, <3>2 DEF AttachedSound
  <2>7. ClosedSound' /\ QueueNumbered(stream.frames, edits)' /\ EndingSound'
    BY <1>1, <2>1, <2>2 DEF ClosedSound, EndingSound
  <2>8. AsleepSound'
    BY <1>1, <1>7 DEF AsleepSound, Slept
  <2>9. QED
    BY <1>5, <1>6, <2>6, <2>7, <2>8 DEF LiveInv
<1>8. CASE ~running
  <2>1. stream'.at = "ending" /\ stream'.frames = <<sleeping>>
    BY <1>1, <1>8
  <2>2. QueueOld(<<sleeping>>, edits) /\ QueueNumbered(<<sleeping>>, edits)
    BY <1>2, <1>3 DEF QueueOld, QueueNumbered
  <2>3. ClosedSound' /\ QueueNumbered(stream.frames, edits)' /\ EndingSound' /\ AttachedSound'
    BY <1>1, <2>1, <2>2 DEF ClosedSound, EndingSound, AttachedSound
  <2>4. AsleepSound'
    BY <1>1, <2>1, <2>2 DEF AsleepSound, Slept
  <2>5. QED
    BY <1>5, <1>6, <2>3, <2>4 DEF LiveInv
<1>9. QED
  BY <1>7, <1>8

-----------------------------------------------------------------------------
\* Reads

\* Two sequences, one after the other.
LEMMA ConcatIs ==
    ASSUME NEW X, NEW a \in Seq(X), NEW b \in Seq(X)
    PROVE  /\ a \o b \in Seq(X) /\ Len(a \o b) = Len(a) + Len(b)
           /\ \A k \in 1 .. Len(a \o b) : (a \o b)[k] = IF k <= Len(a) THEN a[k] ELSE b[k - Len(a)]
  OBVIOUS

\* A sequence without one of its elements has the others.
LEMMA RemoveAtIs ==
    ASSUME NEW X, NEW s \in Seq(X), NEW i \in DOMAIN s
    PROVE  /\ RemoveAt(s, i) \in Seq(X)
           /\ \A k \in DOMAIN RemoveAt(s, i) : \E j \in DOMAIN s : RemoveAt(s, i)[k] = s[j]
           /\ \A j \in DOMAIN s \ {i} : \E k \in DOMAIN RemoveAt(s, i) : RemoveAt(s, i)[k] = s[j]
<1> DEFINE a == SubSeq(s, 1, i - 1)
           b == SubSeq(s, i + 1, Len(s))
           t == a \o b
<1>1. /\ DOMAIN s = 1 .. Len(s) /\ Len(s) \in Nat /\ i \in Nat /\ 1 <= i /\ i <= Len(s)
  OBVIOUS
<1>2. /\ a \in Seq(X) /\ Len(a) = i - 1 /\ \A k \in 1 .. i - 1 : a[k] = s[k]
  BY <1>1
<1>3. /\ b \in Seq(X) /\ Len(b) = Len(s) - i /\ \A k \in 1 .. Len(s) - i : b[k] = s[k + i]
  BY <1>1
<1> HIDE DEF a, b
<1>4. /\ t \in Seq(X) /\ DOMAIN t = 1 .. Len(s) - 1
      /\ \A k \in 1 .. Len(s) - 1 : k <= i - 1 => t[k] = s[k]
      /\ \A k \in 1 .. Len(s) - 1 : k > i - 1 => t[k] = s[k + 1]
  <2>0. /\ t \in Seq(X) /\ Len(t) = Len(a) + Len(b)
        /\ \A k \in 1 .. Len(t) : t[k] = IF k <= Len(a) THEN a[k] ELSE b[k - Len(a)]
    BY <1>2, <1>3, ConcatIs
  <2> HIDE DEF t
  <2>1. /\ t \in Seq(X) /\ Len(t) = (i - 1) + (Len(s) - i)
        /\ \A k \in 1 .. Len(t) : t[k] = IF k <= i - 1 THEN a[k] ELSE b[k - (i - 1)]
    BY <1>2, <1>3, <2>0
  <2>2. Len(t) = Len(s) - 1 /\ DOMAIN t = 1 .. Len(s) - 1
    BY <1>1, <2>1
  <2>3. ASSUME NEW k \in 1 .. Len(s) - 1, k > i - 1
        PROVE  t[k] = s[k + 1]
    <3>1. k - (i - 1) \in 1 .. Len(s) - i /\ (k - (i - 1)) + i = k + 1
      BY <1>1, <2>3
    <3>2. t[k] = b[k - (i - 1)]
      BY <1>1, <2>1, <2>2, <2>3
    <3>3. b[k - (i - 1)] = s[(k - (i - 1)) + i]
      BY <1>3, <3>1
    <3>4. QED
      BY <3>1, <3>2, <3>3
  <2>4. ASSUME NEW k \in 1 .. Len(s) - 1, k <= i - 1
        PROVE  t[k] = s[k]
    BY <1>1, <1>2, <2>1, <2>2, <2>4
  <2>5. QED
    BY <2>1, <2>2, <2>3, <2>4
<1> HIDE DEF t
<1>5. \A k \in DOMAIN t : \E j \in DOMAIN s : t[k] = s[j]
  <2> TAKE k \in DOMAIN t
  <2>1. k \in DOMAIN s /\ k + 1 \in DOMAIN s
    BY <1>1, <1>4
  <2>2. QED
    BY <2>1, <1>1, <1>4
<1>6. \A j \in DOMAIN s \ {i} : \E k \in DOMAIN t : t[k] = s[j]
  <2> TAKE j \in DOMAIN s \ {i}
  <2>1. CASE j < i
    <3>1. j \in 1 .. Len(s) - 1 /\ j <= i - 1
      BY <1>1, <2>1
    <3>2. QED
      BY <3>1, <1>4
  <2>2. CASE j > i
    <3>1. j - 1 \in 1 .. Len(s) - 1 /\ j - 1 > i - 1 /\ (j - 1) + 1 = j
      BY <1>1, <2>2
    <3>2. QED
      BY <3>1, <1>4
  <2>3. QED
    BY <1>1, <2>1, <2>2
<1>7. RemoveAt(s, i) = t
  BY DEF RemoveAt, t, a, b
<1>8. QED
  BY <1>4, <1>5, <1>6, <1>7

\* A read is served.
LEMMA LoadServedKeepsLiveInv ==
    ASSUME LiveInv, LoadServed
    PROVE  LiveInv'
<1>1. /\ LiveShape /\ ConvSound /\ ViewSound /\ ReadsSound /\ AttachedSound /\ EndingSound /\ AsleepSound
      /\ QueueNumbered(stream.frames, edits) /\ ClosedSound
      /\ conv' = conv /\ edits' = edits /\ running' = running /\ wakes' = wakes
      /\ view' = view /\ stream' = stream /\ prompts' = prompts
      /\ asked > 0 /\ asked' = asked - 1 /\ asked \in Nat /\ served \in Seq(Reads)
      /\ conv \in Transcripts /\ edits \in Nat /\ wakes \in Nat /\ running \in BOOLEAN
  BY DEF LiveInv, LoadServed, sends, LiveShape, convVars
<1>2. /\ Served \in Reads /\ Served.msgs = conv /\ Served.asOf = edits /\ Served.wakes = wakes
      /\ Served.state = (IF running THEN "live" ELSE "sleeping")
  BY <1>1 DEF Served, Reads
<1> DEFINE n == Len(served) + 1
<1>3. /\ served' \in Seq(Reads) /\ DOMAIN served = 1 .. Len(served) /\ Len(served) \in Nat
      /\ DOMAIN served' = 1 .. n /\ served'[n] = Served /\ n \in DOMAIN served'
      /\ \A i \in DOMAIN served : served'[i] = served[i] /\ i \in DOMAIN served'
      /\ \A i \in DOMAIN served' : i \in DOMAIN served \/ i = n
  BY <1>1, <1>2 DEF LoadServed
<1> HIDE DEF n
<1>4. LiveShape' /\ ConvSound' /\ ViewSound'
  BY <1>1, <1>3 DEF LiveShape, ConvSound, ViewSound
<1>5. ReadsSound'
  <2>1. ReadSound(Served)
    BY <1>1, <1>2 DEF ReadSound, ConvSound
  <2>2. \A i \in DOMAIN served' : ReadSound(served'[i])
    BY <1>1, <1>3, <2>1 DEF ReadsSound
  <2>3. QED
    BY <1>1, <2>2 DEF ReadsSound, ReadSound
<1>6. ClosedSound' /\ QueueNumbered(stream.frames, edits)' /\ EndingSound'
  BY <1>1 DEF ClosedSound, EndingSound
<1>7. AttachedSound'
  <2> SUFFICES ASSUME stream.at = "attached"
               PROVE  \E b \in 0 .. edits : ReadsLead(b)' /\ OnItsWay(b)'
    BY <1>1 DEF AttachedSound
  <2>1. PICK b \in 0 .. edits : ReadsLead(b)
    BY <1>1 DEF AttachedSound
  <2>2. OnItsWay(b)'
    <3>1. served'[n].asOf >= b
      BY <1>1, <1>2, <1>3, <2>1
    <3>2. QED
      BY <3>1, <1>3 DEF OnItsWay
  <2>3. ReadsLead(b)'
    <3> SUFFICES ASSUME NEW i \in DOMAIN served', served'[i].asOf >= b, ~(served'[i].asOf < view.asOf)
                 PROVE  Leads(served'[i].msgs, ChangesAfter(stream.frames, served'[i].asOf), conv)
      BY <1>1 DEF ReadsLead
    <3>1. CASE i \in DOMAIN served
      BY <3>1, <1>3, <2>1 DEF ReadsLead
    <3>2. CASE i = n
      BY <3>2, <1>2, <1>3, LeadsItself
    <3>3. QED
      BY <3>1, <3>2, <1>3
  <2>4. QED
    BY <2>2, <2>3
<1>8. AsleepSound'
  BY <1>1, <1>2, <1>3 DEF AsleepSound
<1>9. QED
  BY <1>4, <1>5, <1>6, <1>7, <1>8 DEF LiveInv

\* A read fails: the page says so until one that was served afterwards.
LEMMA LoadFailsKeepsLiveInv ==
    ASSUME LiveInv, LoadFails
    PROVE  LiveInv'
<1>1. /\ LiveShape /\ ConvSound /\ ViewSound /\ ReadsSound /\ AttachedSound /\ EndingSound /\ AsleepSound
      /\ QueueNumbered(stream.frames, edits) /\ ClosedSound
      /\ conv' = conv /\ edits' = edits /\ running' = running /\ wakes' = wakes
      /\ stream' = stream /\ prompts' = prompts
      /\ asked > 0 /\ asked' = asked - 1 /\ asked \in Nat /\ served \in Seq(Reads) /\ view \in Views
  BY DEF LiveInv, LoadFails, sends, LiveShape, convVars
<1>2. /\ view' \in Views /\ view'.failed = TRUE
      /\ view'.msgs = view.msgs /\ view'.asOf = view.asOf /\ view'.wakes = view.wakes
      /\ view'.hidden = view.hidden /\ view'.reported = view.reported
  BY <1>1 DEF LoadFails, Views
<1>3. \A i \in DOMAIN served :
         LET r == [served[i] EXCEPT !.early = TRUE] IN
         /\ r \in Reads /\ r.early = TRUE /\ r.msgs = served[i].msgs /\ r.asOf = served[i].asOf
         /\ r.wakes = served[i].wakes /\ r.state = served[i].state
  <2> TAKE i \in DOMAIN served
  <2>1. served[i] \in Reads
    BY <1>1
  <2>2. QED
    BY <2>1 DEF Reads
<1>4. served' = [i \in DOMAIN served |-> [served[i] EXCEPT !.early = TRUE]]
  BY DEF LoadFails
<1>5. /\ DOMAIN served' = DOMAIN served
      /\ \A i \in DOMAIN served :
           /\ served'[i] \in Reads /\ served'[i].early = TRUE /\ served'[i].msgs = served[i].msgs
           /\ served'[i].asOf = served[i].asOf /\ served'[i].wakes = served[i].wakes
           /\ served'[i].state = served[i].state
  BY <1>3, <1>4
<1>6. served' \in Seq(Reads)
  <2>1. DOMAIN served = 1 .. Len(served) /\ Len(served) \in Nat
    BY <1>1
  <2>2. served' \in [1 .. Len(served) -> Reads]
    BY <1>4, <1>5, <2>1
  <2>3. QED
    BY <2>1, <2>2
<1>7. LiveShape' /\ ConvSound' /\ ViewSound'
  BY <1>1, <1>2, <1>6 DEF LiveShape, ConvSound, ViewSound
<1>8. ReadsSound'
  BY <1>1, <1>5 DEF ReadsSound, ReadSound
<1>9. ClosedSound' /\ QueueNumbered(stream.frames, edits)' /\ EndingSound'
  BY <1>1, <1>2 DEF ClosedSound, EndingSound
<1>10. AttachedSound'
  <2> SUFFICES ASSUME stream.at = "attached"
               PROVE  \E b \in 0 .. edits : ReadsLead(b)' /\ OnItsWay(b)'
    BY <1>1 DEF AttachedSound
  <2>1. PICK b \in 0 .. edits : ReadsLead(b)
    BY <1>1 DEF AttachedSound
  <2>2. OnItsWay(b)'
    BY <1>2, <1>5 DEF OnItsWay
  <2>3. ReadsLead(b)'
    BY <1>1, <1>2, <1>5, <2>1 DEF ReadsLead
  <2>4. QED
    BY <2>2, <2>3
<1>11. AsleepSound'
  BY <1>2 DEF AsleepSound
<1>12. QED
  BY <1>7, <1>8, <1>9, <1>10, <1>11 DEF LiveInv

\* A read arrives.  If the page is further already, it was overtaken; otherwise
\* the frames still to come lead from what it holds to the conversation.
LEMMA LoadArrivesKeepsLiveInv ==
    ASSUME LiveInv, NEW i \in DOMAIN served, LoadArrives(i)
    PROVE  LiveInv'
<1> DEFINE r == served[i]
           late == r.asOf < view.asOf
<1>1. /\ LiveShape /\ ConvSound /\ ViewSound /\ ReadsSound /\ AttachedSound /\ EndingSound /\ AsleepSound
      /\ QueueNumbered(stream.frames, edits) /\ ClosedSound
      /\ conv' = conv /\ edits' = edits /\ running' = running /\ wakes' = wakes
      /\ stream' = stream /\ prompts' = prompts /\ asked' = asked
      /\ served \in Seq(Reads) /\ view \in Views /\ conv \in Transcripts /\ edits \in Nat
  BY DEF LiveInv, LoadArrives, sends, LiveShape, convVars
<1>2. /\ r \in Reads /\ r.msgs \in Transcripts /\ r.asOf \in Nat /\ r.wakes \in Nat
      /\ r.state \in {"live", "sleeping"} /\ r.early \in BOOLEAN /\ ReadSound(r)
  <2>1. r \in Reads
    BY <1>1
  <2>2. QED
    BY <1>1, <2>1 DEF Reads, ReadsSound
<1>3. /\ served' \in Seq(Reads)
      /\ \A k \in DOMAIN served' : \E j \in DOMAIN served : served'[k] = served[j]
      /\ \A j \in DOMAIN served \ {i} : \E k \in DOMAIN served' : served'[k] = served[j]
  BY <1>1, RemoveAtIs DEF LoadArrives
<1>4. view' = [view EXCEPT !.msgs = r.msgs, !.reported = r.state, !.failed = @ /\ r.early,
                           !.wakes = r.wakes, !.overtaken = late, !.rewound = FALSE,
                           !.asOf = IF late THEN @ ELSE r.asOf]
  BY DEF LoadArrives
<1> HIDE DEF r, late
<1>5. /\ view' \in Views /\ view'.msgs = r.msgs /\ view'.reported = r.state /\ view'.wakes = r.wakes
      /\ view'.failed = (view.failed /\ r.early) /\ view'.overtaken = late
      /\ view'.hidden = view.hidden /\ view'.asOf = IF late THEN view.asOf ELSE r.asOf
  <2>1. late \in BOOLEAN
    BY DEF late
  <2>2. (IF late THEN view.asOf ELSE r.asOf) \in Nat /\ (view.failed /\ r.early) \in BOOLEAN
    BY <1>1, <1>2 DEF Views
  <2>3. view' \in Views
    <3>1. view' = [msgs |-> r.msgs, reported |-> r.state, asOf |-> IF late THEN view.asOf ELSE r.asOf,
                   wakes |-> r.wakes, failed |-> view.failed /\ r.early, overtaken |-> late, rewound |-> FALSE,
                   key |-> view.key, hidden |-> view.hidden]
      BY <1>1, <1>4 DEF Views
    <3>2. view.key \in BOOLEAN /\ view.hidden \in BOOLEAN /\ r.state \in {"none", "live", "sleeping"}
      BY <1>1, <1>2 DEF Views
    <3>3. QED
      BY <1>2, <2>1, <2>2, <3>1, <3>2 DEF Views
  <2>4. QED
    BY <1>1, <1>4, <2>3 DEF Views
<1>6. view'.asOf >= view.asOf /\ view'.asOf >= r.asOf /\ view'.asOf \in Nat /\ view.asOf \in Nat
  BY <1>1, <1>2, <1>5 DEF Views, late
<1>7. LiveShape' /\ ConvSound'
  BY <1>1, <1>3, <1>5 DEF LiveShape, ConvSound
<1>8. ViewSound'
  BY <1>1, <1>2, <1>5 DEF ViewSound, ReadSound
<1>9. ReadsSound'
  BY <1>1, <1>3 DEF ReadsSound, ReadSound
<1>10. ClosedSound' /\ QueueNumbered(stream.frames, edits)' /\ EndingSound'
  BY <1>1, <1>5 DEF ClosedSound, EndingSound
<1>11. AttachedSound'
  <2> SUFFICES ASSUME stream.at = "attached"
               PROVE  \E b \in 0 .. edits : ReadsLead(b)' /\ OnItsWay(b)'
    BY <1>1 DEF AttachedSound
  <2>1. PICK b \in 0 .. edits : ReadsLead(b) /\ OnItsWay(b)
    BY <1>1 DEF AttachedSound
  <2>2. r.asOf >= b /\ ~late => Leads(r.msgs, ChangesOf(stream.frames), conv)
    <3> SUFFICES ASSUME r.asOf >= b, ~late
                 PROVE  Leads(r.msgs, ChangesOf(stream.frames), conv)
      OBVIOUS
    <3>1. Leads(r.msgs, ChangesAfter(stream.frames, r.asOf), conv)
      BY <2>1 DEF ReadsLead, r, late
    <3>2. ChangesAfter(stream.frames, r.asOf) \subseteq ChangesOf(stream.frames)
      BY DEF ChangesAfter
    <3>3. QED
      BY <3>1, <3>2, LeadsMore
  <2>3. r.asOf >= b => OnItsWay(b)'
    <3> SUFFICES ASSUME r.asOf >= b PROVE OnItsWay(b)'
      OBVIOUS
    <3>1. view'.asOf >= b
      BY <1>2, <1>6, <2>1
    <3>2. view'.overtaken \/ Leads(view'.msgs, ChangesOf(stream'.frames), conv')
      BY <1>1, <1>5, <2>2
    <3>3. QED
      BY <3>1, <3>2 DEF OnItsWay
  <2>4. OnItsWay(b)'
    <3>1. CASE (stream.frames # <<>> /\ stream.frames[1].kind = "hub") \/ asked > 0
      BY <3>1, <1>1 DEF OnItsWay
    <3>2. CASE \E j \in DOMAIN served : served[j].asOf >= b
      <4>1. PICK j \in DOMAIN served : served[j].asOf >= b
        BY <3>2
      <4>2. CASE j = i
        BY <4>1, <4>2, <2>3 DEF r
      <4>3. CASE j # i
        <5>1. PICK k \in DOMAIN served' : served'[k] = served[j]
          BY <4>3, <1>3
        <5>2. served'[k].asOf >= b
          BY <4>1, <5>1
        <5>3. QED
          BY <5>2 DEF OnItsWay
      <4>4. QED
        BY <4>2, <4>3
    <3>3. CASE view.failed /\ \A j \in DOMAIN served : served[j].early
      <4>1. view'.failed
        BY <3>3, <1>5 DEF r
      <4>2. \A k \in DOMAIN served' : served'[k].early
        BY <3>3, <1>3
      <4>3. QED
        BY <4>1, <4>2 DEF OnItsWay
    <3>4. CASE view.asOf >= b
      <4>1. CASE late
        <5>1. view'.asOf >= b /\ view'.overtaken
          BY <3>4, <4>1, <1>5
        <5>2. QED
          BY <5>1 DEF OnItsWay
      <4>2. CASE ~late
        <5>1. r.asOf >= b
          BY <3>4, <4>2, <1>2, <1>6, <2>1 DEF late
        <5>2. QED
          BY <5>1, <2>3
      <4>3. QED
        BY <4>1, <4>2
    <3>5. QED
      BY <2>1, <3>1, <3>2, <3>3, <3>4 DEF OnItsWay
  <2>5. ReadsLead(b)'
    <3> SUFFICES ASSUME NEW k \in DOMAIN served', served'[k].asOf >= b, ~(served'[k].asOf < view'.asOf)
                 PROVE  Leads(served'[k].msgs, ChangesAfter(stream.frames, served'[k].asOf), conv)
      BY <1>1 DEF ReadsLead
    <3>1. PICK j \in DOMAIN served : served'[k] = served[j]
      BY <1>3
    <3>2. served[j].asOf \in Nat
      <4>1. served[j] \in Reads
        BY <1>1
      <4>2. QED
        BY <4>1 DEF Reads
    <3>3. ~(served[j].asOf < view.asOf)
      BY <1>6, <3>1, <3>2
    <3>4. QED
      BY <2>1, <3>1, <3>3 DEF ReadsLead
  <2>6. QED
    BY <2>4, <2>5
<1>12. AsleepSound'
  <2> SUFFICES ASSUME r.state = "sleeping", r.wakes = wakes
               PROVE  Slept'
    BY <1>1, <1>5 DEF AsleepSound
  <2>1. ~running /\ r.asOf = edits /\ r.msgs = conv
    BY <1>2 DEF ReadSound
  <2>2. view'.asOf = edits
    BY <1>1, <1>2, <1>5, <1>6, <2>1 DEF ViewSound, late
  <2>3. view'.msgs = conv
    BY <1>5, <2>1
  <2>4. Leads(view'.msgs, ChangesOf(stream.frames), conv)
    BY <2>3, LeadsItself
  <2>5. NewestKept'
    BY <1>1, <2>3 DEF NewestKept
  <2>6. QED
    BY <1>1, <2>1, <2>2, <2>3, <2>4, <2>5 DEF Slept, EndingSound
<1>13. QED
  BY <1>7, <1>8, <1>9, <1>10, <1>11, <1>12 DEF LiveInv

-----------------------------------------------------------------------------
\* Frames that arrive

\* The changes after an edit, without a head that is no such change.
LEMMA ChangesAfterTail ==
    ASSUME NEW fs \in Seq(Frames), fs # <<>>, NEW n, fs[1].kind = "hub" \/ ~(fs[1].no > n)
    PROVE  ChangesAfter(Tail(fs), n) = ChangesAfter(fs, n)
<1>1. CASE fs[1].kind = "hub"
  BY <1>1, TailIs DEF ChangesAfter
<1>2. CASE ~(fs[1].no > n)
  <2>1. ChangesOf(Tail(fs)) \subseteq ChangesOf(fs) /\ ChangesOf(fs) \subseteq ChangesOf(Tail(fs)) \cup {fs[1]}
    BY TailIs
  <2>2. QED
    BY <1>2, <2>1 DEF ChangesAfter
<1>3. QED
  BY <1>1, <1>2

\* What is said of every change of a queue is true of those behind its head.
LEMMA QueueTail ==
    ASSUME NEW fs \in Seq(Frames), fs # <<>>, NEW e
    PROVE  /\ QueueNumbered(fs, e) => QueueNumbered(Tail(fs), e)
           /\ QueueOld(fs, e) => QueueOld(Tail(fs), e)
  BY TailIs DEF QueueNumbered, QueueOld

\* A frame of the Hub.
LEMMA HubFrameKeepsLiveInv ==
    ASSUME LiveInv, FrameArrives, Head(stream.frames).kind = "hub"
    PROVE  LiveInv'
<1> DEFINE fs == stream.frames
           gs == Tail(stream.frames)
           f == Head(stream.frames)
<1>1. /\ LiveShape /\ ConvSound /\ ViewSound /\ ReadsSound /\ AttachedSound /\ EndingSound /\ AsleepSound
      /\ QueueNumbered(fs, edits) /\ ClosedSound
      /\ conv' = conv /\ edits' = edits /\ running' = running /\ wakes' = wakes
      /\ served' = served /\ prompts' = prompts /\ asked \in Nat
      /\ stream \in LiveStreams /\ fs \in Seq(Frames) /\ fs # <<>> /\ view \in Views
      /\ stream.at \in {"attached", "ending"} /\ stream' = [stream EXCEPT !.frames = gs]
      /\ HubFrame(f)
  BY DEF LiveInv, FrameArrives, sends, LiveShape, LiveStreams, convVars
<1>2. /\ f = fs[1] /\ f.kind = "hub" /\ 1 \in DOMAIN fs
      /\ gs \in Seq(Frames) /\ ChangesOf(gs) = ChangesOf(fs)
      /\ DOMAIN gs \subseteq Nat
      /\ \A i \in DOMAIN gs : i + 1 \in DOMAIN fs /\ gs[i] = fs[i + 1] /\ i + 1 # 1
  <2>1. /\ gs \in Seq(Frames) /\ 1 \in DOMAIN fs /\ f = fs[1]
        /\ DOMAIN gs = 1 .. Len(fs) - 1
        /\ \A i \in DOMAIN gs : i + 1 \in DOMAIN fs /\ gs[i] = fs[i + 1]
        /\ fs[1].kind = "hub" => ChangesOf(gs) = ChangesOf(fs)
    BY <1>1, TailIs
  <2>2. \A i \in 1 .. Len(fs) - 1 : i \in Nat /\ i + 1 # 1
    BY <1>1
  <2>3. QED
    BY <2>1, <2>2
<1>3. f.state \in {"live", "sleeping", "ended"}
  <2>1. f \in Frames
    BY <1>1, <1>2
  <2>2. QED
    BY <2>1, <1>2 DEF Frames, HubFrames, Changes, MessageFrames, PartFrames, RemovedFrames
<1>4. asked' = (IF Rereads(f.state) THEN asked + 1 ELSE asked)
  BY <1>1 DEF HubFrame, AskRead
<1>5. view' = IF f.state = "ended" THEN view ELSE [view EXCEPT !.reported = f.state]
  BY <1>1 DEF HubFrame
<1> HIDE DEF fs, gs, f
<1>6. /\ view' \in Views /\ view'.msgs = view.msgs /\ view'.asOf = view.asOf /\ view'.wakes = view.wakes
      /\ view'.hidden = view.hidden /\ view'.failed = view.failed /\ view'.rewound = view.rewound
      /\ view'.reported = IF f.state = "ended" THEN view.reported ELSE f.state
  BY <1>1, <1>3, <1>5 DEF Views
<1>7. stream' \in LiveStreams /\ stream'.at = stream.at /\ stream'.frames = gs
  BY <1>1, <1>2 DEF LiveStreams
<1>8. asked' \in Nat /\ (asked > 0 \/ Rereads(f.state) => asked' > 0)
  BY <1>1, <1>4
<1>9. LiveShape' /\ ConvSound'
  BY <1>1, <1>6, <1>7, <1>8 DEF LiveShape, ConvSound
<1>10. ViewSound'
  BY <1>1, <1>6 DEF ViewSound
<1>11. ReadsSound'
  BY <1>1 DEF ReadsSound, ReadSound
<1>12. ClosedSound'
  BY <1>1, <1>6, <1>7 DEF ClosedSound
<1>13. /\ QueueTrue(fs, conv) => QueueTrue(gs, conv)
       /\ QueueOld(fs, edits) => QueueOld(gs, edits)
       /\ QueueNumbered(gs, edits)
  BY <1>1, QueueTrueTail, QueueTail DEF fs, gs
<1>14. QueueNumbered(stream.frames, edits)'
  BY <1>1, <1>7, <1>13
<1>15. EndingSound'
  BY <1>1, <1>7, <1>13 DEF EndingSound, fs
<1>16. AttachedSound'
  <2> SUFFICES ASSUME stream.at = "attached"
               PROVE  AttachedSound'
    BY <1>7 DEF AttachedSound
  <2>1. /\ running /\ QueueTrue(fs, conv)
        /\ \A i \in DOMAIN fs : fs[i].kind = "hub" => i = 1 /\ fs[i].state = "live"
    BY <1>1 DEF AttachedSound, fs
  <2>2. f.state = "live"
    BY <1>2, <2>1
  <2>3. asked' > 0
    BY <2>2, <1>8 DEF Rereads
  <2>4. \A i \in DOMAIN gs : gs[i].kind = "hub" => i = 1 /\ gs[i].state = "live"
    BY <1>2, <2>1
  <2>5. PICK b \in 0 .. edits : ReadsLead(b)
    BY <1>1 DEF AttachedSound
  <2>6. ReadsLead(b)'
    <3>1. \A n : ChangesAfter(gs, n) = ChangesAfter(fs, n)
      BY <1>2 DEF ChangesAfter
    <3>2. QED
      BY <1>1, <1>6, <1>7, <2>5, <3>1 DEF ReadsLead, fs
  <2>7. OnItsWay(b)'
    BY <2>3 DEF OnItsWay
  <2>8. QED
    BY <1>1, <1>7, <1>13, <2>1, <2>4, <2>6, <2>7 DEF AttachedSound
<1>17. AsleepSound'
  <2> SUFFICES ASSUME view'.reported = "sleeping", view.wakes = wakes, ~(asked' > 0)
               PROVE  \/ \E i \in DOMAIN served : served[i].wakes = wakes
                      \/ view.failed
                      \/ Slept'
    BY <1>1, <1>6 DEF AsleepSound
  <2>1. ~Rereads(f.state) /\ ~(asked > 0)
    BY <1>8
  <2>2. f.state = "sleeping" /\ view.reported = "sleeping"
    BY <2>1, <1>3, <1>6 DEF Rereads
  <2>3. ASSUME Slept
        PROVE  Slept'
    <3>1. /\ ~running /\ view.asOf = edits
          /\ view.msgs = conv \/ view.rewound
          /\ stream.at = "ending" =>
               \/ QueueOld(fs, edits)
               \/ QueueTrue(fs, conv) /\ NewestKept /\ Leads(view.msgs, ChangesOf(fs), conv)
      BY <2>3 DEF Slept, fs
    <3>2. NewestKept => NewestKept'
      BY <1>1, <1>6 DEF NewestKept
    <3>3. QED
      BY <1>1, <1>2, <1>6, <1>7, <1>13, <3>1, <3>2 DEF Slept
  <2>4. QED
    BY <1>1, <2>1, <2>2, <2>3 DEF AsleepSound
<1>18. QED
  BY <1>9, <1>10, <1>11, <1>12, <1>14, <1>15, <1>16, <1>17 DEF LiveInv

\* A frame of the newest edit, applied to a page that had the conversation
\* when it was read: nothing but the part of that edit's message is to come, and
\* the page has that.
LEMMA LastEditApplied ==
    ASSUME NEW fs \in Seq(Frames), fs # <<>>, fs[1].kind # "hub", NEW e \in Nat, fs[1].no = e,
           NEW R \in Transcripts, NEW c \in Transcripts,
           QueueNumbered(fs, e), QueueTrue(fs, c), Leads(R, ChangesOf(Tail(fs)), c),
           e \in Ids(c) /\ c[e].role = "user" => e \in Ids(R) /\ R[e] = c[e]
    PROVE  R = c
<1> DEFINE T == ChangesOf(Tail(fs))
<1>1. /\ 1 \in DOMAIN fs /\ DOMAIN Tail(fs) = 1 .. Len(fs) - 1 /\ Len(fs) \in Nat
      /\ \A i \in DOMAIN Tail(fs) : i + 1 \in DOMAIN fs /\ Tail(fs)[i] = fs[i + 1]
      /\ \A i \in DOMAIN fs : fs[i].kind # "hub" => fs[i] \in Changes
      /\ DOMAIN fs = 1 .. Len(fs)
  BY TailIs, ChangesAreFrames
<1>2. FrameTrue(fs, 1, c)
  BY <1>1 DEF QueueTrue
<1>3. ASSUME NEW j \in DOMAIN fs, j > 1, fs[j].kind # "hub"
      PROVE  /\ fs[1].kind = "message" /\ fs[1].role = "user" /\ fs[1].id = e
             /\ fs[j].kind = "part" /\ fs[j].id = e
  <2>1. fs[j].no \in Nat
    BY <1>1, <1>3 DEF Changes, MessageFrames, PartFrames, RemovedFrames
  <2>2. FramesInOrder(fs, 1, j) /\ fs[j].no <= e
    BY <1>1, <1>3 DEF QueueTrue, QueueNumbered
  <2>3. fs[j].no = e
    BY <2>1, <2>2 DEF FramesInOrder
  <2>4. QED
    BY <2>2, <2>3 DEF FramesInOrder
<1>4. ASSUME NEW h \in T
      PROVE  /\ h.kind = "part" /\ h.id = e
             /\ e \in Ids(c) /\ c[e].role = "user"
  <2>1. PICK i \in DOMAIN Tail(fs) : Tail(fs)[i].kind # "hub" /\ h = Tail(fs)[i]
    BY <1>4 DEF ChangesOf
  <2>2. i + 1 \in DOMAIN fs /\ i + 1 > 1 /\ h = fs[i + 1] /\ fs[i + 1].kind # "hub"
    BY <1>1, <2>1
  <2>3. /\ h.kind = "part" /\ h.id = e
        /\ fs[1].kind = "message" /\ fs[1].role = "user" /\ fs[1].id = e
    BY <1>3, <2>2
  <2>4. e \in Ids(c)
    <3> SUFFICES ASSUME e \notin Ids(c) PROVE FALSE
      OBVIOUS
    <3>1. PICK j \in DOMAIN fs : j > 1 /\ fs[j].kind = "removed"
      BY <1>2, <2>3 DEF FrameTrue
    <3>2. QED
      BY <1>3, <3>1
  <2>5. QED
    BY <1>2, <2>3, <2>4 DEF FrameTrue
<1> HIDE DEF T
<1>5. \A kind, k : Tells(T, kind, k) => kind = "part" /\ k = e /\ e \in Ids(R) /\ R[e] = c[e]
  BY <1>4 DEF Tells
<1>6. Leads(R, T, c)
  BY DEF T
<1>7. Leads(R, {}, c)
  BY <1>5, <1>6 DEF Leads
<1>8. QED
  BY <1>7, LeadsNowhere

\* A frame of OpenCode.
LEMMA OpencodeFrameKeepsLiveInv ==
    ASSUME LiveInv, FrameArrives, Head(stream.frames).kind # "hub"
    PROVE  LiveInv'
<1> DEFINE fs == stream.frames
           gs == Tail(stream.frames)
           f == Head(stream.frames)
           R == Applied(view.msgs, f)
           older == f.no < view.asOf
<1>1. /\ LiveShape /\ ConvSound /\ ViewSound /\ ReadsSound /\ AttachedSound /\ EndingSound /\ AsleepSound
      /\ QueueNumbered(fs, edits) /\ ClosedSound
      /\ conv' = conv /\ edits' = edits /\ running' = running /\ wakes' = wakes
      /\ served' = served /\ prompts' = prompts /\ asked \in Nat /\ conv \in Transcripts /\ edits \in Nat
      /\ stream \in LiveStreams /\ fs \in Seq(Frames) /\ fs # <<>> /\ view \in Views
      /\ stream.at \in {"attached", "ending"} /\ stream' = [stream EXCEPT !.frames = gs]
      /\ OpencodeFrame(f)
  BY DEF LiveInv, FrameArrives, sends, LiveShape, LiveStreams, convVars
<1>2. /\ f = fs[1] /\ f.kind # "hub" /\ 1 \in DOMAIN fs /\ f \in Changes
      /\ gs \in Seq(Frames)
      /\ \A i \in DOMAIN gs : i + 1 \in DOMAIN fs /\ gs[i] = fs[i + 1] /\ i + 1 # 1
  <2>1. /\ gs \in Seq(Frames) /\ 1 \in DOMAIN fs /\ f = fs[1]
        /\ DOMAIN gs = 1 .. Len(fs) - 1
        /\ \A i \in DOMAIN gs : i + 1 \in DOMAIN fs /\ gs[i] = fs[i + 1]
    BY <1>1, TailIs
  <2>2. \A i \in 1 .. Len(fs) - 1 : i \in Nat /\ i + 1 # 1
    BY <1>1
  <2>3. f \in Changes
    BY <1>1, <2>1, ChangesAreFrames
  <2>4. QED
    BY <2>1, <2>2, <2>3
<1>3. /\ f.no \in Nat /\ f.id \in Nat /\ f.id <= f.no /\ f.no <= edits
  <2>1. f.no \in Nat /\ f.id \in Nat
    BY <1>2 DEF Changes, MessageFrames, PartFrames, RemovedFrames
  <2>2. QED
    BY <2>1, <1>1, <1>2 DEF QueueNumbered
<1>4. view.msgs \in Transcripts /\ view.asOf \in Nat /\ view.asOf <= edits /\ MessagesNumbered(view.msgs, edits)
  BY <1>1 DEF Views, ViewSound
<1>5. /\ R \in Transcripts
      /\ Ids(R) \ {f.id} = Ids(view.msgs) \ {f.id}
      /\ \A k \in Ids(view.msgs) \ {f.id} : R[k] = view.msgs[k]
      /\ AppliedDoes(view.msgs, f, R)
  BY <1>2, <1>4, AppliedIs
<1>6. view' = [view EXCEPT !.msgs = R, !.rewound = older, !.asOf = IF older THEN @ ELSE f.no] /\ asked' = asked
  BY <1>1 DEF OpencodeFrame
<1> HIDE DEF fs, gs, f, R, older
<1>7. /\ view' \in Views /\ view'.msgs = R /\ view'.asOf = (IF older THEN view.asOf ELSE f.no)
      /\ view'.wakes = view.wakes /\ view'.overtaken = view.overtaken
      /\ view'.hidden = view.hidden /\ view'.failed = view.failed /\ view'.rewound = older
      /\ view'.reported = view.reported
  <2>1. older \in BOOLEAN
    BY DEF older
  <2>2. QED
    BY <1>1, <1>3, <1>5, <1>6, <2>1 DEF Views
<1>8. view'.asOf \in Nat /\ view'.asOf >= view.asOf /\ view'.asOf >= f.no /\ view'.asOf <= edits
  BY <1>3, <1>4, <1>7 DEF older
<1>9. stream' \in LiveStreams /\ stream'.at = stream.at /\ stream'.frames = gs
  BY <1>1, <1>2 DEF LiveStreams
<1>10. LiveShape' /\ ConvSound'
  BY <1>1, <1>6, <1>7, <1>9 DEF LiveShape, ConvSound
<1>11. ViewSound'
  <2>1. \A k \in Ids(R) : k <= edits
    <3> TAKE k \in Ids(R)
    <3>1. CASE k = f.id
      BY <3>1, <1>1, <1>3
    <3>2. CASE k # f.id
      BY <3>2, <1>4, <1>5 DEF MessagesNumbered
    <3>3. QED
      BY <3>1, <3>2
  <2>2. QED
    BY <1>1, <1>7, <1>8, <2>1 DEF ViewSound, MessagesNumbered
<1>12. ReadsSound'
  BY <1>1 DEF ReadsSound, ReadSound
<1>13. ClosedSound'
  BY <1>1, <1>7, <1>9 DEF ClosedSound
<1>14. /\ QueueTrue(fs, conv) => QueueTrue(gs, conv)
       /\ QueueOld(fs, edits) => QueueOld(gs, edits)
       /\ QueueNumbered(gs, edits)
  BY <1>1, QueueTrueTail, QueueTail DEF fs, gs
<1>15. QueueNumbered(stream.frames, edits)'
  BY <1>1, <1>9, <1>14
<1>16. EndingSound'
  BY <1>1, <1>9, <1>14 DEF EndingSound, fs
<1>17. QueueTrue(fs, conv) /\ Leads(view.msgs, ChangesOf(fs), conv) => Leads(R, ChangesOf(gs), conv)
  BY <1>1, <1>2, <1>4, LeadsApplied DEF R, fs, gs, f
<1>18. AttachedSound'
  <2> SUFFICES ASSUME stream.at = "attached"
               PROVE  AttachedSound'
    BY <1>9 DEF AttachedSound
  <2>1. /\ running /\ QueueTrue(fs, conv)
        /\ \A i \in DOMAIN fs : fs[i].kind = "hub" => i = 1 /\ fs[i].state = "live"
    BY <1>1 DEF AttachedSound, fs
  <2>2. \A i \in DOMAIN gs : gs[i].kind = "hub" => i = 1 /\ gs[i].state = "live"
    BY <1>2, <2>1
  <2>3. PICK b \in 0 .. edits : ReadsLead(b) /\ OnItsWay(b)
    BY <1>1 DEF AttachedSound
  <2>4. ReadsLead(b)'
    <3> SUFFICES ASSUME NEW i \in DOMAIN served, served[i].asOf >= b, ~(served[i].asOf < view'.asOf)
                 PROVE  Leads(served[i].msgs, ChangesAfter(gs, served[i].asOf), conv)
      BY <1>1, <1>9 DEF ReadsLead
    <3>1. served[i].asOf \in Nat
      <4>1. served[i] \in Reads
        BY <1>1 DEF LiveShape
      <4>2. QED
        BY <4>1 DEF Reads
    <3>2. ~(served[i].asOf < view.asOf) /\ ~(f.no > served[i].asOf)
      BY <1>3, <1>4, <1>8, <3>1
    <3>3. ChangesAfter(gs, served[i].asOf) = ChangesAfter(fs, served[i].asOf)
      BY <1>1, <1>2, <3>2, ChangesAfterTail DEF gs, fs
    <3>4. QED
      BY <2>3, <3>2, <3>3 DEF ReadsLead, fs
  <2>5. OnItsWay(b)'
    <3>1. CASE \/ asked > 0
               \/ \E i \in DOMAIN served : served[i].asOf >= b
               \/ view.failed /\ \A i \in DOMAIN served : served[i].early
      BY <3>1, <1>1, <1>6, <1>7 DEF OnItsWay
    <3>2. CASE view.asOf >= b /\ (view.overtaken \/ Leads(view.msgs, ChangesOf(fs), conv))
      <4>1. view'.asOf >= b
        BY <3>2, <1>4, <1>8, <2>3
      <4>2. view'.overtaken \/ Leads(view'.msgs, ChangesOf(gs), conv)
        BY <3>2, <1>7, <1>17, <2>1
      <4>3. QED
        BY <4>1, <4>2, <1>1, <1>9 DEF OnItsWay
    <3>3. QED
      BY <2>3, <3>1, <3>2, <1>2 DEF OnItsWay, fs
  <2>6. QED
    BY <1>1, <1>9, <1>14, <2>1, <2>2, <2>3, <2>4, <2>5 DEF AttachedSound
<1>19. AsleepSound'
  <2>1. ASSUME Slept
        PROVE  Slept'
    <3>1. /\ ~running /\ view.asOf = edits
          /\ stream.at = "ending" =>
               \/ QueueOld(fs, edits)
               \/ QueueTrue(fs, conv) /\ NewestKept /\ Leads(view.msgs, ChangesOf(fs), conv)
      BY <2>1 DEF Slept, fs
    <3>2. stream.at = "ending"
      BY <1>1, <3>1 DEF AttachedSound
    <3>3. view'.asOf = edits
      BY <1>1, <1>8, <3>1
    <3>4. CASE QueueOld(fs, edits)
      <4>1. f.no < edits
        BY <3>4, <1>2 DEF QueueOld
      <4>2. view'.rewound
        BY <4>1, <1>7, <3>1 DEF older
      <4>3. QED
        BY <1>1, <1>9, <1>14, <3>1, <3>3, <3>4, <4>2 DEF Slept
    <3>5. CASE QueueTrue(fs, conv) /\ NewestKept /\ Leads(view.msgs, ChangesOf(fs), conv)
      <4>1. Leads(R, ChangesOf(gs), conv) /\ QueueTrue(gs, conv)
        BY <3>5, <1>14, <1>17
      <4>2. FrameTrue(fs, 1, conv)
        BY <3>5, <1>2 DEF QueueTrue
      <4>3. ASSUME edits \in Ids(conv), conv[edits].role = "user"
            PROVE  edits \in Ids(R) /\ R[edits] = conv[edits]
        <5>1. edits \in Ids(view.msgs) /\ view.msgs[edits] = conv[edits]
          BY <3>5, <4>3 DEF NewestKept
        <5>2. CASE f.id # edits
          BY <5>1, <5>2, <1>5
        <5>3. CASE f.id = edits
          <6>1. f.no = edits
            BY <5>3, <1>1, <1>3
          <6>2. f.kind # "removed"
            BY <4>2, <4>3, <5>3, <1>2 DEF FrameTrue
          <6>3. f.kind \in {"message", "part", "removed"}
            BY <1>2 DEF Changes, MessageFrames, PartFrames, RemovedFrames
          <6>4. CASE f.kind = "message"
            <7>1. f.role = conv[edits].role
              BY <4>2, <4>3, <5>3, <6>4, <1>2 DEF FrameTrue
            <7>2. /\ edits \in Ids(R) /\ R[edits].role = conv[edits].role /\ R[edits].text = conv[edits].text
                  /\ R[edits].ver = conv[edits].ver
              BY <1>5, <5>1, <5>3, <6>4, <7>1 DEF AppliedDoes
            <7>3. R[edits] \in Message /\ conv[edits] \in Message
              BY <1>1, <1>5, <4>3, <7>2, TranscriptHas
            <7>4. QED
              BY <7>2, <7>3 DEF Message
          <6>5. CASE f.kind = "part"
            <7>1. f.text = conv[edits].text /\ f.ver = conv[edits].ver
              <8> SUFFICES ASSUME NEW j \in DOMAIN fs, j > 1, fs[j].kind = "part", fs[j].id = edits
                           PROVE  FALSE
                BY <4>2, <4>3, <5>3, <6>5, <1>2 DEF FrameTrue
              <8>1. FramesInOrder(fs, 1, j)
                BY <3>5, <1>2 DEF QueueTrue
              <8>2. fs[j].no <= edits /\ fs[j].no \in Nat
                <9>1. fs[j] \in Changes
                  BY <1>1, ChangesAreFrames
                <9>2. QED
                  BY <9>1, <1>1 DEF QueueNumbered, Changes, MessageFrames, PartFrames, RemovedFrames
              <8>3. fs[j].no = fs[1].no
                BY <8>1, <8>2, <6>1, <1>1, <1>2 DEF FramesInOrder
              <8>4. QED
                BY <8>1, <8>3, <6>5, <1>2 DEF FramesInOrder
            <7>2. /\ edits \in Ids(R) /\ R[edits].role = conv[edits].role /\ R[edits].text = conv[edits].text
                  /\ R[edits].ver = conv[edits].ver
              BY <1>5, <5>1, <5>3, <6>5, <7>1 DEF AppliedDoes
            <7>3. R[edits] \in Message /\ conv[edits] \in Message
              BY <1>1, <1>5, <4>3, <7>2, TranscriptHas
            <7>4. QED
              BY <7>2, <7>3 DEF Message
          <6>6. QED
            BY <6>2, <6>3, <6>4, <6>5
        <5>4. QED
          BY <5>2, <5>3
      <4>4. NewestKept'
        BY <4>3, <1>1, <1>7 DEF NewestKept
      <4>5. view'.rewound \/ view'.msgs = conv
        <5>1. CASE f.no < edits
          BY <5>1, <1>7, <3>1 DEF older
        <5>2. CASE f.no = edits
          <6>1. R = conv
            BY <1>1, <1>2, <1>5, <3>5, <4>1, <4>3, <5>2, LastEditApplied DEF fs, gs
          <6>2. QED
            BY <6>1, <1>7
        <5>3. QED
          BY <5>1, <5>2, <1>1, <1>3
      <4>6. QED
        BY <1>1, <1>7, <1>9, <3>1, <3>3, <4>1, <4>4, <4>5 DEF Slept
    <3>6. QED
      BY <3>1, <3>2, <3>4, <3>5
  <2>2. QED
    BY <1>1, <1>6, <1>7, <2>1 DEF AsleepSound
<1>20. QED
  BY <1>10, <1>11, <1>12, <1>13, <1>15, <1>16, <1>18, <1>19 DEF LiveInv

-----------------------------------------------------------------------------
\* The theorem

\* What breaks the stream off or wakes and stops the container.
LEMMA BreakKeepsLiveInv ==
    ASSUME LiveInv, BreakNext
    PROVE  LiveInv'
<1>1. /\ LiveShape /\ ClosedSound /\ asked \in Nat /\ stream \in LiveStreams /\ view \in Views /\ prompts \in Seq(Prompts)
      /\ stream.at \in {"connecting", "attached", "ending", "severed", "closed"}
      /\ running \in BOOLEAN
  BY DEF LiveInv, LiveShape, LiveStreams
<1>2. \A at \in {"connecting", "severed", "closed"} : [at |-> at, frames |-> <<>>] \in LiveStreams
  BY DEF LiveStreams
<1>3. CASE Wakes
  BY <1>3, WakesKeepsLiveInv
<1>4. CASE \E graceful \in BOOLEAN : Stops(graceful)
  BY <1>4, StopsKeepsLiveInv
<1>5. CASE Sever
  <2>1. /\ stream' = [at |-> "severed", frames |-> <<>>] /\ view' = view /\ asked' = asked
        /\ UNCHANGED <<convVars, served, prompts>>
    BY <1>5 DEF Sever, sends
  <2>2. stream'.at = "severed" /\ stream'.frames = <<>> /\ stream' \in LiveStreams
    BY <2>1, <1>2
  <2>3. QED
    BY <1>1, <2>1, <2>2, BrokenOffKeepsLiveInv
<1>6. CASE Reconnects
  <2>1. /\ stream' = [at |-> "connecting", frames |-> <<>>] /\ view' = view /\ asked' = asked
        /\ UNCHANGED <<convVars, served, prompts>>
    BY <1>6 DEF Reconnects, sends
  <2>2. stream'.at = "connecting" /\ stream'.frames = <<>> /\ stream' \in LiveStreams
    BY <2>1, <1>2
  <2>3. QED
    BY <1>1, <2>1, <2>2, BrokenOffKeepsLiveInv
<1>7. CASE GivesUp
  <2>1. /\ stream' = [at |-> IF view.hidden THEN "closed" ELSE "connecting", frames |-> <<>>] /\ view' = view
        /\ asked' = asked /\ UNCHANGED <<convVars, served, prompts>>
    BY <1>7 DEF GivesUp, sends
  <2>2. /\ stream'.at = (IF view.hidden THEN "closed" ELSE "connecting") /\ stream'.frames = <<>>
        /\ stream' \in LiveStreams
    BY <2>1, <1>2
  <2>3. stream'.at \in {"connecting", "closed"} /\ (stream'.at = "closed" => view'.hidden)
    BY <2>1, <2>2
  <2>4. QED
    BY <1>1, <2>1, <2>2, <2>3, BrokenOffKeepsLiveInv
<1>8. CASE Hide
  <2>1. /\ view' = [view EXCEPT !.hidden = TRUE] /\ UNCHANGED <<convVars, served, asked, stream, prompts>>
    BY <1>8 DEF Hide, sends
  <2>2. view'.hidden = TRUE /\ view' \in Views /\ view' = [view EXCEPT !.hidden = view'.hidden]
    BY <1>1, <2>1 DEF Views
  <2>3. QED
    BY <1>1, <2>1, <2>2, AsideKeepsLiveInv
<1>9. CASE Show
  <2>1. /\ view' = [view EXCEPT !.hidden = FALSE] /\ UNCHANGED <<convVars, served, asked, prompts>>
        /\ stream' = [stream EXCEPT !.at = IF @ = "closed" THEN "connecting" ELSE @]
    BY <1>9 DEF Show, sends
  <2>2. /\ view' \in Views /\ view' = [view EXCEPT !.hidden = view'.hidden]
        /\ view'.msgs = view.msgs /\ view'.asOf = view.asOf /\ view'.wakes = view.wakes
        /\ view'.reported = view.reported /\ view'.failed = view.failed /\ view'.rewound = view.rewound
    BY <1>1, <2>1 DEF Views
  <2>3. CASE stream.at = "closed"
    <3>1. stream'.at = "connecting" /\ stream' \in LiveStreams /\ stream'.frames = stream.frames
      BY <1>1, <2>1, <2>3 DEF LiveStreams
    <3>2. CASE stream.frames = <<>>
      BY <1>1, <2>1, <2>2, <3>1, <3>2, BrokenOffKeepsLiveInv
    <3>3. QED
      BY <3>2, <2>3 DEF LiveInv, ClosedSound
  <2>4. CASE stream.at # "closed"
    <3>1. stream' = stream
      BY <1>1, <2>1, <2>4 DEF LiveStreams
    <3>2. QED
      BY <1>1, <2>1, <2>2, <2>4, <3>1, AsideKeepsLiveInv
  <2>5. QED
    BY <2>3, <2>4
<1>10. CASE RuntimeKeyChanges
  <2>1. /\ stream' = [at |-> "connecting", frames |-> <<>>] /\ view' = [view EXCEPT !.key = running] /\ asked' = asked
        /\ UNCHANGED <<convVars, served, prompts>>
    BY <1>10 DEF RuntimeKeyChanges, sends
  <2>2. stream'.at = "connecting" /\ stream'.frames = <<>> /\ stream' \in LiveStreams
    BY <2>1, <1>2
  <2>3. /\ view' \in Views
        /\ view'.msgs = view.msgs /\ view'.asOf = view.asOf /\ view'.wakes = view.wakes
        /\ view'.reported = view.reported /\ view'.failed = view.failed /\ view'.rewound = view.rewound
    BY <1>1, <2>1 DEF Views
  <2>4. QED
    BY <1>1, <2>1, <2>2, <2>3, BrokenOffKeepsLiveInv
<1>11. CASE Refresh
  <2>1. /\ stream' = [at |-> "connecting", frames |-> <<>>] /\ view' = view /\ asked' = asked + 1
        /\ UNCHANGED <<convVars, served, prompts>>
    BY <1>11 DEF Refresh, AskRead, sends
  <2>2. stream'.at = "connecting" /\ stream'.frames = <<>> /\ stream' \in LiveStreams /\ asked' \in Nat /\ asked' >= asked
    BY <1>1, <2>1, <1>2
  <2>3. QED
    BY <1>1, <2>1, <2>2, BrokenOffKeepsLiveInv
<1>12. CASE LoadFails
  BY <1>12, LoadFailsKeepsLiveInv
<1>13. QED
  BY <1>3, <1>4, <1>5, <1>6, <1>7, <1>8, <1>9, <1>10, <1>11, <1>12 DEF BreakNext

\* What the user sends concerns the prompts and the bubbles only.
LEMMA SendKeepsLiveInv ==
    ASSUME LiveInv, SendNext
    PROVE  LiveInv'
<1>1. /\ LiveShape /\ ClosedSound /\ view \in Views /\ prompts \in Seq(Prompts) /\ ViewSound /\ edits \in Nat
  BY DEF LiveInv, LiveShape
<1>2. UNCHANGED <<convVars, served, asked, stream, view>>
  BY DEF SendNext, Send, SendArrives, SendReturns, SendFails
<1>3. prompts' \in Seq(Prompts)
  <2>1. CASE \E text \in Texts : Send(text)
    <3>1. PICK text \in Texts : Send(text)
      BY <2>1
    <3>2. view.msgs \in Transcripts
      BY <1>1 DEF Views
    <3>3. NewestOf(Ids(view.msgs)) \in Nat
      BY <1>1, <3>2, TranscriptHas, NewestIs DEF ViewSound, MessagesNumbered
    <3> DEFINE p == [text |-> text, after |-> NewestOf(Ids(view.msgs)), at |-> "out", id |-> 0, withdrawn |-> FALSE]
    <3>4. p \in Prompts
      BY <3>3 DEF Prompts
    <3>5. prompts' = Append(prompts, p)
      BY <3>1 DEF Send
    <3> HIDE DEF p
    <3>6. QED
      BY <1>1, <3>4, <3>5
  <2>2. CASE SendArrives \/ SendFails
    <3>1. \/ prompts' = [prompts EXCEPT ![sending] = [prompts[sending] EXCEPT !.at = "queued"]]
          \/ prompts' = [prompts EXCEPT ![sending] = [prompts[sending] EXCEPT !.withdrawn = TRUE,
                                                        !.at = IF @ = "out" THEN "failed" ELSE @]]
      BY <2>2 DEF SendArrives, SendFails
    <3>2. CASE sending \in DOMAIN prompts
      <4>1. prompts[sending] \in Prompts
        BY <1>1, <3>2
      <4>2. [prompts[sending] EXCEPT !.at = "queued"] \in Prompts
        BY <4>1 DEF Prompts
      <4>3. [prompts[sending] EXCEPT !.withdrawn = TRUE, !.at = IF @ = "out" THEN "failed" ELSE @] \in Prompts
        BY <4>1 DEF Prompts
      <4>4. \A q \in Prompts : [prompts EXCEPT ![sending] = q] \in Seq(Prompts)
        BY <1>1, <3>2
      <4>5. QED
        BY <3>1, <4>2, <4>3, <4>4
    <3>3. CASE sending \notin DOMAIN prompts
      BY <1>1, <3>1, <3>3
    <3>4. QED
      BY <3>2, <3>3
  <2>3. CASE SendReturns
    BY <1>1, <2>3 DEF SendReturns
  <2>4. QED
    BY <2>1, <2>2, <2>3 DEF SendNext
<1>4. view' = [view EXCEPT !.hidden = view'.hidden] /\ view' \in Views /\ (stream.at = "closed" => view'.hidden)
  BY <1>1, <1>2 DEF Views, ClosedSound
<1>5. QED
  BY <1>2, <1>3, <1>4, AsideKeepsLiveInv

\* The page as it starts.
LEMMA LiveInitHolds == LiveInit => LiveInv
<1> SUFFICES ASSUME LiveInit PROVE LiveInv
  OBVIOUS
<1>1. Empty \in Transcripts /\ Ids(Empty) = {}
  <2>1. Empty \in [{} -> Message] /\ Ids(Empty) = {}
    BY DEF Empty, Ids
  <2>2. QED
    BY <2>1 DEF Transcripts
<1>2. conv = Empty /\ view.msgs = Empty /\ edits = 0 /\ wakes = 0 /\ asked = 1 /\ served = <<>> /\ prompts = <<>>
      /\ running \in BOOLEAN
  BY DEF LiveInit
<1>3. /\ stream.at = "connecting" /\ stream.frames = <<>> /\ stream \in LiveStreams
      /\ view \in Views /\ view.asOf = 0 /\ view.wakes = 0 /\ view.reported = "none"
  <2>1. stream.at = "connecting" /\ stream.frames = <<>> /\ stream \in LiveStreams
    BY DEF LiveInit, LiveStreams
  <2>2. view \in Views /\ view.asOf = 0 /\ view.wakes = 0 /\ view.reported = "none"
    BY <1>1 DEF LiveInit, Views
  <2>3. QED
    BY <2>1, <2>2
<1>4. LiveShape /\ ConvSound /\ ViewSound
  BY <1>1, <1>2, <1>3 DEF LiveShape, ConvSound, ViewSound, MessagesNumbered
<1>5. ReadsSound /\ QueueNumbered(stream.frames, edits)
  BY <1>2, <1>3 DEF ReadsSound, QueueNumbered
<1>6. ClosedSound /\ AttachedSound /\ EndingSound /\ AsleepSound
  BY <1>3 DEF ClosedSound, AttachedSound, EndingSound, AsleepSound
<1>7. QED
  BY <1>3, <1>4, <1>5, <1>6 DEF LiveInv, ClosedSound

\* Every step of the page, the stream, the conversation and the container keeps
\* the inductive invariant.
LEMMA LiveStepHolds == LiveInv /\ [LiveNext]_liveVars => LiveInv'
<1> SUFFICES ASSUME LiveInv, [LiveNext]_liveVars PROVE LiveInv'
  OBVIOUS
<1>1. CASE ConversationNext
  BY <1>1, ConversationKeepsLiveInv
<1>2. CASE ReadNext
  <2>1. CASE LoadServed
    BY <2>1, LoadServedKeepsLiveInv
  <2>2. CASE \E i \in DOMAIN served : LoadArrives(i)
    BY <2>2, LoadArrivesKeepsLiveInv
  <2>3. CASE FrameArrives
    BY <2>3, HubFrameKeepsLiveInv, OpencodeFrameKeepsLiveInv
  <2>4. CASE Attach
    BY <2>4, AttachKeepsLiveInv
  <2>5. QED
    BY <1>2, <2>1, <2>2, <2>3, <2>4 DEF ReadNext
<1>3. CASE BreakNext
  BY <1>3, BreakKeepsLiveInv
<1>4. CASE SendNext
  BY <1>4, SendKeepsLiveInv
<1>5. CASE UNCHANGED liveVars
  <2>1. /\ UNCHANGED <<convVars, served, asked, stream>> /\ prompts' \in Seq(Prompts) /\ view' = view /\ view \in Views
        /\ ClosedSound
    BY <1>5 DEF liveVars, convVars, LiveInv, LiveShape
  <2>2. view' = [view EXCEPT !.hidden = view'.hidden] /\ (stream.at = "closed" => view'.hidden)
    BY <2>1 DEF Views, ClosedSound
  <2>3. QED
    BY <2>1, <2>2, AsideKeepsLiveInv
<1>6. QED
  BY <1>1, <1>2, <1>3, <1>4, <1>5 DEF LiveNext

\* The inductive invariant holds whatever is lost, delayed or overtaken.
THEOREM LiveInvHolds == LiveSpec => []LiveInv
<1>1. QED
  BY LiveInitHolds, LiveStepHolds, PTL DEF LiveSpec

\* The inductive invariant leaves no page that is neither current nor excused.
LEMMA LiveInvIsCurrent == LiveInv => PageIsCurrent
<1> SUFFICES ASSUME LiveInv PROVE PageIsCurrent
  OBVIOUS
<1>1. stream.at = "closed" => view.hidden
  BY DEF LiveInv, ClosedSound
<1>2. view.msgs \in Transcripts /\ conv \in Transcripts
  BY DEF LiveInv, LiveShape, Views
<1> SUFFICES ASSUME asked = 0, served = <<>>, stream.frames = <<>>
             PROVE  /\ stream.at = "attached" => view.msgs = conv \/ view.overtaken \/ view.failed
                    /\ stream.at = "ending" /\ ~running /\ view.reported = "sleeping" =>
                          view.msgs = conv \/ view.failed \/ view.wakes # wakes \/ view.rewound
  BY <1>1 DEF PageIsCurrent
<1>3. ChangesOf(stream.frames) = {} /\ DOMAIN served = {} /\ view.failed \in BOOLEAN /\ view.overtaken \in BOOLEAN
  BY DEF ChangesOf, LiveInv, LiveShape, Views
<1>4. CASE stream.at = "attached"
  <2>1. PICK b \in 0 .. edits : OnItsWay(b)
    BY <1>4 DEF LiveInv, AttachedSound
  <2>2. view.failed \/ view.overtaken \/ Leads(view.msgs, ChangesOf(stream.frames), conv)
    BY <2>1, <1>3 DEF OnItsWay
  <2>3. ASSUME Leads(view.msgs, ChangesOf(stream.frames), conv)
        PROVE  view.msgs = conv
    BY <1>2, <1>3, <2>3, LeadsNowhere
  <2>4. QED
    BY <1>4, <2>2, <2>3
<1>5. CASE stream.at = "ending"
  BY <1>3, <1>5 DEF LiveInv, AsleepSound, Slept
<1>6. QED
  BY <1>4, <1>5

\* A page under which nothing is left to arrive shows the conversation as it is,
\* or says why not; and one that is looked at has a stream.
THEOREM PageStaysCurrent == LiveSpec => []PageIsCurrent
<1>1. QED
  BY LiveInvHolds, LiveInvIsCurrent, PTL

-----------------------------------------------------------------------------
\* The readers

\* Induction over the numbers.
LEMMA FromZero ==
    ASSUME NEW T, 0 \in T, \A n \in Nat : n \in T => n + 1 \in T
    PROVE  Nat \subseteq T
<1> SUFFICES ASSUME Nat \ T # {} PROVE FALSE
  OBVIOUS
<1>1. PICK n \in Nat \ T : \A m \in Nat \ T : n <= m
  BY LeastOf
<1>2. n # 0 /\ n \in Nat
  BY <1>1
<1>3. n - 1 \in Nat /\ ~(n <= n - 1) /\ (n - 1) + 1 = n
  BY <1>2
<1>4. n - 1 \in T
  BY <1>1, <1>3
<1>5. QED
  BY <1>1, <1>3, <1>4

-----------------------------------------------------------------------------
\* What OpenCode says: activity

\* A probe in progress, or done with what its sources say.
Probes == [kind : {"activity"}, legacy : UNION {[known -> Answers] : known \in SUBSET Locations}, v2 : Answers,
           heard : SUBSET (Locations \cup {"v2"}), state : {"asking", "active", "unknown", "idle"}]

Verdict(legacy, v2) ==
    LET states == {ClassifyLegacy(legacy[l]) : l \in DOMAIN legacy} IN
    Aggregate((IF states = {} THEN {"unknown"} ELSE states) \cup {ClassifyV2(v2)})

ActivitySound == reader \in Probes /\ (reader.state = "asking" \/ reader.state = Verdict(reader.legacy, reader.v2))

\* A verdict of idle is earned of every source.
LEMMA IdleVerdict ==
    ASSUME NEW known, NEW legacy \in [known -> Answers], NEW v2 \in Answers, Verdict(legacy, v2) = "idle"
    PROVE  /\ known # {} /\ v2.ok /\ v2.statuses = {}
           /\ \A l \in known : legacy[l].ok /\ legacy[l].statuses \subseteq {"idle"}
<1> DEFINE states == {ClassifyLegacy(legacy[l]) : l \in known}
           all == (IF states = {} THEN {"unknown"} ELSE states) \cup {ClassifyV2(v2)}
<1>1. Aggregate(all) = "idle"
  BY DEF Verdict
<1> HIDE DEF states
<1>2. "active" \notin all /\ "unknown" \notin all
  BY <1>1 DEF Aggregate
<1> HIDE DEF all
<1>3. states # {} /\ ClassifyV2(v2) \in all /\ states \subseteq all
  BY <1>2 DEF all
<1>4. known # {}
  BY <1>3 DEF states
<1>5. \A a \in Answers : a.ok \in BOOLEAN /\ a.statuses \in SUBSET {"busy", "retry", "idle", "strange"}
  BY ReadingAssumption
<1>6. v2.ok /\ v2.statuses = {}
  <2>1. ClassifyV2(v2) # "unknown" /\ ClassifyV2(v2) # "active"
    BY <1>2, <1>3
  <2>2. v2.ok
    BY <2>1 DEF ClassifyV2
  <2>3. v2.statuses = {}
    BY <2>1, <2>2 DEF ClassifyV2
  <2>4. QED
    BY <2>2, <2>3
<1>7. ASSUME NEW l \in known
      PROVE  legacy[l].ok /\ legacy[l].statuses \subseteq {"idle"}
  <2> DEFINE a == legacy[l]
  <2>1. ClassifyLegacy(a) \in states
    BY DEF states
  <2>2. ClassifyLegacy(a) # "unknown" /\ ClassifyLegacy(a) # "active"
    BY <1>2, <1>3, <2>1
  <2>3. a \in Answers
    OBVIOUS
  <2> HIDE DEF a
  <2>4. a.ok
    BY <2>2 DEF ClassifyLegacy
  <2>5. a.statuses \cap {"busy", "retry"} = {}
    BY <2>2, <2>4 DEF ClassifyLegacy
  <2>6. "strange" \notin a.statuses
    BY <2>2, <2>4, <2>5 DEF ClassifyLegacy
  <2>7. a.statuses \subseteq {"idle"}
    BY <1>5, <2>3, <2>5, <2>6
  <2>8. QED
    BY <2>4, <2>7 DEF a
<1>8. QED
  BY <1>4, <1>6, <1>7

\* The probe's steps.
LEMMA ActivitySteps ==
    ASSUME ActivitySound, ReadingNext
    PROVE  ActivitySound'
<1>1. /\ reader \in Probes /\ reader.kind = "activity"
      /\ reader.state = "asking" \/ reader.state = Verdict(reader.legacy, reader.v2)
  BY DEF ActivitySound, Probes
<1>2. PICK known \in SUBSET Locations : reader.legacy \in [known -> Answers]
  BY <1>1 DEF Probes
<1>3. CASE \E s \in Locations \cup {"v2"} : Heard(s)
  <2>1. PICK s \in Locations \cup {"v2"} : Heard(s)
    BY <1>3
  <2>2. reader' = [reader EXCEPT !.heard = @ \cup {s}]
    BY <2>1 DEF Heard
  <2>3. reader' \in Probes /\ reader'.state = reader.state /\ reader'.legacy = reader.legacy /\ reader'.v2 = reader.v2
    BY <1>1, <2>1, <2>2 DEF Probes
  <2>4. QED
    BY <1>1, <2>3 DEF ActivitySound
<1>4. CASE Classified
  <2> DEFINE verdict == Verdict(reader.legacy, reader.v2)
  <2>1. reader' = [reader EXCEPT !.state = verdict]
    BY <1>4 DEF Classified, Verdict
  <2>2. verdict \in {"active", "unknown", "idle"}
    BY DEF Verdict, Aggregate
  <2> HIDE DEF verdict
  <2>3. reader' \in Probes /\ reader'.state = verdict /\ reader'.legacy = reader.legacy /\ reader'.v2 = reader.v2
    BY <1>1, <2>1, <2>2 DEF Probes
  <2>4. QED
    BY <2>3 DEF ActivitySound, verdict
<1>5. QED
  BY <1>1, <1>3, <1>4 DEF ReadingNext, WalkHop

-----------------------------------------------------------------------------
\* Lineage

Places == {"gone"} \cup UNION {DOMAIN t \cup {t[i] : i \in DOMAIN t} : t \in Trees}

\* A walk up from a session, its chain so far being what it came through.
Walks == [kind : {"lineage"}, tree : Trees, from : Places, current : Places, seen : SUBSET Places, chain : Seq(Places),
          hop : Nat, answer : {"walking", "found", "undefined"}]

\* The chain leads from below the current session down to where it started.
ChainSound ==
    LET tree == reader.tree
        chain == reader.chain
    IN /\ \A i \in DOMAIN chain : chain[i] \in DOMAIN tree /\ chain[i] # "root"
       /\ chain = <<>> => reader.current = reader.from
       /\ chain # <<>> => chain[Len(chain)] = reader.from /\ tree[chain[1]] = reader.current
       /\ \A i \in DOMAIN chain : i > 1 => tree[chain[i]] = chain[i - 1]
       /\ reader.seen = {chain[i] : i \in DOMAIN chain}
       /\ reader.hop = Len(chain) /\ reader.hop <= MaxLineageDepth + 1

\* Whatever way leads down to the session goes through the current one.
PathsThrough ==
    \A p \in Paths(reader.tree, reader.from) :
        Len(p) > Len(reader.chain) /\ p[Len(p) - Len(reader.chain)] = reader.current

LineageSound ==
    /\ reader \in Walks
    /\ reader.answer = "walking" => ChainSound /\ PathsThrough
    /\ LineageIsThePath

\* What a path is.
LEMMA PathIs ==
    ASSUME NEW tree, NEW from, NEW p \in Paths(tree, from)
    PROVE  /\ Len(p) \in 1 .. MaxLineageDepth + 1 /\ DOMAIN p = 1 .. Len(p)
           /\ \A i \in 1 .. Len(p) : p[i] \in DOMAIN tree
           /\ p[1] = "root" /\ p[Len(p)] = from
           /\ \A i \in 2 .. Len(p) : p[i] # "root" /\ tree[p[i]] = p[i - 1]
<1>1. PICK n \in 1 .. MaxLineageDepth + 1 : p \in [1 .. n -> DOMAIN tree]
  BY DEF Paths
<1>2. n \in Nat /\ p \in Seq(DOMAIN tree) /\ Len(p) = n
  BY <1>1, ReadingAssumption
<1>3. QED
  BY <1>1, <1>2 DEF Paths

\* A session seen before is on a circle, and no path comes off a circle.
LEMMA NoWayOffCircle ==
    ASSUME LineageSound, reader.answer = "walking", reader.current \in reader.seen
    PROVE  Paths(reader.tree, reader.from) = {}
<1> DEFINE tree == reader.tree
           chain == reader.chain
           seen == reader.seen
<1>1. /\ chain \in Seq(Places) /\ ChainSound /\ PathsThrough
      /\ DOMAIN chain = 1 .. Len(chain) /\ Len(chain) \in Nat
  BY DEF LineageSound, Walks
<1>2. ASSUME NEW x \in seen, x \in DOMAIN tree
      PROVE  x # "root" /\ tree[x] \in seen
  <2>1. PICK i \in DOMAIN chain : x = chain[i]
    BY <1>1 DEF ChainSound
  <2>2. CASE i = 1
    BY <1>1, <2>1, <2>2 DEF ChainSound
  <2>3. CASE i > 1
    <3>1. i - 1 \in DOMAIN chain /\ tree[chain[i]] = chain[i - 1] /\ chain[i] # "root"
      BY <1>1, <2>1, <2>3 DEF ChainSound
    <3>2. QED
      BY <1>1, <2>1, <3>1 DEF ChainSound
  <2>4. QED
    BY <1>1, <2>1, <2>2, <2>3
<1> SUFFICES ASSUME NEW p \in Paths(tree, reader.from) PROVE FALSE
  OBVIOUS
<1>3. /\ Len(p) \in Nat /\ \A i \in 1 .. Len(p) : p[i] \in DOMAIN tree
      /\ p[1] = "root" /\ \A i \in 2 .. Len(p) : tree[p[i]] = p[i - 1]
  BY PathIs, ReadingAssumption
<1>4. Len(p) > Len(chain) /\ p[Len(p) - Len(chain)] \in seen
  BY <1>1 DEF PathsThrough
<1> HIDE DEF tree, chain, seen
<1> DEFINE at == {i \in 1 .. Len(p) : p[i] \in seen}
<1>5. at \subseteq Nat /\ at # {}
  <2>1. Len(p) - Len(chain) \in 1 .. Len(p)
    BY <1>1, <1>3, <1>4
  <2>2. QED
    BY <2>1, <1>3, <1>4
<1>6. PICK i \in at : \A j \in at : i <= j
  BY <1>5, LeastOf
<1>7. i \in 1 .. Len(p) /\ p[i] \in seen /\ p[i] \in DOMAIN tree
  BY <1>3, <1>6
<1>8. p[i] # "root" /\ tree[p[i]] \in seen
  BY <1>2, <1>7
<1>9. i \in 2 .. Len(p)
  BY <1>3, <1>7, <1>8
<1>10. i - 1 \in 1 .. Len(p) /\ p[i - 1] \in seen
  BY <1>3, <1>8, <1>9
<1>11. i <= i - 1
  BY <1>6, <1>10
<1>12. QED
  BY <1>3, <1>9, <1>11

\* The walk gives up only where no path leads.
LEMMA NoPathWhereGivenUp ==
    ASSUME LineageSound, reader.answer = "walking",
           \/ ~WithinDepth(reader.hop)
           \/ reader.current \in reader.seen
           \/ reader.current \notin DOMAIN reader.tree
           \/ /\ reader.current \in DOMAIN reader.tree /\ reader.current # "root"
              /\ reader.tree[reader.current] = NoParent
    PROVE  Paths(reader.tree, reader.from) = {}
<1> DEFINE tree == reader.tree
           k == Len(reader.chain)
<1> SUFFICES ASSUME NEW p \in Paths(tree, reader.from) PROVE FALSE
  OBVIOUS
<1>1. /\ reader \in Walks /\ ChainSound /\ PathsThrough /\ k \in Nat /\ tree \in Trees
      /\ MaxLineageDepth \in Nat /\ reader.hop = k
  BY ReadingAssumption DEF LineageSound, Walks, ChainSound
<1>2. /\ Len(p) \in 1 .. MaxLineageDepth + 1 /\ \A i \in 1 .. Len(p) : p[i] \in DOMAIN tree
      /\ p[1] = "root" /\ \A i \in 2 .. Len(p) : tree[p[i]] = p[i - 1]
  <2> HIDE DEF tree
  <2>1. QED
    BY PathIs
<1>3. Len(p) > k /\ p[Len(p) - k] = reader.current
  BY <1>1 DEF PathsThrough
<1> HIDE DEF tree, k
<1>4. Len(p) - k \in 1 .. Len(p)
  BY <1>1, <1>2, <1>3
<1>5. WithinDepth(reader.hop)
  BY <1>1, <1>2, <1>3 DEF WithinDepth
<1>6. reader.current \in DOMAIN tree
  BY <1>2, <1>3, <1>4
<1>7. ASSUME reader.current # "root"
      PROVE  tree[reader.current] # NoParent
  <2>1. Len(p) - k \in 2 .. Len(p)
    BY <1>2, <1>3, <1>4, <1>7
  <2>2. tree[reader.current] = p[(Len(p) - k) - 1] /\ (Len(p) - k) - 1 \in 1 .. Len(p)
    BY <1>2, <1>3, <2>1
  <2>3. tree[reader.current] \in DOMAIN tree
    BY <1>2, <2>2
  <2>4. NoParent \notin DOMAIN tree
    BY <1>1, ReadingAssumption
  <2>5. QED
    BY <2>3, <2>4
<1>8. reader.current \notin reader.seen
  BY NoWayOffCircle DEF tree
<1>9. QED
  BY <1>5, <1>6, <1>7, <1>8 DEF tree

\* One step further up.
LEMMA PutInFront ==
    ASSUME NEW T, NEW chain \in Seq(T), NEW x \in T
    PROVE  LET longer == <<x>> \o chain IN
           /\ longer \in Seq(T) /\ Len(longer) = Len(chain) + 1 /\ DOMAIN longer = 1 .. Len(chain) + 1
           /\ longer # <<>> /\ longer[1] = x
           /\ \A i \in 2 .. Len(chain) + 1 : i - 1 \in DOMAIN chain /\ longer[i] = chain[i - 1]
           /\ {longer[i] : i \in DOMAIN longer} = {chain[i] : i \in DOMAIN chain} \cup {x}
<1> DEFINE longer == <<x>> \o chain
<1>1. longer \in Seq(T) /\ Len(longer) = Len(chain) + 1 /\ DOMAIN longer = 1 .. Len(chain) + 1 /\ Len(chain) \in Nat
  OBVIOUS
<1>2. longer[1] = x /\ DOMAIN chain = 1 .. Len(chain)
  OBVIOUS
<1>3. \A i \in 2 .. Len(chain) + 1 : longer[i] = chain[i - 1]
  OBVIOUS
<1> HIDE DEF longer
<1>4. \A i \in 2 .. Len(chain) + 1 : i - 1 \in DOMAIN chain
  BY <1>1, <1>2
<1>5. \A i \in DOMAIN chain : i + 1 \in 2 .. Len(chain) + 1 /\ (i + 1) - 1 = i
  BY <1>1, <1>2
<1>6. \A i \in DOMAIN longer : i = 1 \/ i \in 2 .. Len(chain) + 1
  BY <1>1
<1>7. \A i \in DOMAIN chain : chain[i] \in {longer[j] : j \in DOMAIN longer}
  <2> TAKE i \in DOMAIN chain
  <2>1. longer[i + 1] = chain[i] /\ i + 1 \in DOMAIN longer
    BY <1>1, <1>2, <1>3, <1>5
  <2>2. QED
    BY <2>1
<1>8. x \in {longer[j] : j \in DOMAIN longer}
  BY <1>1, <1>2
<1>9. \A i \in DOMAIN longer : longer[i] \in {chain[j] : j \in DOMAIN chain} \cup {x}
  BY <1>2, <1>3, <1>4, <1>6
<1>10. {longer[i] : i \in DOMAIN longer} = {chain[i] : i \in DOMAIN chain} \cup {x}
  BY <1>7, <1>8, <1>9
<1>11. longer # <<>>
  BY <1>1
<1>12. QED
  BY <1>1, <1>2, <1>3, <1>4, <1>10, <1>11 DEF longer

\* The root is reached: the chain is a path.
LEMMA FoundIsPath ==
    ASSUME LineageSound, reader.answer = "walking", WithinDepth(reader.hop), reader.current = "root",
           reader.current \in DOMAIN reader.tree
    PROVE  <<reader.current>> \o reader.chain \in Paths(reader.tree, reader.from)
<1> DEFINE tree == reader.tree
           chain == reader.chain
           p == <<reader.current>> \o reader.chain
<1>1. /\ ChainSound /\ chain \in Seq(Places) /\ reader.current \in Places /\ Len(chain) \in Nat
      /\ DOMAIN chain = 1 .. Len(chain) /\ MaxLineageDepth \in Nat /\ reader.hop = Len(chain)
      /\ Len(chain) <= MaxLineageDepth
  BY ReadingAssumption DEF LineageSound, Walks, ChainSound, WithinDepth
<1>2. /\ p \in Seq(Places) /\ Len(p) = Len(chain) + 1 /\ DOMAIN p = 1 .. Len(chain) + 1 /\ p[1] = "root"
      /\ \A i \in 2 .. Len(chain) + 1 : i - 1 \in DOMAIN chain /\ p[i] = chain[i - 1]
  BY <1>1, PutInFront
<1>3. /\ \A i \in DOMAIN chain : chain[i] \in DOMAIN tree /\ chain[i] # "root"
      /\ chain = <<>> => "root" = reader.from
      /\ chain # <<>> => chain[Len(chain)] = reader.from /\ tree[chain[1]] = "root"
      /\ \A i \in DOMAIN chain : i > 1 => tree[chain[i]] = chain[i - 1]
      /\ "root" \in DOMAIN tree
  BY <1>1 DEF ChainSound
<1> HIDE DEF p, chain, tree
<1>4. \A i \in 1 .. Len(p) : p[i] \in DOMAIN tree
  <2> TAKE i \in 1 .. Len(p)
  <2>1. CASE i = 1
    BY <1>2, <1>3, <2>1
  <2>2. CASE i # 1
    <3>1. i \in 2 .. Len(chain) + 1
      BY <1>1, <1>2, <2>2
    <3>2. QED
      BY <1>2, <1>3, <3>1
  <2>3. QED
    BY <2>1, <2>2
<1>5. p[Len(p)] = reader.from
  <2>1. CASE chain = <<>>
    BY <1>1, <1>2, <1>3, <2>1
  <2>2. CASE chain # <<>>
    <3>1. Len(chain) + 1 \in 2 .. Len(chain) + 1 /\ (Len(chain) + 1) - 1 = Len(chain)
      BY <1>1, <2>2
    <3>2. p[Len(chain) + 1] = chain[Len(chain)]
      BY <1>2, <3>1
    <3>3. QED
      BY <1>2, <1>3, <2>2, <3>2
  <2>3. QED
    BY <2>1, <2>2
<1>6. \A i \in 2 .. Len(p) : p[i] # "root" /\ tree[p[i]] = p[i - 1]
  <2> TAKE i \in 2 .. Len(p)
  <2>1. i - 1 \in DOMAIN chain /\ p[i] = chain[i - 1]
    BY <1>2
  <2>2. CASE i = 2
    <3>1. chain # <<>> /\ p[2] = chain[1]
      BY <1>1, <2>1, <2>2
    <3>2. QED
      BY <1>2, <1>3, <2>1, <2>2, <3>1
  <2>3. CASE i # 2
    <3>1. i - 1 > 1 /\ i - 1 \in 2 .. Len(chain) + 1
      BY <1>1, <1>2, <2>3
    <3>2. p[i - 1] = chain[(i - 1) - 1]
      BY <1>2, <3>1
    <3>3. QED
      BY <1>3, <2>1, <3>1, <3>2
  <2>4. QED
    BY <2>2, <2>3
<1>7. p \in [1 .. Len(p) -> DOMAIN tree] /\ Len(p) \in 1 .. MaxLineageDepth + 1
  <2>1. Len(p) \in 1 .. MaxLineageDepth + 1
    BY <1>1, <1>2
  <2>2. p = [i \in 1 .. Len(p) |-> p[i]]
    BY <1>2
  <2>3. QED
    BY <1>4, <2>1, <2>2
<1>8. p \in Paths(tree, reader.from)
  BY <1>2, <1>5, <1>6, <1>7 DEF Paths
<1>9. QED
  BY <1>8 DEF p, tree

\* The walk's steps.
LEMMA LineageSteps ==
    ASSUME LineageSound, ReadingNext
    PROVE  LineageSound'
<1> DEFINE tree == reader.tree
           id == reader.current
           chain == reader.chain
           longer == <<id>> \o chain
<1>1. reader \in Walks /\ reader.kind = "lineage" /\ tree \in Trees /\ chain \in Seq(Places) /\ id \in Places
  BY DEF LineageSound, Walks
<1>2. reader.answer = "walking" /\ WalkHop
  BY <1>1 DEF ReadingNext, Transform, WalkHop, Heard, Classified
<1>3. ChainSound /\ PathsThrough
  BY <1>2 DEF LineageSound
<1>4. ASSUME reader' = [reader EXCEPT !.answer = "undefined"], Paths(tree, reader.from) = {}
      PROVE  LineageSound'
  <2>1. reader' \in Walks /\ reader'.answer = "undefined" /\ reader'.tree = tree /\ reader'.from = reader.from
    BY <1>1, <1>4 DEF Walks
  <2>2. QED
    BY <2>1, <1>4 DEF LineageSound, LineageIsThePath
<1>5. CASE ~WithinDepth(reader.hop) \/ id \in reader.seen \/ id \notin DOMAIN tree
  <2>1. reader' = [reader EXCEPT !.answer = "undefined"]
    BY <1>2, <1>5 DEF WalkHop, Settle
  <2>2. Paths(tree, reader.from) = {}
    BY <1>2, <1>5, NoPathWhereGivenUp
  <2>3. QED
    BY <2>1, <2>2, <1>4
<1>6. CASE WithinDepth(reader.hop) /\ id \notin reader.seen /\ id \in DOMAIN tree /\ id = "root"
  <2>1. reader' = [reader EXCEPT !.chain = longer, !.answer = "found"]
    BY <1>2, <1>6 DEF WalkHop
  <2>2. longer \in Paths(tree, reader.from)
    BY <1>2, <1>6, FoundIsPath
  <2>3. longer \in Seq(Places)
    BY <1>1, PutInFront
  <2> HIDE DEF longer
  <2>4. /\ reader' \in Walks /\ reader'.answer = "found" /\ reader'.chain = longer
        /\ reader'.tree = tree /\ reader'.from = reader.from
    BY <1>1, <2>1, <2>3 DEF Walks
  <2>5. QED
    BY <2>2, <2>4 DEF LineageSound, LineageIsThePath
<1>7. CASE WithinDepth(reader.hop) /\ id \notin reader.seen /\ id \in DOMAIN tree /\ id # "root" /\ tree[id] = NoParent
  <2>1. reader' = [reader EXCEPT !.answer = "undefined"]
    BY <1>2, <1>7 DEF WalkHop, Settle
  <2>2. Paths(tree, reader.from) = {}
    BY <1>2, <1>7, NoPathWhereGivenUp
  <2>3. QED
    BY <2>1, <2>2, <1>4
<1>8. CASE WithinDepth(reader.hop) /\ id \notin reader.seen /\ id \in DOMAIN tree /\ id # "root" /\ tree[id] # NoParent
  <2>1. reader' = [reader EXCEPT !.chain = longer, !.seen = @ \cup {id}, !.current = tree[id], !.hop = @ + 1]
    BY <1>2, <1>8 DEF WalkHop
  <2>2. /\ longer \in Seq(Places) /\ Len(longer) = Len(chain) + 1 /\ DOMAIN longer = 1 .. Len(chain) + 1
        /\ longer # <<>> /\ longer[1] = id
        /\ \A i \in 2 .. Len(chain) + 1 : i - 1 \in DOMAIN chain /\ longer[i] = chain[i - 1]
        /\ {longer[i] : i \in DOMAIN longer} = {chain[i] : i \in DOMAIN chain} \cup {id}
    <3> HIDE DEF chain, id
    <3>1. QED
      BY <1>1, PutInFront
  <2>3. /\ \A i \in DOMAIN chain : chain[i] \in DOMAIN tree /\ chain[i] # "root"
        /\ chain = <<>> => id = reader.from
        /\ chain # <<>> => chain[Len(chain)] = reader.from /\ tree[chain[1]] = id
        /\ \A i \in DOMAIN chain : i > 1 => tree[chain[i]] = chain[i - 1]
        /\ reader.seen = {chain[i] : i \in DOMAIN chain}
        /\ reader.hop = Len(chain) /\ Len(chain) \in Nat /\ DOMAIN chain = 1 .. Len(chain)
    BY <1>1, <1>3 DEF ChainSound
  <2>4. tree[id] \in Places
    BY <1>1, <1>8 DEF Places
  <2> HIDE DEF longer, chain, tree, id
  <2>5. /\ reader' \in Walks /\ reader'.answer = "walking" /\ reader'.chain = longer /\ reader'.seen = reader.seen \cup {id}
        /\ reader'.current = tree[id] /\ reader'.hop = reader.hop + 1
        /\ reader'.tree = reader.tree /\ reader'.from = reader.from
    <3>1. reader.seen \cup {id} \in SUBSET Places /\ reader.hop + 1 \in Nat
      BY <1>1 DEF Walks
    <3>2. QED
      BY <1>1, <1>2, <2>1, <2>2, <2>4, <3>1 DEF Walks
  <2>6. \A i \in DOMAIN longer : i = 1 \/ i \in 2 .. Len(chain) + 1
    BY <2>2, <2>3
  <2>7. \A i \in DOMAIN longer : longer[i] \in DOMAIN tree /\ longer[i] # "root"
    <3> TAKE i \in DOMAIN longer
    <3>1. CASE i = 1
      BY <1>8, <2>2, <3>1
    <3>2. CASE i \in 2 .. Len(chain) + 1
      <4>1. i - 1 \in DOMAIN chain /\ longer[i] = chain[i - 1]
        BY <2>2, <3>2
      <4>2. QED
        BY <2>3, <4>1
    <3>3. QED
      BY <2>6, <3>1, <3>2
  <2>8. longer[Len(longer)] = reader.from
    <3>1. CASE chain = <<>>
      BY <2>2, <2>3, <3>1
    <3>2. CASE chain # <<>>
      <4>1. Len(chain) # 0
        BY <2>3, <3>2, <1>1
      <4>2. Len(chain) + 1 \in 2 .. Len(chain) + 1 /\ (Len(chain) + 1) - 1 = Len(chain)
        BY <2>3, <4>1
      <4>3. longer[Len(chain) + 1] = chain[Len(chain)]
        BY <2>2, <4>2
      <4>4. QED
        BY <2>2, <2>3, <3>2, <4>3
    <3>3. QED
      BY <3>1, <3>2
  <2>9. \A i \in DOMAIN longer : i > 1 => tree[longer[i]] = longer[i - 1]
    <3> SUFFICES ASSUME NEW i \in DOMAIN longer, i > 1
                 PROVE  tree[longer[i]] = longer[i - 1]
      OBVIOUS
    <3>1. i \in 2 .. Len(chain) + 1 /\ i - 1 \in DOMAIN chain /\ longer[i] = chain[i - 1]
      BY <2>2, <2>6
    <3>2. CASE i = 2
      <4>1. chain # <<>> /\ longer[2] = chain[1] /\ longer[1] = id
        BY <2>2, <2>3, <3>1, <3>2
      <4>2. QED
        BY <2>3, <3>1, <3>2, <4>1
    <3>3. CASE i # 2
      <4>1. i - 1 > 1 /\ i - 1 \in 2 .. Len(chain) + 1
        BY <2>3, <3>1, <3>3
      <4>2. longer[i - 1] = chain[(i - 1) - 1]
        BY <2>2, <4>1
      <4>3. QED
        BY <2>3, <3>1, <4>1, <4>2
    <3>4. QED
      BY <3>2, <3>3
  <2>10. reader'.hop = Len(longer) /\ reader'.hop <= MaxLineageDepth + 1
    BY <1>8, <2>2, <2>3, <2>5, ReadingAssumption DEF WithinDepth
  <2>11. ChainSound'
    <3>1. reader'.seen = {longer[i] : i \in DOMAIN longer}
      BY <2>2, <2>3, <2>5
    <3>2. reader'.tree = tree
      BY <2>5 DEF tree
    <3>3. tree[longer[1]] = reader'.current
      BY <2>2, <2>5
    <3>4. /\ \A i \in DOMAIN reader'.chain : reader'.chain[i] \in DOMAIN reader'.tree /\ reader'.chain[i] # "root"
          /\ \A i \in DOMAIN reader'.chain : i > 1 => reader'.tree[reader'.chain[i]] = reader'.chain[i - 1]
      BY <2>5, <2>7, <2>9, <3>2
    <3>5. reader'.chain # <<>> /\ reader'.chain[Len(reader'.chain)] = reader'.from
          /\ reader'.tree[reader'.chain[1]] = reader'.current
      BY <2>2, <2>5, <2>8, <3>2, <3>3
    <3>6. /\ reader'.seen = {reader'.chain[i] : i \in DOMAIN reader'.chain}
          /\ reader'.hop = Len(reader'.chain) /\ reader'.hop <= MaxLineageDepth + 1
      BY <2>5, <2>10, <3>1
    <3>7. QED
      BY <3>4, <3>5, <3>6, Zenon DEF ChainSound
  <2>12. PathsThrough'
    <3> SUFFICES ASSUME NEW p \in Paths(tree, reader.from)
                 PROVE  Len(p) > Len(longer) /\ p[Len(p) - Len(longer)] = tree[id]
      BY <2>5 DEF PathsThrough, tree
    <3>1. Len(p) > Len(chain) /\ p[Len(p) - Len(chain)] = id
      BY <1>3 DEF PathsThrough, tree, chain, id
    <3>2. /\ Len(p) \in Nat /\ p[1] = "root"
          /\ \A i \in 2 .. Len(p) : tree[p[i]] = p[i - 1]
      BY PathIs, ReadingAssumption
    <3>3. Len(p) - Len(chain) # 1
      BY <1>8, <3>1, <3>2
    <3>4. Len(p) - Len(chain) \in 2 .. Len(p)
      BY <2>3, <3>1, <3>2, <3>3
    <3>5. tree[id] = p[(Len(p) - Len(chain)) - 1]
      BY <3>1, <3>2, <3>4
    <3>6. (Len(p) - Len(chain)) - 1 = Len(p) - Len(longer) /\ Len(p) > Len(longer)
      BY <2>2, <2>3, <3>2, <3>4
    <3>7. QED
      BY <3>5, <3>6
  <2>13. QED
    BY <2>5, <2>11, <2>12 DEF LineageSound, LineageIsThePath
<1>9. QED
  BY <1>5, <1>6, <1>7, <1>8

-----------------------------------------------------------------------------
\* Frames

\* CR, LF and any other byte.
Bytes == {"x", "r", "n"}

\* The splits of a stream from each of its places on.
Splits(s) == CHOOSE f : f = [i \in 1 .. Len(s) + 1 |-> SplitFrom(s, i, f)]

\* The split of a stream is that from its first place.
LEMMA SplitIsFirst == \A s : Split(s) = Splits(s)[1]
BY DEF Split, Splits

\* Where a separator ends: two to four places from where it begins.
LEMMA SeparatorIs ==
    ASSUME NEW s \in Seq(Bytes), NEW i \in Nat \ {0}, SeparatorEnd(s, i) # 0
    PROVE  /\ SeparatorEnd(s, i) \in Nat /\ SeparatorEnd(s, i) > i /\ SeparatorEnd(s, i) <= Len(s)
           /\ i \in 1 .. Len(s)
<1>1. Len(s) \in Nat
  OBVIOUS
<1>2. \A k \in Nat : At(s, k) = "n" => k <= Len(s)
  BY DEF At
<1>3. QED
  BY <1>1, <1>2 DEF SeparatorEnd

\* Its first separator from a place on.
LEMMA FirstSeparator ==
    ASSUME NEW s \in Seq(Bytes), NEW i \in Nat \ {0}, Separators(s, i) # {}
    PROVE  LET j == CHOOSE j \in Separators(s, i) : \A k \in Separators(s, i) : j <= k IN
           j \in Separators(s, i) /\ \A k \in Separators(s, i) : j <= k
<1>1. Separators(s, i) \in SUBSET Nat
  BY DEF Separators
<1>2. \E j \in Separators(s, i) : \A k \in Separators(s, i) : j <= k
  BY <1>1, LeastOf
<1>3. QED
  BY <1>2

\* A split looks at later places only.
LEMMA SplitLooksAhead ==
    ASSUME NEW s \in Seq(Bytes), NEW i \in 1 .. Len(s) + 1, NEW f, NEW g,
           \A k \in i + 1 .. Len(s) + 1 : f[k] = g[k]
    PROVE  SplitFrom(s, i, f) = SplitFrom(s, i, g)
<1>1. CASE Separators(s, i) = {}
  BY <1>1 DEF SplitFrom
<1>2. CASE Separators(s, i) # {}
  <2> DEFINE j == CHOOSE j \in Separators(s, i) : \A k \in Separators(s, i) : j <= k
  <2>1. j \in Separators(s, i)
    BY <1>2, FirstSeparator
  <2> HIDE DEF j
  <2>2. j \in i .. Len(s) /\ SeparatorEnd(s, j) # 0 /\ Len(s) \in Nat /\ i \in Nat /\ i > 0
    BY <2>1 DEF Separators
  <2>3. SeparatorEnd(s, j) \in Nat /\ SeparatorEnd(s, j) > j /\ SeparatorEnd(s, j) <= Len(s)
    BY <2>2, SeparatorIs
  <2>4. SeparatorEnd(s, j) + 1 \in i + 1 .. Len(s) + 1
    BY <2>2, <2>3
  <2>5. f[SeparatorEnd(s, j) + 1] = g[SeparatorEnd(s, j) + 1]
    BY <2>4
  <2>6. QED
    BY <1>2, <2>5 DEF SplitFrom, j
<1>3. QED
  BY <1>1, <1>2

\* The splits exist.
LEMMA SplitsExist ==
    ASSUME NEW s \in Seq(Bytes)
    PROVE  \E f : f = [i \in 1 .. Len(s) + 1 |-> SplitFrom(s, i, f)]
<1> DEFINE last == Len(s) + 1
           known == {n \in Nat : \E f : /\ f = [i \in 1 .. last |-> f[i]]
                                        /\ \A i \in 1 .. last : i + n > last => f[i] = SplitFrom(s, i, f)}
<1>1. last \in Nat
  OBVIOUS
<1> HIDE DEF last
<1>2. 0 \in known
  <2>1. \A i \in 1 .. last : ~(i + 0 > last)
    BY <1>1
  <2> DEFINE f == [i \in 1 .. last |-> 0]
  <2>2. f = [i \in 1 .. last |-> f[i]]
    OBVIOUS
  <2> HIDE DEF f
  <2>3. QED
    BY <2>1, <2>2
<1>3. ASSUME NEW n \in Nat, n \in known
      PROVE  n + 1 \in known
  <2>1. PICK f : /\ f = [i \in 1 .. last |-> f[i]]
                 /\ \A i \in 1 .. last : i + n > last => f[i] = SplitFrom(s, i, f)
    BY <1>3
  <2> DEFINE g == [i \in 1 .. last |-> IF i + n = last THEN SplitFrom(s, i, f) ELSE f[i]]
  <2>2. g = [i \in 1 .. last |-> g[i]]
    OBVIOUS
  <2>3. \A i \in 1 .. last : g[i] = IF i + n = last THEN SplitFrom(s, i, f) ELSE f[i]
    OBVIOUS
  <2> HIDE DEF g
  <2>4. ASSUME NEW i \in 1 .. last, i + (n + 1) > last
        PROVE  g[i] = SplitFrom(s, i, g)
    <3>1. g[i] = SplitFrom(s, i, f)
      <4>1. CASE i + n = last
        BY <2>3, <4>1
      <4>2. CASE i + n # last
        <5>1. i + n > last
          BY <1>1, <2>4, <4>2
        <5>2. f[i] = SplitFrom(s, i, f)
          BY <2>1, <5>1
        <5>3. g[i] = f[i]
          BY <2>3, <4>2
        <5>4. QED
          BY <5>2, <5>3
      <4>3. QED
        BY <4>1, <4>2
    <3>2. \A k \in i + 1 .. last : f[k] = g[k]
      BY <1>1, <2>3, <2>4
    <3>3. SplitFrom(s, i, f) = SplitFrom(s, i, g)
      BY <3>2, SplitLooksAhead DEF last
    <3>4. QED
      BY <3>1, <3>3
  <2>5. \E h : /\ h = [i \in 1 .. last |-> h[i]]
               /\ \A i \in 1 .. last : i + (n + 1) > last => h[i] = SplitFrom(s, i, h)
    BY <2>2, <2>4
  <2>6. n + 1 \in Nat
    OBVIOUS
  <2>7. QED
    BY <2>5, <2>6
<1>4. last \in known
  <2> HIDE DEF known
  <2>1. QED
    BY <1>1, <1>2, <1>3, FromZero
<1>5. PICK f : /\ f = [i \in 1 .. last |-> f[i]]
               /\ \A i \in 1 .. last : i + last > last => f[i] = SplitFrom(s, i, f)
  BY <1>4
<1>6. \A i \in 1 .. last : f[i] = SplitFrom(s, i, f)
  BY <1>1, <1>5
<1>7. f = [i \in 1 .. last |-> SplitFrom(s, i, f)]
  BY <1>5, <1>6
<1>8. QED
  BY <1>7 DEF last

\* Each of them is what its definition says.
LEMMA SplitsAre ==
    ASSUME NEW s \in Seq(Bytes), NEW i \in 1 .. Len(s) + 1
    PROVE  Splits(s)[i] = SplitFrom(s, i, Splits(s))
<1>1. Splits(s) = [k \in 1 .. Len(s) + 1 |-> SplitFrom(s, k, Splits(s))]
  BY SplitsExist DEF Splits
<1> DEFINE f == Splits(s)
<1>2. f = [k \in 1 .. Len(s) + 1 |-> SplitFrom(s, k, f)]
  BY <1>1
<1> HIDE DEF f
<1>3. f[i] = SplitFrom(s, i, f)
  BY <1>2
<1>4. QED
  BY <1>3 DEF f

\* u is what is left of s behind place d.
Behind(u, s, d) ==
    /\ u \in Seq(Bytes) /\ s \in Seq(Bytes) /\ d \in Nat /\ Len(s) = Len(u) + d
    /\ \A k \in 1 .. Len(u) : u[k] = s[k + d]

\* The end of a stream lies behind its first d bytes.
LEMMA SubSeqIsBehind ==
    ASSUME NEW s \in Seq(Bytes), NEW d \in 0 .. Len(s)
    PROVE  Behind(SubSeq(s, d + 1, Len(s)), s, d)
<1>1. Len(s) \in Nat /\ d \in Nat /\ d <= Len(s)
  OBVIOUS
<1> DEFINE u == SubSeq(s, d + 1, Len(s))
<1>2. u \in Seq(Bytes) /\ Len(u) = Len(s) - d
  OBVIOUS
<1>3. \A k \in 1 .. Len(s) - d : u[k] = s[k + d]
  OBVIOUS
<1> HIDE DEF u
<1>4. Behind(u, s, d)
  BY <1>1, <1>2, <1>3 DEF Behind
<1>5. QED
  BY <1>4 DEF u

Piece(s, from, to) == SubSeq(s, from, to)

\* What is behind a place is told apart by its places only.
LEMMA BehindIsPiece ==
    ASSUME NEW s \in Seq(Bytes), NEW u \in Seq(Bytes), NEW d \in Nat, Behind(u, s, d),
           NEW a \in Nat \ {0}, NEW b \in Nat, b <= Len(u), NEW e \in Nat, e = a + d, NEW f \in Nat, f = b + d
    PROVE  Piece(u, a, b) = Piece(s, e, f)
<1>1. /\ u \in Seq(Bytes) /\ s \in Seq(Bytes) /\ d \in Nat /\ Len(s) = Len(u) + d /\ Len(u) \in Nat
      /\ \A k \in 1 .. Len(u) : u[k] = s[k + d]
  BY DEF Behind
<1> DEFINE v == SubSeq(u, a, b)
           w == SubSeq(s, e, f)
           n == IF a <= b THEN (b - a) + 1 ELSE 0
<1>2. /\ n \in Nat /\ v \in Seq(Bytes) /\ Len(v) = n
      /\ \A k \in 1 .. n : v[k] = u[(k + a) - 1]
  BY <1>1
<1>3. /\ w \in Seq(Bytes) /\ Len(w) = n
      /\ \A k \in 1 .. n : w[k] = s[(k + e) - 1]
  BY <1>1
<1>4. \A k \in 1 .. n : u[(k + a) - 1] = s[(k + e) - 1]
  <2> TAKE k \in 1 .. n
  <2>1. (k + a) - 1 \in 1 .. Len(u) /\ ((k + a) - 1) + d = (k + e) - 1
    BY <1>1
  <2>2. QED
    BY <1>1, <2>1
<1> HIDE DEF v, w, n
<1>5. \A k \in 1 .. n : v[k] = w[k]
  BY <1>2, <1>3, <1>4
<1>6. v = w
  BY <1>2, <1>3, <1>5, SeqEqual
<1>7. QED
  BY <1>6 DEF v, w, Piece

\* Separators are where they are in the whole stream.
LEMMA SeparatorBehind ==
    ASSUME NEW s, NEW u, NEW d, Behind(u, s, d), NEW i \in Nat \ {0}
    PROVE  /\ SeparatorEnd(u, i) = 0 <=> SeparatorEnd(s, i + d) = 0
           /\ SeparatorEnd(u, i) # 0 => SeparatorEnd(s, i + d) = SeparatorEnd(u, i) + d
<1>1. d \in Nat /\ Len(s) = Len(u) + d /\ Len(u) \in Nat /\ \A k \in 1 .. Len(u) : u[k] = s[k + d]
  BY DEF Behind
<1>2. ASSUME NEW k \in Nat \ {0}
      PROVE  At(u, k) = At(s, k + d)
  <2>1. CASE k <= Len(u)
    BY <1>1, <2>1 DEF At
  <2>2. CASE ~(k <= Len(u))
    BY <1>1, <2>2 DEF At
  <2>3. QED
    BY <2>1, <2>2
<1>3. At(u, i) = At(s, i + d) /\ At(u, i + 1) = At(s, i + d + 1) /\ At(u, i + 2) = At(s, i + d + 2)
      /\ At(u, i + 3) = At(s, i + d + 3)
  <2>1. (i + 1) + d = i + d + 1 /\ (i + 2) + d = i + d + 2 /\ (i + 3) + d = i + d + 3
    BY <1>1
  <2>2. i + 1 \in Nat \ {0} /\ i + 2 \in Nat \ {0} /\ i + 3 \in Nat \ {0}
    OBVIOUS
  <2>3. QED
    BY <1>2, <2>1, <2>2
<1>4. /\ (i + 1) + 1 = i + 2 /\ (i + 1) + 2 = i + 3 /\ (i + d + 1) + 1 = i + d + 2 /\ (i + d + 1) + 2 = i + d + 3
      /\ i + d \in Nat /\ i + d > 0
  BY <1>1
<1>5. QED
  BY <1>1, <1>3, <1>4 DEF SeparatorEnd

\* So the split of what is behind a place is the split of the whole from there on.
LEMMA SplitsBehind ==
    ASSUME NEW s, NEW u, NEW d, Behind(u, s, d)
    PROVE  \A i \in 1 .. Len(u) + 1 : Splits(u)[i] = Splits(s)[i + d]
<1> DEFINE apart == {i \in 1 .. Len(u) + 1 : Splits(u)[i] # Splits(s)[i + d]}
<1> SUFFICES ASSUME apart # {} PROVE FALSE
  OBVIOUS
<1>1. u \in Seq(Bytes) /\ s \in Seq(Bytes) /\ d \in Nat /\ Len(s) = Len(u) + d /\ Len(u) \in Nat
  BY DEF Behind
<1>2. PICK i \in apart : \A k \in apart : k <= i
  <2>1. apart \subseteq Nat /\ \A k \in apart : k <= Len(u) + 1
    BY <1>1
  <2>2. Len(u) + 1 \in Nat
    BY <1>1
  <2>3. QED
    BY <2>1, <2>2, GreatestOf
<1>3. i \in 1 .. Len(u) + 1 /\ Splits(u)[i] # Splits(s)[i + d]
  BY <1>2
<1>4. ASSUME NEW k \in i + 1 .. Len(u) + 1
      PROVE  Splits(u)[k] = Splits(s)[k + d]
  BY <1>1, <1>2, <1>3, <1>4
<1> HIDE DEF apart
<1>5. i + d \in 1 .. Len(s) + 1 /\ i + d \in Nat \ {0} /\ i \in Nat \ {0}
  BY <1>1, <1>3
<1>6. Splits(u)[i] = SplitFrom(u, i, Splits(u)) /\ Splits(s)[i + d] = SplitFrom(s, i + d, Splits(s))
  BY <1>1, <1>3, <1>5, SplitsAre
<1>7. /\ \A j \in Separators(u, i) : j + d \in Separators(s, i + d) /\ j \in i .. Len(u)
      /\ \A j \in Separators(s, i + d) : j - d \in Separators(u, i) /\ j \in i + d .. Len(s)
  <2>1. ASSUME NEW j \in Separators(u, i)
        PROVE  j + d \in Separators(s, i + d) /\ j \in i .. Len(u)
    <3>1. j \in i .. Len(u) /\ SeparatorEnd(u, j) # 0 /\ j \in Nat \ {0}
      BY <1>1, <1>5, <2>1 DEF Separators
    <3>2. j + d \in i + d .. Len(s) /\ SeparatorEnd(s, j + d) # 0
      BY <1>1, <1>5, <3>1, SeparatorBehind
    <3>3. QED
      BY <3>1, <3>2 DEF Separators
  <2>2. ASSUME NEW j \in Separators(s, i + d)
        PROVE  j - d \in Separators(u, i) /\ j \in i + d .. Len(s)
    <3>1. j \in i + d .. Len(s) /\ SeparatorEnd(s, j) # 0
      BY <2>2 DEF Separators
    <3>2. j - d \in i .. Len(u) /\ j - d \in Nat \ {0} /\ (j - d) + d = j
      BY <1>1, <1>5, <3>1
    <3>3. SeparatorEnd(u, j - d) # 0
      BY <3>1, <3>2, SeparatorBehind
    <3>4. QED
      BY <3>1, <3>2, <3>3 DEF Separators
  <2>3. QED
    BY <2>1, <2>2
<1>8. CASE Separators(u, i) = {}
  <2>1. Separators(s, i + d) = {}
    BY <1>7, <1>8
  <2>2. SubSeq(u, i, Len(u)) = SubSeq(s, i + d, Len(s))
    <3> DEFINE b == Len(u)
               e == i + d
               f == Len(s)
    <3>1. b \in Nat /\ b <= Len(u) /\ f = b + d /\ e = i + d /\ e \in Nat /\ f \in Nat
      BY <1>1, <1>5
    <3> HIDE DEF b, e, f
    <3>2. Piece(u, i, b) = Piece(s, e, f)
      BY <1>1, <1>5, <3>1, BehindIsPiece
    <3>3. QED
      BY <3>2 DEF Piece, b, e, f
  <2>3. QED
    BY <1>3, <1>6, <1>8, <2>1, <2>2 DEF SplitFrom
<1>9. CASE Separators(u, i) # {}
  <2> DEFINE j == CHOOSE m \in Separators(u, i) : \A k \in Separators(u, i) : m <= k
             l == CHOOSE m \in Separators(s, i + d) : \A k \in Separators(s, i + d) : m <= k
  <2>1. Separators(s, i + d) # {}
    BY <1>7, <1>9
  <2>2. j \in Separators(u, i) /\ \A k \in Separators(u, i) : j <= k
    BY <1>1, <1>5, <1>9, FirstSeparator
  <2>3. l \in Separators(s, i + d) /\ \A k \in Separators(s, i + d) : l <= k
    BY <1>1, <1>5, <2>1, FirstSeparator
  <2>4. /\ SplitFrom(u, i, Splits(u)) =
             [frames |-> <<SubSeq(u, i, j - 1)>> \o Splits(u)[SeparatorEnd(u, j) + 1].frames,
              rest |-> Splits(u)[SeparatorEnd(u, j) + 1].rest]
        /\ SplitFrom(s, i + d, Splits(s)) =
             [frames |-> <<SubSeq(s, i + d, l - 1)>> \o Splits(s)[SeparatorEnd(s, l) + 1].frames,
              rest |-> Splits(s)[SeparatorEnd(s, l) + 1].rest]
    BY <1>9, <2>1 DEF SplitFrom
  <2> HIDE DEF j, l
  <2>5. l = j + d /\ j \in i .. Len(u)
    <3>1. j + d \in Separators(s, i + d) /\ l - d \in Separators(u, i) /\ j \in i .. Len(u) /\ l \in i + d .. Len(s)
      BY <1>7, <2>2, <2>3
    <3>2. l <= j + d /\ j <= l - d
      BY <2>2, <2>3, <3>1
    <3>3. QED
      BY <1>1, <1>5, <3>1, <3>2
  <2>6. SeparatorEnd(u, j) # 0 /\ j \in Nat \ {0}
    BY <1>5, <2>2, <2>5 DEF Separators
  <2>7. SeparatorEnd(s, l) = SeparatorEnd(u, j) + d
    BY <2>5, <2>6, SeparatorBehind
  <2>8. SeparatorEnd(u, j) \in Nat /\ SeparatorEnd(u, j) > j /\ SeparatorEnd(u, j) <= Len(u)
    BY <1>1, <2>6, SeparatorIs
  <2>9. SeparatorEnd(u, j) + 1 \in i + 1 .. Len(u) + 1 /\ (SeparatorEnd(u, j) + 1) + d = SeparatorEnd(s, l) + 1
    BY <1>1, <1>5, <2>5, <2>7, <2>8
  <2>10. Splits(u)[SeparatorEnd(u, j) + 1] = Splits(s)[SeparatorEnd(s, l) + 1]
    BY <1>4, <2>9
  <2>11. SubSeq(u, i, j - 1) = SubSeq(s, i + d, l - 1)
    <3> DEFINE b == j - 1
               e == i + d
               f == l - 1
    <3>1. b \in Nat /\ b <= Len(u) /\ f = b + d /\ e = i + d /\ e \in Nat /\ f \in Nat
      BY <1>1, <1>5, <2>5
    <3> HIDE DEF b, e, f
    <3>2. Piece(u, i, b) = Piece(s, e, f)
      BY <1>1, <1>5, <3>1, BehindIsPiece
    <3>3. QED
      BY <3>2 DEF Piece, b, e, f
  <2>12. QED
    BY <1>3, <1>6, <2>4, <2>10, <2>11
<1>10. QED
  BY <1>8, <1>9

\* The split of a stream without a separator, and of one with a first one at j.
LEMMA SplitOfNone ==
    ASSUME NEW s \in Seq(Bytes), Separators(s, 1) = {}
    PROVE  Split(s) = [frames |-> <<>>, rest |-> s]
<1>1. 1 \in 1 .. Len(s) + 1
  OBVIOUS
<1>2. Split(s) = SplitFrom(s, 1, Splits(s))
  BY <1>1, SplitsAre, SplitIsFirst
<1>3. SubSeq(s, 1, Len(s)) = s
  OBVIOUS
<1>4. QED
  BY <1>2, <1>3 DEF SplitFrom

\* With a separator, what is behind the first one is split in turn.
LEMMA SplitOfSome ==
    ASSUME NEW s \in Seq(Bytes), NEW j \in Separators(s, 1), \A k \in Separators(s, 1) : j <= k,
           NEW rest, rest = SubSeq(s, SeparatorEnd(s, j) + 1, Len(s))
    PROVE  /\ Split(s) = [frames |-> <<SubSeq(s, 1, j - 1)>> \o Split(rest).frames, rest |-> Split(rest).rest]
           /\ rest \in Seq(Bytes) /\ Len(rest) < Len(s) /\ Behind(rest, s, SeparatorEnd(s, j))
           /\ j \in 1 .. Len(s) /\ SeparatorEnd(s, j) \in 0 .. Len(s)
<1> DEFINE e == SeparatorEnd(s, j)
<1>1. 1 \in 1 .. Len(s) + 1 /\ j \in 1 .. Len(s) /\ e # 0 /\ Len(s) \in Nat
  BY DEF Separators
<1>2. e \in Nat /\ e > j /\ e <= Len(s) /\ e \in 0 .. Len(s)
  BY <1>1, SeparatorIs
<1>3. Split(s) = SplitFrom(s, 1, Splits(s))
  BY <1>1, SplitsAre, SplitIsFirst
<1>4. j = CHOOSE m \in Separators(s, 1) : \A k \in Separators(s, 1) : m <= k
  <2> DEFINE l == CHOOSE m \in Separators(s, 1) : \A k \in Separators(s, 1) : m <= k
  <2>1. l \in Separators(s, 1) /\ \A k \in Separators(s, 1) : l <= k
    BY FirstSeparator
  <2> HIDE DEF l
  <2>2. l <= j /\ j <= l /\ l \in Nat /\ j \in Nat
    BY <2>1 DEF Separators
  <2>3. l = j
    BY <2>2
  <2>4. QED
    BY <2>3 DEF l
<1>5. Split(s) = [frames |-> <<SubSeq(s, 1, j - 1)>> \o Splits(s)[e + 1].frames, rest |-> Splits(s)[e + 1].rest]
  BY <1>3, <1>4 DEF SplitFrom
<1> HIDE DEF e
<1>6. Behind(rest, s, e)
  BY <1>2, SubSeqIsBehind DEF e
<1>7. rest \in Seq(Bytes) /\ Len(s) = Len(rest) + e /\ Len(rest) \in Nat
  <2>1. rest \in Seq(Bytes)
    BY <1>6 DEF Behind
  <2>2. Len(s) = Len(rest) + e
    BY <1>6, ZenonT(20) DEF Behind
  <2>3. QED
    BY <2>1, <2>2
<1>8. Split(rest) = Splits(s)[e + 1]
  <2>1. 1 \in 1 .. Len(rest) + 1 /\ 1 + e = e + 1
    BY <1>2, <1>7
  <2>2. Splits(rest)[1] = Splits(s)[1 + e]
    BY <1>6, <2>1, SplitsBehind
  <2>3. QED
    BY <2>1, <2>2, SplitIsFirst
<1>9. Len(rest) < Len(s)
  BY <1>1, <1>2, <1>7
<1>10. QED
  BY <1>1, <1>2, <1>5, <1>6, <1>7, <1>8, <1>9 DEF e

\* One of the two is the case.
LEMMA SplitCases ==
    ASSUME NEW s \in Seq(Bytes), Separators(s, 1) # {}
    PROVE  \E j \in Separators(s, 1) : \A k \in Separators(s, 1) : j <= k
<1>1. Separators(s, 1) \in SUBSET Nat
  BY DEF Separators
<1>2. QED
  BY <1>1, LeastOf

\* A split is of frames and a rest.
LEMMA SplitTypes ==
    ASSUME NEW s \in Seq(Bytes)
    PROVE  Split(s).frames \in Seq(Seq(Bytes)) /\ Split(s).rest \in Seq(Bytes)
<1> DEFINE P(u) == Split(u).frames \in Seq(Seq(Bytes)) /\ Split(u).rest \in Seq(Bytes)
           odd == {u \in Seq(Bytes) : ~P(u)}
           lens == {Len(u) : u \in odd}
<1> SUFFICES ASSUME lens # {} PROVE FALSE
  OBVIOUS
<1>1. lens \in SUBSET Nat
  OBVIOUS
<1>2. PICK n \in lens : \A m \in lens : n <= m
  BY <1>1, LeastOf
<1>3. PICK u \in odd : n = Len(u)
  BY <1>2
<1>4. u \in Seq(Bytes) /\ ~P(u)
  BY <1>3
<1>5. \A v \in Seq(Bytes) : Len(v) < Len(u) => P(v)
  <2> SUFFICES ASSUME NEW v \in Seq(Bytes), Len(v) < Len(u), ~P(v) PROVE FALSE
    OBVIOUS
  <2>1. Len(v) \in lens
    OBVIOUS
  <2>2. Len(u) <= Len(v)
    BY <1>2, <1>3, <2>1
  <2>3. Len(u) \in Nat /\ Len(v) \in Nat
    BY <1>4
  <2>4. QED
    BY <2>2, <2>3
<1> HIDE DEF lens, odd
<1>6. Separators(u, 1) # {}
  <2> SUFFICES ASSUME Separators(u, 1) = {} PROVE FALSE
    OBVIOUS
  <2>1. Split(u) = [frames |-> <<>>, rest |-> u]
    BY <1>4, SplitOfNone
  <2>2. QED
    BY <1>4, <2>1
<1>7. PICK j \in Separators(u, 1) : \A k \in Separators(u, 1) : j <= k
  BY <1>4, <1>6, SplitCases
<1> DEFINE rest == SubSeq(u, SeparatorEnd(u, j) + 1, Len(u))
           head == SubSeq(u, 1, j - 1)
<1>8. /\ Split(u) = [frames |-> <<head>> \o Split(rest).frames, rest |-> Split(rest).rest]
      /\ rest \in Seq(Bytes) /\ Len(rest) < Len(u) /\ j \in 1 .. Len(u)
  BY <1>4, <1>7, SplitOfSome
<1>9. head \in Seq(Bytes)
  BY <1>4, <1>8
<1> HIDE DEF rest, head
<1>10. P(rest)
  BY <1>5, <1>8
<1>11. <<head>> \o Split(rest).frames \in Seq(Seq(Bytes))
  BY <1>9, <1>10
<1>12. QED
  BY <1>4, <1>8, <1>10, <1>11

\* What is appended to a stream does not move the separators it has, and makes
\* none before the first of them.
LEMMA SeparatorStays ==
    ASSUME NEW s \in Seq(Bytes), NEW t \in Seq(Bytes), NEW j \in Separators(s, 1),
           \A k \in Separators(s, 1) : j <= k
    PROVE  /\ SeparatorEnd(s \o t, j) = SeparatorEnd(s, j)
           /\ j \in Separators(s \o t, 1) /\ \A k \in Separators(s \o t, 1) : j <= k
<1> DEFINE w == s \o t
<1>1. /\ w \in Seq(Bytes) /\ Len(w) = Len(s) + Len(t) /\ Len(s) \in Nat /\ Len(t) \in Nat
      /\ \A k \in 1 .. Len(s) : w[k] = s[k]
  OBVIOUS
<1>2. j \in 1 .. Len(s) /\ SeparatorEnd(s, j) # 0
  BY DEF Separators
<1> HIDE DEF w
<1>3. \A k \in 1 .. Len(s) : At(w, k) = At(s, k)
  BY <1>1 DEF At
<1>4. \A k \in Nat : k > Len(s) => At(s, k) = "end"
  BY <1>1 DEF At
<1>5. SeparatorEnd(s, j) \in Nat /\ SeparatorEnd(s, j) > j /\ SeparatorEnd(s, j) <= Len(s)
  BY <1>2, SeparatorIs
<1>6. ASSUME NEW k \in Nat \ {0}, SeparatorEnd(s, k) # 0
      PROVE  SeparatorEnd(w, k) = SeparatorEnd(s, k)
  BY <1>1, <1>3, <1>4, <1>6 DEF SeparatorEnd
<1>7. ASSUME NEW k \in Nat \ {0}, SeparatorEnd(w, k) # 0, SeparatorEnd(w, k) <= Len(s)
      PROVE  SeparatorEnd(s, k) # 0
  <2>1. SeparatorEnd(w, k) > k
    BY <1>1, <1>7, SeparatorIs
  <2>2. QED
    BY <1>1, <1>3, <1>7, <2>1 DEF SeparatorEnd
<1>8. SeparatorEnd(w, j) = SeparatorEnd(s, j)
  BY <1>2, <1>6
<1>9. j \in Separators(w, 1)
  BY <1>1, <1>2, <1>8 DEF Separators
<1>10. ASSUME NEW k \in Separators(w, 1), k < j
       PROVE  FALSE
  <2>1. k \in 1 .. Len(s) /\ SeparatorEnd(w, k) # 0 /\ k \in Nat \ {0}
    BY <1>1, <1>2, <1>10 DEF Separators
  <2>2. SeparatorEnd(s, k) = 0
    <3> SUFFICES ASSUME SeparatorEnd(s, k) # 0 PROVE FALSE
      OBVIOUS
    <3>1. k \in Separators(s, 1)
      BY <2>1 DEF Separators
    <3>2. j <= k
      BY <3>1
    <3>3. QED
      BY <1>2, <1>10, <2>1, <3>2
  <2>3. SeparatorEnd(w, k) > Len(s)
    <3>1. SeparatorEnd(w, k) \in Nat
      BY <1>1, <2>1, SeparatorIs
    <3>2. QED
      BY <1>1, <1>7, <2>1, <2>2, <3>1
  <2>4. /\ SeparatorEnd(w, k) <= k + 3
        /\ SeparatorEnd(w, k) = k + 3 => At(w, k + 2) = "r"
    BY <2>1 DEF SeparatorEnd
  <2>5. j = k + 1 /\ Len(s) = k + 2 /\ SeparatorEnd(s, j) = k + 2 /\ SeparatorEnd(w, k) = k + 3
    <3>1. SeparatorEnd(w, k) \in Nat
      BY <1>1, <2>1, SeparatorIs
    <3>2. QED
      BY <1>1, <1>2, <1>5, <1>10, <2>1, <2>3, <2>4, <3>1
  <2>6. At(s, k + 2) = "r"
    <3>1. k + 2 \in 1 .. Len(s)
      BY <2>1, <2>5
    <3>2. QED
      BY <1>3, <2>4, <2>5, <3>1
  <2>7. At(s, SeparatorEnd(s, j)) = "n"
    BY <1>2 DEF SeparatorEnd
  <2>8. QED
    BY <2>5, <2>6, <2>7
<1>11. \A k \in Separators(w, 1) : j <= k
  <2> TAKE k \in Separators(w, 1)
  <2>1. k \in Nat /\ j \in Nat
    BY <1>2 DEF Separators
  <2>2. QED
    BY <1>10, <2>1
<1>12. QED
  BY <1>8, <1>9, <1>11 DEF w

\* A part of a stream is a part of what it is continued to.
LEMMA PartsOfAppended ==
    ASSUME NEW s \in Seq(Bytes), NEW t \in Seq(Bytes), NEW e \in 0 .. Len(s)
    PROVE  /\ SubSeq(s \o t, 1, e) = SubSeq(s, 1, e)
           /\ SubSeq(s \o t, e + 1, Len(s \o t)) = SubSeq(s, e + 1, Len(s)) \o t
<1> DEFINE w == s \o t
           front == SubSeq(s, 1, e)
           back == SubSeq(s, e + 1, Len(s))
           v == SubSeq(w, 1, e)
           u == SubSeq(w, e + 1, Len(w))
           x == back \o t
<1>1. /\ w \in Seq(Bytes) /\ Len(w) = Len(s) + Len(t) /\ Len(s) \in Nat /\ Len(t) \in Nat /\ e \in Nat /\ e <= Len(s)
      /\ \A k \in 1 .. Len(s) : w[k] = s[k]
      /\ \A k \in 1 .. Len(t) : w[Len(s) + k] = t[k]
  OBVIOUS
<1> HIDE DEF w
<1>2. /\ front \in Seq(Bytes) /\ Len(front) = e /\ \A k \in 1 .. e : front[k] = s[k]
  BY <1>1
<1>3. /\ v \in Seq(Bytes) /\ Len(v) = e /\ \A k \in 1 .. e : v[k] = w[k]
  BY <1>1
<1>4. v = front
  <2> HIDE DEF v, front
  <2>1. \A k \in 1 .. e : k \in 1 .. Len(s)
    BY <1>1
  <2>2. \A k \in 1 .. e : v[k] = front[k]
    BY <1>1, <1>2, <1>3, <2>1
  <2>3. QED
    BY <1>2, <1>3, <2>2, SeqEqual
<1>5. Behind(back, s, e) /\ Behind(u, w, e)
  <2>1. e \in 0 .. Len(w)
    BY <1>1
  <2>2. Behind(u, w, e)
    BY <1>1, <2>1, SubSeqIsBehind
  <2>3. Behind(back, s, e)
    BY SubSeqIsBehind
  <2>4. QED
    BY <2>2, <2>3
<1> HIDE DEF back, u
<1>6. /\ back \in Seq(Bytes) /\ Len(s) = Len(back) + e /\ \A k \in 1 .. Len(back) : back[k] = s[k + e]
      /\ u \in Seq(Bytes) /\ Len(w) = Len(u) + e /\ \A k \in 1 .. Len(u) : u[k] = w[k + e]
  BY <1>5 DEF Behind
<1>7. /\ x \in Seq(Bytes) /\ Len(x) = Len(back) + Len(t) /\ Len(back) \in Nat /\ Len(u) \in Nat
      /\ \A k \in 1 .. Len(back) : x[k] = back[k]
      /\ \A k \in 1 .. Len(t) : x[Len(back) + k] = t[k]
  BY <1>6
<1> HIDE DEF x
<1>8. Len(u) = Len(x)
  BY <1>1, <1>6, <1>7
<1>9. \A k \in 1 .. Len(u) : u[k] = x[k]
  <2> TAKE k \in 1 .. Len(u)
  <2>1. CASE k <= Len(back)
    <3>1. k \in 1 .. Len(back) /\ k + e \in 1 .. Len(s)
      BY <1>1, <1>6, <1>7, <2>1
    <3>2. u[k] = w[k + e] /\ w[k + e] = s[k + e] /\ x[k] = back[k] /\ back[k] = s[k + e]
      BY <1>1, <1>6, <1>7, <3>1
    <3>3. QED
      BY <3>2
  <2>2. CASE k > Len(back)
    <3> DEFINE l == k - Len(back)
    <3>1. l \in 1 .. Len(t) /\ Len(s) + l = k + e /\ Len(back) + l = k
      BY <1>1, <1>6, <1>7, <1>8, <2>2
    <3> HIDE DEF l
    <3>2. w[Len(s) + l] = t[l] /\ x[Len(back) + l] = t[l] /\ u[k] = w[k + e]
      BY <1>1, <1>6, <1>7, <3>1
    <3>3. QED
      BY <3>1, <3>2
  <2>3. QED
    BY <1>7, <2>1, <2>2
<1>10. u = x
  BY <1>6, <1>7, <1>8, <1>9, SeqEqual
<1>11. QED
  BY <1>4, <1>10 DEF w, u, x, back

\* Splitting what is left with what comes next goes on where the split ended.
LEMMA SplitGoesOn ==
    ASSUME NEW s \in Seq(Bytes), NEW t \in Seq(Bytes)
    PROVE  LET next == Split(Split(s).rest \o t) IN
           Split(s \o t).frames = Split(s).frames \o next.frames /\ Split(s \o t).rest = next.rest
<1> DEFINE P(u) == /\ Split(u \o t).frames = Split(u).frames \o Split(Split(u).rest \o t).frames
                   /\ Split(u \o t).rest = Split(Split(u).rest \o t).rest
           odd == {u \in Seq(Bytes) : ~P(u)}
           lens == {Len(u) : u \in odd}
<1> SUFFICES ASSUME lens # {} PROVE FALSE
  OBVIOUS
<1>1. lens \in SUBSET Nat
  <2> HIDE DEF P
  <2>1. QED
    OBVIOUS
<1>2. PICK n \in lens : \A m \in lens : n <= m
  BY <1>1, LeastOf
<1>3. PICK u \in odd : n = Len(u)
  BY <1>2
<1>4. u \in Seq(Bytes) /\ ~P(u)
  BY <1>3
<1>5. \A v \in Seq(Bytes) : Len(v) < Len(u) => P(v)
  <2> SUFFICES ASSUME NEW v \in Seq(Bytes), Len(v) < Len(u), ~P(v) PROVE FALSE
    OBVIOUS
  <2>1. Len(v) \in lens
    OBVIOUS
  <2>2. Len(u) <= Len(v)
    BY <1>2, <1>3, <2>1
  <2>3. Len(u) \in Nat /\ Len(v) \in Nat
    BY <1>4
  <2>4. QED
    BY <2>2, <2>3
<1> HIDE DEF lens, odd
<1>6. CASE Separators(u, 1) = {}
  <2>1. Split(u).frames = <<>> /\ Split(u).rest = u
    BY <1>4, <1>6, SplitOfNone
  <2>2. u \o t \in Seq(Bytes)
    BY <1>4
  <2>3. Split(u \o t).frames \in Seq(Seq(Bytes))
    BY <2>2, SplitTypes
  <2>4. <<>> \o Split(u \o t).frames = Split(u \o t).frames
    BY <2>3
  <2>5. QED
    BY <1>4, <2>1, <2>4
<1>7. CASE Separators(u, 1) # {}
  <2>1. PICK j \in Separators(u, 1) : \A k \in Separators(u, 1) : j <= k
    BY <1>4, <1>7, SplitCases
  <2> DEFINE e == SeparatorEnd(u, j)
             w == u \o t
             rest == SubSeq(u, e + 1, Len(u))
             head == SubSeq(u, 1, j - 1)
             more == SubSeq(w, e + 1, Len(w))
             wide == SubSeq(w, 1, j - 1)
             next == Split(Split(rest).rest \o t)
  <2>2. /\ Split(u) = [frames |-> <<head>> \o Split(rest).frames, rest |-> Split(rest).rest]
        /\ rest \in Seq(Bytes) /\ Len(rest) < Len(u) /\ j \in 1 .. Len(u) /\ e \in 0 .. Len(u)
    BY <1>4, <2>1, SplitOfSome
  <2>3. /\ w \in Seq(Bytes) /\ SeparatorEnd(w, j) = e
        /\ j \in Separators(w, 1) /\ \A k \in Separators(w, 1) : j <= k
    BY <1>4, <2>1, SeparatorStays
  <2>4. more = rest \o t /\ wide = head
    <3>1. j - 1 \in 0 .. Len(u)
      BY <1>4, <2>2
    <3>2. more = rest \o t
      BY <1>4, <2>2, PartsOfAppended
    <3>3. wide = head
      BY <1>4, <3>1, PartsOfAppended
    <3>4. QED
      BY <3>2, <3>3
  <2> HIDE DEF w, rest, head, more, wide, next, e
  <2>5. Split(w) = [frames |-> <<wide>> \o Split(more).frames, rest |-> Split(more).rest]
    <3>1. more = SubSeq(w, SeparatorEnd(w, j) + 1, Len(w))
      BY <2>3 DEF more
    <3>2. QED
      BY <2>3, <3>1, SplitOfSome DEF wide
  <2>6. P(rest)
    BY <1>5, <2>2
  <2>7. Split(more).frames = Split(rest).frames \o next.frames /\ Split(more).rest = next.rest
    BY <2>4, <2>6 DEF next
  <2>8. /\ <<head>> \in Seq(Seq(Bytes)) /\ Split(rest).frames \in Seq(Seq(Bytes)) /\ next.frames \in Seq(Seq(Bytes))
    <3>1. head \in Seq(Bytes)
      BY <1>4, <2>2 DEF head
    <3>2. Split(rest).frames \in Seq(Seq(Bytes)) /\ Split(rest).rest \in Seq(Bytes)
      BY <2>2, SplitTypes
    <3>3. Split(rest).rest \o t \in Seq(Bytes)
      BY <3>2
    <3>4. next.frames \in Seq(Seq(Bytes))
      BY <3>3, SplitTypes DEF next
    <3>5. QED
      BY <3>1, <3>2, <3>4
  <2>9. <<head>> \o (Split(rest).frames \o next.frames) = (<<head>> \o Split(rest).frames) \o next.frames
    <3> DEFINE a == <<head>>
               b == Split(rest).frames
               c == next.frames
    <3>1. a \in Seq(Seq(Bytes)) /\ b \in Seq(Seq(Bytes)) /\ c \in Seq(Seq(Bytes))
      BY <2>8
    <3> HIDE DEF a, b, c
    <3>2. (a \o b) \o c = a \o (b \o c)
      BY <3>1, ConcatAssociative, SMTT(30)
    <3>3. QED
      BY <3>2 DEF a, b, c
  <2>10. Split(u).frames = <<head>> \o Split(rest).frames /\ Split(u).rest = Split(rest).rest
    BY <2>2, SMTT(30)
  <2>11. Split(w).frames = <<wide>> \o Split(more).frames /\ Split(w).rest = Split(more).rest
    BY <2>5
  <2>12. Split(w).frames = Split(u).frames \o next.frames
    BY <2>4, <2>7, <2>9, <2>10, <2>11, Zenon
  <2>13. Split(w).rest = next.rest /\ next = Split(Split(u).rest \o t)
    BY <2>7, <2>10, <2>11 DEF next
  <2>14. P(u)
    BY <2>12, <2>13 DEF w
  <2>15. QED
    BY <1>4, <2>14
<1>8. QED
  BY <1>6, <1>7

\* What is read so far, one chunk further.
LEMMA ReadOn ==
    ASSUME NEW s \in Seq(Bytes), NEW a \in Nat, NEW k \in Nat, a + k <= Len(s), NEW b \in Nat, b = a + k
    PROVE  SubSeq(s, 1, b) = SubSeq(s, 1, a) \o SubSeq(s, a + 1, b)
<1> DEFINE u == SubSeq(s, 1, a)
           v == SubSeq(s, a + 1, b)
           w == SubSeq(s, 1, b)
           uv == u \o v
<1>1. Len(s) \in Nat /\ a <= Len(s) /\ b <= Len(s) /\ a <= b
  OBVIOUS
<1>2. u \in Seq(Bytes) /\ Len(u) = a /\ \A i \in 1 .. a : u[i] = s[i]
  BY <1>1
<1>3. w \in Seq(Bytes) /\ Len(w) = b /\ \A i \in 1 .. b : w[i] = s[i]
  BY <1>1
<1>4. v \in Seq(Bytes) /\ Len(v) = k
  BY <1>1
<1>5. \A i \in 1 .. k : v[i] = s[a + i]
  BY <1>1
<1> HIDE DEF u, v, w
<1>6. uv \in Seq(Bytes) /\ Len(uv) = a + k
  BY <1>2, <1>4
<1>7. \A i \in 1 .. a : uv[i] = u[i]
  BY <1>2, <1>4
<1>8. \A j \in 1 .. k : uv[a + j] = v[j]
  <2> TAKE j \in 1 .. k
  <2>1. a + j \in 1 .. a + k /\ ~(a + j <= a) /\ (a + j) - a = j
    OBVIOUS
  <2>2. \A i \in 1 .. a + k : uv[i] = IF i <= a THEN u[i] ELSE v[i - a]
    BY <1>2, <1>4, ConcatProperties
  <2> HIDE DEF uv
  <2>3. QED
    BY <2>1, <2>2
<1> HIDE DEF uv
<1>9. ASSUME NEW i \in 1 .. b
      PROVE  uv[i] = w[i]
  <2>1. CASE i <= a
    <3>1. i \in 1 .. a
      BY <2>1
    <3>2. uv[i] = u[i]
      BY <1>7, <3>1
    <3>3. QED
      BY <1>2, <1>3, <3>1, <3>2
  <2>2. CASE i > a
    <3>1. i - a \in 1 .. k /\ a + (i - a) = i
      BY <2>2
    <3>2. uv[i] = v[i - a]
      BY <1>8, <3>1
    <3>3. QED
      BY <1>3, <1>5, <3>1, <3>2
  <2>3. i <= a \/ i > a
    OBVIOUS
  <2>4. QED
    BY <2>1, <2>2, <2>3, Zenon
<1>10. uv = w
  BY <1>3, <1>6, <1>9, SeqEqual
<1>11. QED
  BY <1>10 DEF uv, u, v, w

\* A stream being read.
FramesSound ==
    /\ reader \in [kind : {"frames"}, input : Seq(Bytes), used : Nat, buffer : Seq(Bytes), out : Seq(Seq(Bytes))]
    /\ reader.used <= Len(reader.input)
    /\ ChunksDoNotShow

\* The splitter's steps.
LEMMA FramesSteps ==
    ASSUME FramesSound, ReadingNext
    PROVE  FramesSound'
<1>1. /\ reader \in [kind : {"frames"}, input : Seq(Bytes), used : Nat, buffer : Seq(Bytes), out : Seq(Seq(Bytes))]
      /\ reader.kind = "frames" /\ reader.input \in Seq(Bytes) /\ reader.used \in Nat
      /\ reader.used <= Len(reader.input) /\ Len(reader.input) \in Nat
  BY DEF FramesSound
<1>2. PICK k \in 1 .. Len(reader.input) : Transform(k)
  BY <1>1 DEF ReadingNext, WalkHop, Heard, Classified
<1> DEFINE used == reader.used + k
           read == SubSeq(reader.input, 1, reader.used)
           chunk == SubSeq(reader.input, reader.used + 1, used)
           pushed == Split(reader.buffer \o chunk)
           emitted == reader.out \o pushed.frames
<1>3. /\ used \in Nat /\ used <= Len(reader.input)
      /\ reader' = [reader EXCEPT !.used = used, !.buffer = pushed.rest, !.out = emitted]
  BY <1>1, <1>2 DEF Transform, Push
<1>4. read \in Seq(Bytes) /\ chunk \in Seq(Bytes)
  BY <1>1, <1>3
<1>5. SubSeq(reader.input, 1, used) = read \o chunk
  <2> DEFINE s == reader.input
             a == reader.used
  <2>1. s \in Seq(Bytes) /\ a \in Nat /\ k \in Nat /\ used \in Nat /\ used = a + k /\ a + k <= Len(s)
    BY <1>1, <1>3
  <2> HIDE DEF s, a, used
  <2>2. SubSeq(s, 1, used) = SubSeq(s, 1, a) \o SubSeq(s, a + 1, used)
    BY <2>1, ReadOn
  <2>3. QED
    BY <2>2 DEF s, a, read, chunk
<1>6. reader.out = Split(read).frames /\ reader.buffer = Split(read).rest
  BY <1>1 DEF FramesSound, ChunksDoNotShow
<1> HIDE DEF read, chunk
<1>7. Split(read \o chunk).frames = emitted /\ Split(read \o chunk).rest = pushed.rest
  BY <1>4, <1>6, SplitGoesOn
<1>8. emitted \in Seq(Seq(Bytes)) /\ pushed.rest \in Seq(Bytes)
  <2>1. read \o chunk \in Seq(Bytes)
    BY <1>4
  <2>2. QED
    BY <1>7, <2>1, SplitTypes
<1> HIDE DEF used, pushed, emitted
<1>9. /\ reader'.kind = "frames" /\ reader'.input = reader.input /\ reader'.used = used
      /\ reader'.buffer = pushed.rest /\ reader'.out = emitted
  BY <1>1, <1>3
<1>10. reader' \in [kind : {"frames"}, input : Seq(Bytes), used : Nat, buffer : Seq(Bytes), out : Seq(Seq(Bytes))]
  BY <1>1, <1>3, <1>8
<1>11. ChunksDoNotShow'
  BY <1>5, <1>7, <1>9 DEF ChunksDoNotShow
<1>12. QED
  BY <1>3, <1>9, <1>10, <1>11 DEF FramesSound

\* Each reader at work is sound.
ReadingInv == FramesSound \/ LineageSound \/ ActivitySound

\* No reader has done anything yet.
LEMMA ReadingStarts ==
    ASSUME ReadingInit
    PROVE  ReadingInv
<1>1. CASE \E s \in Streams : reader = [kind |-> "frames", input |-> s, used |-> 0, buffer |-> <<>>, out |-> <<>>]
  <2>1. PICK s \in Streams : reader = [kind |-> "frames", input |-> s, used |-> 0, buffer |-> <<>>, out |-> <<>>]
    BY <1>1
  <2>2. s \in Seq(Bytes)
    BY ReadingAssumption DEF Bytes
  <2>3. <<>> \in Seq(Bytes) /\ <<>> \in Seq(Seq(Bytes)) /\ Len(s) \in Nat
    BY <2>2
  <2>4. Separators(<<>>, 1) = {}
    BY DEF Separators
  <2>5. Split(<<>>) = [frames |-> <<>>, rest |-> <<>>]
    BY <2>3, <2>4, SplitOfNone
  <2>6. SubSeq(s, 1, 0) = <<>>
    BY <2>2
  <2>7. ChunksDoNotShow
    <3>1. reader.input = s /\ reader.used = 0 /\ reader.out = <<>> /\ reader.buffer = <<>>
      BY <2>1
    <3>2. SubSeq(reader.input, 1, reader.used) = <<>>
      BY <2>6, <3>1
    <3>3. Split(<<>>).frames = <<>> /\ Split(<<>>).rest = <<>>
      BY <2>5
    <3>4. QED
      BY <3>1, <3>2, <3>3, Zenon DEF ChunksDoNotShow
  <2>8. QED
    BY <2>1, <2>2, <2>3, <2>7 DEF FramesSound, ReadingInv
<1>2. CASE \E t \in Trees : \E from \in DOMAIN t \cup {"gone"} :
             reader = [kind |-> "lineage", tree |-> t, from |-> from, current |-> from, seen |-> {}, chain |-> <<>>,
                       hop |-> 0, answer |-> "walking"]
  <2>1. PICK t \in Trees : \E from \in DOMAIN t \cup {"gone"} :
             reader = [kind |-> "lineage", tree |-> t, from |-> from, current |-> from, seen |-> {}, chain |-> <<>>,
                       hop |-> 0, answer |-> "walking"]
    BY <1>2
  <2>2. PICK from \in DOMAIN t \cup {"gone"} :
             reader = [kind |-> "lineage", tree |-> t, from |-> from, current |-> from, seen |-> {}, chain |-> <<>>,
                       hop |-> 0, answer |-> "walking"]
    BY <2>1
  <2>3. from \in Places
    BY DEF Places
  <2>4. reader \in Walks
    <3>1. <<>> \in Seq(Places) /\ {} \in SUBSET Places
      OBVIOUS
    <3> HIDE DEF Places
    <3>2. QED
      BY <2>2, <2>3, <3>1 DEF Walks
  <2>5. ChainSound
    BY <2>2, ReadingAssumption DEF ChainSound
  <2>6. PathsThrough
    <3> SUFFICES ASSUME NEW p \in Paths(t, from)
                 PROVE  Len(p) > Len(<<>>) /\ p[Len(p) - Len(<<>>)] = from
      BY <2>2 DEF PathsThrough
    <3>1. Len(p) \in 1 .. MaxLineageDepth + 1 /\ p[Len(p)] = from
      BY PathIs
    <3>2. Len(p) \in Nat /\ Len(p) > 0 /\ Len(p) - 0 = Len(p) /\ Len(<<>>) = 0
      BY <3>1, ReadingAssumption
    <3>3. QED
      BY <3>1, <3>2
  <2>7. LineageIsThePath
    BY <2>2 DEF LineageIsThePath
  <2>8. QED
    BY <2>4, <2>5, <2>6, <2>7 DEF LineageSound, ReadingInv
<1>3. CASE \E known \in SUBSET Locations, v2 \in Answers :
             \E legacy \in [known -> Answers] :
                reader = [kind |-> "activity", legacy |-> legacy, v2 |-> v2, heard |-> {}, state |-> "asking"]
  <2>1. PICK known \in SUBSET Locations, v2 \in Answers :
             \E legacy \in [known -> Answers] :
                reader = [kind |-> "activity", legacy |-> legacy, v2 |-> v2, heard |-> {}, state |-> "asking"]
    BY <1>3
  <2>2. PICK legacy \in [known -> Answers] :
             reader = [kind |-> "activity", legacy |-> legacy, v2 |-> v2, heard |-> {}, state |-> "asking"]
    BY <2>1
  <2>3. reader \in Probes /\ reader.state = "asking"
    BY <2>2 DEF Probes
  <2>4. QED
    BY <2>3 DEF ActivitySound, ReadingInv
<1>4. QED
  BY <1>1, <1>2, <1>3 DEF ReadingInit

\* Whatever the stream, its chunks, the tree of sessions and the answers, each
\* reader stays sound: what the splitter has written out and kept is the split
\* of what it read, every way down to a session goes through where the walk up
\* from it stands, and a probe's verdict is that of all its sources.
THEOREM ReadingInvHolds == ReadingSpec => []ReadingInv
<1>1. ReadingInit => ReadingInv
  BY ReadingStarts
<1>2. ReadingInv /\ [ReadingNext]_reader => ReadingInv'
  <2> SUFFICES ASSUME ReadingInv, [ReadingNext]_reader
               PROVE  ReadingInv'
    OBVIOUS
  <2>1. CASE ReadingNext
    BY <2>1, FramesSteps, LineageSteps, ActivitySteps DEF ReadingInv
  <2>2. CASE UNCHANGED reader
    BY <2>2 DEF ReadingInv, FramesSound, LineageSound, ActivitySound, ChainSound, PathsThrough, LineageIsThePath,
         ChunksDoNotShow
  <2>3. QED
    BY <2>1, <2>2
<1>3. QED
  BY <1>1, <1>2, PTL DEF ReadingSpec

\* The frames of a stream are the same however it is cut, the walk up finds a
\* session exactly if a path of allowed length leads down to it, and idle is
\* said only when every source says so.
THEOREM ReaderIsRightHolds == ReadingSpec => []ReaderIsRight
<1>1. ReadingInv => ReaderIsRight
  <2>1. ASSUME FramesSound
        PROVE  ReaderIsRight
    BY <2>1 DEF FramesSound, ReaderIsRight, LineageIsThePath, IdleIsEarned
  <2>2. ASSUME LineageSound
        PROVE  ReaderIsRight
    BY <2>2 DEF LineageSound, Walks, ReaderIsRight, ChunksDoNotShow, IdleIsEarned
  <2>3. ASSUME ActivitySound
        PROVE  ReaderIsRight
    <3>1. reader.kind = "activity" /\ reader \in Probes
      BY <2>3 DEF ActivitySound, Probes
    <3>2. ASSUME reader.state = "idle"
          PROVE  IdleIsEarned
      <4>1. Verdict(reader.legacy, reader.v2) = "idle"
        BY <2>3, <3>2 DEF ActivitySound
      <4>2. PICK known \in SUBSET Locations : reader.legacy \in [known -> Answers]
        BY <3>1 DEF Probes
      <4>3. reader.v2 \in Answers /\ DOMAIN reader.legacy = known
        BY <3>1, <4>2 DEF Probes
      <4>4. /\ known # {} /\ reader.v2.ok /\ reader.v2.statuses = {}
            /\ \A l \in known : reader.legacy[l].ok /\ reader.legacy[l].statuses \subseteq {"idle"}
        BY <4>1, <4>2, <4>3, IdleVerdict
      <4>5. QED
        BY <4>3, <4>4 DEF IdleIsEarned
    <3>3. IdleIsEarned
      BY <3>2 DEF IdleIsEarned
    <3>4. QED
      BY <3>1, <3>3 DEF ReaderIsRight, ChunksDoNotShow, LineageIsThePath
  <2>4. QED
    BY <2>1, <2>2, <2>3 DEF ReadingInv
<1>2. QED
  BY <1>1, ReadingInvHolds, PTL

-----------------------------------------------------------------------------
\* The bubbles

\* Text that is shown of message id came with a prompt, and if it is a prompt's
\* message it is that prompt's text.
Brought(id, text, ps) == text # NoText => \E m \in DOMAIN ps : ps[m].id = id /\ ps[m].text = text
OwnText(id, text, ps) == \A m \in DOMAIN ps : ps[m].id = id => ps[m].text = text

\* The messages of a transcript, and those that frames tell of.
MessagesTold(msgs, ps) ==
    \A id \in Ids(msgs) :
        /\ id # 0 /\ Brought(id, msgs[id].text, ps)
        /\ msgs[id].ver > 0 => OwnText(id, msgs[id].text, ps)

FrameTold(f, ps) ==
    f.kind # "hub" =>
        /\ f.id # 0
        /\ f.kind = "part" => Brought(f.id, f.text, ps) /\ OwnText(f.id, f.text, ps)

FramesTold(fs, ps) == \A i \in DOMAIN fs : FrameTold(fs[i], ps)

\* A prompt is numbered as it is sent.  One that OpenCode took has a message
\* newer than what the page showed, only the last can be on its way, and they
\* are taken in their order.
PromptSound(n) ==
    LET sent == prompts[n] IN
    /\ sent.after <= edits /\ sent.id <= edits
    /\ sent.id # 0 <=> sent.at = "delivered"
    /\ sent.id # 0 => sent.id > sent.after
    /\ sent.at = "out" => n = sending /\ n = Len(prompts)

TakenInOrder ==
    \A m, n \in DOMAIN prompts : m < n /\ prompts[n].id # 0 =>
        prompts[m].at \in {"delivered", "failed"} /\ prompts[m].id < prompts[n].id

PromptsSound == sending \in 0 .. Len(prompts) /\ TakenInOrder /\ \A n \in DOMAIN prompts : PromptSound(n)

TextsSound ==
    /\ MessagesTold(conv, prompts) /\ MessagesTold(view.msgs, prompts)
    /\ \A i \in DOMAIN served : MessagesTold(served[i].msgs, prompts)
    /\ FramesTold(stream.frames, prompts)
    /\ \A id \in Ids(conv) : conv[id].role = "assistant" => \A m \in DOMAIN prompts : prompts[m].id # id

BubbleInv == PromptsSound /\ TextsSound /\ bubbles \subseteq DOMAIN prompts /\ BubblesAreHonest

\* One bubble takes no message that is left, or the first of them.
Takes(pending, msgs, n, before, after) ==
    \/ after = before /\ (n \in pending => \A id : Matches(msgs, n, id) => id \in before)
    \/ /\ n \in pending
       /\ \E i : /\ Matches(msgs, n, i) /\ i \notin before /\ after = before \cup {i}
                 /\ \A j : Matches(msgs, n, j) /\ j \notin before => i <= j

\* That is what a turn of the loop over the bubbles does.
LEMMA TakenIs ==
    ASSUME NEW pending, NEW msgs \in Transcripts, NEW n, NEW before
    PROVE  Takes(pending, msgs, n, before, Taken(pending, msgs, n, before))
<1> DEFINE left == {id \in Ids(msgs) \ before : n \in pending /\ Matches(msgs, n, id)}
           i == CHOOSE k \in left : \A j \in left : k <= j
<1>1. \A id : Matches(msgs, n, id) => id \in Ids(msgs)
  BY DEF Matches, Shown
<1>2. CASE left = {}
  <2>1. Taken(pending, msgs, n, before) = before
    BY <1>2 DEF Taken
  <2>2. QED
    BY <1>1, <1>2, <2>1 DEF Takes
<1>3. CASE left # {}
  <2>1. left \in SUBSET Nat
    BY TranscriptHas
  <2>2. \E k \in left : \A j \in left : k <= j
    BY <1>3, <2>1, LeastOf
  <2>3. i \in left /\ \A j \in left : i <= j
    BY <2>2
  <2>4. Taken(pending, msgs, n, before) = before \cup {i}
    BY <1>3 DEF Taken
  <2> HIDE DEF i
  <2>5. n \in pending /\ Matches(msgs, n, i) /\ i \notin before
    BY <2>3
  <2>6. \A j : Matches(msgs, n, j) /\ j \notin before => i <= j
    BY <1>1, <2>3, <2>5
  <2>7. QED
    BY <2>4, <2>5, <2>6 DEF Takes
<1>4. QED
  BY <1>2, <1>3

\* f is what the bubbles up to each place have taken, one after the other.
IsTaken(pending, msgs, len, f) ==
    f = [n \in 0 .. len |-> IF n = 0 THEN {} ELSE Taken(pending, msgs, n, f[n - 1])]

TakenUpTo(pending, msgs) == CHOOSE f : IsTaken(pending, msgs, Len(prompts), f)

\* The bubbles that stay are those that take nothing.
LEMMA ReconcileKeeps ==
    ASSUME NEW pending, NEW msgs
    PROVE  ReconcileOptimisticPrompts(pending, msgs) =
               {n \in pending : TakenUpTo(pending, msgs)[n] = TakenUpTo(pending, msgs)[n - 1]}
  BY DEF ReconcileOptimisticPrompts, TakenUpTo, IsTaken

\* The recursion over the bubbles is a function.
LEMMA TakenExists ==
    ASSUME NEW pending, NEW msgs, NEW len \in Nat
    PROVE  \E f : IsTaken(pending, msgs, len, f)
<1> DEFINE known == {k \in Nat : \E f : IsTaken(pending, msgs, k, f)}
<1>1. 0 \in known
  <2> DEFINE f == [n \in 0 .. 0 |-> {}]
  <2>1. f = [n \in 0 .. 0 |-> IF n = 0 THEN {} ELSE Taken(pending, msgs, n, f[n - 1])]
    OBVIOUS
  <2>2. QED
    BY <2>1 DEF IsTaken
<1>2. ASSUME NEW k \in Nat, k \in known
      PROVE  k + 1 \in known
  <2>1. PICK f : f = [n \in 0 .. k |-> IF n = 0 THEN {} ELSE Taken(pending, msgs, n, f[n - 1])]
    BY <1>2 DEF IsTaken
  <2> DEFINE g == [n \in 0 .. k + 1 |-> IF n = k + 1 THEN Taken(pending, msgs, k + 1, f[k]) ELSE f[n]]
  <2>2. \A n \in 0 .. k : g[n] = f[n]
    OBVIOUS
  <2>3. \A n \in 0 .. k + 1 : g[n] = IF n = 0 THEN {} ELSE Taken(pending, msgs, n, g[n - 1])
    <3> TAKE n \in 0 .. k + 1
    <3>1. CASE n = k + 1
      <4>1. g[n] = Taken(pending, msgs, k + 1, f[k]) /\ k \in 0 .. k
        BY <3>1
      <4>2. g[k] = f[k] /\ n - 1 = k /\ n # 0
        BY <2>2, <3>1, <4>1
      <4> HIDE DEF g
      <4>3. g[n - 1] = f[k]
        BY <4>2
      <4>4. QED
        BY <3>1, <4>1, <4>2, <4>3
    <3>2. CASE n # k + 1
      <4>1. n \in 0 .. k
        BY <3>2
      <4>2. f[n] = IF n = 0 THEN {} ELSE Taken(pending, msgs, n, f[n - 1])
        BY <2>1, <4>1
      <4>3. n # 0 => n - 1 \in 0 .. k
        BY <4>1
      <4> HIDE DEF g
      <4>4. QED
        BY <2>2, <4>1, <4>2, <4>3
    <3>3. QED
      BY <3>1, <3>2
  <2>4. g = [n \in 0 .. k + 1 |-> g[n]]
    OBVIOUS
  <2> HIDE DEF g
  <2>5. g = [n \in 0 .. k + 1 |-> IF n = 0 THEN {} ELSE Taken(pending, msgs, n, g[n - 1])]
    BY <2>3, <2>4
  <2>6. QED
    BY <2>5 DEF IsTaken
<1> HIDE DEF known
<1>3. Nat \subseteq known
  BY <1>1, <1>2, FromZero
<1>4. QED
  BY <1>3 DEF known

\* What bubble n and those before it have taken.
LEMMA TakenUpToIs ==
    ASSUME NEW pending, NEW msgs, Len(prompts) \in Nat
    PROVE  /\ TakenUpTo(pending, msgs)[0] = {}
           /\ \A n \in 1 .. Len(prompts) :
                 TakenUpTo(pending, msgs)[n] = Taken(pending, msgs, n, TakenUpTo(pending, msgs)[n - 1])
<1> DEFINE f == TakenUpTo(pending, msgs)
<1>1. f = [n \in 0 .. Len(prompts) |-> IF n = 0 THEN {} ELSE Taken(pending, msgs, n, f[n - 1])]
  <2>1. \E g : IsTaken(pending, msgs, Len(prompts), g)
    BY TakenExists
  <2>2. IsTaken(pending, msgs, Len(prompts), f)
    BY <2>1, Zenon DEF TakenUpTo
  <2>3. QED
    BY <2>2 DEF IsTaken
<1> HIDE DEF f
<1>2. 0 \in 0 .. Len(prompts)
  OBVIOUS
<1>3. f[0] = {}
  BY <1>1, <1>2
<1>4. \A n \in 1 .. Len(prompts) : n \in 0 .. Len(prompts) /\ n # 0
  OBVIOUS
<1>5. \A n \in 1 .. Len(prompts) : f[n] = Taken(pending, msgs, n, f[n - 1])
  BY <1>1, <1>4
<1>6. QED
  BY <1>3, <1>5 DEF f

\* A bubble that stays although its message is on the page does so because its
\* message was taken, in the end for a prompt whose message is not there.
LEMMA KeptForTwin ==
    ASSUME prompts \in Seq(Prompts), PromptsSound, NEW msgs \in Transcripts, MessagesTold(msgs, prompts),
           NEW pending \in SUBSET DOMAIN prompts, NEW n \in ReconcileOptimisticPrompts(pending, msgs),
           prompts[n].at = "delivered", Shown(msgs, prompts[n].id)
    PROVE  \E m \in DOMAIN prompts \ {n} : prompts[m].text = prompts[n].text /\ ~Shown(msgs, prompts[m].id)
<1> DEFINE T == TakenUpTo(pending, msgs)
           last == Len(prompts)
           Twins(k) == {m \in DOMAIN prompts : m < k /\ prompts[m].text = prompts[k].text}
           late == {k \in DOMAIN prompts : /\ Shown(msgs, prompts[k].id) /\ prompts[k].id \in T[k - 1]
                                           /\ \A m \in Twins(k) : Shown(msgs, prompts[m].id)}
<1>1. last \in Nat /\ DOMAIN prompts = 1 .. last /\ \A k \in DOMAIN prompts : prompts[k] \in Prompts
  OBVIOUS
<1>2. T[0] = {} /\ \A k \in 1 .. last : T[k] = Taken(pending, msgs, k, T[k - 1])
  BY <1>1, TakenUpToIs
<1>3. n \in pending /\ T[n] = T[n - 1]
  BY ReconcileKeeps
<1> HIDE DEF T, last
\* A message that is shown is newer than what the page showed, and has the text.
<1>4. ASSUME NEW k \in DOMAIN prompts, Shown(msgs, prompts[k].id)
      PROVE  Matches(msgs, k, prompts[k].id) /\ prompts[k].id # 0 /\ prompts[k].id \in Nat
  <2>1. prompts[k].id \in Ids(msgs) /\ msgs[prompts[k].id].ver > 0
    BY <1>4 DEF Shown
  <2>2. prompts[k].id # 0 /\ OwnText(prompts[k].id, msgs[prompts[k].id].text, prompts)
    BY <2>1 DEF MessagesTold
  <2>3. prompts[k].id > prompts[k].after
    BY <2>2 DEF PromptsSound, PromptSound
  <2>4. prompts[k].text = msgs[prompts[k].id].text
    BY <2>2 DEF OwnText
  <2>5. QED
    BY <1>1, <1>4, <2>2, <2>3, <2>4 DEF Matches, Prompts
<1>5. late = {}
  <2> SUFFICES ASSUME late # {} PROVE FALSE
    OBVIOUS
  <2>1. late \in SUBSET Nat
    BY <1>1
  <2>2. PICK k \in late : \A j \in late : k <= j
    BY <2>1, LeastOf
  <2>3. /\ k \in 1 .. last /\ k \in DOMAIN prompts /\ Shown(msgs, prompts[k].id) /\ prompts[k].id \in T[k - 1]
        /\ \A m \in Twins(k) : Shown(msgs, prompts[m].id)
    BY <1>1, <2>2
  <2> DEFINE own == prompts[k].id
             had == {j \in 1 .. last : j < k /\ own \in T[j]}
  <2>4. k - 1 \in had
    <3>1. k # 1
      BY <1>2, <2>3
    <3>2. QED
      BY <1>1, <2>3, <3>1
  <2>5. had \in SUBSET Nat
    BY <1>1
  <2>6. PICK m \in had : \A j \in had : m <= j
    BY <2>4, <2>5, LeastOf
  <2>7. m \in 1 .. last /\ m < k /\ own \in T[m]
    BY <2>6
  <2>8. own \notin T[m - 1]
    <3>1. CASE m = 1
      BY <1>2, <3>1
    <3>2. CASE m # 1
      <4>1. m - 1 \in 1 .. last /\ m - 1 < k /\ ~(m <= m - 1)
        BY <1>1, <2>7, <3>2
      <4>2. QED
        BY <2>6, <4>1
    <3>3. QED
      BY <3>1, <3>2
  <2> HIDE DEF had
  <2>9. T[m] = Taken(pending, msgs, m, T[m - 1])
    BY <1>2, <2>7
  <2>10. /\ m \in pending
         /\ \E i : /\ Matches(msgs, m, i) /\ T[m] = T[m - 1] \cup {i}
                   /\ \A j : Matches(msgs, m, j) /\ j \notin T[m - 1] => i <= j
    <3> DEFINE before == T[m - 1]
    <3> HIDE DEF before
    <3>1. T[m] # before
      BY <2>7, <2>8 DEF before
    <3>2. T[m] = Taken(pending, msgs, m, before)
      BY <2>9 DEF before
    <3>3. Takes(pending, msgs, m, before, T[m])
      BY <3>2, TakenIs
    <3>4. QED
      BY <3>1, <3>3 DEF before, Takes
  <2>11. Matches(msgs, m, own) /\ \A j : Matches(msgs, m, j) /\ j \notin T[m - 1] => own <= j
    BY <2>7, <2>8, <2>10
  <2>12. m \in DOMAIN prompts /\ prompts[m].text = prompts[k].text
    <3>1. prompts[m].text = msgs[own].text
      BY <2>11 DEF Matches
    <3>2. prompts[k].text = msgs[own].text
      BY <1>4, <2>3 DEF Matches
    <3>3. QED
      BY <1>1, <2>7, <3>1, <3>2
  <2>13. Shown(msgs, prompts[m].id)
    BY <2>3, <2>7, <2>12
  <2>14. Matches(msgs, m, prompts[m].id) /\ prompts[m].id \in Nat /\ own \in Nat /\ own # 0
    BY <1>4, <2>3, <2>12, <2>13
  <2>15. prompts[m].id < own
    BY <2>3, <2>7, <2>12, <2>14 DEF PromptsSound, TakenInOrder
  <2>16. prompts[m].id \in T[m - 1]
    BY <2>11, <2>14, <2>15
  <2>17. \A j \in Twins(m) : Shown(msgs, prompts[j].id)
    <3> TAKE j \in Twins(m)
    <3>1. j \in Twins(k)
      BY <1>1, <2>3, <2>7, <2>12
    <3>2. QED
      BY <2>3, <3>1
  <2>18. m \in late
    BY <2>12, <2>13, <2>16, <2>17
  <2>19. k <= m /\ k \in Nat /\ m \in Nat
    BY <1>1, <2>2, <2>3, <2>7, <2>18
  <2>20. QED
    BY <2>7, <2>19
<1>6. n \in DOMAIN prompts /\ n \in 1 .. last
  BY <1>1, <1>3
<1>7. prompts[n].id \in T[n - 1]
  <2> DEFINE before == T[n - 1]
  <2>1. Taken(pending, msgs, n, before) = before
    BY <1>2, <1>3, <1>6
  <2> HIDE DEF before
  <2>2. \A id : Matches(msgs, n, id) => id \in before
    <3>1. Takes(pending, msgs, n, before, before)
      BY <2>1, TakenIs
    <3>2. QED
      BY <1>3, <3>1 DEF Takes
  <2>3. Matches(msgs, n, prompts[n].id)
    BY <1>4, <1>6
  <2>4. QED
    BY <2>2, <2>3 DEF before
<1>8. PICK m \in Twins(n) : ~Shown(msgs, prompts[m].id)
  BY <1>5, <1>6, <1>7
<1>9. m \in DOMAIN prompts \ {n}
  BY <1>1, <1>6
<1>10. QED
  BY <1>8, <1>9

\* A bubble that goes although OpenCode does not have its prompt yet goes for
\* the newer message of another prompt.
LEMMA GoneForTwin ==
    ASSUME prompts \in Seq(Prompts), PromptsSound, NEW msgs \in Transcripts, MessagesTold(msgs, prompts),
           NEW pending \in SUBSET DOMAIN prompts, NEW n \in pending \ ReconcileOptimisticPrompts(pending, msgs),
           prompts[n].at # "delivered"
    PROVE  \E m \in DOMAIN prompts \ {n} : prompts[m].text = prompts[n].text /\ prompts[m].id > prompts[n].after
<1> DEFINE T == TakenUpTo(pending, msgs)
           before == T[n - 1]
<1>1. /\ Len(prompts) \in Nat /\ DOMAIN prompts = 1 .. Len(prompts) /\ n \in DOMAIN prompts
      /\ prompts[n] \in Prompts
  OBVIOUS
<1>2. T[n] = Taken(pending, msgs, n, T[n - 1])
  BY <1>1, TakenUpToIs
<1>3. T[n] # T[n - 1]
  BY ReconcileKeeps
<1>4. Taken(pending, msgs, n, before) # before
  BY <1>2, <1>3
<1> HIDE DEF T, before
<1>5. PICK i : Matches(msgs, n, i)
  <2>1. Takes(pending, msgs, n, before, Taken(pending, msgs, n, before))
    BY TakenIs
  <2>2. QED
    BY <1>4, <2>1 DEF Takes
<1>6. i \in Ids(msgs) /\ msgs[i].text = prompts[n].text /\ i > prompts[n].after
  BY <1>5 DEF Matches, Shown
<1>7. i # 0 /\ msgs[i].text # NoText
  BY <1>1, <1>6, LivePageAssumption DEF MessagesTold, Prompts
<1>8. PICK m \in DOMAIN prompts : prompts[m].id = i /\ prompts[m].text = msgs[i].text
  BY <1>6, <1>7 DEF MessagesTold, Brought
<1>9. prompts[n].id = 0
  BY <1>1 DEF PromptsSound, PromptSound
<1>10. QED
  BY <1>6, <1>7, <1>8, <1>9

\* The bubbles after the page changed are honest, whatever it shows now.
LEMMA ReconciledIsHonest ==
    ASSUME prompts \in Seq(Prompts), PromptsSound, BubblesAreHonest, bubbles \subseteq DOMAIN prompts,
           NEW msgs \in Transcripts, MessagesTold(msgs, prompts), prompts' = prompts, view'.msgs = msgs,
           bubbles' = ReconcileOptimisticPrompts(bubbles, msgs)
    PROVE  BubblesAreHonest' /\ bubbles' \subseteq DOMAIN prompts'
<1> DEFINE kept == ReconcileOptimisticPrompts(bubbles, msgs)
<1>1. kept \subseteq bubbles
  BY ReconcileKeeps
<1>2. bubbles \in SUBSET DOMAIN prompts
  OBVIOUS
<1>3. ASSUME NEW n \in DOMAIN prompts, prompts[n].at \in {"out", "queued"}, ~prompts[n].withdrawn
      PROVE  n \in kept \/ \E m \in {k \in DOMAIN prompts \ {n} : prompts[k].text = prompts[n].text} :
                              prompts[m].id > prompts[n].after
  <2>1. CASE n \in bubbles \ kept
    <3>1. prompts[n].at # "delivered"
      BY <1>3
    <3>2. \E m \in DOMAIN prompts \ {n} : prompts[m].text = prompts[n].text /\ prompts[m].id > prompts[n].after
      BY <1>2, <2>1, <3>1, GoneForTwin
    <3>3. QED
      BY <3>2
  <2>2. CASE n \notin bubbles
    BY <1>3, <2>2 DEF BubblesAreHonest
  <2>3. QED
    BY <2>1, <2>2
<1>4. ASSUME NEW n \in DOMAIN prompts, prompts[n].at = "delivered", Shown(msgs, prompts[n].id)
      PROVE  n \notin kept \/ \E m \in {k \in DOMAIN prompts \ {n} : prompts[k].text = prompts[n].text} :
                                 ~Shown(msgs, prompts[m].id)
  <2>1. CASE n \in kept
    <3>1. \E m \in DOMAIN prompts \ {n} : prompts[m].text = prompts[n].text /\ ~Shown(msgs, prompts[m].id)
      BY <1>2, <1>4, <2>1, KeptForTwin
    <3>2. QED
      BY <3>1
  <2>2. QED
    BY <2>1
<1> HIDE DEF kept
<1>5. bubbles' = kept
  BY DEF kept
<1>6. BubblesAreHonest'
  BY <1>3, <1>4, <1>5 DEF BubblesAreHonest
<1>7. QED
  BY <1>1, <1>2, <1>5, <1>6

\* The bubbles stay honest when the page shows the same messages.
LEMMA HonestStays ==
    ASSUME PromptsSound, BubblesAreHonest, view'.msgs = view.msgs, DOMAIN prompts \subseteq DOMAIN prompts',
           \A k \in DOMAIN prompts :
              /\ prompts'[k].text = prompts[k].text /\ prompts'[k].after = prompts[k].after
              /\ \/ prompts'[k].id = prompts[k].id
                 \/ prompts[k].id = 0 /\ ~Shown(view.msgs, prompts'[k].id) /\ prompts[k].after \in Nat
              /\ prompts'[k].at \in {"out", "queued"} => prompts[k].at \in {"out", "queued"}
              /\ prompts[k].withdrawn => prompts'[k].withdrawn
              /\ prompts'[k].at = "delivered" => prompts[k].at = "delivered" \/ ~Shown(view.msgs, prompts'[k].id)
              /\ \/ k \in bubbles' <=> k \in bubbles
                 \/ k \notin bubbles' /\ prompts'[k].withdrawn,
           \A k \in DOMAIN prompts : prompts[k].after \in Nat,
           \A k \in DOMAIN prompts' \ DOMAIN prompts : k \in bubbles' /\ prompts'[k].at = "out"
    PROVE  BubblesAreHonest'
<1>1. ASSUME NEW n \in DOMAIN prompts', prompts'[n].at \in {"out", "queued"}, ~prompts'[n].withdrawn
      PROVE  n \in bubbles' \/ \E m \in {k \in DOMAIN prompts' \ {n} : prompts'[k].text = prompts'[n].text} :
                                  prompts'[m].id > prompts'[n].after
  <2> SUFFICES ASSUME n \in DOMAIN prompts, n \notin bubbles'
               PROVE  \E m \in {k \in DOMAIN prompts' \ {n} : prompts'[k].text = prompts'[n].text} :
                         prompts'[m].id > prompts'[n].after
    OBVIOUS
  <2>1. n \notin bubbles /\ prompts[n].at \in {"out", "queued"} /\ ~prompts[n].withdrawn
    BY <1>1
  <2>2. PICK m \in {k \in DOMAIN prompts \ {n} : prompts[k].text = prompts[n].text} : prompts[m].id > prompts[n].after
    BY <2>1 DEF BubblesAreHonest
  <2>3. prompts[m].id # 0
    BY <2>2
  <2>4. prompts'[m].id = prompts[m].id /\ prompts'[m].text = prompts'[n].text /\ m \in DOMAIN prompts' \ {n}
    BY <2>2, <2>3
  <2>5. QED
    BY <2>2, <2>4
<1>2. ASSUME NEW n \in DOMAIN prompts', prompts'[n].at = "delivered", Shown(view.msgs, prompts'[n].id)
      PROVE  n \notin bubbles' \/ \E m \in {k \in DOMAIN prompts' \ {n} : prompts'[k].text = prompts'[n].text} :
                                     ~Shown(view.msgs, prompts'[m].id)
  <2> SUFFICES ASSUME n \in bubbles'
               PROVE  \E m \in {k \in DOMAIN prompts' \ {n} : prompts'[k].text = prompts'[n].text} :
                         ~Shown(view.msgs, prompts'[m].id)
    OBVIOUS
  <2>1. n \in DOMAIN prompts /\ prompts[n].at = "delivered" /\ n \in bubbles
    BY <1>2
  <2>2. prompts[n].id # 0
    BY <2>1 DEF PromptsSound, PromptSound
  <2>3. prompts'[n].id = prompts[n].id
    BY <2>1, <2>2
  <2>4. PICK m \in {k \in DOMAIN prompts \ {n} : prompts[k].text = prompts[n].text} : ~Shown(view.msgs, prompts[m].id)
    BY <1>2, <2>1, <2>3 DEF BubblesAreHonest
  <2>5. ~Shown(view.msgs, prompts'[m].id)
    BY <2>4
  <2>6. prompts'[m].text = prompts'[n].text /\ m \in DOMAIN prompts' \ {n}
    BY <2>1, <2>4
  <2>7. QED
    BY <2>5, <2>6
<1>3. QED
  BY <1>1, <1>2 DEF BubblesAreHonest

\* Prompts go on: they keep their texts, get ids newer than all there are, and
\* new ones have none.
PromptsGo(ps, qs, e) ==
    /\ DOMAIN ps \subseteq DOMAIN qs
    /\ \A m \in DOMAIN ps :
          /\ qs[m].text = ps[m].text
          /\ qs[m].id = ps[m].id \/ (ps[m].id = 0 /\ qs[m].id > e)
    /\ \A m \in DOMAIN qs \ DOMAIN ps : qs[m].id = 0

\* What is told of messages there are stays true.
LEMMA ToldStays ==
    ASSUME NEW ps, NEW qs, NEW e \in Nat, PromptsGo(ps, qs, e), NEW id \in Nat, id # 0, id <= e, NEW text
    PROVE  /\ Brought(id, text, ps) => Brought(id, text, qs)
           /\ OwnText(id, text, ps) => OwnText(id, text, qs)
<1>1. ASSUME Brought(id, text, ps), text # NoText
      PROVE  \E m \in DOMAIN qs : qs[m].id = id /\ qs[m].text = text
  <2>1. PICK m \in DOMAIN ps : ps[m].id = id /\ ps[m].text = text
    BY <1>1 DEF Brought
  <2>2. QED
    BY <2>1 DEF PromptsGo
<1>2. ASSUME OwnText(id, text, ps), NEW m \in DOMAIN qs, qs[m].id = id
      PROVE  qs[m].text = text
  <2>1. m \in DOMAIN ps /\ ps[m].id = id
    BY <1>2 DEF PromptsGo
  <2>2. QED
    BY <1>2, <2>1 DEF PromptsGo, OwnText
<1>3. QED
  BY <1>1, <1>2 DEF Brought, OwnText

\* So do the texts of a transcript ...
LEMMA MessagesStay ==
    ASSUME NEW ps, NEW qs, NEW e \in Nat, PromptsGo(ps, qs, e), NEW msgs \in Transcripts,
           MessagesNumbered(msgs, e), MessagesTold(msgs, ps)
    PROVE  MessagesTold(msgs, qs)
<1> SUFFICES ASSUME NEW id \in Ids(msgs)
             PROVE  /\ id # 0 /\ Brought(id, msgs[id].text, qs)
                    /\ msgs[id].ver > 0 => OwnText(id, msgs[id].text, qs)
  BY DEF MessagesTold
<1>1. id \in Nat /\ id # 0 /\ id <= e
  BY TranscriptHas DEF MessagesTold, MessagesNumbered
<1>2. /\ Brought(id, msgs[id].text, ps) => Brought(id, msgs[id].text, qs)
      /\ OwnText(id, msgs[id].text, ps) => OwnText(id, msgs[id].text, qs)
  BY <1>1, ToldStays
<1>3. QED
  BY <1>1, <1>2 DEF MessagesTold

\* ... and of a frame.
LEMMA FrameStays ==
    ASSUME NEW ps, NEW qs, NEW e \in Nat, PromptsGo(ps, qs, e), NEW f \in Frames,
           f.kind # "hub" => f.id <= e, FrameTold(f, ps)
    PROVE  FrameTold(f, qs)
<1> SUFFICES ASSUME f.kind # "hub" PROVE FrameTold(f, qs)
  BY DEF FrameTold
<1>1. f.id \in Nat /\ f.id # 0 /\ f.id <= e
  BY DEF FrameTold, Frames, HubFrames, Changes, MessageFrames, PartFrames, RemovedFrames
<1>2. /\ Brought(f.id, f.text, ps) => Brought(f.id, f.text, qs)
      /\ OwnText(f.id, f.text, ps) => OwnText(f.id, f.text, qs)
  BY <1>1, ToldStays
<1>3. QED
  BY <1>1, <1>2 DEF FrameTold

\* A frame tells the page what it tells of the messages.
LEMMA AppliedIsTold ==
    ASSUME NEW ps, NEW msgs \in Transcripts, MessagesTold(msgs, ps), NEW f \in Changes, f.kind # "hub", FrameTold(f, ps)
    PROVE  MessagesTold(Applied(msgs, f), ps)
<1> DEFINE R == Applied(msgs, f)
<1>1. /\ R \in Transcripts /\ Ids(R) \ {f.id} = Ids(msgs) \ {f.id}
      /\ \A k \in Ids(msgs) \ {f.id} : R[k] = msgs[k]
      /\ AppliedDoes(msgs, f, R)
  BY AppliedIs
<1>2. f.kind \in {"message", "part", "removed"}
  BY DEF Changes, MessageFrames, PartFrames, RemovedFrames
<1> HIDE DEF R
<1> SUFFICES ASSUME NEW id \in Ids(R)
             PROVE  /\ id # 0 /\ Brought(id, R[id].text, ps)
                    /\ R[id].ver > 0 => OwnText(id, R[id].text, ps)
  BY DEF MessagesTold, R
<1>3. CASE id # f.id
  BY <1>1, <1>3 DEF MessagesTold
<1>4. CASE id = f.id /\ f.kind = "message" /\ id \in Ids(msgs)
  BY <1>1, <1>4 DEF MessagesTold, AppliedDoes
<1>5. CASE id = f.id /\ f.kind = "message" /\ id \notin Ids(msgs)
  BY <1>1, <1>5 DEF FrameTold, AppliedDoes, Brought
<1>6. CASE id = f.id /\ f.kind = "part"
  BY <1>1, <1>6 DEF FrameTold, AppliedDoes
<1>7. CASE id = f.id /\ f.kind = "removed"
  BY <1>1, <1>7 DEF AppliedDoes
<1>8. QED
  BY <1>2, <1>3, <1>4, <1>5, <1>6, <1>7

\* Without a change of the conversation, what is told is what was told.
LEMMA TextsStay ==
    ASSUME LiveInv, TextsSound, conv' = conv, PromptsGo(prompts, prompts', edits),
           \A i \in DOMAIN served' : served'[i].msgs = conv \/ \E j \in DOMAIN served : served'[i].msgs = served[j].msgs,
           \A i \in DOMAIN stream'.frames :
              stream'.frames[i].kind = "hub" \/ \E j \in DOMAIN stream.frames : stream'.frames[i] = stream.frames[j],
           view'.msgs \in Transcripts, MessagesNumbered(view'.msgs, edits), MessagesTold(view'.msgs, prompts)
    PROVE  TextsSound'
<1>1. /\ edits \in Nat /\ conv \in Transcripts /\ MessagesNumbered(conv, edits)
      /\ \A j \in DOMAIN served : served[j].msgs \in Transcripts /\ MessagesNumbered(served[j].msgs, edits)
      /\ \A j \in DOMAIN stream.frames : stream.frames[j] \in Frames
      /\ \A j \in DOMAIN stream.frames : stream.frames[j].kind # "hub" => stream.frames[j].id <= edits
  <2>1. edits \in Nat /\ conv \in Transcripts /\ MessagesNumbered(conv, edits)
    BY DEF LiveInv, LiveShape, ConvSound
  <2>2. \A j \in DOMAIN served : served[j] \in Reads
    BY DEF LiveInv, LiveShape
  <2>3. \A j \in DOMAIN served : served[j].msgs \in Transcripts /\ MessagesNumbered(served[j].msgs, edits)
    BY <2>2 DEF LiveInv, ReadsSound, ReadSound, Reads
  <2>4. stream.frames \in Seq(Frames)
    BY DEF LiveInv, LiveShape, LiveStreams
  <2>5. \A j \in DOMAIN stream.frames : stream.frames[j] \in Frames
    BY <2>4
  <2>6. ASSUME NEW j \in DOMAIN stream.frames, stream.frames[j].kind # "hub"
        PROVE  stream.frames[j].id <= edits
    <3>1. stream.frames[j].id \in Nat /\ stream.frames[j].no \in Nat
      BY <2>5, <2>6 DEF Frames, HubFrames, Changes, MessageFrames, PartFrames, RemovedFrames
    <3>2. QED
      BY <2>1, <2>6, <3>1 DEF LiveInv, QueueNumbered
  <2>7. QED
    BY <2>1, <2>3, <2>5, <2>6
<1>2. MessagesTold(conv, prompts')
  BY <1>1, MessagesStay DEF TextsSound
<1>3. MessagesTold(view'.msgs, prompts')
  BY <1>1, MessagesStay
<1>4. \A i \in DOMAIN served' : MessagesTold(served'[i].msgs, prompts')
  <2> TAKE i \in DOMAIN served'
  <2>1. CASE served'[i].msgs = conv
    BY <1>2, <2>1
  <2>2. CASE \E j \in DOMAIN served : served'[i].msgs = served[j].msgs
    <3>1. PICK j \in DOMAIN served : served'[i].msgs = served[j].msgs
      BY <2>2
    <3>2. MessagesTold(served[j].msgs, prompts)
      BY DEF TextsSound
    <3>3. MessagesTold(served[j].msgs, prompts')
      BY <1>1, <3>2, MessagesStay
    <3>4. QED
      BY <3>1, <3>3
  <2>3. QED
    BY <2>1, <2>2
<1>5. \A i \in DOMAIN stream'.frames : FrameTold(stream'.frames[i], prompts')
  <2> TAKE i \in DOMAIN stream'.frames
  <2>1. CASE stream'.frames[i].kind = "hub"
    BY <2>1 DEF FrameTold
  <2>2. CASE \E j \in DOMAIN stream.frames : stream'.frames[i] = stream.frames[j]
    <3>1. PICK j \in DOMAIN stream.frames : stream'.frames[i] = stream.frames[j]
      BY <2>2
    <3>2. FrameTold(stream.frames[j], prompts)
      BY DEF TextsSound, FramesTold
    <3>3. FrameTold(stream.frames[j], prompts')
      BY <1>1, <3>2, FrameStays
    <3>4. QED
      BY <3>1, <3>3
  <2>3. QED
    BY <2>1, <2>2
<1>6. ASSUME NEW id \in Ids(conv), conv[id].role = "assistant", NEW m \in DOMAIN prompts'
      PROVE  prompts'[m].id # id
  <2>1. id \in Nat /\ id # 0 /\ id <= edits
    BY <1>1, TranscriptHas DEF TextsSound, MessagesTold, MessagesNumbered
  <2>2. CASE m \in DOMAIN prompts
    <3>1. prompts[m].id # id
      BY <1>6, <2>2 DEF TextsSound
    <3>2. prompts'[m].id = prompts[m].id \/ prompts'[m].id > edits
      BY <2>2 DEF PromptsGo
    <3>3. QED
      BY <1>1, <2>1, <3>1, <3>2
  <2>3. CASE m \notin DOMAIN prompts
    BY <2>1, <2>3 DEF PromptsGo
  <2>4. QED
    BY <2>2, <2>3
<1>7. QED
  BY <1>2, <1>3, <1>4, <1>5, <1>6 DEF TextsSound, FramesTold

\* Prompts that stay as they are go on.
LEMMA PromptsGoNowhere ==
    ASSUME NEW ps, NEW e
    PROVE  PromptsGo(ps, ps, e)
  BY DEF PromptsGo

\* What concerns neither the prompts nor the messages on the page.
LEMMA AsideKeepsBubbles ==
    ASSUME LiveInv, BubbleInv, UNCHANGED <<conv, edits, prompts, sending, bubbles>>, view'.msgs = view.msgs,
           \A i \in DOMAIN served' : served'[i].msgs = conv \/ \E j \in DOMAIN served : served'[i].msgs = served[j].msgs,
           \A i \in DOMAIN stream'.frames :
              stream'.frames[i].kind = "hub" \/ \E j \in DOMAIN stream.frames : stream'.frames[i] = stream.frames[j]
    PROVE  BubbleInv'
<1>1. PromptsSound'
  BY DEF BubbleInv, PromptsSound, PromptSound, TakenInOrder
<1>2. /\ view.msgs \in Transcripts /\ MessagesNumbered(view.msgs, edits)
      /\ TextsSound /\ MessagesTold(view.msgs, prompts)
  BY DEF LiveInv, LiveShape, Views, ViewSound, BubbleInv, TextsSound
<1>3. PromptsGo(prompts, prompts', edits)
  BY PromptsGoNowhere
<1>4. TextsSound'
  BY <1>2, <1>3, TextsStay
<1>5. BubblesAreHonest' /\ bubbles' \subseteq DOMAIN prompts'
  BY DEF BubbleInv, BubblesAreHonest
<1>6. QED
  BY <1>1, <1>4, <1>5 DEF BubbleInv

\* The stream, the container and the reads that are asked and served.
LEMMA ReadsKeepBubbles ==
    ASSUME LiveInv, BubbleInv, LoadServed \/ LoadFails
    PROVE  BubbleInv'
<1>1. /\ UNCHANGED <<conv, edits, prompts, sending, bubbles, stream>> /\ view.msgs = view'.msgs
      /\ served \in Seq(Reads)
  <2>1. view \in Views /\ served \in Seq(Reads)
    BY DEF LiveInv, LiveShape
  <2>2. CASE LoadServed
    BY <2>1, <2>2 DEF LoadServed, sends, convVars
  <2>3. CASE LoadFails
    BY <2>1, <2>3 DEF LoadFails, sends, convVars, Views
  <2>4. QED
    BY <2>2, <2>3
<1>2. \A i \in DOMAIN served' : served'[i].msgs = conv \/ \E j \in DOMAIN served : served'[i].msgs = served[j].msgs
  <2>1. CASE LoadServed
    <3>1. Served.msgs = conv
      BY DEF Served
    <3>2. served' = Append(served, Served)
      BY <2>1 DEF LoadServed
    <3>3. \A i \in DOMAIN served' : served'[i] = Served \/ (i \in DOMAIN served /\ served'[i] = served[i])
      BY <1>1, <3>2
    <3>4. QED
      BY <3>1, <3>3
  <2>2. CASE LoadFails
    <3>1. served' = [i \in DOMAIN served |-> [served[i] EXCEPT !.early = TRUE]]
      BY <2>2 DEF LoadFails
    <3>2. \A i \in DOMAIN served : served[i] \in Reads
      BY <1>1
    <3>3. \A i \in DOMAIN served' : i \in DOMAIN served /\ served'[i].msgs = served[i].msgs
      BY <3>1, <3>2 DEF Reads
    <3>4. QED
      BY <3>3
  <2>3. QED
    BY <2>1, <2>2
<1>3. \A i \in DOMAIN stream'.frames : \E j \in DOMAIN stream.frames : stream'.frames[i] = stream.frames[j]
  BY <1>1
<1>4. QED
  BY <1>1, <1>2, <1>3, AsideKeepsBubbles

\* What attaches the stream or breaks it off, and what wakes or stops the container.
LEMMA StreamKeepsBubbles ==
    ASSUME LiveInv, BubbleInv,
           Attach \/ Wakes \/ (\E graceful \in BOOLEAN : Stops(graceful)) \/ Sever \/ Reconnects \/ GivesUp \/ Hide \/ Show
             \/ RuntimeKeyChanges \/ Refresh
    PROVE  BubbleInv'
<1>1. view \in Views /\ stream \in LiveStreams /\ stream.frames \in Seq(Frames)
  BY DEF LiveInv, LiveShape, LiveStreams
<1>2. UNCHANGED <<conv, edits, prompts, sending, bubbles, served>>
  BY DEF Attach, Wakes, Stops, Sever, Reconnects, GivesUp, Hide, Show, RuntimeKeyChanges, Refresh, sends, convVars
<1>3. view'.msgs = view.msgs
  BY <1>1 DEF Attach, Wakes, Stops, Sever, Reconnects, GivesUp, Hide, Show, RuntimeKeyChanges, Refresh, Views
<1>4. \/ stream'.frames = stream.frames \/ stream'.frames = <<>>
      \/ \E f : f.kind = "hub" /\ (stream'.frames = <<f>> \/ stream'.frames = Append(stream.frames, f))
  <2>1. CASE Attach
    <3>1. stream'.frames = <<[kind |-> "hub", state |-> "live"]>> \/ stream'.frames = <<[kind |-> "hub", state |-> "sleeping"]>>
      BY <2>1 DEF Attach
    <3>2. QED
      BY <3>1
  <2>2. CASE \E graceful \in BOOLEAN : Stops(graceful)
    <3>1. PICK graceful \in BOOLEAN : Stops(graceful)
      BY <2>2
    <3>2. \/ stream'.frames = stream.frames \/ stream'.frames = <<>>
          \/ stream'.frames = Append(stream.frames, [kind |-> "hub", state |-> "ended"])
      BY <3>1 DEF Stops
    <3>3. QED
      BY <3>2
  <2>3. CASE Wakes \/ Hide \/ Show
    BY <1>1, <2>3 DEF Wakes, Hide, Show, LiveStreams
  <2>4. CASE Sever \/ Reconnects \/ GivesUp \/ RuntimeKeyChanges \/ Refresh
    BY <2>4 DEF Sever, Reconnects, GivesUp, RuntimeKeyChanges, Refresh
  <2>5. QED
    BY <2>1, <2>2, <2>3, <2>4
<1>5. \A i \in DOMAIN stream'.frames :
         stream'.frames[i].kind = "hub" \/ \E j \in DOMAIN stream.frames : stream'.frames[i] = stream.frames[j]
  <2>1. CASE stream'.frames = stream.frames \/ stream'.frames = <<>>
    BY <2>1
  <2>2. CASE \E f : f.kind = "hub" /\ (stream'.frames = <<f>> \/ stream'.frames = Append(stream.frames, f))
    <3>1. PICK f : f.kind = "hub" /\ (stream'.frames = <<f>> \/ stream'.frames = Append(stream.frames, f))
      BY <2>2
    <3>2. CASE stream'.frames = <<f>>
      BY <3>1, <3>2
    <3>3. CASE stream'.frames = Append(stream.frames, f)
      <4>1. \A i \in DOMAIN stream'.frames :
               stream'.frames[i] = f \/ (i \in DOMAIN stream.frames /\ stream'.frames[i] = stream.frames[i])
        BY <1>1, <3>3
      <4>2. QED
        BY <3>1, <4>1
    <3>4. QED
      BY <3>1, <3>2, <3>3
  <2>3. QED
    BY <1>4, <2>1, <2>2
<1>6. \A i \in DOMAIN served' : \E j \in DOMAIN served : served'[i].msgs = served[j].msgs
  BY <1>2
<1>7. QED
  BY <1>2, <1>3, <1>5, <1>6, AsideKeepsBubbles

\* Whatever the page comes to show, its bubbles are looked through again.
LEMMA ShownKeepsBubbles ==
    ASSUME LiveInv, BubbleInv, UNCHANGED <<conv, edits, prompts, sending>>,
           \A i \in DOMAIN served' : \E j \in DOMAIN served : served'[i].msgs = served[j].msgs,
           \A i \in DOMAIN stream'.frames : \E j \in DOMAIN stream.frames : stream'.frames[i] = stream.frames[j],
           NEW msgs \in Transcripts, MessagesNumbered(msgs, edits), MessagesTold(msgs, prompts), view'.msgs = msgs,
           bubbles' = ReconcileOptimisticPrompts(bubbles, msgs)
    PROVE  BubbleInv'
<1>1. PromptsSound'
  BY DEF BubbleInv, PromptsSound, PromptSound, TakenInOrder
<1>2. TextsSound'
  <2>1. PromptsGo(prompts, prompts', edits)
    BY PromptsGoNowhere
  <2>2. TextsSound
    BY DEF BubbleInv
  <2>3. QED
    BY <2>1, <2>2, TextsStay
<1>3. prompts \in Seq(Prompts) /\ PromptsSound /\ BubblesAreHonest /\ bubbles \subseteq DOMAIN prompts
  BY DEF LiveInv, LiveShape, BubbleInv
<1>4. BubblesAreHonest' /\ bubbles' \subseteq DOMAIN prompts'
  BY <1>3, ReconciledIsHonest
<1>5. QED
  BY <1>1, <1>2, <1>4 DEF BubbleInv

\* A read arrives.
LEMMA LoadArrivesKeepsBubbles ==
    ASSUME LiveInv, BubbleInv, NEW i \in DOMAIN served, LoadArrives(i)
    PROVE  BubbleInv'
<1>1. /\ UNCHANGED <<conv, edits, prompts, sending, stream>> /\ served \in Seq(Reads) /\ view \in Views
      /\ bubbles' = ReconcileOptimisticPrompts(bubbles, served[i].msgs)
  BY DEF LiveInv, LiveShape, LoadArrives, sends, convVars
<1>2. \A k \in DOMAIN served' : \E j \in DOMAIN served : served'[k].msgs = served[j].msgs
  <2>1. \A k \in DOMAIN served' : \E j \in DOMAIN served : served'[k] = served[j]
    BY <1>1, RemoveAtIs DEF LoadArrives
  <2>2. QED
    BY <2>1
<1>3. view'.msgs = served[i].msgs
  BY <1>1 DEF LoadArrives, Views
<1>4. /\ served[i].msgs \in Transcripts /\ MessagesNumbered(served[i].msgs, edits)
      /\ MessagesTold(served[i].msgs, prompts)
  <2>1. served[i] \in Reads
    BY <1>1
  <2>2. QED
    BY <2>1 DEF Reads, LiveInv, ReadsSound, ReadSound, BubbleInv, TextsSound
<1>5. \A k \in DOMAIN stream'.frames : \E j \in DOMAIN stream.frames : stream'.frames[k] = stream.frames[j]
  BY <1>1
<1>6. QED
  BY <1>1, <1>2, <1>3, <1>4, <1>5, ShownKeepsBubbles

\* A frame arrives.
LEMMA FrameKeepsBubbles ==
    ASSUME LiveInv, BubbleInv, FrameArrives
    PROVE  BubbleInv'
<1> DEFINE f == Head(stream.frames)
<1>1. /\ UNCHANGED <<conv, edits, prompts, sending, served>> /\ view \in Views /\ stream \in LiveStreams
      /\ stream.frames \in Seq(Frames) /\ stream.frames # <<>> /\ view.msgs \in Transcripts
      /\ stream' = [stream EXCEPT !.frames = Tail(@)]
  BY DEF LiveInv, LiveShape, LiveStreams, Views, FrameArrives, sends, convVars
<1>2. f = stream.frames[1] /\ 1 \in DOMAIN stream.frames
  BY <1>1, TailIs
<1>3. \A i \in DOMAIN stream'.frames : \E j \in DOMAIN stream.frames : stream'.frames[i] = stream.frames[j]
  <2>1. stream'.frames = Tail(stream.frames)
    BY <1>1 DEF LiveStreams
  <2>2. \A i \in DOMAIN Tail(stream.frames) : i + 1 \in DOMAIN stream.frames /\ Tail(stream.frames)[i] = stream.frames[i + 1]
    BY <1>1, TailIs
  <2>3. QED
    BY <2>1, <2>2
<1>4. \A i \in DOMAIN served' : \E j \in DOMAIN served : served'[i].msgs = served[j].msgs
  BY <1>1
<1> HIDE DEF f
<1>5. CASE f.kind = "hub"
  <2>1. HubFrame(f)
    BY <1>5 DEF FrameArrives, f
  <2>2. bubbles' = bubbles /\ view'.msgs = view.msgs
    BY <1>1, <2>1 DEF HubFrame, Views
  <2>3. QED
    BY <1>1, <1>3, <1>4, <2>2, AsideKeepsBubbles
<1>6. CASE f.kind # "hub"
  <2> DEFINE msgs == Applied(view.msgs, f)
  <2>1. OpencodeFrame(f)
    BY <1>6 DEF FrameArrives, f
  <2>2. f \in Changes
    BY <1>1, <1>2, <1>6, ChangesAreFrames
  <2>3. msgs \in Transcripts /\ Ids(msgs) \ {f.id} = Ids(view.msgs) \ {f.id}
    BY <1>1, <2>2, AppliedIs
  <2>4. MessagesTold(msgs, prompts)
    <3>1. MessagesTold(view.msgs, prompts) /\ FrameTold(f, prompts)
      BY <1>2 DEF BubbleInv, TextsSound, FramesTold
    <3>2. QED
      BY <1>1, <1>6, <2>2, <3>1, AppliedIsTold
  <2>5. view'.msgs = msgs /\ bubbles' = ReconcileOptimisticPrompts(bubbles, msgs)
    BY <1>1, <2>1 DEF OpencodeFrame, Views
  <2> HIDE DEF msgs
  <2>6. MessagesNumbered(msgs, edits)
    <3>1. f.id \in Nat /\ f.no \in Nat /\ f.id <= f.no /\ f.no <= edits /\ edits \in Nat
      BY <1>2, <1>6, <2>2 DEF LiveInv, LiveShape, QueueNumbered, Changes, MessageFrames, PartFrames, RemovedFrames
    <3>2. \A id \in Ids(view.msgs) : id <= edits
      BY DEF LiveInv, ViewSound, MessagesNumbered
    <3>3. \A id \in Ids(msgs) : id = f.id \/ id \in Ids(view.msgs)
      BY <2>3
    <3>4. QED
      BY <3>1, <3>2, <3>3 DEF MessagesNumbered
  <2>7. QED
    BY <1>1, <1>3, <1>4, <2>3, <2>4, <2>5, <2>6, ShownKeepsBubbles
<1>7. QED
  BY <1>5, <1>6

\* What an edit forwards to the stream comes behind the frames there are.
LEMMA ForwardedIs ==
    ASSUME stream \in LiveStreams, NEW new \in Seq(Frames), stream' = Forwarded(new)
    PROVE  \A i \in DOMAIN stream'.frames :
              \/ \E j \in DOMAIN stream.frames : stream'.frames[i] = stream.frames[j]
              \/ \E k \in DOMAIN new : stream'.frames[i] = new[k]
<1>1. stream.frames \in Seq(Frames)
  BY DEF LiveStreams
<1>2. CASE stream.at = "attached"
  <2>1. stream'.frames = stream.frames \o new
    BY <1>2 DEF Forwarded, LiveStreams
  <2>2. /\ DOMAIN (stream.frames \o new) = 1 .. Len(stream.frames) + Len(new)
        /\ \A i \in DOMAIN stream.frames : (stream.frames \o new)[i] = stream.frames[i]
        /\ \A k \in DOMAIN new : (stream.frames \o new)[k + Len(stream.frames)] = new[k]
        /\ \A i \in DOMAIN (stream.frames \o new) :
              i \in DOMAIN stream.frames \/ (i > Len(stream.frames) /\ i - Len(stream.frames) \in DOMAIN new)
    BY <1>1, AppendedIs
  <2>3. Len(stream.frames) \in Nat /\ Len(new) \in Nat
    BY <1>1
  <2> TAKE i \in DOMAIN stream'.frames
  <2>4. CASE i \in DOMAIN stream.frames
    BY <2>1, <2>2, <2>4
  <2>5. CASE i \notin DOMAIN stream.frames
    <3>1. i \in Nat /\ i - Len(stream.frames) \in DOMAIN new /\ (i - Len(stream.frames)) + Len(stream.frames) = i
      BY <2>1, <2>2, <2>3, <2>5
    <3>2. (stream.frames \o new)[i] = new[i - Len(stream.frames)]
      BY <2>2, <3>1
    <3>3. QED
      BY <2>1, <3>1, <3>2
  <2>6. QED
    BY <2>4, <2>5
<1>3. CASE stream.at # "attached"
  BY <1>3 DEF Forwarded
<1>4. QED
  BY <1>2, <1>3

\* An edit that is true to the prompts leaves the texts so.
LEMMA EditKeepsTexts ==
    ASSUME LiveInv, TextsSound, PromptsGo(prompts, prompts', edits), UNCHANGED <<view, served>>,
           MessagesTold(conv', prompts'),
           \A id \in Ids(conv') : conv'[id].role = "assistant" => \A m \in DOMAIN prompts' : prompts'[m].id # id,
           NEW new \in Seq(Frames), stream' = Forwarded(new),
           \A k \in DOMAIN new : FrameTold(new[k], prompts')
    PROVE  TextsSound'
<1>1. /\ edits \in Nat /\ stream \in LiveStreams /\ stream.frames \in Seq(Frames)
      /\ view.msgs \in Transcripts /\ MessagesNumbered(view.msgs, edits)
      /\ served \in Seq(Reads)
  BY DEF LiveInv, LiveShape, LiveStreams, Views, ViewSound
<1>2. MessagesTold(view.msgs, prompts')
  BY <1>1, MessagesStay DEF TextsSound
<1>3. \A i \in DOMAIN served : MessagesTold(served[i].msgs, prompts')
  <2> TAKE i \in DOMAIN served
  <2>1. served[i].msgs \in Transcripts /\ MessagesNumbered(served[i].msgs, edits)
    <3>1. served[i] \in Reads
      BY <1>1
    <3>2. QED
      BY <3>1 DEF LiveInv, ReadsSound, ReadSound, Reads
  <2>2. MessagesTold(served[i].msgs, prompts)
    BY DEF TextsSound
  <2>3. QED
    BY <1>1, <2>1, <2>2, MessagesStay
<1>4. ASSUME NEW j \in DOMAIN stream.frames
      PROVE  FrameTold(stream.frames[j], prompts')
  <2>1. stream.frames[j] \in Frames
    BY <1>1
  <2>2. FrameTold(stream.frames[j], prompts)
    BY DEF TextsSound, FramesTold
  <2>3. stream.frames[j].kind # "hub" => stream.frames[j].id <= edits
    BY <1>1, <2>1 DEF LiveInv, QueueNumbered, Frames, HubFrames, Changes, MessageFrames, PartFrames, RemovedFrames
  <2>4. QED
    BY <1>1, <2>1, <2>2, <2>3, FrameStays
<1>5. \A i \in DOMAIN stream'.frames : FrameTold(stream'.frames[i], prompts')
  <2> TAKE i \in DOMAIN stream'.frames
  <2>1. \/ \E j \in DOMAIN stream.frames : stream'.frames[i] = stream.frames[j]
        \/ \E k \in DOMAIN new : stream'.frames[i] = new[k]
    BY <1>1, ForwardedIs
  <2>2. QED
    BY <1>4, <2>1
<1>6. QED
  BY <1>2, <1>3, <1>5 DEF TextsSound, FramesTold

\* OpenCode's own edits leave prompts, page and bubbles alone.
LEMMA OwnEditKeepsBubbles ==
    ASSUME LiveInv, BubbleInv, UNCHANGED <<prompts, sending, bubbles, view>>, edits' = edits + 1, TextsSound'
    PROVE  BubbleInv'
<1>1. edits \in Nat /\ prompts \in Seq(Prompts)
  BY DEF LiveInv, LiveShape
<1>2. PromptsSound'
  <2> SUFFICES ASSUME NEW n \in DOMAIN prompts PROVE PromptSound(n)'
    BY DEF BubbleInv, PromptsSound, TakenInOrder
  <2>1. prompts[n] \in Prompts
    BY <1>1
  <2>2. PromptSound(n)
    BY DEF BubbleInv, PromptsSound
  <2>3. QED
    BY <1>1, <2>1, <2>2 DEF PromptSound, Prompts
<1>3. BubblesAreHonest' /\ bubbles' \subseteq DOMAIN prompts'
  BY DEF BubbleInv, BubblesAreHonest
<1>4. QED
  BY <1>2, <1>3 DEF BubbleInv

\* An answer begins.
LEMMA RepliesKeepsBubbles ==
    ASSUME LiveInv, BubbleInv, Replies
    PROVE  BubbleInv'
<1> DEFINE id == edits + 1
           m == [role |-> "assistant", text |-> NoText, ver |-> 0]
           f == [kind |-> "message", no |-> id, id |-> id, role |-> "assistant"]
<1>1. /\ edits \in Nat /\ conv \in Transcripts /\ prompts \in Seq(Prompts) /\ TextsSound
      /\ \A n \in DOMAIN prompts : prompts[n].id \in Nat /\ prompts[n].id <= edits
  <2>1. edits \in Nat /\ conv \in Transcripts /\ prompts \in Seq(Prompts) /\ TextsSound
    BY DEF LiveInv, LiveShape, BubbleInv
  <2>2. \A n \in DOMAIN prompts : prompts[n] \in Prompts
    BY <2>1
  <2>3. QED
    BY <2>1, <2>2 DEF Prompts, BubbleInv, PromptsSound, PromptSound
<1>2. /\ edits' = id /\ conv' = With(conv, id, m) /\ stream' = Forwarded(<<f>>)
      /\ UNCHANGED <<prompts, sending, bubbles, view, served>>
  BY DEF Replies, sends
<1>3. m \in Message /\ m.role = "assistant" /\ m.text = NoText /\ m.ver = 0 /\ id \in Nat /\ id # 0
  BY <1>1 DEF Message, Roles
<1>4. f \in Frames /\ f.kind = "message" /\ f.id = id
  BY <1>3 DEF Frames, Changes, MessageFrames, Roles
<1>5. PromptsGo(prompts, prompts', edits)
  BY <1>2, PromptsGoNowhere
<1> HIDE DEF m, f
<1>6. /\ Ids(conv') = Ids(conv) \cup {id} /\ conv'[id] = m
      /\ \A k \in Ids(conv) \ {id} : conv'[k] = conv[k]
  BY <1>1, <1>2, <1>3, WithIs
<1>7. \A n \in DOMAIN prompts : prompts[n].id # id
  BY <1>1
<1> HIDE DEF id
<1>8. MessagesTold(conv', prompts')
  <2> SUFFICES ASSUME NEW k \in Ids(conv')
               PROVE  /\ k # 0 /\ Brought(k, conv'[k].text, prompts)
                      /\ conv'[k].ver > 0 => OwnText(k, conv'[k].text, prompts)
    BY <1>2 DEF MessagesTold
  <2>1. CASE k = id
    BY <1>3, <1>6, <2>1 DEF Brought
  <2>2. CASE k # id
    BY <1>1, <1>6, <2>2 DEF TextsSound, MessagesTold
  <2>3. QED
    BY <2>1, <2>2
<1>9. \A k \in Ids(conv') : conv'[k].role = "assistant" => \A n \in DOMAIN prompts' : prompts'[n].id # k
  BY <1>1, <1>2, <1>6, <1>7 DEF TextsSound
<1>10. <<f>> \in Seq(Frames) /\ \A k \in DOMAIN <<f>> : FrameTold(<<f>>[k], prompts')
  BY <1>3, <1>4 DEF FrameTold
<1>11. TextsSound'
  BY <1>1, <1>2, <1>5, <1>8, <1>9, <1>10, EditKeepsTexts
<1>12. QED
  BY <1>2, <1>11, OwnEditKeepsBubbles DEF id

\* An answer grows.
LEMMA GrowsKeepsBubbles ==
    ASSUME LiveInv, BubbleInv, NEW id \in Ids(conv), Grows(id)
    PROVE  BubbleInv'
<1> DEFINE m == [conv[id] EXCEPT !.ver = conv[id].ver + 1]
           f == [kind |-> "part", no |-> edits + 1, id |-> id, text |-> NoText, ver |-> conv[id].ver + 1]
<1>1. /\ edits \in Nat /\ conv \in Transcripts /\ TextsSound /\ ConvSound
      /\ id \in Nat /\ conv[id] \in Message /\ conv[id].role = "assistant" /\ conv[id].text = NoText
  <2>1. edits \in Nat /\ conv \in Transcripts /\ TextsSound /\ ConvSound /\ conv[id].role = "assistant"
    BY DEF LiveInv, LiveShape, BubbleInv, Grows
  <2>2. QED
    BY <2>1, TranscriptHas DEF ConvSound
<1>2. /\ edits' = edits + 1 /\ conv' = [conv EXCEPT ![id] = m] /\ stream' = Forwarded(<<f>>)
      /\ UNCHANGED <<prompts, sending, bubbles, view, served>>
  BY DEF Grows, sends
<1>3. m.role = "assistant" /\ m.text = NoText
  BY <1>1 DEF Message
<1>4. id # 0 /\ \A n \in DOMAIN prompts : prompts[n].id # id
  BY <1>1 DEF TextsSound, MessagesTold
<1>5. f \in Frames /\ f.kind = "part" /\ f.id = id /\ f.text = NoText
  BY <1>1 DEF Frames, Changes, PartFrames, Message
<1> HIDE DEF m, f
<1>6. Ids(conv') = Ids(conv) /\ conv'[id] = m /\ \A k \in Ids(conv) \ {id} : conv'[k] = conv[k]
  BY <1>2 DEF Ids
<1>7. PromptsGo(prompts, prompts', edits)
  BY <1>2, PromptsGoNowhere
<1>8. Brought(id, NoText, prompts) /\ OwnText(id, NoText, prompts)
  BY <1>4 DEF Brought, OwnText
<1>9. MessagesTold(conv', prompts')
  <2> SUFFICES ASSUME NEW k \in Ids(conv')
               PROVE  /\ k # 0 /\ Brought(k, conv'[k].text, prompts)
                      /\ conv'[k].ver > 0 => OwnText(k, conv'[k].text, prompts)
    BY <1>2 DEF MessagesTold
  <2>1. CASE k = id
    BY <1>3, <1>4, <1>6, <1>8, <2>1
  <2>2. CASE k # id
    BY <1>1, <1>6, <2>2 DEF TextsSound, MessagesTold
  <2>3. QED
    BY <2>1, <2>2
<1>10. \A k \in Ids(conv') : conv'[k].role = "assistant" => \A n \in DOMAIN prompts' : prompts'[n].id # k
  BY <1>1, <1>2, <1>4, <1>6 DEF TextsSound
<1>11. <<f>> \in Seq(Frames) /\ \A k \in DOMAIN <<f>> : FrameTold(<<f>>[k], prompts')
  BY <1>2, <1>4, <1>5, <1>8 DEF FrameTold
<1>12. TextsSound'
  BY <1>1, <1>2, <1>7, <1>9, <1>10, <1>11, EditKeepsTexts
<1>13. QED
  BY <1>2, <1>12, OwnEditKeepsBubbles

\* A message is removed.
LEMMA RemovesKeepsBubbles ==
    ASSUME LiveInv, BubbleInv, NEW id \in Ids(conv), Removes(id)
    PROVE  BubbleInv'
<1> DEFINE f == [kind |-> "removed", no |-> edits + 1, id |-> id]
<1>1. edits \in Nat /\ conv \in Transcripts /\ TextsSound /\ id \in Nat
  BY TranscriptHas DEF LiveInv, LiveShape, BubbleInv
<1>2. /\ edits' = edits + 1 /\ conv' = Without(conv, id) /\ stream' = Forwarded(<<f>>)
      /\ UNCHANGED <<prompts, sending, bubbles, view, served>>
  BY DEF Removes, sends
<1>3. f \in Frames /\ f.kind = "removed" /\ f.id = id /\ id # 0
  BY <1>1 DEF Frames, Changes, RemovedFrames, TextsSound, MessagesTold
<1> HIDE DEF f
<1>4. Ids(conv') = Ids(conv) \ {id} /\ \A k \in Ids(conv) \ {id} : conv'[k] = conv[k]
  BY <1>1, <1>2, WithoutIs
<1>5. PromptsGo(prompts, prompts', edits)
  BY <1>2, PromptsGoNowhere
<1>6. MessagesTold(conv', prompts')
  BY <1>1, <1>2, <1>4 DEF TextsSound, MessagesTold
<1>7. \A k \in Ids(conv') : conv'[k].role = "assistant" => \A n \in DOMAIN prompts' : prompts'[n].id # k
  BY <1>1, <1>2, <1>4 DEF TextsSound
<1>8. <<f>> \in Seq(Frames) /\ \A k \in DOMAIN <<f>> : FrameTold(<<f>>[k], prompts')
  BY <1>3 DEF FrameTold
<1>9. TextsSound'
  BY <1>1, <1>2, <1>5, <1>6, <1>7, <1>8, EditKeepsTexts
<1>10. QED
  BY <1>2, <1>9, OwnEditKeepsBubbles

\* OpenCode takes the oldest prompt it has queued.
LEMMA DeliveredKeepsBubbles ==
    ASSUME LiveInv, BubbleInv, NEW n \in DOMAIN prompts, Delivered(n)
    PROVE  BubbleInv'
<1> DEFINE id == edits + 1
           text == prompts[n].text
           m == [role |-> "user", text |-> text, ver |-> 1]
           f == [kind |-> "message", no |-> id, id |-> id, role |-> "user"]
           g == [kind |-> "part", no |-> id, id |-> id, text |-> text, ver |-> 1]
<1>1. /\ edits \in Nat /\ conv \in Transcripts /\ prompts \in Seq(Prompts) /\ TextsSound /\ PromptsSound
      /\ BubblesAreHonest /\ bubbles \subseteq DOMAIN prompts /\ id \in Nat /\ id # 0 /\ id > edits
      /\ view.msgs \in Transcripts /\ MessagesNumbered(view.msgs, edits)
  BY DEF LiveInv, LiveShape, BubbleInv, Views, ViewSound
<1>2. /\ \A k \in DOMAIN prompts : prompts[k] \in Prompts /\ PromptSound(k)
      /\ DOMAIN prompts = 1 .. Len(prompts) /\ Len(prompts) \in Nat
  BY <1>1 DEF PromptsSound
<1>3. \A k \in DOMAIN prompts :
         /\ prompts[k].id \in Nat /\ prompts[k].after \in Nat /\ prompts[k].text \in Texts
         /\ prompts[k].id <= edits /\ prompts[k].after <= edits
  BY <1>2 DEF Prompts, PromptSound
<1>4. /\ prompts[n].at = "queued" /\ \A k \in 1 .. n - 1 : prompts[k].at # "queued"
      /\ edits' = id /\ conv' = With(conv, id, m)
      /\ prompts' = [prompts EXCEPT ![n].at = "delivered", ![n].id = id]
      /\ stream' = Forwarded(<<f, g>>)
      /\ UNCHANGED <<sending, bubbles, view, served>>
  BY DEF Delivered
<1>5. prompts[n].id = 0
  BY <1>2, <1>4 DEF PromptSound
<1>6. text \in Texts
  BY <1>3
<1>7. m \in Message /\ m.role = "user" /\ m.text = text
  BY <1>6 DEF Message, Roles
<1>8. /\ f \in Frames /\ f.kind = "message" /\ f.id = id
      /\ g \in Frames /\ g.kind = "part" /\ g.id = id /\ g.text = text
  BY <1>1, <1>6 DEF Frames, Changes, MessageFrames, PartFrames, Roles
<1> DEFINE q == [prompts[n] EXCEPT !.at = "delivered", !.id = id]
<1>9. prompts' = [prompts EXCEPT ![n] = q]
  BY <1>1, <1>4
<1>10. q.at = "delivered" /\ q.id = id /\ q.text = text /\ q.after = prompts[n].after /\ q.withdrawn = prompts[n].withdrawn
  BY <1>2 DEF Prompts
<1> HIDE DEF q
<1>11. /\ DOMAIN prompts' = DOMAIN prompts /\ Len(prompts') = Len(prompts) /\ prompts'[n] = q
       /\ \A k \in DOMAIN prompts \ {n} : prompts'[k] = prompts[k]
  BY <1>1, <1>9
<1> HIDE DEF m, f, g, text
<1>12. /\ Ids(conv') = Ids(conv) \cup {id} /\ conv'[id] = m
       /\ \A k \in Ids(conv) \ {id} : conv'[k] = conv[k]
  BY <1>1, <1>4, <1>7, WithIs
<1>13. /\ \A k \in DOMAIN prompts \ {n} : prompts[k].id # id
       /\ ~Shown(view.msgs, id)
       /\ id \notin Ids(conv)
  <2>1. \A k \in Ids(view.msgs) : k <= edits
    BY <1>1 DEF MessagesNumbered
  <2>2. \A k \in Ids(conv) : k <= edits
    BY DEF LiveInv, ConvSound, MessagesNumbered
  <2>3. ~(id <= edits)
    BY <1>1
  <2>4. QED
    BY <1>3, <2>1, <2>2, <2>3 DEF Shown
<1> HIDE DEF id
<1>14. PromptsGo(prompts, prompts', edits)
  BY <1>1, <1>5, <1>10, <1>11 DEF PromptsGo, text
<1>15. Brought(id, text, prompts') /\ OwnText(id, text, prompts')
  <2>1. prompts'[n].id = id /\ prompts'[n].text = text /\ n \in DOMAIN prompts'
    BY <1>10, <1>11
  <2>2. \A k \in DOMAIN prompts' : prompts'[k].id = id => k = n
    BY <1>11, <1>13
  <2>3. QED
    BY <2>1, <2>2 DEF Brought, OwnText
<1>16. MessagesTold(conv', prompts')
  <2>1. MessagesTold(conv, prompts')
    <3>1. MessagesTold(conv, prompts) /\ MessagesNumbered(conv, edits)
      BY <1>1 DEF TextsSound, LiveInv, ConvSound
    <3>2. QED
      BY <1>1, <1>14, <3>1, MessagesStay
  <2> SUFFICES ASSUME NEW k \in Ids(conv')
               PROVE  /\ k # 0 /\ Brought(k, conv'[k].text, prompts')
                      /\ conv'[k].ver > 0 => OwnText(k, conv'[k].text, prompts')
    BY DEF MessagesTold
  <2>2. CASE k = id
    BY <1>1, <1>7, <1>12, <1>15, <2>2
  <2>3. CASE k # id
    BY <1>12, <2>1, <2>3 DEF MessagesTold
  <2>4. QED
    BY <2>2, <2>3
<1>17. \A k \in Ids(conv') : conv'[k].role = "assistant" => \A j \in DOMAIN prompts' : prompts'[j].id # k
  <2> SUFFICES ASSUME NEW k \in Ids(conv'), conv'[k].role = "assistant", NEW j \in DOMAIN prompts'
               PROVE  prompts'[j].id # k
    OBVIOUS
  <2>1. k # id /\ k \in Ids(conv) /\ conv[k].role = "assistant"
    BY <1>7, <1>12
  <2>2. CASE j = n
    BY <1>10, <1>11, <2>1, <2>2
  <2>3. CASE j # n
    BY <1>1, <1>11, <2>1, <2>3 DEF TextsSound
  <2>4. QED
    BY <2>2, <2>3
<1>18. <<f, g>> \in Seq(Frames) /\ \A k \in DOMAIN <<f, g>> : FrameTold(<<f, g>>[k], prompts')
  <2>1. FrameTold(f, prompts') /\ FrameTold(g, prompts')
    BY <1>1, <1>8, <1>15 DEF FrameTold
  <2>2. DOMAIN <<f, g>> = {1, 2} /\ <<f, g>>[1] = f /\ <<f, g>>[2] = g
    OBVIOUS
  <2>3. QED
    BY <1>8, <2>1, <2>2
<1>19. TextsSound'
  BY <1>1, <1>4, <1>14, <1>16, <1>17, <1>18, EditKeepsTexts
<1>20. PromptsSound'
  <2>1. ASSUME NEW k \in DOMAIN prompts
        PROVE  PromptSound(k)'
    <3>1. CASE k = n
      <4>1. prompts'[k] = q
        BY <1>11, <3>1
      <4>2. q.after <= edits /\ q.after \in Nat
        BY <1>3, <1>10
      <4>3. /\ prompts'[k].after <= edits' /\ prompts'[k].id = edits' /\ prompts'[k].id # 0
            /\ prompts'[k].at = "delivered" /\ prompts'[k].id > prompts'[k].after
        BY <1>1, <1>4, <1>10, <4>1, <4>2
      <4>4. edits' \in Nat
        BY <1>1, <1>4
      <4>5. QED
        BY <4>3, <4>4 DEF PromptSound
    <3>2. CASE k # n
      <4>1. prompts'[k] = prompts[k] /\ PromptSound(k)
        BY <1>2, <1>11, <3>2
      <4>2. prompts[k].after <= edits' /\ prompts[k].id <= edits'
        BY <1>1, <1>3, <1>4
      <4>3. QED
        BY <1>4, <1>11, <4>1, <4>2 DEF PromptSound
    <3>3. QED
      BY <3>1, <3>2
  <2>2. ASSUME NEW k \in DOMAIN prompts, NEW j \in DOMAIN prompts, k < j, prompts'[j].id # 0
        PROVE  prompts'[k].at \in {"delivered", "failed"} /\ prompts'[k].id < prompts'[j].id
    <3>1. CASE j = n
      <4>1. k \in 1 .. n - 1 /\ k # n /\ prompts'[k] = prompts[k] /\ prompts'[j].id = id
        BY <1>2, <1>10, <1>11, <2>2, <3>1
      <4>2. prompts[k].at # "queued"
        BY <1>4, <4>1
      <4>3. prompts[k].at # "out"
        <5>1. k # Len(prompts)
          BY <1>2, <2>2
        <5>2. QED
          BY <1>2, <5>1 DEF PromptSound
      <4>4. prompts[k].at \in {"delivered", "failed"}
        BY <1>2, <4>2, <4>3 DEF Prompts
      <4>5. QED
        BY <1>1, <1>3, <4>1, <4>4
    <3>2. CASE j # n
      <4>1. prompts'[j] = prompts[j]
        BY <1>11, <3>2
      <4>2. prompts[k].at \in {"delivered", "failed"} /\ prompts[k].id < prompts[j].id
        BY <1>1, <2>2, <4>1 DEF PromptsSound, TakenInOrder
      <4>3. k # n
        BY <1>4, <4>2
      <4>4. QED
        BY <1>11, <4>1, <4>2, <4>3
    <3>3. QED
      BY <3>1, <3>2
  <2>3. TakenInOrder'
    BY <1>11, <2>2 DEF TakenInOrder
  <2>4. sending' \in 0 .. Len(prompts')
    BY <1>1, <1>4, <1>11 DEF PromptsSound
  <2>5. QED
    BY <1>11, <2>1, <2>3, <2>4 DEF PromptsSound
<1>21. BubblesAreHonest' /\ bubbles' \subseteq DOMAIN prompts'
  <2>1. ASSUME NEW k \in DOMAIN prompts
        PROVE  /\ prompts'[k].text = prompts[k].text /\ prompts'[k].after = prompts[k].after
               /\ \/ prompts'[k].id = prompts[k].id
                  \/ prompts[k].id = 0 /\ ~Shown(view.msgs, prompts'[k].id) /\ prompts[k].after \in Nat
               /\ prompts'[k].at \in {"out", "queued"} => prompts[k].at \in {"out", "queued"}
               /\ prompts[k].withdrawn => prompts'[k].withdrawn
               /\ prompts'[k].at = "delivered" => prompts[k].at = "delivered" \/ ~Shown(view.msgs, prompts'[k].id)
    <3>1. CASE k = n
      BY <1>3, <1>5, <1>10, <1>11, <1>13, <3>1 DEF text
    <3>2. CASE k # n
      BY <1>11, <3>2
    <3>3. QED
      BY <3>1, <3>2
  <2>2. view'.msgs = view.msgs /\ bubbles' = bubbles
    BY <1>4
  <2>3. BubblesAreHonest'
    BY <1>1, <1>3, <1>11, <2>1, <2>2, HonestStays
  <2>4. QED
    BY <1>1, <1>11, <2>2, <2>3
<1>22. QED
  BY <1>19, <1>20, <1>21 DEF BubbleInv

\* A prompt that is sent, taken over or given up tells nothing new of the messages.
LEMMA SendKeepsTexts ==
    ASSUME LiveInv, BubbleInv, UNCHANGED <<conv, edits, stream, view, served>>, PromptsGo(prompts, prompts', edits)
    PROVE  TextsSound'
<1>1. /\ view.msgs \in Transcripts /\ MessagesNumbered(view.msgs, edits)
      /\ TextsSound /\ MessagesTold(view.msgs, prompts)
  BY DEF LiveInv, LiveShape, Views, ViewSound, BubbleInv, TextsSound
<1>2. /\ view'.msgs = view.msgs
      /\ \A i \in DOMAIN served' : \E j \in DOMAIN served : served'[i].msgs = served[j].msgs
      /\ \A i \in DOMAIN stream'.frames : \E j \in DOMAIN stream.frames : stream'.frames[i] = stream.frames[j]
  OBVIOUS
<1>3. QED
  BY <1>1, <1>2, TextsStay

\* A prompt is sent, with its bubble.
LEMMA SendKeepsBubbles ==
    ASSUME LiveInv, BubbleInv, NEW text \in Texts, Send(text)
    PROVE  BubbleInv'
<1> DEFINE last == NewestOf(Ids(view.msgs))
           p == [text |-> text, after |-> last, at |-> "out", id |-> 0, withdrawn |-> FALSE]
           new == Len(prompts) + 1
<1>1. /\ edits \in Nat /\ prompts \in Seq(Prompts) /\ PromptsSound /\ BubblesAreHonest /\ bubbles \subseteq DOMAIN prompts
      /\ view.msgs \in Transcripts /\ MessagesNumbered(view.msgs, edits)
      /\ Len(prompts) \in Nat /\ DOMAIN prompts = 1 .. Len(prompts)
  BY DEF LiveInv, LiveShape, BubbleInv, Views, ViewSound
<1>2. last \in Nat /\ last <= edits
  <2>1. Ids(view.msgs) \subseteq Nat /\ \A i \in Ids(view.msgs) : i <= edits
    BY <1>1, TranscriptHas DEF MessagesNumbered
  <2>2. CASE Ids(view.msgs) = {}
    BY <1>1, <2>2 DEF NewestOf
  <2>3. CASE Ids(view.msgs) # {}
    <3>1. last \in Ids(view.msgs)
      BY <1>1, <2>1, <2>3, NewestIs
    <3>2. QED
      BY <2>1, <3>1
  <2>4. QED
    BY <2>2, <2>3
<1> HIDE DEF last
<1>3. p \in Prompts /\ p.after = last /\ p.at = "out" /\ p.id = 0
  BY <1>2 DEF Prompts
<1>4. sending = 0 /\ prompts' = Append(prompts, p) /\ UNCHANGED <<conv, edits, stream, view, served>>
  BY DEF Send, p, last, convVars
<1> HIDE DEF p
<1>5. /\ Len(prompts') = new /\ DOMAIN prompts' = 1 .. new /\ new \in Nat /\ prompts'[new] = p
      /\ DOMAIN prompts' = DOMAIN prompts \cup {new} /\ new \notin DOMAIN prompts
      /\ \A k \in DOMAIN prompts : prompts'[k] = prompts[k]
  BY <1>1, <1>3, <1>4
<1>6. sending' = new /\ bubbles' = bubbles \cup {new}
  BY <1>5 DEF Send
<1>7. \A k \in DOMAIN prompts : k < new /\ k # 0
  BY <1>1
<1> HIDE DEF new
<1>8. PromptsGo(prompts, prompts', edits)
  BY <1>3, <1>5 DEF PromptsGo
<1>9. TextsSound'
  BY <1>4, <1>8, SendKeepsTexts
<1>10. PromptsSound'
  <2>1. ASSUME NEW k \in DOMAIN prompts'
        PROVE  PromptSound(k)'
    <3>1. CASE k = new
      BY <1>1, <1>2, <1>3, <1>4, <1>5, <1>6, <3>1 DEF PromptSound
    <3>2. CASE k # new
      <4>1. k \in DOMAIN prompts /\ prompts'[k] = prompts[k] /\ PromptSound(k)
        BY <1>1, <1>5, <3>2 DEF PromptsSound
      <4>2. prompts[k].at # "out"
        BY <1>4, <1>7, <4>1 DEF PromptSound
      <4>3. QED
        BY <1>4, <4>1, <4>2 DEF PromptSound
    <3>3. QED
      BY <3>1, <3>2
  <2>2. TakenInOrder'
    <3> SUFFICES ASSUME NEW m \in DOMAIN prompts', NEW n \in DOMAIN prompts', m < n, prompts'[n].id # 0
                 PROVE  prompts'[m].at \in {"delivered", "failed"} /\ prompts'[m].id < prompts'[n].id
      BY DEF TakenInOrder
    <3>1. n \in DOMAIN prompts
      BY <1>3, <1>5
    <3>2. m \in DOMAIN prompts
      BY <1>1, <1>5, <1>7, <3>1
    <3>3. QED
      BY <1>1, <1>5, <3>1, <3>2 DEF PromptsSound, TakenInOrder
  <2>3. sending' \in 0 .. Len(prompts')
    BY <1>5, <1>6
  <2>4. QED
    BY <2>1, <2>2, <2>3 DEF PromptsSound
<1>11. BubblesAreHonest'
  <2>1. \A k \in DOMAIN prompts : prompts[k].after \in Nat
    <3>1. \A k \in DOMAIN prompts : prompts[k] \in Prompts
      BY <1>1
    <3>2. QED
      BY <3>1 DEF Prompts
  <2>2. view'.msgs = view.msgs /\ DOMAIN prompts \subseteq DOMAIN prompts'
    BY <1>4, <1>5
  <2>3. \A k \in DOMAIN prompts' \ DOMAIN prompts : k \in bubbles' /\ prompts'[k].at = "out"
    BY <1>3, <1>5, <1>6
  <2>4. \A k \in DOMAIN prompts : prompts'[k] = prompts[k] /\ (k \in bubbles' <=> k \in bubbles)
    BY <1>5, <1>6
  <2>5. QED
    BY <1>1, <2>1, <2>2, <2>3, <2>4, HonestStays
<1>12. QED
  BY <1>1, <1>5, <1>6, <1>9, <1>10, <1>11 DEF BubbleInv

\* The request arrives, returns or fails.
LEMMA SentKeepsBubbles ==
    ASSUME LiveInv, BubbleInv, SendArrives \/ SendReturns \/ SendFails
    PROVE  BubbleInv'
<1>1. /\ edits \in Nat /\ prompts \in Seq(Prompts) /\ PromptsSound /\ BubblesAreHonest /\ bubbles \subseteq DOMAIN prompts
      /\ Len(prompts) \in Nat /\ DOMAIN prompts = 1 .. Len(prompts)
  BY DEF LiveInv, LiveShape, BubbleInv
<1>2. sending # 0 /\ UNCHANGED <<conv, edits, stream, view, served>>
  BY DEF SendArrives, SendReturns, SendFails, convVars
<1>3. sending \in DOMAIN prompts
  BY <1>1, <1>2 DEF PromptsSound
<1>4. \A k \in DOMAIN prompts : prompts[k] \in Prompts /\ PromptSound(k)
  BY <1>1 DEF PromptsSound
<1>5. PICK q : /\ prompts' = [prompts EXCEPT ![sending] = q]
               /\ q.text = prompts[sending].text /\ q.id = prompts[sending].id /\ q.after = prompts[sending].after
               /\ q.at # "out" /\ (q.at = prompts[sending].at \/ (prompts[sending].at = "out" /\ q.at \in {"queued", "failed"}))
               /\ prompts[sending].withdrawn => q.withdrawn
               /\ \/ bubbles' = bubbles
                  \/ bubbles' = bubbles \ {sending} /\ q.withdrawn
  <2> DEFINE r == prompts[sending]
  <2>1. r \in Prompts
    BY <1>3, <1>4
  <2>2. CASE SendArrives
    <3> DEFINE q == [r EXCEPT !.at = "queued"]
    <3>1. prompts' = [prompts EXCEPT ![sending] = q]
      BY <2>2 DEF SendArrives
    <3>2. /\ q.text = r.text /\ q.id = r.id /\ q.after = r.after /\ q.at = "queued" /\ q.withdrawn = r.withdrawn
          /\ r.at = "out" /\ bubbles' = bubbles
      BY <2>1, <2>2 DEF SendArrives, Prompts
    <3> HIDE DEF q
    <3>3. QED
      BY <3>1, <3>2
  <2>3. CASE SendReturns
    <3>1. prompts' = prompts /\ bubbles' = bubbles /\ r.at # "out"
      BY <2>3 DEF SendReturns
    <3>2. prompts' = [prompts EXCEPT ![sending] = r]
      BY <1>1, <1>3, <3>1
    <3> HIDE DEF r
    <3>3. QED
      BY <3>1, <3>2 DEF r
  <2>4. CASE SendFails
    <3> DEFINE q == [r EXCEPT !.withdrawn = TRUE, !.at = IF @ = "out" THEN "failed" ELSE @]
    <3>1. prompts' = [prompts EXCEPT ![sending] = q] /\ bubbles' = bubbles \ {sending}
      BY <2>4 DEF SendFails
    <3>2. /\ q.text = r.text /\ q.id = r.id /\ q.after = r.after /\ q.withdrawn = TRUE
          /\ q.at = (IF r.at = "out" THEN "failed" ELSE r.at)
      BY <2>1 DEF Prompts
    <3> HIDE DEF q
    <3>3. q.at # "out" /\ (q.at = r.at \/ (r.at = "out" /\ q.at \in {"queued", "failed"}))
      BY <3>2
    <3>4. QED
      BY <3>1, <3>2, <3>3
  <2>5. QED
    BY <2>2, <2>3, <2>4
<1>6. sending' = 0 \/ (sending' = sending /\ sending # 0)
  BY <1>2 DEF SendArrives, SendReturns, SendFails
<1>7. /\ DOMAIN prompts' = DOMAIN prompts /\ Len(prompts') = Len(prompts) /\ prompts'[sending] = q
      /\ \A k \in DOMAIN prompts \ {sending} : prompts'[k] = prompts[k]
  <2>1. DOMAIN prompts' = DOMAIN prompts /\ prompts'[sending] = q
        /\ \A k \in DOMAIN prompts \ {sending} : prompts'[k] = prompts[k]
    BY <1>1, <1>3, <1>5
  <2>2. prompts' \in Seq(Prompts)
    BY SendKeepsLiveInv DEF SendNext, LiveInv, LiveShape
  <2>3. QED
    BY <1>1, <2>1, <2>2
<1>8. \A k \in DOMAIN prompts : prompts'[k].id = prompts[k].id /\ prompts'[k].text = prompts[k].text
                                /\ prompts'[k].after = prompts[k].after /\ prompts'[k].at # "out"
                                /\ (prompts'[k].at = prompts[k].at
                                     \/ (prompts[k].at = "out" /\ prompts'[k].at \in {"queued", "failed"}))
                                /\ (prompts[k].withdrawn => prompts'[k].withdrawn)
  <2> TAKE k \in DOMAIN prompts
  <2>1. CASE k = sending
    BY <1>5, <1>7, <2>1
  <2>2. CASE k # sending
    <3>1. prompts[k].at # "out"
      BY <1>4, <2>2 DEF PromptSound
    <3>2. QED
      BY <1>7, <2>2, <3>1
  <2>3. QED
    BY <2>1, <2>2
<1>9. PromptsGo(prompts, prompts', edits)
  BY <1>7, <1>8 DEF PromptsGo
<1>10. TextsSound'
  BY <1>2, <1>9, SendKeepsTexts
<1>11. PromptsSound'
  <2>1. \A k \in DOMAIN prompts' : PromptSound(k)'
    BY <1>2, <1>4, <1>7, <1>8 DEF PromptSound
  <2>2. TakenInOrder'
    <3> SUFFICES ASSUME NEW m \in DOMAIN prompts, NEW n \in DOMAIN prompts, m < n, prompts'[n].id # 0
                 PROVE  prompts'[m].at \in {"delivered", "failed"} /\ prompts'[m].id < prompts'[n].id
      BY <1>7 DEF TakenInOrder
    <3>1. prompts[m].at \in {"delivered", "failed"} /\ prompts[m].id < prompts[n].id
      BY <1>1, <1>8 DEF PromptsSound, TakenInOrder
    <3>2. QED
      BY <1>8, <3>1
  <2>3. sending' \in 0 .. Len(prompts')
    BY <1>1, <1>6, <1>7 DEF PromptsSound
  <2>4. QED
    BY <1>7, <2>1, <2>2, <2>3 DEF PromptsSound
<1>12. BubblesAreHonest'
  <2>1. \A k \in DOMAIN prompts : prompts[k].after \in Nat
    BY <1>4 DEF Prompts
  <2>2. \A k \in DOMAIN prompts : (k \in bubbles' <=> k \in bubbles) \/ (k \notin bubbles' /\ prompts'[k].withdrawn)
    BY <1>5, <1>7
  <2>3. view'.msgs = view.msgs /\ DOMAIN prompts' \ DOMAIN prompts = {}
    BY <1>2, <1>7
  <2>4. \A k \in DOMAIN prompts :
           /\ prompts'[k].at \in {"out", "queued"} => prompts[k].at \in {"out", "queued"}
           /\ prompts'[k].at = "delivered" => prompts[k].at = "delivered"
    BY <1>8
  <2>5. QED
    BY <1>1, <1>7, <1>8, <2>1, <2>2, <2>3, <2>4, HonestStays
<1>13. QED
  BY <1>1, <1>5, <1>7, <1>10, <1>11, <1>12 DEF BubbleInv

\* The page starts with no prompt and no bubble.
LEMMA BubbleInitHolds == LiveInit => BubbleInv
<1> SUFFICES ASSUME LiveInit PROVE BubbleInv
  OBVIOUS
<1>1. Ids(Empty) = {}
  BY DEF Empty, Ids
<1>2. /\ conv = Empty /\ view.msgs = Empty /\ served = <<>> /\ stream.frames = <<>>
      /\ prompts = <<>> /\ bubbles = {} /\ sending = 0
  BY DEF LiveInit
<1>3. PromptsSound /\ BubblesAreHonest
  BY <1>2 DEF PromptsSound, TakenInOrder, BubblesAreHonest
<1>4. TextsSound
  BY <1>1, <1>2 DEF TextsSound, MessagesTold, FramesTold
<1>5. QED
  BY <1>2, <1>3, <1>4 DEF BubbleInv

\* Every step of the page, the stream, the conversation and the container keeps
\* the bubbles honest.
LEMMA BubbleStepHolds == LiveInv /\ BubbleInv /\ [LiveNext]_liveVars => BubbleInv'
<1> SUFFICES ASSUME LiveInv, BubbleInv, [LiveNext]_liveVars PROVE BubbleInv'
  OBVIOUS
<1>1. CASE ConversationNext
  <2>1. CASE \E n \in DOMAIN prompts : Delivered(n)
    BY <2>1, DeliveredKeepsBubbles
  <2>2. CASE Replies
    BY <2>2, RepliesKeepsBubbles
  <2>3. CASE \E id \in Ids(conv) : Grows(id) \/ Removes(id)
    BY <2>3, GrowsKeepsBubbles, RemovesKeepsBubbles
  <2>4. QED
    BY <1>1, <2>1, <2>2, <2>3 DEF ConversationNext
<1>2. CASE ReadNext
  <2>1. CASE \E i \in DOMAIN served : LoadArrives(i)
    BY <2>1, LoadArrivesKeepsBubbles
  <2>2. QED
    BY <1>2, <2>1, ReadsKeepBubbles, StreamKeepsBubbles, FrameKeepsBubbles DEF ReadNext
<1>3. CASE BreakNext
  BY <1>3, StreamKeepsBubbles, ReadsKeepBubbles DEF BreakNext
<1>4. CASE SendNext
  BY <1>4, SendKeepsBubbles, SentKeepsBubbles DEF SendNext
<1>5. CASE UNCHANGED liveVars
  <2>1. /\ UNCHANGED <<conv, edits, prompts, sending, bubbles>> /\ view'.msgs = view.msgs
        /\ \A i \in DOMAIN served' : \E j \in DOMAIN served : served'[i].msgs = served[j].msgs
        /\ \A i \in DOMAIN stream'.frames : \E j \in DOMAIN stream.frames : stream'.frames[i] = stream.frames[j]
    BY <1>5 DEF liveVars
  <2>2. QED
    BY <2>1, AsideKeepsBubbles
<1>6. QED
  BY <1>1, <1>2, <1>3, <1>4, <1>5 DEF LiveNext

\* What the page shows and waits for came with the prompts, and prompts are
\* taken in their order (Send, Delivered, reconcileOptimisticPrompts).
THEOREM BubbleInvHolds == LiveSpec => []BubbleInv
<1>1. LiveInit => BubbleInv
  BY BubbleInitHolds
<1>2. LiveInv /\ BubbleInv /\ [LiveNext]_liveVars => BubbleInv'
  BY BubbleStepHolds
<1>3. LiveSpec => []LiveInv
  BY LiveInvHolds
<1>4. QED
  BY <1>1, <1>2, <1>3, PTL DEF LiveSpec

\* A prompt keeps its bubble until OpenCode has it and loses it with its own
\* message, unless another prompt has the same text
\* (reconcileOptimisticPrompts and the sending half of SessionPage).
THEOREM BubblesStayHonest == LiveSpec => []BubblesAreHonest
<1>1. BubbleInv => BubblesAreHonest
  BY DEF BubbleInv
<1>2. QED
  BY <1>1, BubbleInvHolds, PTL

=============================================================================
