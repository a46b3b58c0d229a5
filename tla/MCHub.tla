-------------------------------- MODULE MCHub --------------------------------
(***************************************************************************)
(* The registry and the Hub with two sessions and nothing but deletions:   *)
(* the steps of HubDeletion without prompts, sweeps, crashes and requests  *)
(* that die, which are in MCPage.                                          *)
(***************************************************************************)
EXTENDS HubDeletion

CONSTANTS s1, s2

TwoSessions == {s1, s2}
NoSession == {}

QueueNext ==
    \/ \E s \in Sessions : DeleteSession(s) \/ DeleteInstance(s) \/ DeleteStep(s) \/ SandboxEnds(s)
    \/ HubFire \/ HubNextDeletion \/ HubNextCleanup \/ HubClose \/ HubSend
    \/ HubPurged \/ HubTerminationPending \/ HubTimeout \/ HubMarkDeleted \/ HubFinish
    \/ HubDefer \/ HubFail \/ HubCheck \/ HubCheckCleanup \/ HubThrow

QueueSpec ==
    /\ Init /\ [][QueueNext]_vars
    /\ WF_vars(HubStep) /\ \A s \in Sessions : WF_vars(DeleteStep(s))
=============================================================================
