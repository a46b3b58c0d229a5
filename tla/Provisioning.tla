---------------------------- MODULE Provisioning ----------------------------
(***************************************************************************)
(* What a wake puts into a container                                       *)
(* (src/src/container-credentials.ts, src/src/runtime-ops.ts, and the part *)
(* of performWakeForLifecycle in src/src/sandbox.ts that calls them): the  *)
(* operator's skills and git identity below /root, the MCP token store     *)
(* seeded into the workspace, the clone of the repository, and the         *)
(* OpenCode server that starts beside it.                                  *)
(*                                                                         *)
(* A Cloudflare container is fresh at every boot and its workspace comes   *)
(* from the last backup; a Docker container is stopped and started again,  *)
(* so its /root and its volume stay.  A wake is a row of calls to the host *)
(* and may break off after each; what it started in the container goes on. *)
(***************************************************************************)
EXTENDS Naturals, Sequences, FiniteSets

CONSTANTS
    SkillLists,      \* opencode.skills an operator may try to save
    BuiltinSkills,   \* names of BUILTIN_SKILLS
    HasRepo,         \* the session has a repository
    MaxPastes,       \* bound: pastes of an mcp-auth.json
    MaxRefreshes,    \* bound: refreshes of a token by OpenCode
    MaxWakes         \* bound: wakes

ASSUME ProvisioningAssumption ==
    /\ SkillLists \subseteq Seq([name : STRING, repo : STRING, content : STRING])
    /\ BuiltinSkills \subseteq STRING /\ HasRepo \in BOOLEAN
    /\ MaxPastes \in Nat /\ MaxRefreshes \in Nat /\ MaxWakes \in Nat

VARIABLES
    kind,            \* the host: "cloudflare" or "docker"
    setting,         \* the stored settings: [skills, identity, mcp]
    pastes,          \* revisions of opencode.mcp-auth so far (its updatedAt)
    wake,            \* the wake: [at, read, serverUp, cloned]
    wakes,           \* wakes so far
    up,              \* the container runs
    root,            \* its /root: [skills, identity, staged]
    ws,              \* its workspace: [store, marker, git]
    backup,          \* the workspace of the last checkpoint
    clone,           \* a git clone runs in the container: "none", "mine", "left"
    server,          \* the OpenCode server runs
    torn,            \* a seed broke off between the store and its marker
    left             \* a wake gave up on a clone it had started

provisioningVars == <<kind, setting, pastes, wake, wakes, up, root, ws, backup, clone, server, torn, left>>

\* rev 0 is a store OpenCode made itself; fresh counts its refreshes.
NoStore == [rev |-> 0, fresh |-> 0]
EmptyRoot == [skills |-> {}, identity |-> 0, staged |-> 0]
EmptyWs == [store |-> NoStore, marker |-> 0, git |-> "none"]
NoSettings == [skills |-> <<>>, identity |-> 0, mcp |-> 0]
Asleep == [at |-> "asleep", read |-> NoSettings, serverUp |-> FALSE, cloned |-> FALSE]

ProvisioningInit ==
    /\ kind \in {"cloudflare", "docker"} /\ setting = NoSettings /\ pastes = 0
    /\ wake = Asleep /\ wakes = 0 /\ up = FALSE /\ root = EmptyRoot /\ ws = EmptyWs /\ backup = EmptyWs
    /\ clone = "none" /\ server = FALSE /\ torn = FALSE /\ left = FALSE

-----------------------------------------------------------------------------
\* The settings

\* validateSkills: a name is either global once, or once per repository.
ValidateSkills(list) ==
    \A i, j \in DOMAIN list :
        i # j /\ list[i].name = list[j].name =>
            list[i].repo # "all" /\ list[j].repo # "all" /\ list[i].repo # list[j].repo

Sleeping == wake.at \in {"asleep", "failed"}

PutSkills(list) ==
    /\ ValidateSkills(list) /\ setting.skills # list
    /\ setting' = [setting EXCEPT !.skills = list]
    /\ UNCHANGED <<kind, pastes, wake, wakes, up, root, ws, backup, clone, server, torn, left>>

PutIdentity(id) ==
    /\ setting.identity # id
    /\ setting' = [setting EXCEPT !.identity = id]
    /\ UNCHANGED <<kind, pastes, wake, wakes, up, root, ws, backup, clone, server, torn, left>>

PasteMcpAuth ==
    /\ pastes < MaxPastes
    /\ pastes' = pastes + 1 /\ setting' = [setting EXCEPT !.mcp = pastes']
    /\ UNCHANGED <<kind, wake, wakes, up, root, ws, backup, clone, server, torn, left>>

ClearMcpAuth ==
    /\ setting.mcp # 0
    /\ setting' = [setting EXCEPT !.mcp = 0]
    /\ UNCHANGED <<kind, pastes, wake, wakes, up, root, ws, backup, clone, server, torn, left>>

-----------------------------------------------------------------------------
\* The wake

\* ensureWorkspaceRestored.  A container a failed wake left running is used
\* as it is.
WakeBegins ==
    /\ Sleeping /\ wakes < MaxWakes
    /\ wakes' = wakes + 1 /\ up' = TRUE
    /\ wake' = [Asleep EXCEPT !.at = "load"]
    /\ IF ~up /\ kind = "cloudflare" THEN root' = EmptyRoot /\ ws' = backup ELSE UNCHANGED <<root, ws>>
    /\ UNCHANGED <<kind, setting, pastes, backup, clone, server, torn, left>>

\* loadContainerCredentials
LoadContainerCredentials ==
    /\ wake.at = "load"
    /\ wake' = [wake EXCEPT !.at = "lead", !.read = setting]
    /\ UNCHANGED <<kind, setting, pastes, wakes, up, root, ws, backup, clone, server, torn, left>>

\* mcpAuthClearCommand: only a store with a marker was seeded by a wake.
McpAuthClear(w) == IF w.marker # 0 THEN [w EXCEPT !.store = NoStore, !.marker = 0] ELSE w

\* resolveGitIdentity and gitConfigCommands: git is told an identity, and is
\* never told to forget one.
ToldIdentity(known) == IF wake.read.identity # 0 THEN wake.read.identity ELSE known

\* The leading script of injectContainerCredentials: the skills tree goes, git
\* is told the identity if there is one, and a store whose setting is gone is
\* cleared.
InjectLeading ==
    /\ wake.at = "lead"
    /\ wake' = [wake EXCEPT !.at = "batch"]
    /\ root' = [root EXCEPT !.skills = {}, !.identity = ToldIdentity(@)]
    /\ ws' = IF wake.read.mcp = 0 THEN McpAuthClear(ws) ELSE ws
    /\ UNCHANGED <<kind, setting, pastes, wakes, up, backup, clone, server, torn, left>>

\* resolveSkills: the places in the list of the global ones and of those of
\* this repository.
ResolveSkills(list) ==
    {i \in DOMAIN list : list[i].repo = "all" \/ (HasRepo /\ list[i].repo = "mine")}

\* credentialFiles: built-in skills, and over them the settings' by name.
CredentialFiles(list) ==
    LET named(n) == {i \in ResolveSkills(list) : list[i].name = n}
        last(n) == CHOOSE i \in named(n) : \A j \in named(n) : j <= i
    IN {[name |-> n, content |-> "builtin"] : n \in {b \in BuiltinSkills : named(b) = {}}}
       \cup {[name |-> list[i].name, content |-> list[last(list[i].name)].content] : i \in ResolveSkills(list)}

InjectBatch ==
    /\ wake.at = "batch"
    /\ wake' = [wake EXCEPT !.at = IF wake.read.mcp # 0 THEN "seed" ELSE "provision"]
    /\ root' = [root EXCEPT !.skills = {f \in @ : \A g \in CredentialFiles(wake.read.skills) : f.name # g.name}
                                         \cup CredentialFiles(wake.read.skills),
                            !.staged = IF wake.read.mcp # 0 THEN wake.read.mcp ELSE @]
    /\ UNCHANGED <<kind, setting, pastes, wakes, up, ws, backup, clone, server, torn, left>>

\* Mutant: every wake installs the pasted store.
McpAuthSeedAlways ==
    /\ wake.at = "seed"
    /\ root' = [root EXCEPT !.staged = 0]
    /\ ws' = [ws EXCEPT !.store = [rev |-> root.staged, fresh |-> 0]]
    /\ wake' = [wake EXCEPT !.at = "mark"]
    /\ UNCHANGED <<kind, setting, pastes, wakes, up, backup, clone, server, torn, left>>

\* mcpAuthSeedCommand: install the staged store unless the marker says that
\* this revision was installed before ...
McpAuthSeed ==
    /\ wake.at = "seed"
    /\ root' = [root EXCEPT !.staged = 0]
    /\ IF ws.marker = wake.read.mcp
       THEN wake' = [wake EXCEPT !.at = "provision"] /\ UNCHANGED ws
       ELSE /\ ws' = [ws EXCEPT !.store = [rev |-> root.staged, fresh |-> 0]]
            /\ wake' = [wake EXCEPT !.at = "mark"]
    /\ UNCHANGED <<kind, setting, pastes, wakes, up, backup, clone, server, torn, left>>

\* ... and then write the marker.
McpAuthMark ==
    /\ wake.at = "mark"
    /\ ws' = [ws EXCEPT !.marker = wake.read.mcp]
    /\ wake' = [wake EXCEPT !.at = "provision"]
    /\ UNCHANGED <<kind, setting, pastes, wakes, up, root, backup, clone, server, torn, left>>

\* provisionRepository: a checkout with a .git is only fetched, and a failed
\* fetch is a warning; without one a clone starts.  Neither is waited for here.
ProvisionRepository ==
    /\ wake.at = "provision"
    /\ IF HasRepo /\ ws.git = "none"
       THEN /\ clone' = "mine" /\ ws' = [ws EXCEPT !.git = "partial"]
            /\ wake' = [wake EXCEPT !.at = "start"]
       ELSE wake' = [wake EXCEPT !.at = "start", !.cloned = TRUE] /\ UNCHANGED <<clone, ws>>
    /\ UNCHANGED <<kind, setting, pastes, wakes, up, root, backup, server, torn, left>>

\* opencodeStart, beside the clone: a server that is alive is used as it is.
OpencodeStart ==
    /\ wake.at = "start" /\ ~wake.serverUp
    /\ server' = TRUE /\ wake' = [wake EXCEPT !.serverUp = TRUE]
    /\ UNCHANGED <<kind, setting, pastes, wakes, up, root, ws, backup, clone, torn, left>>

GiveUp(w) == [Asleep EXCEPT !.at = "failed", !.read = w.read]

\* The clone ends: git removes what it made if it fails by itself, and leaves
\* it if it is killed.  A failure fails the wake that waits for it.
CloneEnds(outcome) ==
    /\ clone # "none"
    /\ clone' = "none"
    /\ ws' = [ws EXCEPT !.git = CASE outcome = "done" -> "whole" [] outcome = "failed" -> "none"
                                  [] outcome = "killed" -> "partial"]
    /\ wake' = IF clone = "left" THEN wake
               ELSE IF outcome = "done" THEN [wake EXCEPT !.cloned = TRUE] ELSE GiveUp(wake)
    /\ left' = (left \/ outcome = "killed")
    /\ UNCHANGED <<kind, setting, pastes, wakes, up, root, backup, server, torn>>

\* Mutant: the wake does not wait for the clone.
WakeEndsEarly ==
    /\ wake.at = "start" /\ wake.serverUp
    /\ wake' = [wake EXCEPT !.at = "running"]
    /\ UNCHANGED <<kind, setting, pastes, wakes, up, root, ws, backup, clone, server, torn, left>>

\* Both have to end before the gate opens.
WakeEnds ==
    /\ wake.at = "start" /\ wake.serverUp /\ wake.cloned
    /\ wake' = [wake EXCEPT !.at = "running"]
    /\ UNCHANGED <<kind, setting, pastes, wakes, up, root, ws, backup, clone, server, torn, left>>

\* A call to the host fails, or its answer is lost: the wake ends, and what
\* it started goes on.
WakeFails ==
    /\ wake.at \notin {"asleep", "failed", "running"}
    /\ wake' = GiveUp(wake)
    /\ torn' = (torn \/ wake.at = "mark")
    /\ left' = (left \/ clone # "none")
    /\ clone' = IF clone = "none" THEN "none" ELSE "left"
    /\ UNCHANGED <<kind, setting, pastes, wakes, up, root, ws, backup, server>>

-----------------------------------------------------------------------------
\* The container goes on

\* OpenCode (external) signs in by itself, and rotates the tokens it finds.
OpenCodeRefreshes ==
    /\ up /\ server /\ ws.store.fresh < MaxRefreshes
    /\ ws' = [ws EXCEPT !.store.fresh = @ + 1]
    /\ UNCHANGED <<kind, setting, pastes, wake, wakes, up, root, backup, clone, server, torn, left>>

\* The stop of a running session: a Cloudflare workspace is checkpointed.
SleepSession ==
    /\ wake.at = "running"
    /\ backup' = IF kind = "cloudflare" THEN ws ELSE backup
    /\ wake' = [Asleep EXCEPT !.read = wake.read]
    /\ up' = FALSE /\ server' = FALSE /\ clone' = "none"
    /\ left' = (left \/ clone # "none")
    /\ UNCHANGED <<kind, setting, pastes, wakes, root, ws, torn>>

\* The container dies, or is stopped after a failed wake.
ContainerDies ==
    /\ up /\ up' = FALSE /\ server' = FALSE /\ clone' = "none"
    /\ wake' = GiveUp(wake)
    /\ torn' = (torn \/ wake.at = "mark")
    /\ left' = (left \/ clone # "none")
    /\ UNCHANGED <<kind, setting, pastes, wakes, root, ws, backup>>

ProvisioningNext ==
    \/ \E list \in SkillLists : PutSkills(list)
    \/ \E id \in 0 .. 1 : PutIdentity(id)
    \/ PasteMcpAuth \/ ClearMcpAuth
    \/ WakeBegins \/ LoadContainerCredentials \/ InjectLeading \/ InjectBatch \/ McpAuthSeed \/ McpAuthMark
    \/ ProvisionRepository \/ OpencodeStart \/ WakeEnds \/ WakeFails
    \/ \E outcome \in {"done", "failed", "killed"} : CloneEnds(outcome)
    \/ OpenCodeRefreshes \/ SleepSession \/ ContainerDies

ProvisioningSpec == ProvisioningInit /\ [][ProvisioningNext]_provisioningVars

-----------------------------------------------------------------------------
\* Properties

\* After a wake the container has exactly the skills the settings gave it:
\* each applicable one under its name and none shadowed, the other built-in
\* ones, and nothing of an earlier wake, on a host that keeps /root too.
SkillsMatchSettings ==
    wake.at = "running" =>
        LET list == wake.read.skills
            own == {[name |-> list[i].name, content |-> list[i].content] : i \in ResolveSkills(list)}
        IN root.skills = own \cup {[name |-> b, content |-> "builtin"] :
                                      b \in {n \in BuiltinSkills : \A f \in own : f.name # n}}

\* Tokens OpenCode has refreshed are never replaced by the paste they came
\* from: a running container's store of a revision only grows, unless a seed
\* of it broke off before its marker.
RefreshedTokensKept ==
    [][up /\ up' /\ ws'.store.rev = ws.store.rev /\ ~torn =>
          ws'.store.fresh >= ws.store.fresh]_provisioningVars

\* Once a wake has seen the setting cleared, no pasted store is left in the
\* workspace, whichever backup it came from; again unless a seed broke off
\* before its marker.
ClearedStoreIsGone ==
    wake.at = "running" /\ wake.read.mcp = 0 => ws.store.rev = 0 \/ torn

\* A session that is let in has its whole checkout, unless an earlier wake was
\* given up on, or a clone was killed, while it was being made: .git is there
\* from the start of a clone and is all that later wakes look at.
CheckoutIsWhole ==
    wake.at = "running" /\ HasRepo => ws.git = "whole" \/ left

\* A session is let in only over a container that is as the settings read by
\* its wake want it: skills, token store and checkout.
ContainerAsConfigured == SkillsMatchSettings /\ ClearedStoreIsGone /\ CheckoutIsWhole
=============================================================================
