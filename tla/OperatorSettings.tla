-------------------------- MODULE OperatorSettings --------------------------
(***************************************************************************)
(* The settings an operator edits (src/src/api-settings.ts,                *)
(* src/src/settings.ts, the validators of src/src/settings-schema.ts), the *)
(* settings page that edits them (src/web/.../SettingsPage.tsx), and the   *)
(* readers that depend on what was stored: the model catalogue             *)
(* (src/src/model-catalog.ts) and the list of Docker hosts                 *)
(* (src/src/sandbox-providers.ts).                                         *)
(*                                                                         *)
(* Several browsers have the page open.  A save is a PUT whose queries     *)
(* (merge, pinned models, write) interleave with the others' and with the  *)
(* creation of sessions.  Secrets are not read back: a page sends "" for   *)
(* one that was not retyped, and the server fills it in.                   *)
(***************************************************************************)
EXTENDS Naturals, Sequences, FiniteSets, SequencesExt

CONSTANTS
    Pages,          \* browsers with the settings page open
    Names,          \* names of variables and ids of Docker hosts
    Secrets,        \* values of variables, tokens of hosts
    Configs,        \* OpenCode configs an operator may try, good or bad
    Earlier,        \* lists stored before the behaviour starts
    Selections,     \* models and efforts a session may be created with
    MaxSaves,       \* bound: saves
    MaxSessions     \* bound: sessions

\* validateEnvVars: names are unique and values are not empty.
ValidateEnvVars(list) ==
    /\ \A i, j \in DOMAIN list : list[i].name = list[j].name => i = j
    /\ \A i \in DOMAIN list : list[i].secret # ""

\* validateDockerHosts: the same of ids and tokens, and an empty list is not
\* a value.
ValidateDockerHosts(list) == list # <<>> /\ ValidateEnvVars(list)

ASSUME SettingsAssumption ==
    /\ "" \notin Names /\ "" \notin Secrets
    /\ Earlier \subseteq Seq([name : Names, secret : Secrets])
    /\ \A list \in Earlier : ValidateEnvVars(list)
    /\ MaxSaves \in Nat /\ MaxSessions \in Nat

VARIABLES
    env,            \* container.env: a sequence of [name, secret]; <<>> when unset
    hosts,          \* docker.hosts: the same shape, the name being the id
    config,         \* opencode.config
    view,           \* per page: the settings it last loaded
    put,            \* per page: its save in flight
    creating,       \* the creation of a session in flight
    sessions,       \* session rows in order: [model, variant, forced, raced]
    saves           \* saves so far

settingsVars == <<env, hosts, config, view, put, creating, sessions, saves>>

\* A config: for each model it defines its variants in order, the default
\* model, and whether every permission is decided.
NoConfig == [models |-> <<>>, default |-> "", permissions |-> FALSE]
NoPut == [key |-> "none", at |-> "idle", list |-> <<>>, blank |-> {}, config |-> NoConfig, force |-> FALSE,
          pinned |-> {}, stale |-> FALSE]
NotCreating == [model |-> "", variant |-> "", at |-> "idle"]

Lists == {"env", "hosts"}
Stored(key) == IF key = "env" THEN env ELSE hosts
NamesOf(list) == {list[i].name : i \in DOMAIN list}
SecretOf(list, name) == list[CHOOSE i \in DOMAIN list : list[i].name = name].secret

\* exposedValue: names without secrets, and the config as it is.
ExposedValue(list) == [i \in DOMAIN list |-> list[i].name]
Exposed == [env |-> ExposedValue(env), hosts |-> ExposedValue(hosts), config |-> config]

SettingsInit ==
    /\ env \in Earlier /\ hosts \in Earlier /\ config \in Configs \cup {NoConfig}
    /\ config # NoConfig => config.permissions /\ config.default \in DOMAIN config.models
    /\ view = [p \in Pages |-> Exposed] /\ put = [p \in Pages |-> NoPut]
    /\ creating = NotCreating /\ sessions = <<>> /\ saves = 0

-----------------------------------------------------------------------------
\* The page

\* load: on mount and after a save (onSaved).
Load(p) ==
    /\ put[p] = NoPut
    /\ view[p] # Exposed
    /\ view' = [view EXCEPT ![p] = Exposed]
    /\ UNCHANGED <<env, hosts, config, put, creating, sessions, saves>>

\* EnvVarsSection: the loaded names with blank values, then one row removed,
\* retyped or added.  The names of stored rows cannot be edited, and an added
\* row needs a value.
Blank(names) == [i \in DOMAIN names |-> [name |-> names[i], secret |-> ""]]
EnvRows(names) ==
    LET rows == Blank(names) IN
    {RemoveAt(rows, i) : i \in DOMAIN rows}
      \cup {[rows EXCEPT ![i].secret = s] : i \in DOMAIN rows, s \in Secrets}
      \cup {Append(rows, [name |-> n, secret |-> s]) : n \in Names, s \in Secrets}

\* toStoredHost and the save of DockerSection: an id that is in use is refused
\* on the page already.
StorableHosts(rows) == \A i, j \in DOMAIN rows : rows[i].name = rows[j].name => i = j

\* DockerSection: the same, and a host may be moved, for its place decides the
\* default.
HostRows(names) ==
    LET rows == Blank(names) IN
    {r \in EnvRows(names) : StorableHosts(r)}
      \cup {[rows EXCEPT ![i] = rows[i + 1], ![i + 1] = rows[i]] : i \in 1 .. Len(rows) - 1}

\* Saving a section.  No rows left clears the setting.
SaveList(p, key, rows) ==
    /\ put[p] = NoPut /\ saves < MaxSaves
    /\ saves' = saves + 1
    /\ put' = [put EXCEPT ![p] = [NoPut EXCEPT !.key = key, !.list = rows,
                                     !.at = IF rows = <<>> THEN "clear" ELSE "merge"]]
    /\ UNCHANGED <<env, hosts, config, view, creating, sessions>>

\* The config editor sends the whole text; a refusal that names pinned models
\* may be confirmed, which sends it again with force.
SaveConfig(p, c, force) ==
    /\ put[p] = NoPut /\ saves < MaxSaves
    /\ saves' = saves + 1
    /\ put' = [put EXCEPT ![p] = [NoPut EXCEPT !.key = "config", !.config = c, !.force = force, !.at = "pinned"]]
    /\ UNCHANGED <<env, hosts, config, view, creating, sessions>>

-----------------------------------------------------------------------------
\* putSetting

\* validateOpencodeConfig: permissions decided, a provider, a default model
\* that is defined.
ValidateOpencodeConfig(c) ==
    /\ c.permissions /\ DOMAIN c.models # {} /\ c.default \in DOMAIN c.models

Answer(p) == put' = [put EXCEPT ![p] = NoPut]

\* The saves of others for the same key, whose merge this write makes stale.
Overtake(p, key) ==
    [q \in Pages |-> IF q = p THEN NoPut
                     ELSE IF put[q].key = key THEN [put[q] EXCEPT !.stale = @ \/ put[q].at = "write"] ELSE put[q]]

SetList(key, list) ==
    IF key = "env" THEN env' = list /\ UNCHANGED hosts ELSE hosts' = list /\ UNCHANGED env

\* A null value deletes the row (neither list is required).
ClearSetting(p) ==
    /\ put[p].at = "clear"
    /\ SetList(put[p].key, <<>>)
    /\ put' = Overtake(p, put[p].key)
    /\ UNCHANGED <<config, view, creating, sessions, saves>>

\* Mutant: a blank secret is filled in from the row in the same place.
MergedByPlace(list, stored) ==
    [i \in DOMAIN list |-> IF list[i].secret = "" /\ i \in DOMAIN stored
                           THEN [list[i] EXCEPT !.secret = stored[i].secret] ELSE list[i]]

\* mergeEnvValues and mergeDockerHostTokens: a blank secret keeps what is
\* stored under its name, "" if nothing is.
Merged(list, stored) ==
    [i \in DOMAIN list |-> IF list[i].secret = "" /\ list[i].name \in NamesOf(stored)
                           THEN [list[i] EXCEPT !.secret = SecretOf(stored, list[i].name)] ELSE list[i]]

Validate(key, list) == IF key = "env" THEN ValidateEnvVars(list) ELSE ValidateDockerHosts(list)

BlankNames(list) == {list[i].name : i \in {j \in DOMAIN list : list[j].secret = ""}}

\* The merge, then the validator on its result.
Merge(p) ==
    LET merged == Merged(put[p].list, Stored(put[p].key)) IN
       /\ put[p].at = "merge"
       /\ IF Validate(put[p].key, merged)
          THEN put' = [put EXCEPT ![p].at = "write", ![p].list = merged,
                                  ![p].blank = BlankNames(put[p].list)]
          ELSE Answer(p)
       /\ UNCHANGED <<env, hosts, config, view, creating, sessions, saves>>

WriteList(p) ==
    /\ put[p].key \in Lists /\ put[p].at = "write"
    /\ SetList(put[p].key, put[p].list)
    /\ put' = Overtake(p, put[p].key)
    /\ UNCHANGED <<config, view, creating, sessions, saves>>

\* orphanedPinnedModels: the models of session rows the new config lacks.
Pinned == {sessions[i].model : i \in DOMAIN sessions}

\* Mutant: the pinned models are never looked up.
CheckPinnedNever(p) ==
    /\ put[p].at = "pinned"
    /\ IF ValidateOpencodeConfig(put[p].config)
       THEN put' = [put EXCEPT ![p].at = "write", ![p].pinned = Pinned] ELSE Answer(p)
    /\ UNCHANGED <<env, hosts, config, view, creating, sessions, saves>>

CheckPinned(p) ==
    /\ put[p].at = "pinned"
    /\ IF ValidateOpencodeConfig(put[p].config)
            /\ (put[p].force \/ Pinned \subseteq DOMAIN put[p].config.models)
       THEN put' = [put EXCEPT ![p].at = "write", ![p].pinned = Pinned] ELSE Answer(p)
    /\ UNCHANGED <<env, hosts, config, view, creating, sessions, saves>>

WriteConfig(p) ==
    /\ put[p].key = "config" /\ put[p].at = "write"
    /\ config' = put[p].config
    /\ sessions' = [i \in DOMAIN sessions |->
          IF sessions[i].model \in DOMAIN config'.models THEN sessions[i]
          ELSE [sessions[i] EXCEPT !.forced = @ \/ put[p].force,
                                   !.raced = @ \/ sessions[i].model \notin put[p].pinned]]
    /\ put' = Overtake(p, "config")
    /\ UNCHANGED <<env, hosts, view, creating, saves>>

PutDies(p) ==
    /\ put[p] # NoPut
    /\ Answer(p)
    /\ UNCHANGED <<env, hosts, config, view, creating, sessions, saves>>

-----------------------------------------------------------------------------
\* The model catalogue

\* isValidVariant: a variant of the model, or none if it has none.
IsValidVariant(c, model, variant) ==
    /\ model \in DOMAIN c.models
    /\ IF variant = "" THEN c.models[model] = <<>> ELSE variant \in ToSet(c.models[model])

\* defaultVariantForModel: medium, then high, then the first.
DefaultVariantForModel(c, model) ==
    LET variants == IF model \in DOMAIN c.models THEN c.models[model] ELSE <<>> IN
    IF variants = <<>> THEN ""
    ELSE IF "medium" \in ToSet(variants) THEN "medium"
    ELSE IF "high" \in ToSet(variants) THEN "high" ELSE variants[1]

ResolveVariant(c, model, preferred) ==
    IF preferred # "" /\ IsValidVariant(c, model, preferred) THEN preferred
    ELSE DefaultVariantForModel(c, model)

\* resolveDefaultModelSelection: what the composer starts with.
ResolveDefaultModelSelection(c, recent) ==
    LET model == IF recent.model \in DOMAIN c.models THEN recent.model
                 ELSE IF c.default \in DOMAIN c.models THEN c.default
                 ELSE IF DOMAIN c.models = {} THEN "" ELSE CHOOSE m \in DOMAIN c.models : TRUE
    IN [model |-> model,
        variant |-> ResolveVariant(c, model, IF recent.model = model THEN recent.variant ELSE "")]

\* lastModelSelection: of the newest session row.
LastModelSelection ==
    IF sessions = <<>> THEN [model |-> "", variant |-> ""]
    ELSE [model |-> Last(sessions).model, variant |-> Last(sessions).variant]

-----------------------------------------------------------------------------
\* Sessions.  The catalogue is read once at the top of the request; the row
\* is inserted later, by the session's agent.

CreateSession(s) ==
    /\ creating = NotCreating /\ config # NoConfig
    /\ IsValidVariant(config, s.model, s.variant)
    /\ creating' = [model |-> s.model, variant |-> s.variant, at |-> "insert"]
    /\ UNCHANGED <<env, hosts, config, view, put, sessions, saves>>

InsertSessionRow ==
    /\ creating.at = "insert" /\ Len(sessions) < MaxSessions
    /\ sessions' = Append(sessions, [model |-> creating.model, variant |-> creating.variant, forced |-> FALSE,
                                     raced |-> creating.model \notin DOMAIN config.models])
    /\ creating' = NotCreating
    /\ UNCHANGED <<env, hosts, config, view, put, saves>>

\* listDockerHosts: entries with an id and a token, the first of each id.
ListDockerHosts ==
    LET usable == {i \in DOMAIN hosts : hosts[i].name # "" /\ hosts[i].secret # ""}
        firsts == {i \in usable : \A j \in usable : j < i => hosts[j].name # hosts[i].name}
    IN [k \in 1 .. Cardinality(firsts) |->
            hosts[CHOOSE i \in firsts : Cardinality({j \in firsts : j <= i}) = k]]

\* The sections of the page do not touch each other's state, so a bounded
\* instance may explore the lists and the config separately.
PageNext == \E p \in Pages : Load(p) \/ PutDies(p)
ListNext ==
    \/ \E p \in Pages : \/ \E rows \in EnvRows(view[p].env) : SaveList(p, "env", rows)
                        \/ \E rows \in HostRows(view[p].hosts) : SaveList(p, "hosts", rows)
    \/ \E p \in Pages : ClearSetting(p) \/ Merge(p) \/ WriteList(p)
ConfigNext ==
    \/ \E p \in Pages, c \in Configs, force \in BOOLEAN : SaveConfig(p, c, force)
    \/ \E p \in Pages : CheckPinned(p) \/ WriteConfig(p)
    \/ \E s \in Selections : CreateSession(s)
    \/ InsertSessionRow

SettingsNext == PageNext \/ ListNext \/ ConfigNext

SettingsSpec == SettingsInit /\ [][SettingsNext]_settingsVars

-----------------------------------------------------------------------------
\* Properties

\* Whatever a page that was loaded long ago sends, what is stored can be used:
\* every variable has a value, and every stored host is offered by
\* listDockerHosts with its token and in its place.
StoredIsUsable ==
    /\ \A i \in DOMAIN env : env[i].secret # ""
    /\ ListDockerHosts = hosts

\* A secret the operator did not retype is not changed by the save, unless
\* another save of the same setting was written between its merge and its
\* write.
BlankKeepsStored ==
    [][\A p \in Pages, key \in Lists :
          put[p].key = key /\ put[p].at = "write" /\ put'[p] = NoPut /\ Stored(key)' = put[p].list
              /\ ~put[p].stale =>
            \A n \in put[p].blank \cap NamesOf(Stored(key)) :
                SecretOf(Stored(key)', n) = SecretOf(Stored(key), n)]_settingsVars

\* A session's model is one the stored config defines: a save that drops a
\* pinned model must be forced.  Only a creation and a save that overlap can
\* leave a session without its model.
PinnedModelsDefined ==
    \A i \in DOMAIN sessions :
        sessions[i].model \in DOMAIN config.models \/ sessions[i].forced \/ sessions[i].raced

\* The composer never starts with something the create route would refuse,
\* whatever model and effort the last session had and however the config was
\* changed since.
DefaultSelectionIsOffered ==
    config # NoConfig =>
        LET s == ResolveDefaultModelSelection(config, LastModelSelection)
        IN IsValidVariant(config, s.model, s.variant)

\* What is stored can be used by a wake, by a session that was created with it
\* and by the composer, whichever pages saved it in whichever order.
SettingsAreUsable == StoredIsUsable /\ PinnedModelsDefined /\ DefaultSelectionIsOffered
=============================================================================
