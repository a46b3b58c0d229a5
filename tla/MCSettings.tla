----------------------------- MODULE MCSettings -----------------------------
(***************************************************************************)
(* The operator's side for TLC: the front door, the settings and what a    *)
(* wake makes of them.  Their state is disjoint (a wake's view of the      *)
(* settings is Provisioning's own variable), so each behaviour explores    *)
(* one topic and leaves the others in their initial state: the state       *)
(* spaces add up instead of multiplying.                                   *)
(***************************************************************************)
EXTENDS AdminAccess, OperatorSettings, Provisioning

VARIABLE topic

Wide == [models |-> [m1 |-> <<"low", "medium">>, m2 |-> <<>>], default |-> "m1", permissions |-> TRUE]
Narrow == [models |-> [m1 |-> <<"low", "high">>], default |-> "m1", permissions |-> TRUE]
Other == [models |-> [m2 |-> <<>>], default |-> "m2", permissions |-> TRUE]
Dangling == [Narrow EXCEPT !.default = "m2"]
MCConfigs == {Wide, Narrow, Other, Dangling}

MCSelections == {[model |-> "m1", variant |-> "medium"], [model |-> "m1", variant |-> "low"],
                 [model |-> "m2", variant |-> ""]}

MCEarlier == {<<>>, <<[name |-> "a", secret |-> "x"], [name |-> "b", secret |-> "y"]>>}

Skill(name, repo, content) == [name |-> name, repo |-> repo, content |-> content]
MCSkillLists == {<<>>, <<Skill("shots", "all", "x")>>,
                 <<Skill("deploy", "mine", "y"), Skill("deploy", "other", "z")>>,
                 <<Skill("deploy", "all", "x"), Skill("deploy", "mine", "y")>>}

Init ==
    /\ topic \in {"access", "lists", "config", "provisioning"}
    /\ AccessInit /\ SettingsInit /\ ProvisioningInit
    /\ topic # "lists" => env = <<>> /\ hosts = <<>>
    /\ topic # "config" => config = NoConfig
    /\ topic # "provisioning" => kind = "docker"

Next ==
    /\ UNCHANGED topic
    /\ \/ topic = "access" /\ AccessNext /\ UNCHANGED <<settingsVars, provisioningVars>>
       \/ topic = "lists" /\ (PageNext \/ ListNext) /\ UNCHANGED <<accessVars, provisioningVars>>
       \/ topic = "config" /\ (PageNext \/ ConfigNext) /\ UNCHANGED <<accessVars, provisioningVars>>
       \/ topic = "provisioning" /\ ProvisioningNext /\ UNCHANGED <<accessVars, settingsVars>>

Spec == Init /\ [][Next]_<<topic, accessVars, settingsVars, provisioningVars>>
=============================================================================
