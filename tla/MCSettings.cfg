SPECIFICATION Spec
CONSTANTS
    Browsers = {b1, b2}
    Passwords = {"p1", "p2"}
    MaxRecords = 2
    MaxTokens = 2
    Pages = {page1, page2}
    Names = {"a", "b"}
    Secrets = {"x", "y"}
    Configs <- MCConfigs
    Earlier <- MCEarlier
    Selections <- MCSelections
    MaxSaves = 3
    MaxSessions = 2
    SkillLists <- MCSkillLists
    BuiltinSkills = {"shots"}
    HasRepo = TRUE
    MaxPastes = 2
    MaxRefreshes = 1
    MaxWakes = 2
CHECK_DEADLOCK FALSE
INVARIANT ChangeSignsEveryoneOut
INVARIANT SettingsAreUsable
PROPERTY BlankKeepsStored
INVARIANT ContainerAsConfigured
PROPERTY RefreshedTokensKept
