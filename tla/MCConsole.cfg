SPECIFICATION Spec
CONSTANTS
    c1 = c1
    c2 = c2
    Clients <- MCClients
    HandTitles <- MCTitles
    Budgets <- MCBudgets
CHECK_DEADLOCK FALSE
SYMMETRY Symmetry
INVARIANT CacheWrongOnlyIfOvertaken
INVARIANT AnswersAreTrue
