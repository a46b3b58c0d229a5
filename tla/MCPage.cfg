SPECIFICATION MCSpec
CONSTANTS
    s1 = s1
    Sessions <- OneSession
    Prompted <- OneSession
    Initialized <- NoSession
    Sweeps = TRUE
    RequestsFail = TRUE
    MaxOps = 3
    MaxHubCrashes = 1
    x = x
    y = y
    Texts <- MCTexts
    MaxEdits = 3
    MaxSends = 2
    MaxWakes = 1
    MaxBreaks = 1
    MaxRefreshes = 1
    MaxReads = 2
    Streams <- MCStreams
    Trees <- MCTrees
    MaxLineageDepth = 2
    Locations = {"l1", "l2"}
    Answers <- MCAnswers
CHECK_DEADLOCK FALSE
SYMMETRY Symmetry
INVARIANT ReleasedWhenPurged
INVARIANT PokedClaimsAttended
PROPERTY DeletionEndsWithItsAttempt
INVARIANT PageIsCurrent
INVARIANT BubblesAreHonest
INVARIANT ReaderIsRight
