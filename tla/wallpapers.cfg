SPECIFICATION WallpapersSpec
CONSTANTS
    A = A
    B = B
    Screens <- MCScreens
    Everywhere = all
    Nowhere = no
    Plans <- MCPlans
    Lits <- MCLits
    RuledSets <- MCRuledSets
    Panels <- MCScreens
    Frames = 2
    MaxDelay = 1
    MaxWanted = 2
INVARIANTS OwnersKeepTheirs LastRequestWins
PROPERTIES TransitionsEnd
CHECK_DEADLOCK FALSE
