CONSTANTS
    a1 = a1
    a2 = a2
    proj1 = proj1
    sess1 = sess1
    sess2 = sess2
    Actors <- MCActors
    Projects <- MCProjects
    Sessions <- MCSessions
    Places <- MCPlaces
    Tokens <- MCTokens
    Home <- MCHome
    Negated <- MCNegated
    Negations = {9}
    Limit = 2
    ScanLimit = 2
    MaxLoad = 6
    MaxCorrections = 1
    MaxDetections = 2
    MaxPasses = 2
    MaxProposals = 3
SPECIFICATION Spec
SYMMETRY Symmetry
INVARIANT TypeOK
INVARIANT AskedOnce
INVARIANT AskedIsFiled
PROPERTY ProposedOnce
PROPERTY ConflictIsReviewed
CHECK_DEADLOCK FALSE
