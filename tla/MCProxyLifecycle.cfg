CONSTANTS
    a1 = a1
    a2 = a2
    Actors <- MCActors
    Classes <- MCClasses
    Limit = 2
    MaxAccess = 0
    MaxProxies = 2
    MaxTouches = 1
    MaxTime = 1
    MaxJobs = 6
SPECIFICATION Spec
SYMMETRY Processes
INVARIANT TypeOK
INVARIANT TrustBoundary
INVARIANT FactsWereLongTerm
INVARIANT LogIsTheHistory
PROPERTY DecaysOnlyStale
CHECK_DEADLOCK FALSE
