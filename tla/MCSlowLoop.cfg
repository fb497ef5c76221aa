CONSTANTS
    none = none
    make = make
    proj = proj
    Kinds <- MCKinds
    Corrections <- MCCorrections
    NoText = 0
    None = none
    EdgeK = 1
    MaxEpisodes = 3
    FullScanCap = 2
    ScanInterval = 2
    ScanWindow = 2
    BackfillCap = 1
    BeliefWindow = 2
    MaxEvents = 1
SPECIFICATION Spec
INVARIANT TypeOK
INVARIANT ForgottenIsAudited
INVARIANT SomeCopySurvives
INVARIANT BackfillTellsTruth
PROPERTY GateOnlySaves
PROPERTY NewIsEmbedded
