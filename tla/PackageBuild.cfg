SPECIFICATION FairSpec
CONSTANTS
    Format = {"deb", "rpm", "arch"}
    Source = {a}
    Version <- MCVersion
    Len <- MCLen
    Nothing = Nothing
INVARIANTS
    LeftoversOnlyIfKilled
    VerdictIsTrue
    WholePackagesAreConsistent
    PlannedLengthsShip
PROPERTIES
    StoreSpec
    EarlierRpmSurvivesBadSource
    EveryRunEnds
