SPECIFICATION Spec
CONSTANTS
    Name <- MCName
    Projects <- MCProjects
    Project <- MCProject
    App <- MCApp
    BinLink <- MCBinLink
    MaxHops = 4
CHECK_DEADLOCK FALSE
INVARIANTS
    TypeOK
    NoTreeInsideItself
    NothingElseShips
    DependenciesArrive
    NothingIsLost
    EntrypointsRun
    DefaultInputsSuffice
