SPECIFICATION Spec
CONSTANTS
    Name <- MCName
    Projects <- LinkedProject
    Project <- MCProject
    App <- MCApp
    BinLink <- MCBinLink
    MaxHops = 4
CHECK_DEADLOCK FALSE
INVARIANTS
    ExecutedFilesShip
