SPECIFICATION Spec
CONSTANTS
    Name <- MCName
    Projects <- NamesakeProjects
    SystemDirectories <- MCSystemDirectories
CHECK_DEADLOCK FALSE
INVARIANTS
    SystemDirectoriesUnclaimed
