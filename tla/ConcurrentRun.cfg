SPECIFICATION Spec
CONSTANTS
    Tasks <- MCTasks
    Programs = {"p", "q"}
    Keys = {"k"}
    Executables = {"/opt/p", "/usr/p"}
    Catalogues <- MCCatalogues
    Setups <- MCSetups
    MaxBlocks <- MCMaxBlocks
    N = 3
    ProgramOf <- MCProgramOf
    Caller = 0
INVARIANTS
    PolicyOfOpenBlocks
    BatchAccounted
PROPERTY
    AbortEnds
CHECK_DEADLOCK FALSE
