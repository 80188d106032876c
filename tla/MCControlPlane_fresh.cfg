CONSTANTS
    cpA = cpA
    cpB = cpB
    oA = oA
    oB = oB
    CPs <- MCCPs
    Others <- MCOthers
    MaxChanges = 3
    MaxRestarts = 1
    MaxSaveFailures = 1
    ChangesDuringStartup = FALSE
SPECIFICATION Spec
INVARIANT TypeOK
INVARIANT FreshWhenQuiescent
CHECK_DEADLOCK FALSE
PROPERTY ConvergesToValidConfig
PROPERTY ImplementsConfigSnapshot
PROPERTY ShutdownCompletes
