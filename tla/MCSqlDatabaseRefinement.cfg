SPECIFICATION FairSpec
CONSTANTS
    Session = {s1, s2}
    Stmt <- ExactStmt
    Textual <- ExactStmt
    Ddl <- MCDdl
    Content <- MCContent
    Exec <- MCExec
    Optimize <- MCOptimize
    ExecError = ExecError
    InitContent = 1
    LegacyWal <- NoLegacyWal
    Faults = {}
    MaxVersion = 2
    MaxStmts = 2
    MaxCrashes = 2
    MaxFaults = 0
    MaxContent = 10
PROPERTIES ImplementsStore LockIsReleased ReplayFinishes
