SPECIFICATION Spec
CONSTANTS
    Session = {s1, s2}
    Stmt <- MCStmt
    Textual <- MCStmt
    Ddl <- MCDdl
    Content <- MCContent
    Exec <- MCExec
    Optimize <- MCOptimize
    ExecError = ExecError
    InitContent = 1
    LegacyWal <- OneLegacyLine
    Faults = {"torn", "split", "unterminated", "write", "sync", "save"}
    MaxVersion = 3
    MaxStmts = 1
    MaxCrashes = 2
    MaxFaults = 2
    MaxContent = 10
INVARIANTS TypeOK DurableUnlessTainted OnlyUnreadableFails NoLostUpdate LogCoversHistory
CONSTRAINT Untainted
SYMMETRY SessionSymmetry
