SPECIFICATION Spec
CONSTANTS
    Session = {s1}
    Stmt <- MCStmt
    Textual <- MCStmt
    Ddl <- MCDdl
    Content <- MCContent
    Exec <- MCExec
    Optimize <- MCOptimize
    ExecError = ExecError
    InitContent = 1
    LegacyWal <- NoLegacyWal
    Faults = {"torn"}
    MaxVersion = 3
    MaxStmts = 1
    MaxCrashes = 2
    MaxFaults = 1
    MaxContent = 30
INVARIANT Current
