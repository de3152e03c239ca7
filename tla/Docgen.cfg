SPECIFICATION Spec
CONSTANTS
    Projects <- MCProjects
    Writable <- MCWritable
    Statements <- MCStatements
    MaxStatements <- MCMaxStatements
    Locals = {"r", "auth", "adm", "grp", "al", "req", "ids"}
    Parts <- MCParts
    NoGit = NoGit
    MaxSnapshots = 2
    Sources <- MCSources
    LabelledPrefixes = {"user"}
    MaxCommit = 2
    MaxEdits = 2
    MaxRuns = 3
    MCMaxRouter = 7
    MCMaxHandler = 3
CHECK_DEADLOCK FALSE
INVARIANTS   ChangesAreTold DocumentsStand
 
