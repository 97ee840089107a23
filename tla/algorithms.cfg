SPECIFICATION Spec
CONSTANTS
    Int64Max = 3
    MaxStatementBytes = 5
    Keys = {0, 1, 2}
    Exprs <- MCExprs
    ExprRows <- MCExprRows
    ExprTables <- MCExprTables
    Refs <- MCRefs
    Contexts <- MCContexts
    Statements <- MCStatements
    Texts <- MCTexts
    Tables <- MCTables
    Selects <- MCSelects
    WideTables <- MCWideTables
    Writes <- MCWrites
    Users <- MCUsers
    Stores <- MCStores
    Scans <- MCScans
    Logs <- MCLogs
    Edits <- MCEdits
    Records <- MCRecords
    RowKeys <- MCRowKeys
    Results <- MCResults
    ClientTexts <- MCClientTexts
INVARIANTS
    EvalIsKleene
    ResolveExact
    ParserExact
    SelectMatchesReference
    WritesAllOrNothing
    StoreExact
    ScanExact
    FilesRecovered
    RecordsDecode
    
