SPECIFICATION FairSpec
CONSTANTS
    Clients = {c1, c2, c3}
    Nobody = Nobody
    MaxClients = 2
    Statements = {"BEGIN", "COMMIT", "DDL", "INSERT", "UPDATE", "GET", "SCAN", "LIMIT"}
    MaxStatements = 2
    MaxRows = 1
    MaxLists = 2
CHECK_DEADLOCK FALSE
INVARIANT SlotsExact
PROPERTIES
    OnlyScansBlock
    ServeEnds
