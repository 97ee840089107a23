SPECIFICATION FairSpec
CONSTANTS
    Clients = {c1, c2}
    Nobody = Nobody
    MaxClients = 2
    Statements = {"INSERT", "SCAN"}
    MaxStatements = 2
    MaxRows = 1
    MaxLists = 1
CHECK_DEADLOCK FALSE
PROPERTY ReadersNeverBlockWriters
