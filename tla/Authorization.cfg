SPECIFICATION Spec
CONSTANTS
    alice = alice
    bob = bob
    sales = sales
    Sales = Sales
    ops = ops
    Sid = {c1}
    Sub <- Subjects
    Name <- Names
    Fold <- LowerCase
    Statements <- SomeStatements
    Catalogs <- SomeCatalogs
    Extra <- OneGrant
    Syncer = {p1, p2}
    Mappings <- SomeMappings
    InitialTables <- FirstTable
    DatabaseErrors = TRUE
INVARIANTS
    TypeOK
    ReadsOnlyGranted
PROPERTIES
    NoLapse
