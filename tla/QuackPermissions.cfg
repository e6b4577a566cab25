SPECIFICATION Spec
SYMMETRY Alike
CONSTANTS
    alice_sales = alice_sales
    bob_sales = bob_sales
    Syncer = {p1, p2, p3}
    Grant <- Pairs
    Mappings <- UpToOne
    InitialTables <- AllSets
    DatabaseErrors = FALSE
INVARIANTS
    TypeOK
    OneWriter
PROPERTIES
    ReplacesWholeTable
    WriterCommits
    ImplementsGrantTable
