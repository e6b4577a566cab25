SPECIFICATION FairSpec
CONSTANTS
    v1 = v1
    v2 = v2
    parquet = parquet
    vortex = vortex
    id = id
    org = org
    bad = bad
    filename = filename
    Filename = filename
    malformed = malformed
    View <- TwoViews
    Path <- Paths
    Column <- Columns
    Extension <- Extensions
    PathKeys <- Keys
    Settings <- SomeSettings
    Malformed <- malformed
    SchemaFiles <- SomeFiles
    MaxTrouble = 3
INVARIANTS
    TypeOK
    ColumnsOnce
    OneConfiguration
PROPERTIES
    EventuallyBootstrapped
