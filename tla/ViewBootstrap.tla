---------------------------- MODULE ViewBootstrap ----------------------------
(* The views of cmd/oauth-server: S3_VIEWS and the file VIEW_SCHEMA_PATH,     *)
(* which main checks before anything else and the bootstrap goroutine reads   *)
(* once more when the server is up, and the views it creates from them, in a  *)
(* database that may outlive the process.  A view is created by a statement   *)
(* that talks to S3, and may fail; so may the download of an extension.       *)

EXTENDS Naturals, Sequences, FiniteSets

CONSTANTS View, Path, Column,
          Extension,    \* of each path, in lower case
          PathKeys,     \* columns isPartitionName accepts
          Filename,     \* the column that `filename = true` adds
          Settings,     \* what S3_VIEWS may be: sequences of [name, path], Malformed
          Malformed,    \* an entry that is not name=path
          SchemaFiles,  \* {f}: f a function from views to declarations; {} if
                        \* the file is missing or is not YAML
          MaxTrouble    \* bound: statements that fail, processes that are killed

\* A declaration: its columns, of which some may lack a name or a type, and its
\* partitions.
NoName == "no name"
Declarations == [columns : Seq([name : Column \cup {NoName}, typed : BOOLEAN]),
                 partitions : Seq(Column \cup {NoName})]
NoSchema == [columns |-> <<>>, partitions |-> <<>>]
NoFile == <<>>  \* no declarations at all

ASSUME BootstrapAssumption ==
    /\ Extension \in [Path -> STRING]
    /\ PathKeys \subseteq Column
    /\ \A s \in Settings : s \in Seq([name : View, path : Path] \cup {Malformed})
    /\ Malformed \notin [name : View, path : Path]
    /\ \A F \in SchemaFiles : \A f \in F : \A v \in DOMAIN f : f[v] \in Declarations
    /\ MaxTrouble \in Nat

VARIABLES setting,  \* S3_VIEWS
          kept,     \* is DUCKDB_PATH set?
          file,     \* the schema file
          stage,    \* how far the process is
          todo,     \* the views whose CREATE is to come
          schemas,  \* loadViewSchemas as bootstrapViews called it
          catalog,  \* views of the database: {definition}, or {} for none
          found,    \* history: those the process finds, or found, at its start
          trouble

vars == <<setting, kept, file, stage, todo, schemas, catalog, found, trouble>>

Range(s) == {s[i] : i \in DOMAIN s}
Distinct(s) == \A i, j \in DOMAIN s : s[i] = s[j] => i = j

-----------------------------------------------------------------------------
(* parseS3Views, loadViewSchemas, viewQuery.                                  *)

ParseS3ViewsFails(s) == Malformed \in Range(s)

Views(s) == IF ParseS3ViewsFails(s) THEN {} ELSE {e.name : e \in Range(s)}

\* views[name] = path, entry after entry: the last one stays.
PathOf(s, v) == LET last == CHOOSE i \in DOMAIN s :
                              /\ s[i].name = v
                              /\ \A j \in DOMAIN s : s[j].name = v => j <= i
                IN s[last].path

Names(d) == [i \in DOMAIN d.columns |-> d.columns[i].name]

\* Mutant: partitions are not looked up among the columns.
WellFormedApart(d) ==
    /\ d.columns # <<>>
    /\ \A c \in Range(d.columns) : c.name # NoName /\ c.typed
    /\ Range(d.partitions) \subseteq PathKeys
    /\ Distinct(Names(d)) /\ Distinct(d.partitions)

WellFormed(d) ==
    /\ d.columns # <<>>
    /\ \A c \in Range(d.columns) : c.name # NoName /\ c.typed
    /\ Range(d.partitions) \subseteq PathKeys
    /\ Distinct(Names(d) \o d.partitions)

LoadViewSchemasFails(F) ==
    F = {} \/ \E f \in F : \E v \in DOMAIN f : ~WellFormed(f[v])

ReaderForPath(p) == CASE Extension[p] \in {"vortex", "vx"}   -> "read_vortex"
                      [] Extension[p] \in {"csv", "tsv"}     -> "read_csv_auto"
                      [] Extension[p] \in {"json", "ndjson"} -> "read_json_auto"
                      [] OTHER                               -> "read_parquet"

\* What a view selects: declared columns, without the one that `filename = true`
\* adds, then partitions rebuilt from the path; or the columns of a file, with
\* those of the path (hive) or without.
ViewQuery(p, d) ==
    LET reader == ReaderForPath(p)
        declared == d.columns # <<>>
        plain == reader = "read_vortex"
    IN [from |-> [reader |-> reader, path |-> p],
        hive |-> ~declared /\ ~plain,
        select |-> IF declared /\ ~plain THEN Names(d) \o d.partitions ELSE <<>>]

\* A reader that takes no schema, or one that cannot add `filename` to it.
Unbindable(p, d) == /\ d.columns # <<>>
                    /\ \/ ReaderForPath(p) = "read_vortex"
                       \/ d.partitions # <<>> /\ Filename \in Range(Names(d))

SchemaOf(f, v) == IF v \in DOMAIN f THEN f[v] ELSE NoSchema

Definition(s, f, v) == ViewQuery(PathOf(s, v), SchemaOf(f, v))

-----------------------------------------------------------------------------

Stages == {"off", "starting", "parse", "extensions", "schemas", "create", "done", "failed"}

TypeOK == /\ setting \in Settings
          /\ kept \in BOOLEAN
          /\ file \in SchemaFiles
          /\ stage \in Stages
          /\ todo \subseteq View
          /\ schemas \in SUBSET UNION SchemaFiles
          /\ DOMAIN catalog = View
          /\ \A v \in View : \A def \in catalog[v] :
                /\ def.from.path \in Path
                /\ def.select \in Seq(Column)
          /\ found \subseteq View
          /\ trouble \in 0..MaxTrouble

NoViews == [v \in View |-> {}]

Init == /\ setting \in Settings /\ kept \in BOOLEAN
        /\ file \in SchemaFiles
        /\ stage = "off"
        /\ todo = {} /\ schemas = {}
        /\ catalog = NoViews /\ found = {}
        /\ trouble = 0

Goto(from, to) == stage = from /\ stage' = to

Trouble == trouble < MaxTrouble /\ trouble' = trouble + 1

\* main's eager look at the schema file, which ends the process if it fails;
\* what it returns is dropped.
Launch == /\ Goto("off", IF LoadViewSchemasFails(file) THEN "off" ELSE "starting")
          /\ UNCHANGED <<setting, kept, file, todo, schemas, catalog, found, trouble>>

\* The server starts; without S3_VIEWS there is nothing to do.
ServerUp == /\ Goto("starting", IF setting = <<>> THEN "done" ELSE "parse")
            /\ UNCHANGED <<setting, kept, file, todo, schemas, catalog, found, trouble>>

ParseS3Views == /\ Goto("parse", IF ParseS3ViewsFails(setting) THEN "failed" ELSE "extensions")
                /\ UNCHANGED <<setting, kept, file, todo, schemas, catalog, found, trouble>>

\* INSTALL vortex, LOAD vortex.
LoadExtensions == /\ Goto("extensions", "schemas")
                  /\ UNCHANGED <<setting, kept, file, todo, schemas, catalog, found, trouble>>

ExtensionFails == /\ \E v \in Views(setting) : ReaderForPath(PathOf(setting, v)) = "read_vortex"
                  /\ Goto("extensions", "failed")
                  /\ Trouble
                  /\ UNCHANGED <<setting, kept, file, todo, schemas, catalog, found>>

\* Mutant: the file was checked before, and is not checked again.
LoadSchemasUnchecked ==
    /\ \/ file = {} /\ Goto("schemas", "failed") /\ UNCHANGED <<todo, schemas>>
       \/ file # {} /\ Goto("schemas", "create") /\ todo' = Views(setting) /\ schemas' = file
    /\ UNCHANGED <<setting, kept, file, catalog, found, trouble>>

LoadSchemas ==
    /\ IF LoadViewSchemasFails(file) \/ \E f \in file : ~(DOMAIN f \subseteq Views(setting))
         THEN Goto("schemas", "failed") /\ UNCHANGED <<todo, schemas>>
         ELSE Goto("schemas", "create") /\ todo' = Views(setting) /\ schemas' = file
    /\ UNCHANGED <<setting, kept, file, catalog, found, trouble>>

\* bootstrapViews refuses the schema, or DuckDB the statement made from it.
Refused(v) == \E f \in schemas : Unbindable(PathOf(setting, v), SchemaOf(f, v))

\* Mutant: without IF NOT EXISTS, it fails on a view that is there.
CreateAnew(v) ==
    /\ stage = "create" /\ v \in todo /\ ~Refused(v)
    /\ IF catalog[v] # {}
         THEN stage' = "failed" /\ UNCHANGED <<todo, catalog>>
         ELSE /\ todo' = todo \ {v}
              /\ catalog' = [catalog EXCEPT ![v] =
                               {Definition(setting, f, v) : f \in schemas}]
              /\ UNCHANGED stage
    /\ UNCHANGED <<setting, kept, file, schemas, found, trouble>>

\* Mutant: the file is read once more for every view.
CreateFromFile(v) ==
    /\ stage = "create" /\ v \in todo /\ ~Refused(v)
    /\ todo' = todo \ {v}
    /\ catalog' = IF catalog[v] # {} THEN catalog ELSE
                    [catalog EXCEPT ![v] = {Definition(setting, f, v) : f \in file}]
    /\ UNCHANGED <<setting, kept, file, stage, schemas, found, trouble>>

\* CREATE SECURE VIEW IF NOT EXISTS; the range over the map goes in any order.
CreateView(v) ==
    /\ stage = "create" /\ v \in todo /\ ~Refused(v)
    /\ todo' = todo \ {v}
    /\ catalog' = IF catalog[v] # {} THEN catalog ELSE
                    [catalog EXCEPT ![v] = {Definition(setting, f, v) : f \in schemas}]
    /\ UNCHANGED <<setting, kept, file, stage, schemas, found, trouble>>

\* A refused schema, or a statement that fails, ends the loop where it is.
CreateFails(v) == /\ v \in todo
                  /\ Goto("create", "failed")
                  /\ IF Refused(v) THEN UNCHANGED trouble ELSE Trouble
                  /\ UNCHANGED <<setting, kept, file, todo, schemas, catalog, found>>

Created == /\ todo = {}
           /\ Goto("create", "done")
           /\ UNCHANGED <<setting, kept, file, todo, schemas, catalog, found, trouble>>

\* A failure ends the process; so may anything else, at any time.
Exit == /\ stage # "off"
        /\ IF stage = "failed" THEN UNCHANGED trouble ELSE Trouble
        /\ stage' = "off"
        /\ todo' = {} /\ schemas' = {}
        /\ catalog' = IF kept THEN catalog ELSE NoViews
        /\ found' = {v \in View : catalog'[v] # {}}
        /\ UNCHANGED <<setting, kept, file>>

EditSchemaFile(F) == /\ file' = F
                     /\ UNCHANGED <<setting, kept, stage, todo, schemas, catalog, found, trouble>>

Next == \/ Launch \/ ServerUp \/ ParseS3Views \/ LoadExtensions \/ ExtensionFails
        \/ LoadSchemas
        \/ \E v \in View : CreateView(v) \/ CreateFails(v)
        \/ Created \/ Exit
        \/ \E F \in SchemaFiles : EditSchemaFile(F)

Spec == Init /\ [][Next]_vars

\* The process goes on, and is started again whenever it ends.
Forward == \/ Launch \/ ServerUp \/ ParseS3Views \/ LoadExtensions \/ LoadSchemas
           \/ \E v \in View : CreateView(v) \/ (Refused(v) /\ CreateFails(v))
           \/ Created
           \/ stage = "failed" /\ Exit

FairSpec == Spec /\ WF_vars(Forward)

-----------------------------------------------------------------------------
(* Properties.                                                                *)

\* No view has a column twice, be it declared or rebuilt from the path; neither
\* does a view rebuild partitions that DuckDB adds itself (loadViewSchemas,
\* viewQuery), whatever the file was at the check and what it is by now.
ColumnsOnce == \A v \in View : \A def \in catalog[v] :
    Distinct(def.select) /\ (def.hive => def.select = <<>>)

\* The views a process creates come from S3_VIEWS as it is and from one read of
\* the schema file, not from a mixture of its versions; and when bootstrapViews
\* is through, none is missing.
OneConfiguration ==
    /\ \A v \in View \ found : \A def \in catalog[v] :
          \E f \in schemas : def = Definition(setting, f, v)
    /\ stage = "done" => \A v \in Views(setting) : catalog[v] # {}

Accepted(F) == /\ ~LoadViewSchemasFails(F)
               /\ \A f \in F : /\ DOMAIN f \subseteq Views(setting)
                               /\ \A v \in DOMAIN f :
                                    ~Unbindable(PathOf(setting, v), f[v])

\* Once the configuration is good and stays so, the bootstrap gets through, in
\* the end, with every view in place, however often it failed or was killed
\* halfway and whatever it left in a database that is kept (bootstrapViews,
\* which can be repeated).
EventuallyBootstrapped ==
    ~ParseS3ViewsFails(setting) /\ <>[]Accepted(file)
        => <>[](stage = "done" /\ \A v \in Views(setting) : catalog[v] # {})
=============================================================================
