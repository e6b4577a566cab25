------------------------ MODULE ViewBootstrap_proofs ------------------------
(* Proofs about ViewBootstrap, for any settings, schema files and readers,    *)
(* and any number of failures, restarts and edits of the schema file.         *)

EXTENDS ViewBootstrap, WellFoundedInduction, TLAPS

\* What the bootstrap has read is a schema file that was checked.
Checked ==
    /\ file \in SchemaFiles
    /\ schemas = {} \/ (schemas \in SchemaFiles /\ ~LoadViewSchemasFails(schemas))

\* How far the bootstrap is tells what it has read and created.
Progress ==
    /\ stage \in Stages
    /\ stage \in {"off", "starting", "parse", "extensions", "schemas"} =>
         \A v \in View \ found : catalog[v] = {}
    /\ stage = "create" =>
         /\ schemas # {} /\ todo \subseteq Views(setting)
         /\ \A v \in Views(setting) \ todo : catalog[v] # {}

Typed == setting \in Settings /\ DOMAIN catalog = View

IInv == Typed /\ Checked /\ Progress /\ ColumnsOnce /\ OneConfiguration

-----------------------------------------------------------------------------

\* S3_VIEWS names views.
LEMMA ViewsAreViews ==
    ASSUME setting \in Settings
    PROVE  Views(setting) \subseteq View
<1>1. setting \in Seq([name : View, path : Path] \cup {Malformed})
  BY BootstrapAssumption
<1>2. \A i \in DOMAIN setting : setting[i] \in [name : View, path : Path] \cup {Malformed}
  BY <1>1
<1> QED
  BY <1>2 DEF Views, ParseS3ViewsFails, Range

\* A view that is created from a checked file selects no column twice.
LEMMA DefinitionOnce ==
    ASSUME NEW F \in SchemaFiles, ~LoadViewSchemasFails(F), NEW f \in F, NEW v \in View
    PROVE  LET def == Definition(setting, f, v)
           IN  Distinct(def.select) /\ (def.hive => def.select = <<>>)
<1> DEFINE d == SchemaOf(f, v)
           vortex == ReaderForPath(PathOf(setting, v)) = "read_vortex"
           def == Definition(setting, f, v)
<1>1. /\ def.hive = (d.columns = <<>> /\ ~vortex)
      /\ def.select = IF d.columns # <<>> /\ ~vortex THEN Names(d) \o d.partitions ELSE <<>>
  BY DEF Definition, ViewQuery
<1>2. Distinct(<<>>)
  BY DEF Distinct
<1>3. CASE d.columns = <<>> \/ vortex
  BY <1>1, <1>2, <1>3
<1>4. CASE d.columns # <<>> /\ ~vortex
  <2>1. v \in DOMAIN f /\ d = f[v]
    BY <1>4 DEF SchemaOf, NoSchema
  <2>2. d \in Declarations /\ WellFormed(d)
    BY <2>1, BootstrapAssumption DEF LoadViewSchemasFails
  <2>3. Distinct(Names(d) \o d.partitions)
    BY <2>2 DEF WellFormed
  <2> QED
    BY <1>1, <1>4, <2>3
<1> QED
  BY <1>3, <1>4

-----------------------------------------------------------------------------

\* At first there are no views.
LEMMA InitIInv == Init => IInv
  BY DEF Init, IInv, Typed, Checked, Progress, ColumnsOnce, OneConfiguration, NoViews, Stages

\* A CREATE leaves the views it finds alone, and adds one from the schemas.
LEMMA CreateKeeps ==
    ASSUME IInv, NEW v \in View, CreateView(v)
    PROVE  IInv'
<1> USE DEF IInv
<1>1. /\ stage = "create" /\ v \in todo /\ todo' = todo \ {v}
      /\ UNCHANGED <<setting, file, stage, schemas, found>>
  BY DEF CreateView
<1>2. DOMAIN catalog' = View /\ \A w \in View \ {v} : catalog'[w] = catalog[w]
  BY DEF CreateView, Typed
<1>3. catalog'[v] = IF catalog[v] # {} THEN catalog[v]
                    ELSE {Definition(setting, f, v) : f \in schemas}
  BY DEF CreateView, Typed
<1>4. catalog'[v] # {}
  <2>1. PICK f \in schemas : TRUE
    BY <1>1 DEF Progress
  <2>2. Definition(setting, f, v) \in {Definition(setting, g, v) : g \in schemas}
    BY <2>1
  <2> QED
    BY <1>3, <2>2
<1>5. Typed' /\ Checked'
  BY <1>1, <1>2 DEF Typed, Checked
<1>6. Progress'
  <2>1. Views(setting)' = Views(setting) /\ Views(setting) \subseteq View
    BY <1>1, ViewsAreViews DEF Typed, Views, ParseS3ViewsFails
  <2>2. \A w \in Views(setting) \ todo' : catalog'[w] # {}
    BY <1>1, <1>2, <1>4, <2>1 DEF Progress
  <2> QED
    BY <1>1, <2>1, <2>2 DEF Progress
<1>7. ColumnsOnce'
  <2>1. ASSUME NEW f \in schemas
        PROVE  LET def == Definition(setting, f, v)
               IN  Distinct(def.select) /\ (def.hive => def.select = <<>>)
    BY DefinitionOnce DEF Checked
  <2>2. \A def \in catalog'[v] : Distinct(def.select) /\ (def.hive => def.select = <<>>)
    BY <1>3, <2>1 DEF ColumnsOnce
  <2> QED
    BY <1>2, <2>2 DEF ColumnsOnce
<1>8. OneConfiguration'
  <2>1. ASSUME v \notin found
        PROVE  \A def \in catalog'[v] : \E f \in schemas : def = Definition(setting, f, v)
    BY <1>3, <2>1 DEF OneConfiguration
  <2>2. \A w \in View \ found : \A def \in catalog'[w] :
            \E f \in schemas : def = Definition(setting, f, w)
    BY <1>2, <2>1 DEF OneConfiguration
  <2> QED
    BY <1>1, <2>2 DEF OneConfiguration
<1> QED
  BY <1>5, <1>6, <1>7, <1>8

\* No other step creates a view.
LEMMA NextIInv == IInv /\ [Next]_vars => IInv'
<1> SUFFICES ASSUME IInv, [Next]_vars
             PROVE  IInv'
  OBVIOUS
<1> USE DEF IInv, Typed, Checked, Progress, ColumnsOnce, OneConfiguration, Goto, Stages
<1>1. CASE UNCHANGED vars
  BY <1>1 DEF vars
<1>2. CASE Launch
  BY <1>2 DEF Launch
<1>3. CASE ServerUp
  <2>1. setting = <<>> => Views(setting) = {}
    BY DEF Views, Range
  <2> QED
    BY <1>3, <2>1 DEF ServerUp
<1>4. CASE ParseS3Views
  BY <1>4 DEF ParseS3Views
<1>5. CASE LoadExtensions
  BY <1>5 DEF LoadExtensions
<1>6. CASE ExtensionFails
  BY <1>6 DEF ExtensionFails
<1>7. CASE LoadSchemas
  <2>1. CASE LoadViewSchemasFails(file) \/ \E f \in file : ~(DOMAIN f \subseteq Views(setting))
    BY <1>7, <2>1 DEF LoadSchemas
  <2>2. CASE ~LoadViewSchemasFails(file) /\ \A f \in file : DOMAIN f \subseteq Views(setting)
    BY <1>7, <2>2 DEF LoadSchemas, LoadViewSchemasFails
  <2> QED
    BY <2>1, <2>2
<1>8. ASSUME NEW v \in View, CreateView(v)
      PROVE  IInv'
  BY <1>8, CreateKeeps
<1>9. ASSUME NEW v \in View, CreateFails(v)
      PROVE  IInv'
  BY <1>9 DEF CreateFails
<1>10. CASE Created
  BY <1>10 DEF Created
<1>11. CASE Exit
  BY <1>11 DEF Exit, NoViews
<1>12. ASSUME NEW F \in SchemaFiles, EditSchemaFile(F)
       PROVE  IInv'
  BY <1>12 DEF EditSchemaFile
<1> QED
  BY <1>1, <1>2, <1>3, <1>4, <1>5, <1>6, <1>7, <1>8, <1>9, <1>10, <1>11, <1>12 DEF Next

\* The files are read once and checked when they are; what is there is kept.
THEOREM Invariance == Spec => []IInv
  BY InitIInv, NextIInv, PTL DEF Spec

\* Whatever the file was when main looked at it, no view has a column twice.
THEOREM ColumnsOnceHolds == Spec => []ColumnsOnce
<1>1. IInv => ColumnsOnce
  BY DEF IInv
<1> QED
  BY Invariance, <1>1, PTL

\* However the file is edited while views are created one by one, those of one
\* process come from one version of it, and when it is done none is missing.
THEOREM OneConfigurationHolds == Spec => []OneConfiguration
<1>1. IInv => OneConfiguration
  BY DEF IInv
<1> QED
  BY Invariance, <1>1, PTL

-----------------------------------------------------------------------------
(* Types.                                                                     *)

\* Only views of S3_VIEWS are to be created: none when it could not be parsed.
Typing ==
    /\ kept \in BOOLEAN
    /\ todo \subseteq Views(setting)
    /\ \A v \in View : \A def \in catalog[v] : def.from.path \in Path /\ def.select \in Seq(Column)
    /\ found \subseteq View
    /\ trouble \in 0..MaxTrouble

\* A set of natural numbers under a bound has a last one.
LEMMA HasLast ==
    ASSUME NEW n \in Nat, NEW I \in SUBSET (1..n), I # {}
    PROVE  \E i \in I : \A j \in I : j <= i
<1> DEFINE T == {n - i : i \in I}
<1>1. T \subseteq Nat /\ T # {}
  <2>1. \A i \in I : n - i \in Nat
    OBVIOUS
  <2>2. PICK i \in I : TRUE
    OBVIOUS
  <2>3. n - i \in T
    BY <2>2
  <2> QED
    BY <2>1, <2>3
<1>2. PICK x \in T : \A y \in T : <<y, x>> \notin OpToRel(<, Nat)
  BY <1>1, WFMin, NatLessThanWellFounded, Zenon
<1>3. \A y \in T : ~(y < x)
  <2>1. \A y \in Nat : y < x => <<y, x>> \in OpToRel(<, Nat)
    BY <1>1, Zenon DEF OpToRel
  <2> QED
    BY <1>1, <1>2, <2>1
<1>4. PICK i \in I : x = n - i
  OBVIOUS
<1>5. ASSUME NEW j \in I
      PROVE  j <= i
  <2>1. ~(n - j < n - i)
    BY <1>3, <1>4
  <2> QED
    BY <2>1
<1> QED
  BY <1>5

\* The path of a view of S3_VIEWS is one of its entries'.
LEMMA PathIsPath ==
    ASSUME setting \in Settings, NEW v \in Views(setting)
    PROVE  PathOf(setting, v) \in Path
<1> DEFINE I == {i \in DOMAIN setting : setting[i].name = v}
<1>1. setting \in Seq([name : View, path : Path] \cup {Malformed})
  BY BootstrapAssumption
<1>2. \A i \in DOMAIN setting : setting[i] \in [name : View, path : Path]
  <2>1. \A i \in DOMAIN setting : setting[i] # Malformed
    BY DEF Views, ParseS3ViewsFails, Range
  <2> QED
    BY <1>1, <2>1
<1>3. I # {}
  BY DEF Views, Range
<1>4. \E i \in DOMAIN setting : setting[i].name = v /\ \A j \in DOMAIN setting :
                                                           setting[j].name = v => j <= i
  <2>1. I \subseteq 1..Len(setting) /\ Len(setting) \in Nat
    BY <1>1
  <2>2. PICK i \in I : \A j \in I : j <= i
    BY <1>3, <2>1, HasLast
  <2> QED
    BY <2>2
<1>5. PICK i \in DOMAIN setting : PathOf(setting, v) = setting[i].path
  BY <1>4 DEF PathOf
<1> QED
  BY <1>2, <1>5

\* What a checked file makes a view select are columns.
LEMMA SelectsColumns ==
    ASSUME NEW F \in SchemaFiles, ~LoadViewSchemasFails(F), NEW f \in F, NEW v \in View
    PROVE  Definition(setting, f, v).select \in Seq(Column)
<1> DEFINE d == SchemaOf(f, v)
<1>1. Definition(setting, f, v).select \in {<<>>, Names(d) \o d.partitions}
  BY DEF Definition, ViewQuery
<1>2. CASE v \notin DOMAIN f
  <2>1. Definition(setting, f, v).select = <<>>
    BY <1>2 DEF Definition, ViewQuery, SchemaOf, NoSchema
  <2> QED
    BY <2>1
<1>3. CASE v \in DOMAIN f
  <2>1. d = f[v] /\ d \in Declarations /\ WellFormed(d)
    BY <1>3, BootstrapAssumption DEF SchemaOf, LoadViewSchemasFails
  <2> HIDE DEF d
  <2>2. d.partitions \in Seq(Column)
    <3>1. d.partitions \in Seq(Column \cup {NoName})
      BY <2>1 DEF Declarations
    <3>2. \A i \in 1..Len(d.partitions) : d.partitions[i] \in Column
      BY <2>1, <3>1, BootstrapAssumption DEF WellFormed, Range
    <3> QED
      BY <3>1, <3>2
  <2>3. Names(d) \in Seq(Column)
    <3> DEFINE R == [name : Column \cup {NoName}, typed : BOOLEAN]
    <3>1. \A r \in R : r.name # NoName => r.name \in Column
      OBVIOUS
    <3>2. d.columns \in Seq(R)
      BY <2>1 DEF Declarations
    <3> HIDE DEF R
    <3>3. DOMAIN d.columns = 1..Len(d.columns) /\ Len(d.columns) \in Nat
      BY <3>2
    <3>4. \A i \in 1..Len(d.columns) : d.columns[i] \in R /\ d.columns[i].name # NoName
      BY <2>1, <3>2, <3>3 DEF WellFormed, Range
    <3>5. Names(d) \in [1..Len(d.columns) -> Column]
      BY <3>1, <3>3, <3>4 DEF Names
    <3> QED
      BY <3>3, <3>5
  <2>4. Names(d) \o d.partitions \in Seq(Column)
    BY <2>2, <2>3
  <2>5. <<>> \in Seq(Column)
    OBVIOUS
  <2> QED
    BY <1>1, <2>4, <2>5, Zenon
<1> QED
  BY <1>2, <1>3

\* A view is created from an entry and a checked file; the rest is as it was.
LEMMA CreateTypes ==
    ASSUME IInv, Typing, NEW v \in View, CreateView(v)
    PROVE  Typing'
<1>1. /\ v \in todo /\ todo' = todo \ {v}
      /\ UNCHANGED <<setting, kept, found, trouble>>
  BY DEF CreateView
<1>2. DOMAIN catalog' = View /\ \A w \in View \ {v} : catalog'[w] = catalog[w]
  BY DEF CreateView, IInv, Typed
<1>3. catalog'[v] = IF catalog[v] # {} THEN catalog[v]
                    ELSE {Definition(setting, f, v) : f \in schemas}
  BY DEF CreateView, IInv, Typed
<1>4. ASSUME NEW f \in schemas
      PROVE  LET def == Definition(setting, f, v)
             IN  def.from.path \in Path /\ def.select \in Seq(Column)
  <2>1. schemas \in SchemaFiles /\ ~LoadViewSchemasFails(schemas)
    BY DEF IInv, Checked
  <2>2. Definition(setting, f, v).select \in Seq(Column)
    BY <2>1, SelectsColumns
  <2>3. v \in Views(setting) /\ setting \in Settings
    BY <1>1 DEF Typing, IInv, Typed
  <2>4. Definition(setting, f, v).from.path = PathOf(setting, v)
    BY DEF Definition, ViewQuery
  <2> QED
    BY <2>2, <2>3, <2>4, PathIsPath
<1>5. \A def \in catalog'[v] : def.from.path \in Path /\ def.select \in Seq(Column)
  BY <1>3, <1>4 DEF Typing
<1>6. Views(setting)' = Views(setting)
  BY <1>1 DEF Views, ParseS3ViewsFails
<1> QED
  BY <1>1, <1>2, <1>5, <1>6 DEF Typing

\* No other step creates a view, and only LoadSchemas finds what is to be done.
LEMMA NextTypes == IInv /\ Typing /\ [Next]_vars => Typing'
<1> SUFFICES ASSUME IInv, Typing, [Next]_vars
             PROVE  Typing'
  OBVIOUS
<1>1. UNCHANGED setting => UNCHANGED Views(setting)
  BY DEF Views, ParseS3ViewsFails
<1> USE <1>1 DEF Typing
<1>2. CASE UNCHANGED vars
  BY <1>2 DEF vars
<1>3. CASE Launch \/ ServerUp \/ ParseS3Views \/ LoadExtensions \/ Created
  BY <1>3 DEF Launch, ServerUp, ParseS3Views, LoadExtensions, Created
<1>4. trouble < MaxTrouble => trouble + 1 \in 0..MaxTrouble
  BY BootstrapAssumption
<1>5. CASE ExtensionFails
  BY <1>4, <1>5 DEF ExtensionFails, Trouble
<1>6. CASE LoadSchemas
  BY <1>6 DEF LoadSchemas
<1>7. ASSUME NEW v \in View, CreateView(v)
      PROVE  Typing'
  BY <1>7, CreateTypes
<1>8. ASSUME NEW v \in View, CreateFails(v)
      PROVE  Typing'
  BY <1>4, <1>8 DEF CreateFails, Trouble
<1>9. CASE Exit
  BY <1>4, <1>9 DEF Exit, Trouble, NoViews
<1>10. ASSUME NEW F \in SchemaFiles, EditSchemaFile(F)
       PROVE  Typing'
  BY <1>10 DEF EditSchemaFile
<1> QED
  BY <1>2, <1>3, <1>5, <1>6, <1>7, <1>8, <1>9, <1>10 DEF Next

\* The views of the database read one of the paths and select columns, and the
\* rest of the state keeps its type, over any restarts and edits.
THEOREM TypeCorrect == Spec => []TypeOK
<1>1. Init => Typing
  BY BootstrapAssumption DEF Init, Typing, NoViews
<1>2. IInv /\ Typing => TypeOK
  <2>1. setting \in Settings => Views(setting) \subseteq View
    BY ViewsAreViews
  <2>2. Checked => schemas \in SUBSET UNION SchemaFiles
    BY DEF Checked
  <2> QED
    BY <2>1, <2>2 DEF IInv, Typed, Checked, Progress, Typing, TypeOK
<1> QED
  BY Invariance, NextTypes, <1>1, <1>2, PTL DEF Spec
=============================================================================
