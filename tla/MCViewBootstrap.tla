--------------------------- MODULE MCViewBootstrap ---------------------------
(* Instances of ViewBootstrap: a view on parquet, one on vortex files; files  *)
(* with one declaration or none, and one each for what loadViewSchemas and    *)
(* bootstrapViews refuse.                                                     *)

EXTENDS ViewBootstrap

CONSTANTS v1, v2, parquet, vortex, id, org, bad, filename, malformed

TwoViews == {v1, v2}
Paths == {parquet, vortex}
Columns == {id, org, bad, filename}
Extensions == [p \in Paths |-> IF p = vortex THEN "vx" ELSE "parquet"]
Keys == {id, org}

Entry(v, p) == [name |-> v, path |-> p]
SomeSettings == { <<>>,
                  <<Entry(v1, parquet)>>,
                  <<Entry(v1, parquet), Entry(v2, vortex)>>,
                  <<Entry(v1, vortex), Entry(v1, parquet), Entry(v2, parquet)>>,
                  <<Entry(v1, parquet), malformed>> }

Col(c) == [name |-> c, typed |-> TRUE]
Declare(cols, parts) == [columns |-> cols, partitions |-> parts]
One(v, d) == {[w \in {v} |-> d]}

Plain == Declare(<<Col(id)>>, <<>>)
Partitioned == Declare(<<Col(id)>>, <<org>>)
Ambiguous == Declare(<<Col(id), Col(org)>>, <<org>>)

SomeFiles == { {}, {NoFile},
               One(v1, Plain), One(v1, Partitioned), One(v1, Ambiguous),
               One(v2, Partitioned), One(v1, Declare(<<Col(filename)>>, <<org>>)),
               {[w \in TwoViews |-> Plain]}, {[w \in TwoViews |-> Partitioned]},
               One(v1, Declare(<<>>, <<org>>)),
               One(v1, Declare(<<[name |-> id, typed |-> FALSE]>>, <<>>)),
               One(v1, Declare(<<Col(NoName)>>, <<>>)),
               One(v1, Declare(<<Col(id)>>, <<bad>>)) }
=============================================================================
