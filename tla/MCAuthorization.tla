--------------------------- MODULE MCAuthorization ---------------------------
(* Instances of Authorization: bob's grants change, alice's of sales stays;   *)
(* ops may be created late, and Sales is a spelling that no table has.        *)

EXTENDS Authorization, FiniteSets

CONSTANTS alice, bob, sales, Sales, ops

Subjects == {alice, bob}
Names == {sales, Sales, ops}
LowerCase == [n \in Names |-> IF n = Sales THEN sales ELSE n]

Narrow == {<<alice, sales>>, <<bob, Sales>>}
Wide == {<<alice, sales>>, <<bob, ops>>}
SomeMappings == {Narrow, Wide}
OneGrant == {<<bob, ops>>}
FirstTable == {Narrow}
SomeCatalogs == {{sales}, {sales, ops}}

Select(names, reads) == [kind |-> "select", names |-> names, reads |-> reads,
                         pattern |-> FALSE, outside |-> FALSE]

SomeStatements ==
    { Select({sales}, {sales}),
      Select({sales, ops}, {ops}),   \* sales in a comment, or an alias of ops
      Select({sales, ops}, {sales, ops}),
      Select({ops}, {ops}),
      [Select({sales}, {sales}) EXCEPT !.pattern = TRUE, !.outside = TRUE],
      [Select({ops}, {ops}) EXCEPT !.kind = "other"],
      [Select({}, {}) EXCEPT !.kind = "ungated"] }
=============================================================================
