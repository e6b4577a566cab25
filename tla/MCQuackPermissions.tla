------------------------- MODULE MCQuackPermissions -------------------------
(* Instances of QuackPermissions: two pairs, mappings of at most one of them, *)
(* the empty one too, and every table to begin with, the empty one that Start *)
(* creates among them, for three alike callers (the bootstrap goroutine, the  *)
(* watcher and a third).                                                      *)

EXTENDS QuackPermissions, TLC

CONSTANTS alice_sales, bob_sales

Pairs == {alice_sales, bob_sales}
AllSets == SUBSET Pairs
UpToOne == {{}} \cup {{g} : g \in Pairs}

Alike == {f @@ g : f \in Permutations(Syncer), g \in Permutations(Pairs)}
=============================================================================
