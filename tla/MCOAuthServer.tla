--------------------------- MODULE MCOAuthServer ---------------------------
(* Instances of OAuthServer: alice administers in one file and not in the     *)
(* other; a broken file lists both ways to be half-loaded.                    *)

EXTENDS OAuthServer

CONSTANTS alice, bob, sales, ops, quack_permissions

Subjects == {alice, bob}
SomeViews == {sales, ops}
OneInternal == {quack_permissions}
Tables == SomeViews \cup OneInternal

AdminFile == [admins |-> {alice}, perms |-> {<<bob, sales>>}, fault |-> "none"]
PlainFile == [admins |-> {}, perms |-> {<<alice, sales>>, <<bob, ops>>}, fault |-> "none"]
BrokenFile == [admins |-> {bob}, perms |-> {<<alice, sales>>, <<bob, ops>>}, fault |-> "user"]

ValidFiles == {AdminFile, PlainFile}
AllFiles == ValidFiles \cup {BrokenFile}
===========================================================================
