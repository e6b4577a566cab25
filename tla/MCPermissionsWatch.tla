------------------------ MODULE MCPermissionsWatch ------------------------
(* Instances of PermissionsWatch: two subjects, two tables, three contents -  *)
(* one where alice is an administrator, one where she is not, one broken.     *)

EXTENDS PermissionsWatch

CONSTANTS alice, bob, sales, ops

Subjects == {alice, bob}
Tables == {sales, ops}

AdminFile == [admins |-> {alice}, perms |-> {<<bob, sales>>}, fault |-> "none"]
PlainFile == [admins |-> {}, perms |-> {<<alice, sales>>, <<bob, ops>>}, fault |-> "none"]
Broken(fault) == [PlainFile EXCEPT !.admins = {bob}, !.fault = fault]

ValidFiles == {AdminFile, PlainFile}
AllFiles == ValidFiles \cup {Broken(f) : f \in Faults \ {"none"}}
===========================================================================
