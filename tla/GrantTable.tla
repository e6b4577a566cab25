----------------------------- MODULE GrantTable -----------------------------
(* What Server.SyncPermissions (src/server.go:377-416) promises its callers:  *)
(* the grant table holds exactly the pairs of the last mapping applied, plus  *)
(* pairs GrantAccess added since.  A sync is a promise to replace the whole   *)
(* table; it is kept in one step, or not at all.  What the code cannot        *)
(* promise: of two syncs under way at once, one of which found the table      *)
(* empty, the later one may leave the mapping of the earlier in place.        *)

CONSTANTS Syncer,       \* goroutines that call SyncPermissions
          Grant,        \* the (subject, table) pairs
          InitialTables \* the tables a database can hold when the server opens it

VARIABLES grants,   \* the pairs the authorization macro reads
          pending,  \* the mapping each syncer is applying: {S}, or {} for none
          blank,    \* did it find the table empty?
          late      \* pairs added while it was at work that it may leave there

vars == <<grants, pending, blank, late>>

Init == /\ grants \in InitialTables
        /\ pending = [p \in Syncer |-> {}]
        /\ blank = [p \in Syncer |-> FALSE]
        /\ late = [p \in Syncer |-> {}]

Begin(p, S) == /\ pending[p] = {}
               /\ pending' = [pending EXCEPT ![p] = {S}]
               /\ blank' = [blank EXCEPT ![p] = (grants = {})]
               /\ late' = [late EXCEPT ![p] = {}]
               /\ UNCHANGED grants

\* The table becomes the mapping; pairs added meanwhile may or may not survive,
\* and nothing else does.  Syncs that need not replace this mapping are told.
Apply(p) ==
    \E S \in pending[p] :
       /\ \E kept \in SUBSET late[p] : grants' = S \cup kept
       /\ pending' = [pending EXCEPT ![p] = {}]
       /\ blank' = [blank EXCEPT ![p] = FALSE]
       /\ late' = [q \in Syncer |->
                     CASE q = p -> {}
                       [] q # p /\ pending[q] # {} /\ (blank[p] \/ blank[q]) -> late[q] \cup S
                       [] OTHER -> late[q]]

Abandon(p) == /\ pending[p] # {}
              /\ pending' = [pending EXCEPT ![p] = {}]
              /\ blank' = [blank EXCEPT ![p] = FALSE]
              /\ late' = [late EXCEPT ![p] = {}]
              /\ UNCHANGED grants

Add(g) == /\ grants' = grants \cup {g}
          /\ late' = [p \in Syncer |-> IF pending[p] = {} THEN late[p] ELSE late[p] \cup {g}]
          /\ UNCHANGED <<pending, blank>>

Next == \/ \E p \in Syncer : \/ \E S \in SUBSET Grant : Begin(p, S)
                             \/ Apply(p)
                             \/ Abandon(p)
        \/ \E g \in Grant : Add(g)

Spec == Init /\ [][Next]_vars
=============================================================================
