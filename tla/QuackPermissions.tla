-------------------------- MODULE QuackPermissions --------------------------
(* The quack_permissions table of src/server.go and the two calls that write  *)
(* it: SyncPermissions, a transaction that deletes every row and inserts a    *)
(* mapping, and GrantAccess, one autocommitted insert.                        *)
(*                                                                            *)
(* DuckDB is external: a transaction reads the snapshot it began with;        *)
(* deleting a row that another transaction deleted since, committed or not,   *)
(* aborts the later deleter; a row another transaction inserted is invisible, *)
(* so two transactions of which one found the table empty do not conflict,    *)
(* unless both insert one (sub, allowed_table) pair, which the UNIQUE         *)
(* constraint refuses at the second commit.                                   *)

EXTENDS FiniteSets

CONSTANTS Syncer,         \* goroutines that call SyncPermissions
          Grant,          \* the (sub, allowed_table) pairs
          Mappings,       \* the mappings callers pass to SyncPermissions
          InitialTables,  \* the rows a database can hold when it is opened
          DatabaseErrors  \* may a statement fail for a reason of its own?

ASSUME ConstantsAssumption == /\ Mappings \subseteq SUBSET Grant
                              /\ InitialTables \subseteq SUBSET Grant
                              /\ DatabaseErrors \in BOOLEAN

VARIABLES rows,    \* committed rows of quack_permissions
          phase,   \* how far each syncer's transaction is
          want,    \* the grants argument of its SyncPermissions call
          snap,    \* rows its snapshot sees
          stale,   \* rows of its snapshot deleted by a commit since
          result,  \* what its last SyncPermissions call returned
          late,    \* history: pairs GrantAccess was given since it began
          merged   \* history: mappings committed since it began that its
                   \* DELETE does not meet, one of the two having found no row

vars == <<rows, phase, want, snap, stale, result, late, merged>>

Phases == {"idle", "begun", "written"}
Results == {"none", "nil", "error"}

TypeOK == /\ rows \subseteq Grant
          /\ phase \in [Syncer -> Phases]
          /\ want \in [Syncer -> SUBSET Grant]
          /\ snap \in [Syncer -> SUBSET Grant]
          /\ stale \in [Syncer -> SUBSET Grant]
          /\ result \in [Syncer -> Results]
          /\ late \in [Syncer -> SUBSET Grant]
          /\ merged \in [Syncer -> SUBSET Grant]

Active(p) == phase[p] # "idle"
Written(p) == phase[p] = "written"

Init == /\ rows \in InitialTables
        /\ phase = [p \in Syncer |-> "idle"]
        /\ want = [p \in Syncer |-> {}]
        /\ snap = [p \in Syncer |-> {}]
        /\ stale = [p \in Syncer |-> {}]
        /\ result = [p \in Syncer |-> "none"]
        /\ late = [p \in Syncer |-> {}]
        /\ merged = [p \in Syncer |-> {}]

\* The transaction of p is over, and SyncPermissions returns r.
Return(p, r) == /\ phase' = [phase EXCEPT ![p] = "idle"]
                /\ want' = [want EXCEPT ![p] = {}]
                /\ snap' = [snap EXCEPT ![p] = {}]
                /\ result' = [result EXCEPT ![p] = r]
                /\ late' = [late EXCEPT ![p] = {}]

\* The deferred tx.Rollback, on the way out with an error.
Rollback(p) == /\ Return(p, "error")
               /\ stale' = [stale EXCEPT ![p] = {}]
               /\ merged' = [merged EXCEPT ![p] = {}]
               /\ UNCHANGED rows

Begin(p, S) == /\ phase[p] = "idle"
               /\ phase' = [phase EXCEPT ![p] = "begun"]
               /\ want' = [want EXCEPT ![p] = S]
               /\ snap' = [snap EXCEPT ![p] = rows]
               /\ stale' = [stale EXCEPT ![p] = {}]
               /\ result' = [result EXCEPT ![p] = "none"]
               /\ late' = [late EXCEPT ![p] = {}]
               /\ merged' = [merged EXCEPT ![p] = {}]
               /\ UNCHANGED rows

\* Rows another transaction has deleted, as far as p's DELETE can tell.
DeletedByOthers(p) ==
    stale[p] \cup UNION {snap[q] : q \in {q \in Syncer \ {p} : Written(q)}}

DeleteConflict(p) == snap[p] \cap DeletedByOthers(p) # {}

\* Mutant: the DELETE outside the transaction.
WriteAutocommits(p) == /\ phase[p] = "begun"
                       /\ ~DeleteConflict(p)
                       /\ phase' = [phase EXCEPT ![p] = "written"]
                       /\ rows' = rows \ snap[p]
                       /\ UNCHANGED <<want, snap, stale, result, late, merged>>

\* Mutant: deletions of other transactions go unnoticed.
WriteUnchecked(p) == /\ phase[p] = "begun"
                     /\ phase' = [phase EXCEPT ![p] = "written"]
                     /\ UNCHANGED <<rows, want, snap, stale, result, late, merged>>

\* DELETE FROM quack_permissions, then the INSERT loop: all of it is local to
\* the transaction until the commit.
Write(p) == /\ phase[p] = "begun"
            /\ ~DeleteConflict(p)
            /\ phase' = [phase EXCEPT ![p] = "written"]
            /\ UNCHANGED <<rows, want, snap, stale, result, late, merged>>

WriteFails(p) == /\ phase[p] = "begun"
                 /\ DeleteConflict(p) \/ DatabaseErrors
                 /\ Rollback(p)

\* Mutant: a row the transaction itself deleted still blocks its pair.
UniqueConflictWithOwn(p) == want[p] \cap rows # {}

UniqueConflict(p) == want[p] \cap (rows \ snap[p]) # {}

\* Mutant: no DELETE, the mapping is merged into the table.
CommitMerges(p) == /\ Written(p)
                   /\ ~UniqueConflict(p)
                   /\ rows' = rows \cup want[p]
                   /\ UNCHANGED <<stale, merged>>
                   /\ Return(p, "nil")

\* Mutant: a subject's tables inserted as one row.
CommitInsertsList(p) == /\ Written(p)
                        /\ ~UniqueConflict(p)
                        /\ rows' = (rows \ snap[p]) \cup {want[p]}
                        /\ UNCHANGED <<stale, merged>>
                        /\ Return(p, "nil")

\* No row is deleted by both.
NothingInCommon(p, q) == snap[p] = {} \/ snap[q] = {}

Commit(p) == /\ Written(p)
             /\ ~UniqueConflict(p)
             /\ rows' = (rows \ snap[p]) \cup want[p]
             /\ stale' = [q \in Syncer |->
                            IF q # p /\ Active(q) THEN stale[q] \cup snap[p]
                            ELSE {}]
             /\ merged' = [q \in Syncer |->
                             CASE q = p -> {}
                               [] q # p /\ Active(q) /\ NothingInCommon(p, q) ->
                                    merged[q] \cup want[p]
                               [] OTHER -> merged[q]]
             /\ Return(p, "nil")

CommitFails(p) == /\ Written(p)
                  /\ UniqueConflict(p) \/ DatabaseErrors
                  /\ Rollback(p)

\* INSERT ... ON CONFLICT DO NOTHING, in a transaction of its own.
GrantAccess(g) ==
    /\ rows' = rows \cup {g}
    /\ late' = [p \in Syncer |-> IF Active(p) THEN late[p] \cup {g} ELSE late[p]]
    /\ UNCHANGED <<phase, want, snap, stale, result, merged>>

SyncStep(p) == Write(p) \/ WriteFails(p) \/ Commit(p) \/ CommitFails(p)

Next == \/ \E p \in Syncer : \/ \E S \in Mappings : Begin(p, S)
                             \/ SyncStep(p)
        \/ \E g \in Grant : GrantAccess(g)

Spec == Init /\ [][Next]_vars

-----------------------------------------------------------------------------
(* Properties.                                                                *)

\* Of two syncs past their DELETE, one found the table empty: otherwise the
\* second one to reach it meets the first one's deletions and gives up
\* (SyncPermissions, from any table and with any mappings).
OneWriter == \A p, q \in Syncer :
                Written(p) /\ Written(q) /\ p # q => NothingInCommon(p, q)

\* A commit replaces the whole table: besides the mapping, it leaves only pairs
\* that GrantAccess added during the call, and mappings of syncs that overlapped
\* it where one of the two found the table empty.
ReplacesWholeTable ==
    [][\A p \in Syncer : Written(p) /\ result'[p] = "nil"
           => /\ want[p] \subseteq rows'
              /\ rows' \ want[p] \subseteq late[p] \cup merged[p]]_vars

\* First writer wins: once its DELETE went through, SyncPermissions fails only
\* if one of its own pairs was inserted meanwhile, by GrantAccess or by a sync
\* that overlapped it over an empty table.  (Checked without DatabaseErrors.)
WriterCommits ==
    [][\A p \in Syncer : Written(p) /\ result'[p] = "error"
           => want[p] \cap (late[p] \cup merged[p]) # {}]_vars

\* Seen from the authorization macro, SyncPermissions and GrantAccess are the
\* operations of an atomically replaced table, but for syncs that overlap over
\* an empty one.
GT == INSTANCE GrantTable
        WITH grants <- rows,
             pending <- [p \in Syncer |-> IF Active(p) THEN {want[p]} ELSE {}],
             blank <- [p \in Syncer |-> Active(p) /\ snap[p] = {}],
             late <- [p \in Syncer |-> late[p] \cup merged[p]]

ImplementsGrantTable == GT!Spec
=============================================================================
