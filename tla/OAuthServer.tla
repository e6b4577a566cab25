---------------------------- MODULE OAuthServer ----------------------------
(* cmd/oauth-server: main, its syncPermissions closure, the bootstrap         *)
(* goroutine and the watcher goroutine, over the Manager and the permissions  *)
(* file (PermissionsWatch) and the grant table (QuackPermissions).            *)

EXTENDS PermissionsWatch

CONSTANTS Views,           \* S3_VIEWS: the views bootstrap creates
          Internal,        \* quack_sessions and quack_permissions
          Persistent,      \* is DUCKDB_PATH set?
          DatabaseErrors,  \* may a statement fail for a reason of its own?
          QuietBoot,       \* does the file stay untouched during bootstrap?
          MaxRestarts      \* bound: crashes and restarts

ASSUME ServerAssumption == /\ Views \subseteq Tab
                           /\ Internal \subseteq Tab
                           /\ Views \cap Internal = {}
                           /\ Persistent \in BOOLEAN
                           /\ QuietBoot \in BOOLEAN
                           /\ DatabaseErrors \in BOOLEAN
                           /\ MaxRestarts \in Nat

VARIABLES rows, phase, want, snap, stale, result, late, merged,  \* QuackPermissions
          stage,     \* how far main is
          boot,      \* how far the bootstrap goroutine is
          views,     \* views in the catalog
          step,      \* where each caller of syncPermissions is in it
          held,      \* the Snapshot it took
          names,     \* the tables it listed for the admins
          restarts

Syncer == {"main", "boot", "watch"}
Grant == Sub \X Tab

DB == INSTANCE QuackPermissions
        WITH Mappings <- SUBSET Grant, InitialTables <- {{}}

dbVars == <<rows, phase, want, snap, stale, result, late, merged>>
syncVars == <<step, held, names>>
allVars == <<vars, dbVars, stage, boot, views, syncVars, restarts>>

Stages == {"off", "loaded", "initial", "run", "stopping", "down"}

MainTypeOK ==
    /\ TypeOK
    /\ DB!TypeOK
    /\ stage \in Stages
    /\ boot \in {"off", "views", "sync", "done", "failed"}
    /\ views \subseteq Views
    /\ step \in [Syncer -> {"idle", "list", "begin", "tx"}]
    /\ held \in [Syncer -> Parsed]
    /\ names \in [Syncer -> SUBSET Tab]
    /\ restarts \in 0..MaxRestarts

Nothing == Parse(EmptyFile)

MainInit == /\ Init
            /\ DB!Init
            /\ stage = "off"
            /\ boot = "off"
            /\ views = {}
            /\ step = [p \in Syncer |-> "idle"]
            /\ held = [p \in Syncer |-> Nothing]
            /\ names = [p \in Syncer |-> {}]
            /\ restarts = 0

-----------------------------------------------------------------------------
(* main, up to the first sync.                                                *)

\* permissions.New, whose failure ends the process.
Load == /\ stage = "off"
        /\ New
        /\ stage' = IF wpc' = "loaded" THEN "loaded" ELSE "down"
        /\ UNCHANGED <<dbVars, boot, views, syncVars, restarts>>

\* srv.Start: from here on clients are served from whatever rows there are.
Start == /\ stage = "loaded"
         /\ stage' \in IF DatabaseErrors THEN {"initial", "down"} ELSE {"initial"}
         /\ UNCHANGED <<vars, dbVars, boot, views, syncVars, restarts>>

-----------------------------------------------------------------------------
(* syncPermissions, called by p.                                              *)

\* Mutant: an admin paired with the list instead of its tables.
GrantsOfList(parsed, tables) == parsed.perms \cup (parsed.admins \X {tables})

\* The pairs it hands to SyncPermissions: admins get every listed table.
Grants(parsed, tables) == parsed.perms \cup (parsed.admins \X tables)

Calls(p) == CASE p = "main"  -> stage = "initial"
              [] p = "boot"  -> boot = "sync"
              [] p = "watch" -> wpc = "onchange"

TakeSnapshot(p) == /\ Calls(p) /\ step[p] = "idle"
                   /\ step' = [step EXCEPT ![p] = "list"]
                   /\ held' = [held EXCEPT ![p] = mgr]
                   /\ UNCHANGED <<vars, dbVars, stage, boot, views, names, restarts>>

Catalog == Internal \cup views

\* Mutant: every table of the catalog is listed.
TableNamesAll == Catalog

\* tableNames leaves out the internal tables.
TableNames == Catalog \ Internal

\* (Its failure, and that of BeginTx, looks like WriteFails.)
ListTables(p) == /\ step[p] = "list"
                 /\ step' = [step EXCEPT ![p] = "begin"]
                 /\ names' = [names EXCEPT ![p] = IF held[p].admins = {} THEN {} ELSE TableNames]
                 /\ UNCHANGED <<vars, dbVars, stage, boot, views, held, restarts>>

BeginTx(p) == /\ step[p] = "begin"
              /\ step' = [step EXCEPT ![p] = "tx"]
              /\ DB!Begin(p, Grants(held[p], names[p]))
              /\ UNCHANGED <<vars, stage, boot, views, held, names, restarts>>

WriteTx(p) == /\ DB!Write(p)
              /\ UNCHANGED <<vars, stage, boot, views, syncVars, restarts>>

\* Without views, there is no bootstrap goroutine.
FirstBoot == IF Views = {} THEN "done" ELSE "views"

\* What the caller does with the answer: main exits on an error, the bootstrap
\* goroutine fails the group, the watcher logs it.
Answer(p) ==
    LET ok == result'[p] = "nil"
    IN CASE p = "main"  -> /\ stage' = IF ok THEN "run" ELSE "down"
                           /\ boot' = IF ok THEN FirstBoot ELSE boot
                           /\ UNCHANGED vars
         [] p = "boot"  -> /\ stage' = IF ok THEN stage ELSE "stopping"
                           /\ boot' = IF ok THEN "done" ELSE "failed"
                           /\ UNCHANGED vars
         [] p = "watch" -> OnChange /\ UNCHANGED <<stage, boot>>

EndTx(p) == /\ step[p] = "tx"
            /\ DB!Commit(p) \/ DB!WriteFails(p) \/ DB!CommitFails(p)
            /\ step' = [step EXCEPT ![p] = "idle"]
            /\ held' = [held EXCEPT ![p] = Nothing]
            /\ names' = [names EXCEPT ![p] = {}]
            /\ Answer(p)
            /\ UNCHANGED <<views, restarts>>

SyncPermissions(p) == \/ TakeSnapshot(p) \/ ListTables(p)
                      \/ BeginTx(p) \/ WriteTx(p) \/ EndTx(p)

-----------------------------------------------------------------------------
(* The goroutines of the group.                                               *)

\* bootstrapViews: CREATE SECURE VIEW IF NOT EXISTS, in map order.
CreateView(v) == /\ boot = "views"
                 /\ views' = views \cup {v}
                 /\ UNCHANGED <<vars, dbVars, stage, boot, syncVars, restarts>>

\* Mutant: no second sync after the views are there.
ViewsCreatedOnly == /\ boot = "views" /\ Views \subseteq views
                    /\ boot' = "done"
                    /\ UNCHANGED <<vars, dbVars, stage, views, syncVars, restarts>>

ViewsCreated == /\ boot = "views" /\ Views \subseteq views
                /\ boot' = "sync"
                /\ UNCHANGED <<vars, dbVars, stage, views, syncVars, restarts>>

BootstrapFails == /\ boot = "views" /\ DatabaseErrors
                  /\ boot' = "failed"
                  /\ stage' = "stopping"
                  /\ UNCHANGED <<vars, dbVars, views, syncVars, restarts>>

RunWatch == /\ stage \in {"run", "stopping"}
            /\ StartWatch
            /\ stage' = IF wpc' = "failed" THEN "stopping" ELSE stage
            /\ UNCHANGED <<dbVars, boot, views, syncVars, restarts>>

WatchLoop == /\ Handle \/ Reload
             /\ UNCHANGED <<dbVars, stage, boot, views, syncVars, restarts>>

EditFile == /\ QuietBoot => boot = "done"
            /\ Environment
            /\ UNCHANGED <<dbVars, stage, boot, views, syncVars, restarts>>

-----------------------------------------------------------------------------
(* Shutdown, crash, restart.                                                  *)

Interrupt == /\ stage = "run"
             /\ stage' = "stopping"
             /\ UNCHANGED <<vars, dbVars, boot, views, syncVars, restarts>>

WatchStops == /\ stage = "stopping"
              /\ Cancelled
              /\ UNCHANGED <<dbVars, stage, boot, views, syncVars, restarts>>

\* Mutant: main does not wait for the group.
ExitAtOnce == /\ stage = "stopping"
              /\ stage' = "down"
              /\ UNCHANGED <<vars, dbVars, boot, views, syncVars, restarts>>

\* g.Wait returns when both goroutines have.
Exit == /\ stage = "stopping"
        /\ wpc \in {"stopped", "failed"}
        /\ boot \in {"done", "failed"}
        /\ stage' = "down"
        /\ UNCHANGED <<vars, dbVars, boot, views, syncVars, restarts>>

\* What of the database a new process finds.
Survives(data) == IF Persistent THEN data ELSE {}

\* The process dies, or died, and a new one starts: memory and transactions
\* are gone.  (Without EarlyEdits it does not happen halfway through a write of
\* the permissions file.)
Restart == /\ restarts < MaxRestarts
           /\ EarlyEdits \/ writing = {}
           /\ restarts' = restarts + 1
           /\ stage' = "off"
           /\ boot' = "off"
           /\ rows' = Survives(rows)
           /\ views' = Survives(views)
           /\ phase' = [p \in Syncer |-> "idle"]
           /\ want' = [p \in Syncer |-> {}]
           /\ snap' = [p \in Syncer |-> {}]
           /\ stale' = [p \in Syncer |-> {}]
           /\ result' = [p \in Syncer |-> "none"]
           /\ late' = [p \in Syncer |-> {}]
           /\ merged' = [p \in Syncer |-> {}]
           /\ step' = [p \in Syncer |-> "idle"]
           /\ held' = [p \in Syncer |-> Nothing]
           /\ names' = [p \in Syncer |-> {}]
           /\ wpc' = "off"
           /\ mgr' = Nothing
           /\ watched' = {}
           /\ events' = <<>>
           /\ timer' = FALSE
           /\ buf' = {}
           /\ unseen' = 0
           /\ lost' = FALSE
           /\ UNCHANGED <<file, inode, old, writing, edits>>

Bootstrap == (\E v \in Views \ views : CreateView(v)) \/ ViewsCreated

MainNext == \/ Load \/ Start
            \/ \E p \in Syncer : SyncPermissions(p)
            \/ Bootstrap \/ BootstrapFails
            \/ RunWatch \/ WatchLoop
            \/ EditFile
            \/ Interrupt \/ WatchStops \/ Exit \/ Restart

MainSpec == MainInit /\ [][MainNext]_allVars

\* Every goroutine runs on, and whoever began to write or swap the file
\* finishes; nobody has to edit, interrupt or restart.
MainFairSpec == /\ MainSpec
                /\ WF_allVars(Load) /\ WF_allVars(Start)
                /\ \A p \in Syncer : WF_allVars(SyncPermissions(p))
                /\ WF_allVars(Bootstrap)
                /\ WF_allVars(RunWatch) /\ WF_allVars(WatchLoop)
                /\ WF_allVars(FinishWrite /\ EditFile)
                /\ WF_allVars((\E i \in old : UnlinkOld(i)) /\ EditFile)

-----------------------------------------------------------------------------
(* Properties.                                                                *)

\* The table holds the grants of the file on disk, over the views there are.
Current == \A c \in file : Valid(c) => rows = Grants(Parse(c), views)

\* A sync that failed is not tried again before the next edit.
LastSyncsSucceeded == \A p \in Syncer : result[p] # "error"

Settled == /\ stage = "run" /\ boot = "done"
           /\ Quiescent
           /\ \A p \in Syncer : step[p] = "idle"

\* When the server runs and nothing is under way, the table authorizes what
\* the file on disk says, unless the database refused the last sync (main's
\* three calls of syncPermissions).
SettledServesFile == Settled /\ LastSyncsSucceeded => Current

\* Once the file is left alone, the server comes to serve it and keeps to it,
\* with the same exception (main, Watch, SyncPermissions together).
EventuallyServesFile == <>[](stage = "run" /\ LastSyncsSucceeded => Current)

\* Whatever clients are authorized by is one whole valid file, over some of
\* the views: never a mixture or a part ("a concurrent query never observes a
\* half-applied state", README.md:163), and no internal table for an admin.
ServesWholeFile ==
    rows = {} \/ \E c \in {c \in Contents : Valid(c)}, V \in SUBSET Views :
                    rows = Grants(Parse(c), V)

\* A process that has exited by itself left no transaction open (g.Wait joins
\* both callers of syncPermissions, and Watch returns only between reloads).
NoSyncAfterExit == stage = "down" => \A p \in Syncer : step[p] = "idle"
=============================================================================
