-------------------------- MODULE OAuthServer_proofs --------------------------
(* Proofs about OAuthServer, for any subjects, tables, views and contents,    *)
(* any number of edits and of restarts.                                       *)

EXTENDS OAuthServer, PermissionsWatch_proofs

-----------------------------------------------------------------------------
(* The parts.                                                                 *)

\* Until the process dies, the Manager and its goroutine behave as
\* PermissionsWatch says.
LEMMA WatchEmbedded == [MainNext]_allVars => Restart \/ [Next]_vars
<1> SUFFICES ASSUME [MainNext]_allVars, ~Restart
             PROVE  [Next]_vars
  OBVIOUS
<1>1. CASE UNCHANGED allVars
  BY <1>1 DEF allVars
<1>2. CASE Load \/ Start \/ RunWatch \/ WatchLoop \/ EditFile
  BY <1>2 DEF Load, Start, RunWatch, WatchLoop, EditFile, Next, Watcher
<1>3. ASSUME NEW p \in Syncer, SyncPermissions(p)
      PROVE  [Next]_vars
  <2>1. CASE TakeSnapshot(p) \/ ListTables(p) \/ BeginTx(p) \/ WriteTx(p)
    BY <2>1 DEF TakeSnapshot, ListTables, BeginTx, WriteTx
  <2>2. CASE EndTx(p)
    BY <2>2 DEF EndTx, Answer, Syncer, Next
  <2> QED
    BY <1>3, <2>1, <2>2 DEF SyncPermissions
<1>4. CASE Bootstrap \/ BootstrapFails
  BY <1>4 DEF Bootstrap, CreateView, ViewsCreated, BootstrapFails
<1>5. CASE Interrupt \/ WatchStops \/ Exit
  BY <1>5 DEF Interrupt, WatchStops, Exit, Next
<1> QED
  BY <1>1, <1>2, <1>3, <1>4, <1>5 DEF MainNext

\* The parts of a transaction keep the types of QuackPermissions.
LEMMA BeginTyped ==
  ASSUME DB!TypeOK, NEW p \in Syncer, NEW S \in SUBSET Grant, DB!Begin(p, S)
  PROVE  DB!TypeOK'
BY DEF DB!TypeOK, DB!Begin, DB!Phases, DB!Results

LEMMA EndTyped ==
  ASSUME DB!TypeOK, NEW p \in Syncer,
         DB!Write(p) \/ DB!Commit(p) \/ DB!WriteFails(p) \/ DB!CommitFails(p)
  PROVE  DB!TypeOK'
<1> USE DEF DB!TypeOK, DB!Phases, DB!Results, DB!Return
<1>1. CASE DB!Write(p)
  BY <1>1 DEF DB!Write
<1>2. CASE DB!Commit(p)
  <2>1. stale' \in [Syncer -> SUBSET Grant]
    BY <1>2 DEF DB!Commit
  <2> QED
    BY <1>2, <2>1 DEF DB!Commit
<1>3. CASE DB!WriteFails(p) \/ DB!CommitFails(p)
  BY <1>3 DEF DB!WriteFails, DB!CommitFails, DB!Rollback
<1> QED
  BY <1>1, <1>2, <1>3

\* What a sync hands to SyncPermissions is a set of pairs.
LEMMA GrantsTyped ==
  ASSUME NEW m \in Parsed, NEW T \in SUBSET Tab
  PROVE  Grants(m, T) \in SUBSET Grant
BY DEF Grants, Grant, Parsed

LEMMA NothingTyped == Nothing \in Parsed
BY EmptyFileTyped, ContentParses DEF Nothing

LEMMA CatalogTyped ==
  ASSUME views \subseteq Views
  PROVE  TableNames \subseteq views
BY DEF TableNames, Catalog

-----------------------------------------------------------------------------
(* Types.                                                                     *)

LEMMA MainTypeInit == MainInit => MainTypeOK
<1> SUFFICES ASSUME MainInit
             PROVE  MainTypeOK
  OBVIOUS
<1>1. TypeOK
  BY TypeInit DEF MainInit
<1>2. DB!TypeOK
  BY DEF MainInit, DB!Init, DB!TypeOK, DB!Phases, DB!Results
<1> QED
  BY <1>1, <1>2, NothingTyped, ServerAssumption DEF MainInit, MainTypeOK, Stages

LEMMA MainTypeStep == MainTypeOK /\ [MainNext]_allVars => MainTypeOK'
<1> SUFFICES ASSUME MainTypeOK, [MainNext]_allVars
             PROVE  MainTypeOK'
  OBVIOUS
<1> USE ServerAssumption, WatchAssumption DEF MainTypeOK, Stages
<1>1. CASE Restart
  <2>1. TypeOK'
    <3>1. /\ mgr' = Nothing /\ wpc' = "off" /\ watched' = {} /\ events' = <<>>
          /\ timer' = FALSE /\ buf' = {} /\ unseen' = 0 /\ lost' = FALSE
          /\ UNCHANGED <<file, inode, old, writing, edits>>
      BY <1>1 DEF Restart
    <3>2. <<>> \in Seq(Events) /\ 0 \in 0..MaxEdits
      OBVIOUS
    <3>3. "off" \in WatchSteps
      BY DEF WatchSteps
    <3> QED
      BY <3>1, <3>2, <3>3, NothingTyped DEF TypeOK
  <2>2. rows' \in SUBSET Grant /\ views' \in SUBSET Views
    BY <1>1 DEF Restart, Survives, DB!TypeOK
  <2>3. DB!TypeOK'
    BY <1>1, <2>2 DEF Restart, DB!TypeOK, DB!Phases, DB!Results
  <2> QED
    BY <1>1, <2>1, <2>2, <2>3, NothingTyped DEF Restart
<1>2. CASE ~Restart
  <2>0. TypeOK'
    BY <1>2, WatchEmbedded, TypeStep
  <2>00. mgr \in Parsed
    BY DEF TypeOK
  <2>1. CASE UNCHANGED allVars
    BY <2>0, <2>1 DEF allVars, dbVars, syncVars, DB!TypeOK
  <2>2. CASE Load \/ Start
    BY <2>0, <2>2 DEF Load, Start, dbVars, syncVars, DB!TypeOK
  <2>3. CASE RunWatch \/ WatchLoop \/ EditFile \/ Interrupt \/ WatchStops \/ Exit
    BY <2>0, <2>3 DEF RunWatch, WatchLoop, EditFile, Interrupt, WatchStops, Exit,
                      dbVars, syncVars, DB!TypeOK
  <2>4. CASE Bootstrap \/ BootstrapFails
    BY <2>0, <2>4 DEF Bootstrap, CreateView, ViewsCreated, BootstrapFails,
                      dbVars, syncVars, DB!TypeOK
  <2>5. ASSUME NEW p \in Syncer, TakeSnapshot(p)
        PROVE  MainTypeOK'
    BY <2>0, <2>00, <2>5 DEF TakeSnapshot, dbVars, DB!TypeOK
  <2>6. ASSUME NEW p \in Syncer, ListTables(p)
        PROVE  MainTypeOK'
    BY <2>0, <2>6, CatalogTyped DEF ListTables, dbVars, DB!TypeOK
  <2>7. ASSUME NEW p \in Syncer, BeginTx(p)
        PROVE  MainTypeOK'
    <3>1. Grants(held[p], names[p]) \in SUBSET Grant
      BY GrantsTyped
    <3>2. DB!TypeOK'
      BY <2>7, <3>1, BeginTyped DEF BeginTx
    <3> QED
      BY <2>0, <2>7, <3>2 DEF BeginTx
  <2>8. ASSUME NEW p \in Syncer, WriteTx(p) \/ EndTx(p)
        PROVE  MainTypeOK'
    <3>1. DB!TypeOK'
      BY <2>8, EndTyped DEF WriteTx, EndTx
    <3>2. CASE WriteTx(p)
      BY <2>0, <3>1, <3>2 DEF WriteTx, syncVars
    <3>3. CASE EndTx(p)
      <4>1. stage' \in Stages /\ boot' \in {"off", "views", "sync", "done", "failed"}
        BY <3>3 DEF EndTx, Answer, FirstBoot, Syncer
      <4> QED
        BY <2>0, <3>1, <3>3, <4>1, NothingTyped DEF EndTx
    <3> QED
      BY <2>8, <3>2, <3>3
  <2> QED
    BY <1>2, <2>1, <2>2, <2>3, <2>4, <2>5, <2>6, <2>7, <2>8 DEF MainNext, SyncPermissions
<1> QED
  BY <1>1, <1>2

\* main, its goroutines, their syncs and the table keep their types.
THEOREM MainTypeCorrect == MainSpec => []MainTypeOK
  BY MainTypeInit, MainTypeStep, PTL DEF MainSpec

-----------------------------------------------------------------------------
(* Who may be in syncPermissions, and when.                                   *)

\* Nothing runs beside main before the first sync, nor after the end.
Staged ==
    /\ stage \in {"off", "loaded", "initial"} => boot = "off"
    /\ stage = "off" => wpc = "off"
    /\ stage \in {"loaded", "initial"} => wpc = "loaded"
    /\ stage = "down" => /\ boot \in {"off", "done", "failed"}
                         /\ wpc \in {"loaded", "stopped", "failed"}

\* A caller is in syncPermissions only where its goroutine calls it.
Called == \A p \in Syncer : step[p] # "idle" => Calls(p)

\* Its transaction is open from BeginTx to the end of it.
InTx == \A p \in Syncer : phase[p] # "idle" => step[p] = "tx"

Control == MainTypeOK /\ Staged /\ Called /\ InTx

LEMMA ControlInit == MainInit => Control
<1> SUFFICES ASSUME MainInit
             PROVE  Control
  OBVIOUS
<1>1. MainTypeOK
  BY MainTypeInit
<1>2. Staged /\ Called /\ InTx
  BY DEF MainInit, Init, DB!Init, Staged, Called, InTx
<1> QED
  BY <1>1, <1>2 DEF Control

\* No step of main, of bootstrap or of Watch leaves the place where its
\* goroutine calls syncPermissions, but the end of that call.
LEMMA ControlStep == Control /\ [MainNext]_allVars => Control'
<1> SUFFICES ASSUME Control, [MainNext]_allVars
             PROVE  Control'
  OBVIOUS
<1>0. MainTypeOK'
  BY MainTypeStep DEF Control
<1> USE DEF Control, Staged, Called, InTx, Calls, Syncer, vars, fsVars, dbVars, syncVars
<1>1. CASE UNCHANGED allVars
  BY <1>0, <1>1 DEF allVars
<1>2. CASE Restart
  BY <1>0, <1>2 DEF Restart
<1>3. CASE Load
  BY <1>0, <1>3 DEF Load, New
<1>4. CASE Start
  BY <1>0, <1>4 DEF Start
<1>5. ASSUME NEW p \in Syncer, TakeSnapshot(p)
      PROVE  Control'
  BY <1>0, <1>5 DEF TakeSnapshot, MainTypeOK
<1>6. ASSUME NEW p \in Syncer, ListTables(p)
      PROVE  Control'
  BY <1>0, <1>6 DEF ListTables, MainTypeOK
<1>7. ASSUME NEW p \in Syncer, BeginTx(p)
      PROVE  Control'
  BY <1>0, <1>7 DEF BeginTx, MainTypeOK, DB!Begin, DB!TypeOK
<1>8. ASSUME NEW p \in Syncer, WriteTx(p)
      PROVE  Control'
  BY <1>0, <1>8 DEF WriteTx, MainTypeOK, DB!Write, DB!TypeOK
<1>9. ASSUME NEW p \in Syncer, EndTx(p)
      PROVE  Control'
  <2>1. /\ step' = [step EXCEPT ![p] = "idle"]
        /\ phase' = [phase EXCEPT ![p] = "idle"]
    BY <1>9 DEF EndTx, DB!Commit, DB!WriteFails, DB!CommitFails, DB!Rollback, DB!Return
  <2>2. InTx'
    BY <2>1 DEF MainTypeOK, DB!TypeOK
  <2>3. Answer(p) /\ Calls(p)
    BY <1>9 DEF EndTx
  <2>4. CASE p = "main"
    BY <1>0, <2>1, <2>2, <2>3, <2>4 DEF MainTypeOK, Answer
  <2>5. CASE p = "boot"
    BY <1>0, <2>1, <2>2, <2>3, <2>5 DEF MainTypeOK, Answer
  <2>6. CASE p = "watch"
    BY <1>0, <2>1, <2>2, <2>3, <2>6 DEF MainTypeOK, Answer, OnChange
  <2> QED
    BY <2>4, <2>5, <2>6
<1>10. CASE Bootstrap \/ BootstrapFails
  BY <1>0, <1>10 DEF Bootstrap, CreateView, ViewsCreated, BootstrapFails
<1>11. CASE RunWatch
  BY <1>0, <1>11 DEF RunWatch, StartWatch
<1>12. CASE WatchLoop
  BY <1>0, <1>12 DEF WatchLoop, Handle, HandleWrite, HandleRemove,
                     Reload, TimerFires, ReadFile, Apply
<1>13. CASE EditFile
  <2>1. UNCHANGED wpc
    BY <1>13 DEF EditFile, Environment, Truncate, FinishWrite, Swap, UnlinkOld,
                 Delete, Create, Edit
  <2> QED
    BY <1>0, <1>13, <2>1 DEF EditFile
<1>14. CASE Interrupt \/ WatchStops \/ Exit
  BY <1>0, <1>14 DEF Interrupt, WatchStops, Cancelled, Exit
<1> QED
  BY <1>1, <1>2, <1>3, <1>4, <1>5, <1>6, <1>7, <1>8, <1>9, <1>10, <1>11, <1>12,
     <1>13, <1>14 DEF MainNext, SyncPermissions

LEMMA ControlHolds == MainSpec => []Control
  BY ControlInit, ControlStep, PTL DEF MainSpec

\* Whatever fails and whenever it is told to stop, a process that has exited by
\* itself was in the middle of no sync.
THEOREM NoSyncAfterExitHolds == MainSpec => []NoSyncAfterExit
<1>1. Control => NoSyncAfterExit
  BY DEF Control, Staged, Called, Calls, Syncer, NoSyncAfterExit
<1> QED
  BY <1>1, ControlHolds, PTL

-----------------------------------------------------------------------------
(* Bootstrap with a file that is left alone meanwhile.                        *)

Files == Contents \cup {EmptyFile}

\* A Manager's content is that of a valid file, not of a broken one.
Whole(parsed) == \E c \in Files : Valid(c) /\ parsed = Parse(c)

OnDisk == /\ file = {} \/ \E c \in Files : file = {c}
          /\ writing = {} \/ \E c \in Files : writing = {c}
          /\ buf = {} \/ \E c \in Files : buf = {c}

\* Until bootstrap is done, the watcher has nothing to do.
Waits == boot # "done" => /\ events = <<>> /\ ~timer
                          /\ wpc \notin {"read", "apply", "onchange"}
                          /\ Whole(mgr)

Reloaded == wpc = "onchange" => Whole(mgr)

\* Whoever is in a sync has what the Manager has, the tables there are, and the
\* table to itself.
Synced(p) == /\ held[p] = mgr /\ Whole(mgr)
             /\ step[p] \in {"begin", "tx"} =>
                    names[p] = IF mgr.admins = {} THEN {} ELSE views
             /\ phase[p] # "idle" => want[p] = Grants(mgr, names[p]) /\ snap[p] = rows

Syncing == \A p \in Syncer : step[p] # "idle" => Synced(p)

QuietInv == Control /\ OnDisk /\ Waits /\ Reloaded /\ Syncing

\* One caller at a time, as long as the file is left alone during bootstrap.
LEMMA OneSyncer ==
  ASSUME Control, Waits, NEW p \in Syncer, step[p] # "idle",
         NEW q \in Syncer, step[q] # "idle"
  PROVE  p = q
BY DEF Control, Staged, Called, Calls, Waits, Syncer

\* The listed tables are the views, and only admins need them.
LEMMA ListedViews ==
  ASSUME views \subseteq Views
  PROVE  TableNames = views
BY ServerAssumption DEF TableNames, Catalog

\* What a sync of a whole content hands over does not depend on the list where
\* there is no admin.
LEMMA GrantsListed ==
  ASSUME NEW m, NEW T
  PROVE  Grants(m, IF m.admins = {} THEN {} ELSE T) = Grants(m, T)
BY DEF Grants

\* A commit leaves the grants of the Manager over the views, and nothing else.
LEMMA CommitIsWhole ==
  ASSUME QuietInv, NEW p \in Syncer, step[p] = "tx", DB!Commit(p)
  PROVE  rows' = Grants(mgr, views) /\ Whole(mgr)
<1>1. Synced(p) /\ phase[p] # "idle"
  BY DEF QuietInv, Syncing, DB!Commit, DB!Written
<1>2. rows' = want[p]
  BY <1>1 DEF Synced, DB!Commit
<1>3. want[p] = Grants(mgr, IF mgr.admins = {} THEN {} ELSE views)
  BY <1>1 DEF Synced
<1> QED
  BY <1>1, <1>2, <1>3, GrantsListed DEF Synced

\* The table changes by commits and restarts only.
LEMMA RowsChange ==
  ASSUME [MainNext]_allVars
  PROVE  \/ UNCHANGED rows \/ Restart
         \/ \E p \in Syncer : EndTx(p) /\ DB!Commit(p)
BY DEF MainNext, allVars, dbVars, Load, Start, SyncPermissions, TakeSnapshot, ListTables,
       BeginTx, WriteTx, EndTx, DB!Begin, DB!Write, DB!WriteFails, DB!CommitFails,
       DB!Rollback, Bootstrap, CreateView, ViewsCreated, BootstrapFails, RunWatch,
       WatchLoop, EditFile, Interrupt, WatchStops, Exit

LEMMA QuietInit == MainInit => QuietInv
<1> SUFFICES ASSUME MainInit
             PROVE  QuietInv
  OBVIOUS
<1>1. Whole(mgr)
  BY DEF MainInit, Init, Whole, Files, Valid, EmptyFile
<1>2. OnDisk
  BY DEF MainInit, Init, OnDisk, Files
<1> QED
  BY <1>1, <1>2, ControlInit
     DEF MainInit, Init, QuietInv, Waits, Reloaded, Syncing

LEMMA OnDiskStep ==
  ASSUME OnDisk, [MainNext]_allVars
  PROVE  OnDisk'
<1> USE DEF OnDisk, vars, fsVars
<1>1. CASE Restart
  BY <1>1 DEF Restart
<1>2. CASE UNCHANGED vars
  BY <1>2
<1>3. CASE Environment
  BY <1>3 DEF Environment, Truncate, FinishWrite, Swap, UnlinkOld, Delete, Create, Edit, Files
<1>4. CASE Watcher \/ OnChange \/ Cancelled
  BY <1>4 DEF Watcher, New, StartWatch, Handle, HandleWrite, HandleRemove, Reload,
              TimerFires, ReadFile, Apply, OnChange, Cancelled
<1> QED
  BY <1>1, <1>2, <1>3, <1>4, WatchEmbedded DEF Next

LEMMA QuietStep ==
  ASSUME QuietBoot, QuietInv, [MainNext]_allVars
  PROVE  QuietInv'
<1>0. Control' /\ OnDisk'
  BY ControlStep, OnDiskStep DEF QuietInv
<1> USE <1>0 DEF QuietInv, Waits, Reloaded, Syncing, Synced, vars, fsVars, dbVars, syncVars
<1>1. CASE UNCHANGED allVars
  BY <1>1 DEF allVars, Whole
<1>2. CASE Restart
  <2>1. Whole(Nothing)
    BY DEF Whole, Files, Valid, EmptyFile, Nothing
  <2> QED
    BY <1>2, <2>1 DEF Restart, Whole
<1>3. CASE Load
  <2>1. \A p \in Syncer : step[p] = "idle"
    BY <1>3 DEF Load, Control, Staged, Called, Calls, Syncer
  <2>2. Whole(mgr')
    <3>1. CASE \E c \in file : Valid(c)
      BY <1>3, <3>1 DEF Load, New, OnDisk, Whole, LoadOutcomes, Valid, Control, Staged
    <3>2. CASE ~\E c \in file : Valid(c)
      BY <1>3, <3>2 DEF Load, New, Control, Staged
    <3> QED
      BY <3>1, <3>2
  <2> QED
    BY <1>3, <2>1, <2>2 DEF Load, New, Whole
<1>4. CASE Start
  BY <1>4 DEF Start, Whole
<1>5. ASSUME NEW p \in Syncer, TakeSnapshot(p)
      PROVE  QuietInv'
  <2>1. Calls(p) => Whole(mgr)
    BY DEF Calls, Syncer, Control, Staged
  <2>2. phase[p] = "idle"
    BY <1>5 DEF Control, InTx, TakeSnapshot
  <2>3. Waits' /\ Reloaded'
    BY <1>5 DEF TakeSnapshot, Whole
  <2>4. ASSUME NEW q \in Syncer, step'[q] # "idle"
        PROVE  Synced(q)'
    BY <1>5, <2>1, <2>2, <2>4 DEF TakeSnapshot, Whole, MainTypeOK, Control
  <2> QED
    BY <2>3, <2>4
<1>6. ASSUME NEW p \in Syncer, ListTables(p)
      PROVE  QuietInv'
  <2>1. TableNames = views
    BY ListedViews DEF Control, MainTypeOK
  <2>2. phase[p] = "idle"
    BY <1>6 DEF Control, InTx, ListTables
  <2> QED
    BY <1>6, <2>1, <2>2 DEF ListTables, Whole, MainTypeOK, Control
<1>7. ASSUME NEW p \in Syncer, BeginTx(p)
      PROVE  QuietInv'
  BY <1>7 DEF BeginTx, DB!Begin, Whole, MainTypeOK, DB!TypeOK, Control
<1>8. ASSUME NEW p \in Syncer, WriteTx(p)
      PROVE  QuietInv'
  BY <1>8 DEF WriteTx, DB!Write, Whole, MainTypeOK, DB!TypeOK, Control
<1>9. ASSUME NEW p \in Syncer, EndTx(p)
      PROVE  QuietInv'
  <2>1. step[p] # "idle" /\ step' = [step EXCEPT ![p] = "idle"] /\ mgr' = mgr /\ Answer(p)
    BY <1>9 DEF EndTx, Answer, Syncer, OnChange
  <2>2. \A q \in Syncer : step'[q] = "idle"
    BY <2>1, OneSyncer DEF MainTypeOK, Control
  <2>3. Waits' /\ Reloaded'
    BY <2>1 DEF Answer, Syncer, OnChange, Whole, Control, Called, Calls, Staged
  <2> QED
    BY <2>2, <2>3
<1>10. CASE Bootstrap \/ BootstrapFails
  <2>1. \A p \in Syncer : step[p] # "idle" => UNCHANGED views
    BY <1>10 DEF Bootstrap, CreateView, ViewsCreated, BootstrapFails,
                 Control, Staged, Called, Calls, Syncer
  <2> QED
    BY <1>10, <2>1 DEF Bootstrap, CreateView, ViewsCreated, BootstrapFails, Whole
<1>11. CASE RunWatch
  BY <1>11 DEF RunWatch, StartWatch, Whole
<1>12. CASE WatchLoop
  <2>1. boot = "done"
    BY <1>12 DEF WatchLoop, Handle, HandleWrite, HandleRemove, Reload, TimerFires,
                 ReadFile, Apply
  <2>2. UNCHANGED boot /\ boot' = "done"
    BY <1>12, <2>1 DEF WatchLoop
  <2>3. CASE Apply
    <3>1. \A p \in Syncer : step[p] = "idle"
      BY <2>1, <2>3 DEF Apply, Control, Staged, Called, Calls, Syncer
    <3>2. wpc' = "onchange" => Whole(mgr')
      BY <2>3 DEF Apply, OnDisk, Whole, LoadOutcomes, Valid
    <3> QED
      BY <1>12, <2>2, <3>1, <3>2 DEF WatchLoop, Whole
  <2>4. CASE ~Apply
    BY <1>12, <2>2, <2>4 DEF WatchLoop, Handle, HandleWrite, HandleRemove, Reload,
                 TimerFires, ReadFile, Whole
  <2> QED
    BY <2>3, <2>4
<1>13. CASE EditFile
  <2>1. UNCHANGED <<wpc, mgr, boot>> /\ boot = "done"
    BY <1>13 DEF EditFile, Environment, Truncate, FinishWrite, Swap, UnlinkOld,
                 Delete, Create, Edit
  <2> QED
    BY <1>13, <2>1 DEF EditFile, Whole
<1>14. CASE Interrupt \/ WatchStops \/ Exit
  BY <1>14 DEF Interrupt, WatchStops, Cancelled, Exit, Whole
<1> QED
  BY <1>1, <1>2, <1>3, <1>4, <1>5, <1>6, <1>7, <1>8, <1>9, <1>10, <1>11, <1>12,
     <1>13, <1>14 DEF MainNext, SyncPermissions

\* If nobody edits the file during bootstrap, clients are authorized by the
\* grants of one whole valid file over the views, whatever broken files follow,
\* whichever syncs fail, and whenever the process crashes; and an admin gets no
\* internal table.
THEOREM ServesWholeFileHolds ==
  ASSUME QuietBoot
  PROVE  MainSpec => []ServesWholeFile
<1>1. MainInit => ServesWholeFile
  BY DEF MainInit, DB!Init, ServesWholeFile
<1>2. QuietInv /\ ServesWholeFile /\ [MainNext]_allVars => ServesWholeFile'
  <2> SUFFICES ASSUME QuietInv, ServesWholeFile, [MainNext]_allVars
               PROVE  ServesWholeFile'
    OBVIOUS
  <2>1. CASE UNCHANGED rows \/ Restart
    BY <2>1 DEF ServesWholeFile, Restart, Survives
  <2>2. ASSUME NEW p \in Syncer, EndTx(p), DB!Commit(p)
        PROVE  ServesWholeFile'
    <3>1. rows' = Grants(mgr, views) /\ Whole(mgr) /\ views \in SUBSET Views
      BY <2>2, CommitIsWhole DEF EndTx, QuietInv, Control, MainTypeOK
    <3>2. PICK c \in Files : Valid(c) /\ mgr = Parse(c)
      BY <3>1 DEF Whole
    <3>3. CASE c \in Contents
      BY <3>1, <3>2, <3>3 DEF ServesWholeFile
    <3>4. CASE c = EmptyFile
      BY <3>1, <3>2, <3>4 DEF ServesWholeFile, Grants, Parse, EmptyFile
    <3> QED
      BY <3>2, <3>3, <3>4 DEF Files
  <2> QED
    BY <2>1, <2>2, RowsChange
<1>3. MainInit /\ [][MainNext]_allVars => []QuietInv
  BY QuietInit, QuietStep, PTL
<1> QED
  BY <1>1, <1>2, <1>3, PTL DEF MainSpec

-----------------------------------------------------------------------------
(* The table follows the file.                                                *)

\* What PermissionsWatch_proofs says of the watcher outlives the process: a
\* crash comes between two edits, and the next process reads the file anew.
LEMMA WatchInvariance == MainSpec => []IInv
<1>1. MainInit => IInv
  BY InvariantInit DEF MainInit
<1>2. MainTypeOK' /\ IInv /\ [MainNext]_allVars => IInv'
  <2> SUFFICES ASSUME MainTypeOK', IInv, [MainNext]_allVars
               PROVE  IInv'
    OBVIOUS
  <2>1. CASE Restart
    <3>1. TypeOK'
      BY DEF MainTypeOK
    <3>2. Present' /\ Untouched'
      BY <2>1 DEF Restart, IInv, Present, Untouched
    <3>3. Hearing' /\ Catching'
      BY <2>1 DEF Restart, Hearing, Catching, Watching
    <3> QED
      BY <3>1, <3>2, <3>3 DEF IInv
  <2> QED
    BY <2>1, WatchEmbedded, InvariantStep
<1> QED
  BY <1>1, <1>2, MainTypeCorrect, PTL DEF MainSpec

\* So in every life of the process, however the one before it ended, the watch
\* is on the file or on its way there, and no edit is missed.
THEOREM WatchOutlivesCrashes == MainSpec => [](NeverDeaf /\ StaleOnlyIfLost)
<1>1. IInv => NeverDeaf /\ StaleOnlyIfLost
  BY DEF IInv, Hearing, NeverDeaf, RemoveIn, Catching, Coming, Excused, StaleOnlyIfLost,
         Quiescent
<1> QED
  BY <1>1, WatchInvariance, PTL

\* From the second sync on, all views are there.
AllViews == boot \in {"sync", "done"} => views = Views

\* Until bootstrap is done, nobody writes the file, and the watch is on it.
Still == boot # "done" => writing = {} /\ watched \subseteq {inode}

\* What the table holds is what the file says.
Served == \A c \in file : Valid(c) => rows = Grants(Parse(c), Views)

\* Once bootstrap is done, the table has what the Manager has, until Watch is
\* there; and then what the file says, unless the watcher will read it again or
\* its last sync was refused.
Serving == boot = "done" =>
    /\ wpc = "loaded" => rows = Grants(mgr, Views)
    /\ wpc = "select" => Served \/ Coming \/ result["watch"] = "error"

FollowInv == AllViews /\ Still /\ Serving

\* While Watch waits and nothing is coming, the Manager has the file.
LEMMA WaitingFollows ==
  ASSUME KindEditors, IInv, wpc \in {"loaded", "select"}, ~Coming
  PROVE  Follows
BY DEF KindEditors, IInv, Present, Untouched, Catching, Excused

LEMMA FollowsServed ==
  ASSUME Follows, rows = Grants(mgr, Views)
  PROVE  Served
BY DEF Follows, Served

LEMMA AllViewsStep ==
  ASSUME QuietInv, AllViews, [MainNext]_allVars
  PROVE  AllViews'
<1> USE DEF AllViews
<1>1. CASE UNCHANGED <<boot, views>>
  BY <1>1
<1>2. CASE Restart \/ Bootstrap \/ BootstrapFails
  BY <1>2 DEF Restart, Bootstrap, CreateView, ViewsCreated, BootstrapFails,
              QuietInv, Control, MainTypeOK
<1>3. ASSUME NEW p \in Syncer, EndTx(p)
      PROVE  AllViews'
  <2>1. UNCHANGED views /\ Answer(p) /\ Calls(p)
    BY <1>3 DEF EndTx, QuietInv, Control, Called
  <2>2. views \subseteq Views
    BY DEF QuietInv, Control, MainTypeOK
  <2> QED
    BY <2>1, <2>2 DEF Answer, FirstBoot, Calls, Syncer
<1> QED
  BY <1>1, <1>2, <1>3
     DEF MainNext, allVars, Load, Start, SyncPermissions, TakeSnapshot, ListTables,
         BeginTx, WriteTx, RunWatch, WatchLoop, EditFile, Interrupt, WatchStops, Exit

LEMMA StillStep ==
  ASSUME QuietBoot, KindEditors, QuietInv, IInv, Still, [MainNext]_allVars
  PROVE  Still'
<1> USE DEF Still, vars, fsVars
<1>1. CASE Restart
  BY <1>1 DEF Restart, KindEditors
<1>2. CASE UNCHANGED <<writing, watched, inode>>
  <2>1. boot = "done" => boot' = "done" \/ Restart
    BY DEF MainNext, allVars, Load, Start, SyncPermissions, TakeSnapshot, ListTables,
           BeginTx, WriteTx, EndTx, Answer, Calls, Called, Syncer, Bootstrap, CreateView,
           ViewsCreated, BootstrapFails, RunWatch, WatchLoop, EditFile, Interrupt,
           WatchStops, Exit, QuietInv, Control, Staged
  <2> QED
    BY <1>1, <1>2, <2>1
<1>3. CASE RunWatch
  BY <1>3 DEF RunWatch, StartWatch
<1>4. CASE EditFile
  BY <1>4 DEF EditFile
<1>5. CASE WatchLoop
  BY <1>5 DEF WatchLoop, Handle, HandleWrite, HandleRemove, Reload, TimerFires,
              ReadFile, Apply, QuietInv, Waits
<1> QED
  BY <1>1, <1>2, <1>3, <1>4, <1>5
     DEF MainNext, allVars, Load, New, Start, SyncPermissions, TakeSnapshot, ListTables,
         BeginTx, WriteTx, EndTx, Answer, Syncer, OnChange, Bootstrap, CreateView,
         ViewsCreated, BootstrapFails, Interrupt, WatchStops, Cancelled, Exit

\* The end of a sync: whoever's it was, the table has what the Manager has, or
\* the caller takes note.
LEMMA EndKeepsServing ==
  ASSUME QuietBoot, KindEditors, QuietInv, IInv, FollowInv,
         NEW p \in Syncer, EndTx(p)
  PROVE  Serving'
<1> USE DEF FollowInv, Serving, QuietInv
<1>1. /\ Calls(p) /\ Answer(p)
      /\ UNCHANGED <<file, writing, events, timer, watched, old, mgr, views>>
  BY DEF EndTx, Answer, Syncer, OnChange, Control, Called, vars, fsVars
<1>2. Coming => Coming'
  BY <1>1 DEF Coming
<1>3. ASSUME DB!Commit(p)
      PROVE  rows' = Grants(mgr, views) /\ result'[p] = "nil"
  BY <1>3, CommitIsWhole DEF EndTx, DB!Commit, DB!Return, Control, MainTypeOK, DB!TypeOK
<1>4. ASSUME ~DB!Commit(p)
      PROVE  rows' = rows /\ result' = [result EXCEPT ![p] = "error"]
  BY <1>4 DEF EndTx, DB!WriteFails, DB!CommitFails, DB!Rollback, DB!Return
<1>5. result'[p] = "nil" => DB!Commit(p)
  BY <1>4 DEF Control, MainTypeOK, DB!TypeOK
<1>6. CASE p = "main"
  <2>1. wpc' = "loaded" /\ boot = "off"
    BY <1>1, <1>6 DEF Answer, Calls, Control, Staged, vars
  <2>2. boot' = "done" => result'[p] = "nil" /\ Views = {}
    BY <1>1, <1>6, <2>1 DEF Answer, FirstBoot
  <2>3. Views = {} => views = Views
    BY DEF Control, MainTypeOK
  <2> QED
    BY <1>1, <1>3, <1>5, <2>1, <2>2, <2>3
<1>7. CASE p = "boot"
  <2>1. boot = "sync" /\ views = Views /\ wpc' = wpc
    BY <1>1, <1>7 DEF Answer, Calls, AllViews, vars
  <2>2. boot' = "done" => rows' = Grants(mgr, Views)
    BY <1>1, <1>3, <1>5, <1>7, <2>1 DEF Answer
  <2>3. ~Coming
    <3>1. watched \subseteq {inode} /\ writing = {} /\ events = <<>> /\ ~timer
      BY <2>1 DEF Waits, Still
    <3>2. inode \notin old
      BY DEF IInv, Present, TypeOK
    <3> QED
      BY <3>1, <3>2 DEF Coming
  <2>4. wpc = "select" => Follows
    BY <2>3, WaitingFollows
  <2>5. boot' = "done" /\ wpc' = "select" => Served'
    BY <1>1, <2>1, <2>2, <2>4 DEF Follows, Served
  <2> QED
    BY <1>1, <2>1, <2>2, <2>5
<1>8. CASE p = "watch"
  <2>1. wpc = "onchange" /\ wpc' = "select" /\ boot = "done" /\ boot' = "done"
    BY <1>1, <1>8 DEF Answer, Calls, OnChange, Waits
  <2>2. Follows \/ Coming
    BY <2>1 DEF IInv, Catching, Excused, Present, KindEditors
  <2>3. CASE DB!Commit(p)
    <3>1. rows' = Grants(mgr, Views)
      BY <1>3, <2>1, <2>3 DEF AllViews
    <3> QED
      BY <1>1, <1>2, <2>1, <2>2, <3>1 DEF Follows, Served
  <2>4. CASE ~DB!Commit(p)
    BY <1>4, <1>8, <2>1, <2>4 DEF Control, MainTypeOK, DB!TypeOK
  <2> QED
    BY <2>3, <2>4
<1> QED
  BY <1>6, <1>7, <1>8 DEF Syncer

\* The watcher's own steps: it waits only when it has the file, or will read.
LEMMA WatchKeepsServing ==
  ASSUME QuietBoot, KindEditors, QuietInv, IInv, IInv', FollowInv,
         RunWatch \/ WatchLoop \/ WatchStops
  PROVE  Serving'
<1> USE DEF FollowInv, Serving, QuietInv
<1>1. UNCHANGED <<boot, rows, result>>
  BY DEF RunWatch, WatchLoop, WatchStops, dbVars
<1>2. CASE RunWatch
  <2>1. Follows
    BY <1>2 DEF RunWatch, StartWatch, IInv, Untouched, KindEditors
  <2> QED
    BY <1>1, <1>2, <2>1 DEF RunWatch, StartWatch, fsVars, Follows, Served
<1>3. CASE WatchStops
  BY <1>1, <1>3 DEF WatchStops, Cancelled
<1>4. CASE Handle
  <2>1. timer' \/ lost'
    BY <1>4 DEF Handle, HandleWrite, HandleRemove
  <2> QED
    BY <1>1, <1>4, <2>1 DEF Handle, HandleWrite, HandleRemove, Coming, IInv, Present, KindEditors
<1>5. CASE TimerFires \/ ReadFile
  BY <1>5 DEF TimerFires, ReadFile, IInv, Present, KindEditors
<1>6. CASE Apply
  <2>1. PICK c \in buf : wpc' = IF Valid(c) THEN "onchange" ELSE "select"
    BY <1>6 DEF Apply
  <2>2. buf = file \/ Coming
    BY <1>6 DEF Apply, IInv, Catching, Excused, Present, KindEditors
  <2>3. CASE Coming
    <3>1. Coming'
      BY <1>6, <2>3 DEF Apply, Coming, fsVars
    <3> QED
      BY <2>1, <3>1
  <2>4. CASE buf = file
    <3>1. file' = {c}
      BY <1>6, <2>1, <2>4 DEF Apply, OnDisk, fsVars
    <3> QED
      BY <2>1, <3>1 DEF Served
  <2> QED
    BY <2>2, <2>3, <2>4
<1> QED
  BY <1>2, <1>3, <1>4, <1>5, <1>6 DEF WatchLoop, Reload

LEMMA ServingStep ==
  ASSUME QuietBoot, KindEditors, QuietInv, IInv, IInv', FollowInv, [MainNext]_allVars
  PROVE  Serving'
<1> USE DEF FollowInv, Serving
<1>1. CASE UNCHANGED allVars
  BY <1>1 DEF allVars, vars, fsVars, dbVars, Served, Coming
<1>2. CASE Load \/ Start \/ Restart \/ Bootstrap \/ BootstrapFails
  BY <1>2 DEF Load, Start, Restart, Bootstrap, CreateView, ViewsCreated, BootstrapFails,
              QuietInv, Control, Staged
<1>3. ASSUME NEW p \in Syncer, TakeSnapshot(p) \/ ListTables(p) \/ WriteTx(p)
      PROVE  Serving'
  BY <1>3 DEF TakeSnapshot, ListTables, WriteTx, DB!Write, vars, fsVars, dbVars, Served, Coming
<1>4. ASSUME NEW p \in Syncer, BeginTx(p)
      PROVE  Serving'
  <2>1. Calls(p)
    BY <1>4 DEF BeginTx, QuietInv, Control, Called
  <2>2. p = "watch" => wpc = "onchange"
    BY <2>1 DEF Calls
  <2> QED
    BY <1>4, <2>2 DEF BeginTx, DB!Begin, vars, fsVars, Served, Coming, QuietInv,
       Control, MainTypeOK, DB!TypeOK
<1>5. ASSUME NEW p \in Syncer, EndTx(p)
      PROVE  Serving'
  BY <1>5, EndKeepsServing
<1>6. CASE RunWatch \/ WatchLoop \/ WatchStops
  BY <1>6, WatchKeepsServing
<1>7. CASE EditFile
  <2>1. UNCHANGED <<wpc, mgr, boot, rows, result>>
    BY <1>7 DEF EditFile, dbVars, Environment, Truncate, FinishWrite, Swap, UnlinkOld,
                Delete, Create, Edit
  <2>2. wpc = "select" => \/ Coming' \/ lost'
                          \/ UNCHANGED file /\ (Coming => Coming')
    BY <1>7, EditIsComing DEF EditFile, IInv, Watching
  <2>3. ~lost'
    BY DEF IInv, Present, KindEditors
  <2> QED
    BY <2>1, <2>2, <2>3 DEF Served
<1>8. CASE Interrupt \/ Exit
  BY <1>8 DEF Interrupt, Exit, vars, fsVars, dbVars, Served, Coming
<1> QED
  BY <1>1, <1>2, <1>3, <1>4, <1>5, <1>6, <1>7, <1>8 DEF MainNext, SyncPermissions

\* If nobody edits during bootstrap, and editors then write or swap the file,
\* the table comes to hold what the file says: at rest it does, unless the
\* database refused the last sync.
THEOREM SettledServesFileHolds ==
  ASSUME QuietBoot, KindEditors
  PROVE  MainSpec => []SettledServesFile
<1>1. MainInit => FollowInv
  BY DEF MainInit, Init, FollowInv, AllViews, Still, Serving
<1>2. MainInit /\ [][MainNext]_allVars => []QuietInv
  BY QuietInit, QuietStep, PTL
<1>3. QuietInv /\ IInv /\ IInv' /\ FollowInv /\ [MainNext]_allVars => FollowInv'
  BY AllViewsStep, StillStep, ServingStep DEF FollowInv
<1>4. FollowInv => SettledServesFile
  <2> SUFFICES ASSUME FollowInv, Settled, LastSyncsSucceeded
               PROVE  Current
    BY DEF SettledServesFile
  <2>1. boot = "done" /\ wpc = "select" /\ ~Coming /\ result["watch"] # "error"
    BY DEF Settled, Quiescent, Coming, LastSyncsSucceeded, Syncer
  <2> QED
    BY <2>1 DEF FollowInv, AllViews, Serving, Served, Current
<1> QED
  BY <1>1, <1>2, <1>3, <1>4, WatchInvariance, PTL DEF MainSpec
=============================================================================
