# quackjwt in TLA+

quackjwt puts JWT authentication and table-level authorization in front of
DuckDB's Quack protocol. This directory models how a permissions file becomes
authorization decisions and how a token becomes a session; how the server and
the process around it start, fail and stop; and how the views come about. TLC
model-checks every module on small instances; TLAPS proves the safety of all of
them for all values of their constants.

All paths below are relative to `src/`.

## 1. Inventory of the system

| Component | State | Operations | What makes it correct |
|---|---|---|---|
| Grant table (`server.go:367-416`) | `quack_permissions`; one DuckDB transaction per sync | `SyncPermissions`, `GrantAccess` | readers see the whole old or the whole new mapping; overlapping writers do not mix |
| Authorization macros (`server.go:51-158`, `262-308`) | none: they read both tables and the catalog | one decision per statement | default deny; nothing is read that was not granted; syncs deny nothing they do not take away |
| Sessions (`server.go:350-365`, `418-466`) | `quack_sessions(sid, sub, created_at)`; the sweeper's ticker | `handleAuth`, `sweepSessions` | a row lives for its TTL and not much longer; no row for a bad token |
| Lifecycle (`server.go:183-348`) | control-plane listener, secret, sweeper, macros, hooks | `Start`, `Stop` | Quack serves only with everything in place; after `Stop` nothing is handled |
| `permissions.Manager` (`permissions/permissions.go`) | `admins`, `grants` under an `RWMutex` | `New`, `Load`, `Snapshot`, `VerifyToken` | what it holds is a file that was on disk |
| Watcher (`permissions/watch.go`) | inotify watch, event queue, debounce timer | `Watch`: handle an event, reload, call `onChange` | no edit is missed |
| JWT keys (`permissions/jwt.go`) | `jwksCache`: document, `lastFetch`, `RWMutex` | `buildJWTKeyfunc`, `parseJWKSKeys`, `getKey`, `fetch` | keys to verify with; fresh ones; one fetch per refresh; every lookup answered |
| `oauth-server` (`cmd/oauth-server/main.go:46-297`) | goroutines of an errgroup, S3 credentials | startup, `syncPermissions` from three places, bootstrap, refresh, shutdown | the table follows the file; the process ends, leaves nothing behind and tells what failed |
| Views (`main.go:300-322`, `366-672`) | views of the catalog | `parseS3Views`, `loadViewSchemas`, `bootstrapViews`, `tableNames` | every view, from one configuration, with each column once |
| Configuration (`cmd/oauth-server/config.go`) | `Config` | `ResolveSecrets`, `loadConfig` | exactly one key source |
| Landing page (`cmd/oauth-server/landing.go`) | none | one page per visitor | shut down before the database is closed |

How they interact. Quack calls `quack_jwt_auth` once per connection; the macro
does an HTTP GET to the control plane, whose `handleAuth` calls
`Manager.VerifyToken` (and so `jwksCache.getKey`) and writes `quack_sessions`.
Quack calls `quack_jwt_authz` for each statement; it joins `quack_sessions` with
`quack_permissions`. `Watch` calls back into `main`'s `syncPermissions`, which
reads the Manager (`Snapshot`), the catalog (`tableNames`) and writes the table
(`SyncPermissions`). The same closure is called by `main` before the group
starts and by the bootstrap goroutine when the views are there. Nothing
excludes these callers from each other but the database.

What is hard. Two callers of `syncPermissions` in flight; a `Load` that fails
halfway; file edits between any two steps of the watcher; events that refer to
an inode that is gone; repeated, late or abandoned authentication requests; a
token that expires while its key is fetched; fetches under a lock during an
outage; a `Start` that fails halfway; goroutines that fail while others shut
down; crashes with a database that persists. `PROJECT.json` lists each such
hazard at its line with the properties about it, or the reason why there is
none.

## 2. Modules

    GrantTable        what SyncPermissions and GrantAccess promise
      ^ implemented by (ImplementsGrantTable)
    QuackPermissions  both, as DuckDB transactions
      ^ INSTANCE DB                     ^ INSTANCE DB
    OAuthServer       three syncers     Authorization   quack_jwt_authz, Quack,
      v EXTENDS                                         sessions, the catalog
    PermissionsWatch  Load, Watch, the file, inotify

    Sessions          handleAuth, sweepSessions, quack_sessions
      ^ implemented by (ImplementsSessions)
    ControlPlane      handleAuth over VerifyToken over the cache
      v EXTENDS
    JwksCache         jwksCache.getKey and fetch

    Lifecycle         Start and Stop, for any embedder
      ^ EXTENDS
    Process           main, its errgroup, the S3 secret, the landing page
      v EXTENDS
    KeySource         ResolveSecrets, loadConfig, buildJWTKeyfunc, parseJWKSKeys

    ViewBootstrap     S3_VIEWS, the schema file and the views, over restarts

    MC<module>        constants and symmetry for TLC
    <module>_proofs   theorems and proofs; those about JwksCache are in
                      ControlPlane_proofs, those about Lifecycle in
                      Process_proofs, where they are used

**QuackPermissions.** `rows` is the committed table. A caller's transaction is
`phase` (begun, written), its argument `want`, the snapshot `snap` it reads, and
`stale`, what a commit deleted from that snapshot since. `Begin` is `BeginTx`;
`Write` is the DELETE and the INSERT loop, visible to nobody else until
`Commit`; every failure goes through the deferred `Rollback`. `late` records the
pairs `GrantAccess` added during a call; `merged` the mappings that syncs
committed during it without meeting its DELETE, since one of the two found no
row. Nothing else may survive a call. A transaction that takes its snapshot at its first statement is the case where
`Write` directly follows `Begin`.

**PermissionsWatch.** A file content is its admins, its (subject, table) pairs
and what is wrong with it (`fault`), as far as `Load` can tell the cases apart;
`LoadOutcomes` is the set of states `Load` can leave behind, since Go's map
order is random and an error returns at once. The watcher is a program counter
over `New`, the first `addWatch`, the select loop, and the two halves of `Load`
(`os.ReadFile` before the lock, decoding under it). Editors truncate and write,
swap an inode in (as kubelet does, unlinking the old one later), or delete and
create. An event is "remove" (Remove, Rename) or "write" (Write, Create, Chmod).

**OAuthServer** adds `main`'s progress, the bootstrap goroutine, the views in
the catalog beside the internal tables and, for each caller of
`syncPermissions`, where it is between `Snapshot`, `tableNames` and the
transaction. A failure of `tableNames` or `BeginTx` has the effect of a
`WriteFails`. `Restart` is a crash at any point, or the start that follows an
exit.

**Authorization** puts the macro beside the two writers. `Decide` evaluates
`Allowed` over one snapshot of sessions, grants and catalog; `Run` reads the
catalog as it is then. A statement is what the macro can tell of it: whether it
is one of the ungated queries, a SELECT or something else; the names that occur
in it, in lower case; whether a pattern matches. Beside it, what the macro
cannot tell: which of the names it really reads, and whether it reads
anything but tables. Grants are compared with the catalog exactly but
with the statement by lower case, as the macro does, so a grant may be spelled
in a way no table is.

**Sessions** has one request handler per (connection, try): Quack's HTTP client
may repeat the request or stop waiting for the answer while the handler goes on.
Its clock ticks past no due sweep, but a sweep may fail, and its error is dropped
(`SweepFails`, remembered in `failed`); rows from before the `created_at` column
have a NULL there. **JwksCache** has one program counter per caller of `getKey`, the
writer queue of the `RWMutex`, and a document on its way (`served`), which may
be older than what is published when it arrives; an unusable document is `{}`.
**ControlPlane** steps both under one clock: a handler of Sessions is a caller of
JwksCache from the keyfunc's checks to the key, then the signature, the expiry
and the claims are looked at. A token is the family of its method, its `kid`,
the key that signed it, `aud`, `iss`, the user claim and `exp`.

**Lifecycle** is `Start` one error return at a time and `Stop` one call at a
time, for an embedder that may retry or stop as it likes; requests run on the
control plane that the macro of the moment names. The listener is bound before
`Serve` has registered it, which `Shutdown` does not see. **Process** is the
embedder of this repository: `stage` is how far `main` is, `task` where each
goroutine of the group is; `OsExit` is every `os.Exit(1)`. Its configuration goes
through **KeySource**, which has no state: a PEM is the set of its keys, a JWKS
document the set of its entries.

**ViewBootstrap** has the file twice, as it is at the eager check and at the
second read, the views one CREATE at a time, and processes that fail, are killed
and come again, with the database kept or not. A view's definition is its
reader, its path, whether DuckDB adds hive columns, and the columns it selects.

A definition introduced by "Mutant:" is not part of a specification: it is the
definition that follows it with a plausible bug, and records which bug each
property detects (`PROJECT.json`, "mutants").

## 3. Runs

| Run | Checks | Bounds |
|---|---|---|
| `permissions_table` | `OneWriter`, `ReplacesWholeTable`, `WriterCommits`, refinement of `GrantTable` | 3 callers and 2 pairs (symmetric), mappings of at most one pair, every initial table, the empty ones included |
| `permissions_watch` | `NeverDeaf`, `StaleOnlyIfLost`, `EventuallyFollowsFile` | 3 edits of every kind, at any time; 2 valid contents and one of each fault |
| `oauth_server` | `SettledServesFile`, `ServesWholeFile`, `NoSyncAfterExit`, `EventuallyServesFile` | 2 edits, 2 views, an internal table, 1 crash and restart with the database kept, statements may fail |
| `authorization` | `ReadsOnlyGranted`, `NoLapse` | 1 connection of either subject, 2 syncers, 2 mappings, 7 statements, a table created late, a grant in another spelling |
| `sessions` | `NothingLingers`, `ServedForTTL`, `BadTokenNeverServed` | 1 connection beside a legacy row, 2 requests, TTL 3, sweep every 2, 12 ticks, inserts and sweeps may fail |
| `jwks_cache` | `AnsweredAfterQueue`, `KeyIsRecent`, `NoRedundantFetch` | 2 callers (symmetric), a rotation over 3 documents and one that is spoilt, 4 ticks |
| `control_plane` | `RetiredKeyIsCutOff`, refinement of `Sessions` | 1 connection, 2 requests, 8 tokens of which each but one has one fault, a sweep every 2 of 3 ticks |
| `process` | `ServesReady`, `StopCleansUp`, `RunsWithKeys`, `LeavesNothingBehind`, `ExitCodeTells`, `ExitsEventually`, `CredentialsRenewed` | 17 environments, with and without refresh and landing page, 1 request, 1 visitor, every call may fail |
| `view_bootstrap` | `ColumnsOnce`, `OneConfiguration`, `EventuallyBootstrapped` | 2 views, 5 values of `S3_VIEWS`, 13 schema files edited at any time, 3 failures or kills |

Most of them also check their module's type invariant. Why the bounds are
enough: two overlapping syncs need two callers, and a third one that finishes in
between, and one pair per mapping is enough for two mappings to be equal,
disjoint or empty; one edit can hide in each of the watcher's windows (before the watch,
between event and read, between read and lock), and the third shows what follows
a broken one; connections share nothing but the sweeper, which treats each row by
itself, and the macro looks at the rows of one connection; two callers make a
queue behind a fetch, and the ticks are more than a refresh interval and than a
caller's longest wait; a second request or visitor would wait for nothing the
first does not; a view is created beside another that is there, missing or
refused, and three failures are one in each of three processes in a row. With
`Process`, `Lifecycle` is called once; that a repeated `Start` is as good is
proved (section 4).

Three runs end in a violation: the code does something else than the README
says.

| Run | What happens |
|---|---|
| `lost_update` | an edit during view bootstrap: the older snapshot of the bootstrap re-sync is committed last, or the watcher's sync conflicts and is dropped; if the re-sync conflicts instead, its error ends the process (`README.md:105`) |
| `half_loaded` | a broken file is edited in during bootstrap: the Manager is empty or half filled after the failed `Load`, and the re-sync applies that (`README.md:163`) |
| `file_removed` | the file is missing for a moment when its Remove event is handled: no watch, ever again (`README.md:105`) |

The first two need an edit while the views are being created. `oauth_server`
therefore sets `QuietBoot`: nobody edits before bootstrap is done. It shows that,
with this race excluded, the table comes to hold the file's grants and keeps
them, under three more conditions its configuration or its properties make:
editors write or swap the file but do not delete it (`file_removed` is what
deletion can lead to), they do so only while `Watch` runs (an edit between `New`
and the watch is missed, `StaleOnlyIfLost`), and the last sync was not refused by
the database (its error is only logged, `main.go:232-234`).

Other divergences from what comments say. The runs above reach them, and the
properties state what holds instead; no run of its own is kept for them:

- `server.go:377-383` says that `SyncPermissions` replaces the entire table.
  Overlapping syncs of which one found the table *empty* do not conflict in
  DuckDB (there is no row for two DELETEs to meet on), and the table ends up with
  the union of both mappings. `Start` creates the table empty (`server.go:205-209`)
  and an empty mapping leaves it so. `permissions_table` starts from such tables
  and passes such mappings: `OneWriter`, `ReplacesWholeTable` and `WriterCommits`
  except the syncs in `merged`, and `GrantTable` promises no more (`blank`).
- With `DUCKDB_PATH`, the previous process's grants authorize until the first
  sync, where `main.go:164-167` says that no grants exist. `oauth_server` has a
  database that is kept over the restart: `SettledServesFile` and
  `EventuallyServesFile` say that the first sync replaces them.
- A session in constant use is reaped, since `created_at` is the time of its
  authentication, where `server.go:170`, `config.go:27`, `README.md:63` and
  `README.md:432` say "idle"; `server.go:350` says "rows older than sessionTTL",
  and that is what `NothingLingers` is about. Since a failing sweep's error is
  dropped (`server.go:362`), rows may outlive their TTL by more than one
  interval: `NothingLingers` counts from the last sweep that failed.
- `README.md:429` says that the internal tables are never grantable. `tableNames`
  leaves them out of what admins get (`main.go:664-666`, `ServesWholeFile`), but a
  permissions file that lists one for a user has it granted (`main.go:149-151`),
  and the macro makes no exception for them (`server.go:277-305`).
- In an outage a caller whose key is in the stale cache waits for other callers'
  fetches, up to `AnsweredAfterQueue`'s bound, which exceeds the control plane's
  write timeout, where `jwt.go:178-180` says that an outage does not block.

### Fairness

`PermissionsWatch.FairSpec`: the watcher's goroutine is scheduled (WF on each of
its steps; its timer fires), an editor that truncated the file finishes writing,
kubelet removes what it swapped out, and a deleted file is created again. The
initial edit is never required. `OAuthServer.MainFairSpec`: WF on `main`'s steps, on
each caller's `syncPermissions`, on bootstrap and on the watcher; none on edits,
interrupts, crashes or restarts. Nothing in the code but a blocked database call
could stop a Go goroutine from proceeding, and the models have no such call: the
transactions of DuckDB do not wait for each other, they abort.

`Process.ProcFairSpec`: WF on what happens once (`Forward`), on handlers and on
the refresh loop. SF on `SeesDone`: Go's `select` chooses at random among what is
ready, so a context that is done is seen even if events keep coming. SF on
`Refreshed`: credentials that are asked for again and again are granted at last.
WF on `Answered`: a visitor sends the rest of its request, which is an
assumption about visitors, since the landing page's server has no read timeout
and its `Shutdown` no deadline. Failures, interrupts, edits and expiry are not
required.

`ViewBootstrap.FairSpec`: WF on going on, and on a supervisor that starts the
process again. Failures and kills end at `MaxTrouble`; without an end nothing
could be promised.

`Sessions`, `JwksCache` and `ControlPlane` state bounds in time instead: a step
that is due is taken before the clock moves on.

## 4. Proofs

`tlapm` checks these without any unproved step.

*QuackPermissions_proofs*, for any callers, pairs, mappings and initial tables,
empty ones included: `TypeCorrect`, `MutualExclusion` (`OneWriter`), `WholeTable`
(`ReplacesWholeTable`), `FirstWriterWins` (`WriterCommits`, without database
errors) and `Refinement` (`ImplementsGrantTable`). `OneWriter` is not inductive:
the argument is that, while no commit has deleted a row of a transaction's
snapshot (`stale`), the snapshot is still in the table, the rest of the table is
what `GrantAccess` or syncs in `merged` added, and of two such snapshots one
contains the other. So the second of two DELETEs meets a tuple the first one
deleted, unless one of the two met no tuple at all: it had found the table empty.
`IInv` says this, and the other theorems follow from it.

*PermissionsWatch_proofs*, for any contents and any number of edits of any kind:
`TypeCorrect`, `NoEditIsMissed` (`StaleOnlyIfLost`), `NeverDeafHolds`
(`NeverDeaf`), and `KindEditorsAreFollowed`: if editors only write or swap, and
only once `Watch` runs, then at rest the Manager holds the file on disk
(`QuiescentFollowsFile`). `StaleOnlyIfLost` speaks of states at rest only; `IInv`
says of every state that the watch is on the file, or on an inode about to go,
or a remove event is queued (`Hearing`), and that what the Manager holds or is
about to hold is the file, or else something will still cause a read: the timer,
an event, a write under way, or an old inode that is watched (`Catching`).
`Hearing` is what `Catching` needs at each edit.

*Authorization_proofs*, for any names, spellings, statements, mappings and
syncers: `ReadsOnlyGrantedHolds`, `NoLapseHolds`, `TypeCorrect`, and `Embedding`
(beside the macro, the grants behave as QuackPermissions says). `ReadsOnlyGranted`
needs, for a statement that was allowed and has not run, that each name it
mentions was granted or was not in the catalog at the verdict; it rests on
`StatementAssumption`, that reading a table requires naming it. `NoLapse` needs
that the table always contains what every mapping has in common: it is
`Embedding` with the fact that a commit leaves a mapping and more.

*Sessions_proofs*, for any connections, TTL and interval: `TypeCorrect`,
`NothingLingersHolds` (but for rows older than the `created_at` column; each
sweep that fails gives the rows an interval more),
`ServedForTTLHolds`, `BadTokenNeverServedHolds`.

*OAuthServer_proofs*, for any subjects, tables, contents, number of edits and of
restarts, on top of *PermissionsWatch_proofs*, whose theorems are carried over
the life of a process: `WatchOutlivesCrashes` (`NeverDeaf` and
`StaleOnlyIfLost` in every life, since a crash comes between two edits and the
next process reads the file anew). `MainTypeCorrect`. `NoSyncAfterExitHolds`
rests on `Control`: who is in `syncPermissions` is where its goroutine calls it,
and has a transaction only there. `ServesWholeFileHolds` has the hypothesis
`QuietBoot` (nobody edits during bootstrap, the race of the two runs that end in
a violation); under it, there is one syncer at a time, and it has what the
Manager has, the views there are, and the table to itself (`QuietInv`).
`SettledServesFileHolds` also has `KindEditors` (editors write or swap, and only
once `Watch` runs): an edit that `StaleOnlyIfLost` allows to be lost would be
lost here too. Its invariant, `FollowInv`, says that at the select loop the table
has what the file says, or a read is coming, or the last sync was refused.

*ControlPlane_proofs*, first of `JwksCache`, for any callers, documents, refresh
interval and timeout: `TypeCorrect`; `KeyIsRecentHolds`; `AnsweredAfterQueueHolds`
for finitely many callers; and `NoRedundantFetchHolds`, if moreover the refresh
interval is above one fetch and above those of all callers but two
(`LongRefresh`). The last hypothesis is needed: with four callers and an interval
of two fetches TLC finds that the document grows old in the queue and is fetched
again, as it should be. With the code's 10 s and the default of 15 minutes it
holds for up to 91 lookups at a time. For the ages, the strengthening is that
each key in the document on its way was published when the request left or later
(`fetchStart`), that the clock never passes a fetch's deadline, and hence that
each cached key was published no earlier than `lastFetch - FetchTimeout`. For the
waits, it is a time at which the lock is free at the latest (`FreeBy`), and that
the i-th in the queue has its answer i fetches later (`Waits`): who joins has one
fetch at most to wait for, and fewer than all callers before it; who takes the
lock moves the others up by one. `Fresh` compares the same time with `lastFetch`.

Then of `ControlPlane`: `Refinement` (`ImplementsSessions`) and
`RetiredKeyIsCutOffHolds`, for any connections, tokens, rotations, outages and
restarts. A verification that succeeds is `Sessions`' `Verify`, a failed one its
`Refuse`, and lookups and the provider are stuttering steps. That needs
`Looking`: who is in `getKey` is a request in its verification, for the `kid` of
its own token, which the keyfunc did not refuse. `RetiredKeyIsCutOff` needs that
every row and open connection goes back to a verification (`Earned`), which was
in time and recent then (`Timely`) and stays so, as keys are only ever published
later.

*Process_proofs*, first of `Lifecycle`, for any number of Starts, failures and
requests: `ServesReadyHolds` (what each step of `Start` has left in place, at
each program counter, while no other `Start` intervenes) and `StopCleansUpHolds`.
Then of `Process`: `Embedding` (what the process does to its Server is a behaviour
of Lifecycle, so the two theorems above hold in it), `RunsWithKeysHolds` for any
environments and files, `LeavesNothingBehindHolds`, `ExitCodeTellsHolds` and
`ProcTypeCorrect`.

*ViewBootstrap_proofs*, for any settings, files and readers: `ColumnsOnceHolds`
(a declaration that was read passed the checks, and every definition comes from
one), `OneConfigurationHolds` (at the creation stage, the views that are
neither found nor to do are there and come from `schemas`) and `TypeCorrect`,
which says that every view reads a path of `S3_VIEWS` and selects nothing but
columns: what is to be created has an entry, hence a last one (`HasLast`).

Every invariant and every safety property of the runs that pass is thus proved,
under the hypotheses named above. Only model-checked: the liveness properties
(`EventuallyFollowsFile`, `EventuallyServesFile`, `ExitsEventually`,
`CredentialsRenewed`, `EventuallyBootstrapped`), since TLAPS does not reason
about fairness here.

## 5. Assumptions about the environment

- DuckDB: snapshot isolation; deleting a tuple that another transaction deleted,
  committed since or not, fails at once; inserts are invisible to others until
  the commit, where the UNIQUE constraint is checked; DELETE and re-INSERT of one
  pair in one transaction is possible. There are no predicate locks. The
  authorization macro is one query over one committed snapshot.
- Names of tables and views are word characters, as S3 view names are in
  practice: `\b` finds them whole. Names in one catalog, and columns of one
  declaration, differ in more than case.
- A reader that is asked for `filename = true` refuses a declared column of that
  name, when the view is bound, whether the view exists already or not
  (`Unbindable`).
- inotify: events of one watch arrive in order and none is lost (the queue of
  16384 events does not overflow); a file that is unlinked takes its watch with it.
- The sweeper's ticker is served when due. In `JwksCache`, only the network
  takes time; a writer leaving the `RWMutex` lets the readers it kept out go
  before the next writer, and writers go in turn.
- Without `EarlyEdits`, nobody edits before `Watch` runs, and no crash falls
  between the two halves of a write.
- A signal before `signal.Notify` ends the process like a crash: it is a
  behaviour of `Process` that stops.

## 6. Not modelled

- The text of the three patterns and of the ungated queries (`server.go:51-158`):
  that whatever reads anything but tables matches a pattern is an assumption
  (`StatementAssumption`), not a result. Checking it is about DuckDB's function
  names and grammar, which a state model adds nothing to.
- `env.Parse` and the variables other than the key sources; the DuckDB and Quack
  settings are one call that may fail.
- The generation of SQL text, quoting, HTML and logging, and the cryptography of
  tokens.
- A retried `Start` leaves the control plane and sweeper of the failed one
  running. `Lifecycle` has this; no property forbids it, since `oauth-server`
  exits on a failed `Start`.
- The example server, which uses the library as `Lifecycle` allows any embedder
  to.

What could still be added: a proof that `OAuthServer`'s transactions are
`QuackPermissions`' in every life of the process, so that its theorems about
overlapping writers hold there too; and that the tables of the authorization
macro are those `OAuthServer` and `ControlPlane` keep.
