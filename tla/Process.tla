------------------------------- MODULE Process -------------------------------
(* One life of cmd/oauth-server: main from the environment to the exit code,  *)
(* the goroutines of its errgroup, and the Server it embeds (Lifecycle), which *)
(* Quack and the sweeper keep busy.  The grants themselves are in OAuthServer: *)
(* here a sync is a call that succeeds or fails.                              *)

EXTENDS Lifecycle, KeySource

CONSTANTS Environments,  \* what the JWT variables and files may be (KeySource)
          Settings,      \* which parts are configured: sets of Parts
          Visitor        \* requests to the landing page

\* S3_VIEWS, S3_REGION, S3_CREDENTIAL_REFRESH_INTERVAL, HTTP_PORT
Parts == {"views", "region", "refresh", "landing"}

ASSUME ProcessAssumption ==
    /\ Settings \subseteq SUBSET Parts
    /\ \A e \in Environments, s \in Sources : e.inline[s] \in Values(s) /\ e.file[s] \in Values(s)

VARIABLES stage,        \* how far main is
          code,         \* its exit code: {n}, or {} while it runs
          settings,
          cfg,          \* the key sources loadConfig resolved
          keyfunc,      \* the Manager's keyfunc, {} for nil
          ctxDone,      \* is the group's context done?
          task,         \* where each goroutine of the group is
          landingShut,  \* was landingSrv.Shutdown called?
          visitor,      \* where each request to the landing page is
          secret        \* the credentials in the S3 secret

configVars == <<settings, cfg, keyfunc>>
groupVars == <<ctxDone, task>>
landingVars == <<landingShut, visitor>>
procVars == <<stage, code, configVars, groupVars, landingVars, secret>>
allVars == <<vars, procVars>>

Tasks == {"boot", "watch", "refresh", "landing"}
NoKeys == [s \in Sources |-> {}]

ProcTypeOK ==
    /\ TypeOK
    /\ stage \in {"config", "manager", "server", "starting", "sync", "spawn", "run",
                  "landing", "visitors", "stop", "stopping", "wait", "down"}
    /\ code \subseteq {0, 1}
    /\ settings \in Settings
    /\ DOMAIN cfg = Sources
    /\ keyfunc \subseteq Sources \X SUBSET Kid
    /\ ctxDone \in BOOLEAN
    /\ task \in [Tasks -> {"off", "httpfs", "secret", "views", "starting", "select",
                           "sync", "done", "failed"}]
    /\ landingShut \in BOOLEAN
    /\ visitor \in [Visitor -> {"none", "busy"}]
    /\ secret \in {"none", "fresh", "expired"}

ProcInit == /\ Init
            /\ stage = "config" /\ code = {}
            /\ settings \in Settings
            /\ cfg = NoKeys /\ keyfunc = {}
            /\ ctxDone = FALSE /\ task = [t \in Tasks |-> "off"]
            /\ landingShut = FALSE /\ visitor = [v \in Visitor |-> "none"]
            /\ secret = "none"

-----------------------------------------------------------------------------
(* main, up to the group.                                                     *)

MainGoto(from, to) == stage = from /\ stage' = to /\ UNCHANGED code

OsExit(from) == /\ stage = from
                /\ stage' = "down" /\ code' = {1}

LoadConfig(e) == /\ IF Accepted(e)
                      THEN MainGoto("config", "manager") /\ cfg' = Resolve(e)
                      ELSE OsExit("config") /\ UNCHANGED cfg
                 /\ UNCHANGED <<vars, settings, keyfunc, groupVars, landingVars, secret>>

\* The database, its settings, the view schemas; permissions.New, the last to
\* look at the key sources.
NewManager == /\ IF BuildFails(cfg) THEN OsExit("manager") /\ UNCHANGED keyfunc
                                    ELSE MainGoto("manager", "server") /\ keyfunc' = Keyfunc(cfg)
              /\ cfg' = NoKeys
              /\ UNCHANGED <<vars, settings, groupVars, landingVars, secret>>

\* Any call that main makes on its way may fail, and ends it.
MainFails == /\ Failures
             /\ \E from \in {"config", "manager", "sync"} : OsExit(from)
             /\ UNCHANGED <<vars, configVars, groupVars, landingVars, secret>>

StartServer == /\ MainGoto("server", "starting")
               /\ CallStart
               /\ UNCHANGED <<configVars, groupVars, landingVars, secret>>

ServerStarted == /\ pc = "idle"
                 /\ IF returned = "started" THEN MainGoto("starting", "sync")
                                            ELSE OsExit("starting")
                 /\ UNCHANGED <<vars, configVars, groupVars, landingVars, secret>>

FirstSync == /\ MainGoto("sync", "spawn")
             /\ UNCHANGED <<vars, configVars, groupVars, landingVars, secret>>

Configures(t) == CASE t = "boot"    -> "views" \in settings
                   [] t = "refresh" -> {"views", "region", "refresh"} \subseteq settings
                   [] t = "landing" -> "landing" \in settings
                   [] t = "watch"   -> TRUE

FirstStep(t) == CASE t = "boot"    -> "httpfs"
                  [] t = "refresh" -> "select"
                  [] OTHER         -> "starting"

Spawn == /\ MainGoto("spawn", "run")
         /\ task' = [t \in Tasks |-> IF Configures(t) THEN FirstStep(t) ELSE "off"]
         /\ UNCHANGED <<vars, configVars, ctxDone, landingVars, secret>>

-----------------------------------------------------------------------------
(* The goroutines.  The first error ends the group's context.                 *)

StepOf(t, from, to) == task[t] = from /\ task' = [task EXCEPT ![t] = to]

TaskGoto(t, from, to) == /\ StepOf(t, from, to)
                         /\ UNCHANGED <<vars, stage, code, configVars, ctxDone, landingVars>>

TaskFails(t, from) == /\ Failures
                      /\ StepOf(t, from, "failed")
                      /\ ctxDone' = TRUE
                      /\ UNCHANGED <<vars, stage, code, configVars, landingVars, secret>>

\* Bootstrap: its statements look at no context.
LoadHttpfs == /\ TaskGoto("boot", "httpfs", IF "region" \in settings THEN "secret" ELSE "views")
              /\ UNCHANGED secret

\* createS3Secret: IF NOT EXISTS.
CreateSecret == /\ TaskGoto("boot", "secret", "views")
                /\ secret' = IF secret = "none" THEN "fresh" ELSE secret

BootstrapViews == TaskGoto("boot", "views", "sync") /\ UNCHANGED secret
Resync == TaskGoto("boot", "sync", "done") /\ UNCHANGED secret
BootFails == \E from \in {"httpfs", "secret", "views", "sync"} : TaskFails("boot", from)
Boot == LoadHttpfs \/ CreateSecret \/ BootstrapViews \/ Resync \/ BootFails

\* Watch: a failing re-sync is logged; a context that is done is seen when
\* select picks it among what is ready.
WatchBegins == TaskGoto("watch", "starting", "select") /\ UNCHANGED secret
WatchReloads == TaskGoto("watch", "select", "sync") /\ UNCHANGED secret
WatchSynced == TaskGoto("watch", "sync", "select") /\ UNCHANGED secret
SeesDone(t) == ctxDone /\ TaskGoto(t, "select", "done") /\ UNCHANGED secret
Watch == WatchBegins \/ TaskFails("watch", "starting") \/ WatchReloads \/ WatchSynced

\* refreshS3Secret: OR REPLACE; a failure is logged.
RefreshTicks == TaskGoto("refresh", "select", "secret") /\ UNCHANGED secret
Refreshed == TaskGoto("refresh", "secret", "select") /\ secret' = "fresh"

\* Mutant: a failed refresh ends the loop.
RefreshGivesUp == Failures /\ TaskGoto("refresh", "secret", "done") /\ UNCHANGED secret

RefreshFails == Failures /\ TaskGoto("refresh", "secret", "select") /\ UNCHANGED secret
RefreshLoop == RefreshTicks \/ Refreshed \/ RefreshFails

\* ListenAndServe, which returns at once if Shutdown came first.
Listens == /\ TaskGoto("landing", "starting", IF landingShut THEN "done" ELSE "select")
           /\ UNCHANGED secret

\* Its net.Listen may fail even when Shutdown comes between its own look for
\* that and this call; later, Accept may.
ListenFails == TaskFails("landing", "starting")
AcceptFails == ~landingShut /\ TaskFails("landing", "select")

ListenEnds == landingShut /\ TaskGoto("landing", "select", "done") /\ UNCHANGED secret
Landing == Listens \/ ListenFails \/ ListenEnds

\* Temporary credentials expire.
Expire == /\ secret = "fresh" /\ secret' = "expired"
          /\ UNCHANGED <<vars, stage, code, configVars, groupVars, landingVars>>

VisitorGoto(v, to) == /\ visitor' = [visitor EXCEPT ![v] = to]
                      /\ UNCHANGED <<vars, stage, code, configVars, groupVars, landingShut,
                                     secret>>

Visits(v) == /\ task["landing"] = "select" /\ ~landingShut /\ visitor[v] = "none"
             /\ VisitorGoto(v, "busy")

\* landingHandler, once the request has come in: VerifyToken, and a page.
Answered(v) == visitor[v] = "busy" /\ VisitorGoto(v, "none")

-----------------------------------------------------------------------------
(* Shutdown.                                                                  *)

Interrupt == /\ MainGoto("run", "landing")
             /\ ctxDone' = TRUE
             /\ UNCHANGED <<vars, configVars, task, landingVars, secret>>

GroupEnds == /\ ctxDone
             /\ MainGoto("run", "landing")
             /\ UNCHANGED <<vars, configVars, groupVars, landingVars, secret>>

\* Mutant: the landing page is left to the group.
ShutLandingLater == /\ MainGoto("landing", "visitors")
                    /\ UNCHANGED <<vars, configVars, groupVars, landingVars, secret>>

\* landingSrv.Shutdown, without a deadline.
ShutLanding == /\ MainGoto("landing", "visitors")
               /\ landingShut' = ("landing" \in settings)
               /\ UNCHANGED <<vars, configVars, groupVars, visitor, secret>>

VisitorsLeft == /\ MainGoto("visitors", "stop")
                /\ \A v \in Visitor : visitor[v] = "none"
                /\ UNCHANGED <<vars, configVars, groupVars, landingVars, secret>>

StopServer == /\ MainGoto("stop", "stopping")
              /\ CallStop
              /\ UNCHANGED <<configVars, groupVars, landingVars, secret>>

\* An error of Stop is logged.
ServerStopped == /\ MainGoto("stopping", "wait") /\ pc = "idle"
                 /\ UNCHANGED <<vars, configVars, groupVars, landingVars, secret>>

TaskEnded(t) == task[t] \in {"off", "done", "failed"}
Failed(t) == task[t] = "failed"

\* Mutant: without g.Wait, the error is the context's.
ExitAtOnce == /\ stage = "wait"
              /\ stage' = "down"
              /\ code' = IF \E t \in Tasks : Failed(t) THEN {1} ELSE {0}
              /\ UNCHANGED <<vars, configVars, groupVars, landingVars, secret>>

Exit == /\ stage = "wait"
        /\ \A t \in Tasks : TaskEnded(t)
        /\ stage' = "down"
        /\ code' = IF \E t \in Tasks : Failed(t) THEN {1} ELSE {0}
        /\ UNCHANGED <<vars, configVars, groupVars, landingVars, secret>>

-----------------------------------------------------------------------------

Main == \/ \E e \in Environments : LoadConfig(e)
        \/ NewManager \/ MainFails \/ StartServer \/ ServerStarted \/ FirstSync \/ Spawn
        \/ GroupEnds \/ ShutLanding \/ VisitorsLeft \/ StopServer \/ ServerStopped \/ Exit

Group == \/ Boot \/ Watch \/ RefreshLoop \/ Landing \/ AcceptFails
         \/ \E t \in {"watch", "refresh"} : SeesDone(t)

Embedded == /\ StartStep \/ StopStep \/ Beside
            /\ UNCHANGED procVars

Outside == Interrupt \/ Expire \/ \E v \in Visitor : Visits(v) \/ Answered(v)

\* A process that is down does nothing.
ProcNext == /\ stage # "down"
            /\ Main \/ Group \/ Embedded \/ Outside

ProcSpec == ProcInit /\ [][ProcNext]_allVars

\* What happens once and stays possible until it does.
Forward == \/ Main \/ Boot \/ Landing \/ WatchBegins
           \/ (StartStep \/ StopStep) /\ UNCHANGED procVars

\* Goroutines are scheduled and calls return.  select is fair to a context that
\* is done however many events are ready beside it, and credentials that are
\* asked for again and again are granted.  Visitors send what they began to:
\* the landing page has no timeout that would make them.
ProcFairSpec ==
    /\ ProcSpec
    /\ WF_allVars(Forward)
    /\ WF_allVars(WatchSynced) /\ WF_allVars(RefreshLoop)
    /\ SF_allVars(SeesDone("watch")) /\ SF_allVars(SeesDone("refresh"))
    /\ SF_allVars(Refreshed)
    /\ \A r \in Request : WF_allVars(Handler(r) /\ UNCHANGED procVars)
    /\ \A v \in Visitor : WF_allVars(Answered(v))

-----------------------------------------------------------------------------
(* Properties.                                                                *)

\* No server is started without a key to verify with or a URL to fetch keys
\* from: what loadConfig lets through has one once the files were read, although
\* buildJWTKeyfunc would do without.  (Whether a JWK holds a usable key is not
\* looked at: one without n and e counts, src/permissions/jwt.go:115-126.)
RunsWithKeys == serving # {} => \E f \in keyfunc : f[1] = "url" \/ f[2] # {}

\* When main returns or exits after its group was started, nothing is left that
\* would use the database it closes: no request, visitor or goroutine (the
\* order of Shutdown, Stop and Wait).  A sweep may be: its error is ignored.
LeavesNothingBehind == stage = "down" /\ task["watch"] # "off" =>
    /\ \A r \in Request : ~Busy(r)
    /\ \A v \in Visitor : visitor[v] = "none"
    /\ \A t \in Tasks : TaskEnded(t)

\* The exit code tells whether any part failed, at any time, even while the
\* others were shutting down (g.Wait).
ExitCodeTells == code # {} =>
    (code = {0} <=> task["watch"] = "done" /\ \A t \in Tasks : ~Failed(t))

\* Interrupted, or with one part failed, the process comes to its end (select,
\* and the waits of both Shutdowns and of g.Wait).
ExitsEventually == ctxDone ~> stage = "down"

\* Expired credentials are replaced, after refreshes that failed too ("S3
\* queries fail with ExpiredToken", main.go:237-240).
CredentialsRenewed == task["refresh"] # "off" /\ secret = "expired" ~>
                          secret = "fresh" \/ ctxDone
=============================================================================
