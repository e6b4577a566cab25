--------------------------- MODULE Process_proofs ---------------------------
(* Proofs about Process, for any environments, settings, requests, visitors,  *)
(* and about the Server it embeds (Lifecycle), for any number of requests and *)
(* calls of Start.                                                            *)

EXTENDS Process, TLAPS, FiniteSetTheorems

-----------------------------------------------------------------------------
(* The embedded Server, by itself.                                            *)

\* Nothing has touched a Start that has not come to net.Listen.
Untouched == \A n \in Starts :
    n > start \/ (n = start /\ pc \in {"setup", "listen"})
        => n \notin shut \cup cancelled \cup control

\* What a Start has built so far is its own and works.
Building ==
    /\ pc # "idle" => returned = "nothing"
    /\ pc \in StartSteps => serving = {}
    /\ pc \in StartSteps \ {"setup", "listen"} =>
         /\ control = {start} /\ start \notin shut \cup cancelled
         /\ plane[start] # "closed" /\ sweeper[start] # "off"
    /\ pc \in {"authz", "hooks", "serve"} => macro["auth"] = {start}
    /\ pc \in {"hooks", "serve"} => macro["authz"] = {start}
    /\ pc = "serve" => hooked

\* How far a Stop has come with the last control plane.
Closing ==
    /\ pc = "shutdown" => control \subseteq cancelled
    /\ pc \in {"drain", "quackstop"} \/ returned \in {"stopped", "unstopped"} =>
         /\ control \subseteq shut \cap cancelled
         /\ \A n \in control : plane[n] # "serving"
    /\ pc = "quackstop" \/ returned \in {"stopped", "unstopped"} =>
         \A r \in Request : ~Busy(r)

\* Requests come from Quack, which knows the last control plane only.
Asked == \A r \in Request : Busy(r) => serving = {start} /\ on[r] = start

IInv == TypeOK /\ Untouched /\ Building /\ Closing /\ Asked /\ ServesReady

\* The invariant holds at first, whatever macros a database file has.
LEMMA InitIInv == Init => IInv
<1> SUFFICES ASSUME Init
             PROVE  IInv
  OBVIOUS
<1> USE LifecycleAssumption DEF Init, Starts
<1>1. macro \in [{"auth", "authz"} -> SUBSET Starts]
  OBVIOUS
<1>2. TypeOK
  <2>1. /\ pc = "idle" /\ returned = "nothing" /\ start \in Starts
        /\ plane \in [Starts -> {"closed", "bound", "serving"}]
        /\ sweeper \in [Starts -> {"off", "running"}]
    OBVIOUS
  <2>2. at \in [Request -> {"none", "verify", "record"}] /\ on \in [Request -> Starts]
    OBVIOUS
  <2> QED
    BY <1>1, <2>1, <2>2 DEF TypeOK
<1>3. Untouched /\ Building /\ Closing /\ Asked /\ ServesReady
  BY DEF Untouched, Building, Closing, Asked, ServesReady, StartSteps, Busy
<1> QED
  BY <1>2, <1>3 DEF IInv

\* No step of Start, of Stop or beside them breaks it.
LEMMA NextIInv == IInv /\ [Next]_vars => IInv'
<1> SUFFICES ASSUME IInv, [Next]_vars
             PROVE  IInv'
  OBVIOUS
<1> USE LifecycleAssumption
    DEF IInv, TypeOK, Starts, Untouched, Building, Closing, Asked, ServesReady,
        StartSteps, StopSteps, Busy,
        startVars, planeVars, sweepVars, quackVars, requestVars
<1>1. CASE UNCHANGED vars
  BY <1>1 DEF vars
<1>2. CASE CallStart
  BY <1>2 DEF CallStart
<1>3. CASE Setup
  BY <1>3 DEF Setup, Goto
<1>4. CASE Listen
  BY <1>4 DEF Listen, Goto
<1>5. CASE CreateMacro("auth", "auth", "authz")
  BY <1>5 DEF CreateMacro, Goto
<1>6. CASE CreateMacro("authz", "authz", "hooks")
  BY <1>6 DEF CreateMacro, Goto
<1>7. CASE SetHooks
  BY <1>7 DEF SetHooks, Goto
<1>8. CASE Serve
  BY <1>8 DEF Serve
<1>9. CASE StartFails
  BY <1>9 DEF StartFails
<1>10. CASE CallStop
  BY <1>10 DEF CallStop
<1>11. CASE Shutdown
  BY <1>11 DEF Shutdown, Goto
<1>12. CASE Drain
  BY <1>12 DEF Drain, Goto
<1>13. CASE QuackStops
  BY <1>13 DEF QuackStops
<1>14. CASE QuackStopFails
  BY <1>14 DEF QuackStopFails
<1>15. ASSUME NEW n \in Starts, Accepts(n)
       PROVE  IInv'
  BY <1>15 DEF Accepts
<1>16. ASSUME NEW n \in Starts, SweeperLeaves(n)
       PROVE  IInv'
  BY <1>16 DEF SweeperLeaves
<1>17. ASSUME NEW r \in Request, NEW n \in Starts, Ask(r, n)
       PROVE  IInv'
  <2>1. serving = {start} /\ n = start /\ control = {n}
    <3>1. PICK k \in serving : TRUE
      BY <1>17 DEF Ask
    <3>2. macro = [f \in {"auth", "authz"} |-> {k}] /\ k = start /\ control = {k}
      BY <3>1
    <3>3. macro["auth"] = {k} /\ n \in macro["auth"]
      BY <3>2, <1>17 DEF Ask
    <3>4. \A j \in serving : j = k
      BY <3>2
    <3>5. \A j : j \in serving <=> j = k
      BY <3>1, <3>4, Zenon
    <3>6. serving = {k}
      BY <3>5, Zenon
    <3> QED
      BY <3>2, <3>3, <3>6
  <2>2. /\ pc \notin {"drain", "quackstop"}
        /\ returned \notin {"stopped", "unstopped"}
    BY <1>17, <2>1 DEF Ask
  <2>3. TypeOK' /\ Untouched' /\ Building' /\ ServesReady'
    BY <1>17 DEF Ask
  <2>4. Closing' /\ Asked'
    BY <1>17, <2>1, <2>2 DEF Ask
  <2> QED
    BY <2>3, <2>4
<1>18. ASSUME NEW r \in Request, Verify(r)
       PROVE  IInv'
  BY <1>18 DEF Verify
<1>19. ASSUME NEW r \in Request, Record(r)
       PROVE  IInv'
  BY <1>19 DEF Record
<1> QED
  BY <1>1, <1>2, <1>3, <1>4, <1>5, <1>6, <1>7, <1>8, <1>9, <1>10, <1>11, <1>12,
     <1>13, <1>14, <1>15, <1>16, <1>17, <1>18, <1>19
     DEF Next, StartStep, StopStep, Beside, Handler

\* Start, Stop and the requests keep their types, and the invariant.
THEOREM Invariance == Spec => []IInv
  BY InitIInv, NextIInv, PTL DEF Spec

\* Whatever fails and is tried again, Quack never serves with the callbacks or
\* macros of another Start, nor without its control plane and sweeper.
THEOREM ServesReadyHolds == Spec => []ServesReady
<1>1. IInv => ServesReady
  BY DEF IInv
<1> QED
  BY Invariance, <1>1, PTL

\* Whatever was under way, after Stop no request is handled nor will be.
THEOREM StopCleansUpHolds == Spec => []StopCleansUp
<1>1. IInv => StopCleansUp
  BY DEF IInv, Closing, StopCleansUp
<1> QED
  BY Invariance, <1>1, PTL

\* And all variables keep their types.
THEOREM TypeCorrect == Spec => []TypeOK
<1>1. IInv => TypeOK
  BY DEF IInv
<1> QED
  BY Invariance, <1>1, PTL

-----------------------------------------------------------------------------
(* main is an embedder like any other.                                        *)

\* Every step of the process is one of Lifecycle, or leaves it alone.
LEMMA EmbeddedStep == [ProcNext]_allVars => [Next]_vars
<1> SUFFICES ASSUME [ProcNext]_allVars
             PROVE  [Next]_vars
  OBVIOUS
<1>1. CASE UNCHANGED allVars
  BY <1>1 DEF allVars
<1>2. CASE Main
  BY <1>2 DEF Main, LoadConfig, NewManager, MainFails, StartServer, ServerStarted,
              FirstSync, Spawn, GroupEnds, ShutLanding, VisitorsLeft, StopServer,
              ServerStopped, Exit, Next
<1>3. CASE Group
  BY <1>3 DEF Group, Boot, LoadHttpfs, CreateSecret, BootstrapViews, Resync, BootFails,
              Watch, WatchBegins, WatchReloads, WatchSynced, SeesDone, RefreshLoop,
              RefreshTicks, Refreshed, RefreshFails, Landing, Listens, ListenFails,
              ListenEnds, AcceptFails, TaskGoto, TaskFails
<1>4. CASE Embedded
  BY <1>4 DEF Embedded, Next
<1>5. CASE Outside
  BY <1>5 DEF Outside, Interrupt, Expire, Visits, Answered, VisitorGoto
<1> QED
  BY <1>1, <1>2, <1>3, <1>4, <1>5 DEF ProcNext

\* The server that main embeds satisfies what is proved above of every
\* embedder: in particular it serves ready, and its Stop cleans up.
THEOREM Embedding == ProcSpec => [](IInv /\ ServesReady /\ StopCleansUp)
<1>1. ProcInit => Init
  BY DEF ProcInit
<1>2. ProcSpec => Spec
  BY <1>1, EmbeddedStep, PTL DEF ProcSpec, Spec
<1> QED
  BY <1>2, Invariance, ServesReadyHolds, StopCleansUpHolds, PTL

-----------------------------------------------------------------------------
(* Keys.                                                                      *)

HasKeys == \E f \in keyfunc : f[1] = "url" \/ f[2] # {}

Unstarted == stage \in {"config", "manager", "down"} /\ pc = "idle" /\ serving = {}

KeyInv == /\ stage = "manager" => \E s \in Sources : Configured(cfg) = {s}
          /\ HasKeys \/ Unstarted

\* One source passes loadConfig, whatever files replace variables.
LEMMA OneSource == ASSUME NEW e, Accepted(e)
                   PROVE  \E s \in Sources : Configured(Resolve(e)) = {s}
<1>1. IsFiniteSet(Sources)
  <2>1. Sources = (({} \cup {"pem"}) \cup {"url"}) \cup {"jwks"}
    BY DEF Sources
  <2> QED
    BY <2>1, FS_EmptySet, FS_AddElement
<1>2. Configured(Resolve(e)) \in SUBSET Sources
  BY DEF Configured
<1>3. \E x : Configured(Resolve(e)) = {x}
  BY <1>1, <1>2, FS_Subset, FS_Singleton DEF Accepted
<1> QED
  BY <1>2, <1>3

\* buildJWTKeyfunc makes a keyfunc of it that has keys, or fails.
LEMMA KeyfuncHasKeys == ASSUME NEW c, NEW s \in Sources, Configured(c) = {s}, ~BuildFails(c)
                        PROVE  \E f \in Keyfunc(c) : f[1] = "url" \/ f[2] # {}
<1>1. c[s] # {}
  BY DEF Configured
<1>2. CASE s = "url"
  <2>1. <<"url", {}>> \in Keyfunc(c)
    BY <1>2 DEF Keyfunc
  <2> QED
    BY <2>1
<1>3. CASE s = "pem"
  <2>1. PICK x \in c["pem"] : x # {}
    BY <1>1, <1>3 DEF BuildFails
  <2>2. UNION c["pem"] # {}
    BY <2>1
  <2>3. <<"pem", UNION c["pem"]>> \in Keyfunc(c)
    BY <1>3 DEF Keyfunc
  <2> QED
    BY <2>2, <2>3
<1>4. CASE s = "jwks"
  <2>1. PICK doc \in c["jwks"] : Kids(doc) # {}
    BY <1>1, <1>4 DEF BuildFails, ParseFails
  <2>2. UNION {Kids(d) : d \in c["jwks"]} # {}
    BY <2>1
  <2>3. <<"jwks", UNION {Kids(d) : d \in c["jwks"]}>> \in Keyfunc(c)
    BY <1>4 DEF Keyfunc
  <2> QED
    BY <2>2, <2>3
<1> QED
  BY <1>2, <1>3, <1>4 DEF Sources

\* Nothing but NewManager sets the keyfunc, and nothing is served before it.
LEMMA KeyStep == KeyInv /\ [ProcNext]_allVars => KeyInv'
<1> SUFFICES ASSUME KeyInv, [ProcNext]_allVars
             PROVE  KeyInv'
  OBVIOUS
<1> USE DEF KeyInv, HasKeys, Unstarted
<1> USE DEF vars, startVars, planeVars, sweepVars, quackVars, requestVars, configVars
<1>1. CASE UNCHANGED allVars
  BY <1>1 DEF allVars, procVars
<1>2. ASSUME NEW e \in Environments, LoadConfig(e)
      PROVE  KeyInv'
  BY <1>2, OneSource DEF LoadConfig, MainGoto, OsExit
<1>3. CASE NewManager
  BY <1>3, KeyfuncHasKeys DEF NewManager, MainGoto, OsExit
<1>4. CASE MainFails
  BY <1>4 DEF MainFails, OsExit
<1>5. CASE StartServer \/ ServerStarted \/ FirstSync \/ Spawn
  BY <1>5 DEF StartServer, ServerStarted, FirstSync, Spawn, MainGoto, OsExit
<1>6. CASE GroupEnds \/ ShutLanding \/ VisitorsLeft \/ StopServer \/ ServerStopped \/ Exit
  BY <1>6 DEF GroupEnds, ShutLanding, VisitorsLeft, StopServer, ServerStopped, Exit, MainGoto
<1>7. CASE Group
  BY <1>7 DEF Group, Boot, LoadHttpfs, CreateSecret, BootstrapViews, Resync, BootFails,
              Watch, WatchBegins, WatchReloads, WatchSynced, SeesDone, RefreshLoop,
              RefreshTicks, Refreshed, RefreshFails, Landing, Listens, ListenFails,
              ListenEnds, AcceptFails, TaskGoto, TaskFails
<1>8. CASE Embedded
  BY <1>8 DEF Embedded, procVars, StartStep, Setup, Listen, CreateMacro, SetHooks, Serve,
              StartFails, Goto, StopStep, Shutdown, Drain, QuackStops, QuackStopFails,
              Beside, Accepts, SweeperLeaves, Ask, Handler, Verify, Record
<1>9. CASE Outside
  BY <1>9 DEF Outside, Interrupt, MainGoto, Expire, Visits, Answered, VisitorGoto
<1> QED
  BY <1>1, <1>2, <1>3, <1>4, <1>5, <1>6, <1>7, <1>8, <1>9 DEF ProcNext, Main

\* No server is started that has no keys to verify with, nor a URL for them.
THEOREM RunsWithKeysHolds == ProcSpec => []RunsWithKeys
<1>1. ProcInit => KeyInv
  BY DEF ProcInit, Init, KeyInv, Unstarted
<1>2. KeyInv => RunsWithKeys
  BY DEF KeyInv, HasKeys, Unstarted, RunsWithKeys
<1> QED
  BY <1>1, <1>2, KeyStep, PTL DEF ProcSpec
-----------------------------------------------------------------------------
(* The end.                                                                   *)

TaskSteps == {"off", "httpfs", "secret", "views", "starting", "select", "sync", "done",
              "failed"}
BeforeGroup == {"config", "manager", "server", "starting", "sync", "spawn"}
Spawned == task["watch"] # "off"
StopReturned == pc = "idle" /\ returned \in {"stopped", "unstopped"}
NoVisitor == \A v \in Visitor : visitor[v] = "none"

\* Before the group, at its end, and what its Shutdowns have achieved.
Order ==
    /\ task \in [Tasks -> TaskSteps] /\ visitor \in [Visitor -> {"none", "busy"}]
    /\ stage \in BeforeGroup => NoVisitor /\ \A t \in Tasks : task[t] = "off"
    /\ stage \notin BeforeGroup \cup {"down"} => Spawned
    /\ "landing" \notin settings => task["landing"] = "off"
    /\ stage \in {"visitors", "stop", "stopping", "wait"} \/ (stage = "down" /\ Spawned)
         => landingShut \/ task["landing"] = "off"
    /\ stage \in {"stop", "stopping", "wait"} \/ (stage = "down" /\ Spawned) => NoVisitor
    /\ stage = "stopping" => pc \in StopSteps \/ StopReturned
    /\ stage = "wait" \/ (stage = "down" /\ Spawned) => StopReturned

Code ==
    /\ stage # "down" => code = {}
    /\ stage = "down" /\ ~Spawned => code = {1} /\ \A t \in Tasks : task[t] = "off"
    /\ stage = "down" /\ Spawned =>
         /\ \A t \in Tasks : TaskEnded(t)
         /\ code = IF \E t \in Tasks : Failed(t) THEN {1} ELSE {0}

EndInv == Order /\ Code

\* main's own steps go through the shutdown in order.
LEMMA MainKeepsOrder == EndInv /\ stage # "down" /\ Main => EndInv'
<1> SUFFICES ASSUME EndInv, stage # "down", Main
             PROVE  EndInv'
  OBVIOUS
<1> USE DEF EndInv, Order, Code, Spawned, StopReturned, NoVisitor, TaskEnded, Failed,
            BeforeGroup, TaskSteps, StopSteps, Tasks, MainGoto, OsExit,
            vars, startVars, configVars, groupVars, landingVars
<1>1. ASSUME NEW e \in Environments, LoadConfig(e)
      PROVE  EndInv'
  BY <1>1 DEF LoadConfig
<1>2. CASE NewManager \/ MainFails \/ ServerStarted \/ FirstSync
  BY <1>2 DEF NewManager, MainFails, ServerStarted, FirstSync
<1>3. CASE StartServer
  BY <1>3 DEF StartServer, CallStart, planeVars, sweepVars, quackVars, requestVars
<1>4. CASE Spawn
  BY <1>4 DEF Spawn, Configures, FirstStep
<1>5. CASE GroupEnds \/ ShutLanding \/ VisitorsLeft
  BY <1>5 DEF GroupEnds, ShutLanding, VisitorsLeft
<1>6. CASE StopServer
  BY <1>6 DEF StopServer, CallStop
<1>7. CASE ServerStopped
  BY <1>7 DEF ServerStopped
<1>8. CASE Exit
  BY <1>8 DEF Exit
<1> QED
  BY <1>1, <1>2, <1>3, <1>4, <1>5, <1>6, <1>7, <1>8 DEF Main

\* Goroutines end for good; none begins that main does not wait for.
LEMMA GroupKeepsOrder == EndInv /\ stage # "down" /\ Group => EndInv'
<1> SUFFICES ASSUME EndInv, stage # "down", Group
             PROVE  EndInv'
  OBVIOUS
<1>1. \E t \in Tasks, from \in TaskSteps \ {"off"}, to \in TaskSteps \ {"off"} :
          /\ StepOf(t, from, to)
          /\ UNCHANGED <<vars, stage, code, settings, landingShut, visitor>>
  <2> USE DEF TaskGoto, TaskFails, StepOf, Tasks, TaskSteps, configVars, landingVars
  <2>1. CASE Boot
    BY <2>1 DEF Boot, LoadHttpfs, CreateSecret, BootstrapViews, Resync, BootFails
  <2>2. CASE Watch
    BY <2>2 DEF Watch, WatchBegins, WatchReloads, WatchSynced
  <2>3. CASE RefreshLoop
    BY <2>3 DEF RefreshLoop, RefreshTicks, Refreshed, RefreshFails
  <2>4. CASE Landing \/ AcceptFails
    BY <2>4 DEF Landing, Listens, ListenFails, ListenEnds, AcceptFails
  <2>5. ASSUME NEW t \in {"watch", "refresh"}, SeesDone(t)
        PROVE  \E u \in Tasks, from \in TaskSteps \ {"off"}, to \in TaskSteps \ {"off"} :
                  /\ StepOf(u, from, to)
                  /\ UNCHANGED <<vars, stage, code, settings, landingShut, visitor>>
    BY <2>5 DEF SeesDone
  <2> QED
    BY <2>1, <2>2, <2>3, <2>4, <2>5 DEF Group
<1>2. PICK t \in Tasks, from \in TaskSteps \ {"off"}, to \in TaskSteps \ {"off"} :
          /\ StepOf(t, from, to)
          /\ UNCHANGED <<vars, stage, code, settings, landingShut, visitor>>
  BY <1>1
<1>3. /\ task' \in [Tasks -> TaskSteps]
      /\ \A u \in Tasks : task'[u] = "off" <=> task[u] = "off"
  BY <1>2 DEF EndInv, Order, StepOf
<1> QED
  BY <1>2, <1>3 DEF EndInv, Order, Code, Spawned, StopReturned, NoVisitor, BeforeGroup,
     StepOf, Tasks, vars, startVars

\* So does the server: it runs Start or Stop only while main waits for them.
LEMMA ServerKeepsOrder == EndInv /\ stage # "down" /\ Embedded => EndInv'
<1> SUFFICES ASSUME EndInv, stage # "down", Embedded
             PROVE  EndInv'
  OBVIOUS
<1>1. /\ pc \in StopSteps \/ StopReturned => pc' \in StopSteps \/ StopReturned'
      /\ StopReturned => StopReturned'
  <2> USE DEF StopReturned, StopSteps, StartSteps, startVars
  <2>1. CASE StartStep
    BY <2>1 DEF StartStep, Setup, Listen, CreateMacro, SetHooks, Serve, StartFails, Goto
  <2>2. CASE StopStep
    BY <2>2 DEF StopStep, Shutdown, Drain, QuackStops, QuackStopFails, Goto
  <2>3. CASE Beside
    BY <2>3 DEF Beside, Accepts, SweeperLeaves, Ask, Handler, Verify, Record
  <2> QED
    BY <2>1, <2>2, <2>3 DEF Embedded
<1> QED
  BY <1>1 DEF Embedded, procVars, configVars, groupVars, landingVars, EndInv, Order, Code,
     Spawned, NoVisitor, BeforeGroup, TaskEnded, Failed

\* And so do visitors, whom a landing page that is shut does not let in.
LEMMA OutsideKeepsOrder == EndInv /\ stage # "down" /\ Outside => EndInv'
<1> SUFFICES ASSUME EndInv, stage # "down", Outside
             PROVE  EndInv'
  OBVIOUS
<1> USE DEF EndInv, Order, Code, Spawned, StopReturned, NoVisitor, TaskEnded, Failed,
            BeforeGroup, Tasks, vars, startVars, configVars, groupVars, landingVars
<1>1. CASE Interrupt
  BY <1>1 DEF Interrupt, MainGoto
<1>2. CASE Expire
  BY <1>2 DEF Expire
<1>3. ASSUME NEW v \in Visitor, Visits(v)
      PROVE  EndInv'
  BY <1>3 DEF Visits, VisitorGoto
<1>4. ASSUME NEW v \in Visitor, Answered(v)
      PROVE  EndInv'
  BY <1>4 DEF Answered, VisitorGoto
<1> QED
  BY <1>1, <1>2, <1>3, <1>4 DEF Outside

\* Together: the shutdown goes in order, whatever fails or comes in between.
LEMMA EndInvariance == ProcSpec => []EndInv
<1>1. ProcInit => EndInv
  BY DEF ProcInit, EndInv, Order, Code, Spawned, NoVisitor, BeforeGroup, TaskSteps, Tasks
<1>2. EndInv /\ [ProcNext]_allVars => EndInv'
  <2>1. CASE UNCHANGED allVars
    BY <2>1 DEF allVars, vars, startVars, procVars, configVars, groupVars, landingVars,
       EndInv, Order, Code, Spawned, StopReturned, NoVisitor, TaskEnded, Failed
  <2>2. CASE ProcNext
    BY <2>2, MainKeepsOrder, GroupKeepsOrder, ServerKeepsOrder, OutsideKeepsOrder
       DEF ProcNext
  <2> QED
    BY <2>1, <2>2
<1> QED
  BY <1>1, <1>2, PTL DEF ProcSpec

\* When the process ends after its group was started, no request, visitor or
\* goroutine is left: Stop has cleaned up, and main has waited for the others.
THEOREM LeavesNothingBehindHolds == ProcSpec => []LeavesNothingBehind
<1>1. EndInv /\ StopCleansUp => LeavesNothingBehind
  BY DEF EndInv, Order, Code, Spawned, StopReturned, NoVisitor, StopCleansUp,
         LeavesNothingBehind
<1> QED
  BY <1>1, Embedding, EndInvariance, PTL

\* The exit code is 0 exactly when every goroutine ended well.
THEOREM ExitCodeTellsHolds == ProcSpec => []ExitCodeTells
<1>1. EndInv => ExitCodeTells
  BY DEF EndInv, Order, Code, Spawned, ExitCodeTells, TaskEnded, Failed, Tasks
<1> QED
  BY <1>1, EndInvariance, PTL

-----------------------------------------------------------------------------
(* Types.                                                                     *)

Stages == {"config", "manager", "server", "starting", "sync", "spawn", "run",
           "landing", "visitors", "stop", "stopping", "wait", "down"}

ProcTyped ==
    /\ stage \in Stages
    /\ code \subseteq {0, 1}
    /\ settings \in Settings
    /\ DOMAIN cfg = Sources /\ \A s \in Sources : cfg[s] \in Values(s)
    /\ keyfunc \subseteq Sources \X SUBSET Kid
    /\ ctxDone \in BOOLEAN
    /\ task \in [Tasks -> TaskSteps]
    /\ landingShut \in BOOLEAN
    /\ visitor \in [Visitor -> {"none", "busy"}]
    /\ secret \in {"none", "fresh", "expired"}

\* A keyfunc has kids for keys, whatever source it is made of.
LEMMA KeyfuncTyped == ASSUME NEW c, \A s \in Sources : c[s] \in Values(s)
                      PROVE  Keyfunc(c) \subseteq Sources \X SUBSET Kid
<1>1. c["pem"] \in SUBSET SUBSET Kid /\ c["jwks"] \in SUBSET SUBSET Jwk
  BY DEF Sources, Values
<1>2. UNION c["pem"] \in SUBSET Kid
  BY <1>1
<1>3. ASSUME NEW doc \in SUBSET Jwk
      PROVE  Kids(doc) \in SUBSET Kid
  <2>1. \A j \in Jwk : j.kid \in SUBSET Kid
    BY DEF Jwk
  <2> QED
    BY <2>1 DEF Kids, Relevant
<1>4. UNION {Kids(doc) : doc \in c["jwks"]} \in SUBSET Kid
  BY <1>1, <1>3
<1>5. Configured(c) \subseteq {"pem", "url", "jwks"}
  BY DEF Configured, Sources
<1> QED
  BY <1>2, <1>4, <1>5 DEF Keyfunc, Sources

\* Every step sets its variables to values of their types.
LEMMA ProcTypedStep == ProcTyped /\ [ProcNext]_allVars => ProcTyped'
<1> SUFFICES ASSUME ProcTyped, [ProcNext]_allVars
             PROVE  ProcTyped'
  OBVIOUS
<1> USE DEF ProcTyped, Stages, configVars, groupVars, landingVars
<1>1. CASE UNCHANGED allVars
  BY <1>1 DEF allVars, procVars
<1>2. ASSUME NEW e \in Environments, LoadConfig(e)
      PROVE  ProcTyped'
  <2>1. DOMAIN Resolve(e) = Sources /\ \A s \in Sources : Resolve(e)[s] \in Values(s)
    BY ProcessAssumption DEF Resolve
  <2> QED
    BY <1>2, <2>1 DEF LoadConfig, MainGoto, OsExit
<1>3. CASE NewManager
  <2>1. DOMAIN NoKeys = Sources /\ \A s \in Sources : NoKeys[s] \in Values(s)
    BY DEF NoKeys, Values
  <2> QED
    BY <1>3, <2>1, KeyfuncTyped DEF NewManager, MainGoto, OsExit
<1>4. CASE MainFails
  BY <1>4 DEF MainFails, OsExit
<1>5. CASE StartServer \/ ServerStarted \/ FirstSync
  BY <1>5 DEF StartServer, ServerStarted, FirstSync, MainGoto, OsExit
<1>6. CASE Spawn
  <2>1. \A t \in Tasks : FirstStep(t) \in TaskSteps
    BY DEF FirstStep, Tasks, TaskSteps
  <2>2. "off" \in TaskSteps
    BY DEF TaskSteps
  <2>3. task' \in [Tasks -> TaskSteps]
    BY <1>6, <2>1, <2>2 DEF Spawn
  <2> QED
    BY <1>6, <2>3 DEF Spawn, MainGoto
<1>7. CASE GroupEnds \/ ShutLanding \/ VisitorsLeft \/ StopServer \/ ServerStopped \/ Exit
  <2>1. CASE GroupEnds \/ VisitorsLeft \/ StopServer \/ ServerStopped
    BY <2>1 DEF GroupEnds, VisitorsLeft, StopServer, ServerStopped, MainGoto
  <2>2. CASE ShutLanding
    BY <2>2 DEF ShutLanding, MainGoto
  <2>3. CASE Exit
    BY <2>3 DEF Exit
  <2> QED
    BY <1>7, <2>1, <2>2, <2>3
<1>8. CASE Group
  <2> USE DEF TaskGoto, TaskFails, StepOf, Tasks, TaskSteps
  <2>1. CASE Boot
    <3>1. CASE LoadHttpfs
      BY <3>1 DEF LoadHttpfs
    <3>2. CASE CreateSecret
      BY <3>2 DEF CreateSecret
    <3>3. CASE BootstrapViews \/ Resync
      BY <3>3 DEF BootstrapViews, Resync
    <3>4. CASE BootFails
      BY <3>4 DEF BootFails
    <3> QED
      BY <2>1, <3>1, <3>2, <3>3, <3>4 DEF Boot
  <2>2. CASE Watch
    BY <2>2 DEF Watch, WatchBegins, WatchReloads, WatchSynced
  <2>3. CASE RefreshLoop
    BY <2>3 DEF RefreshLoop, RefreshTicks, Refreshed, RefreshFails
  <2>4. CASE Landing \/ AcceptFails
    BY <2>4 DEF Landing, Listens, ListenFails, ListenEnds, AcceptFails
  <2>5. CASE \E t \in {"watch", "refresh"} : SeesDone(t)
    BY <2>5 DEF SeesDone
  <2> QED
    BY <1>8, <2>1, <2>2, <2>3, <2>4, <2>5 DEF Group
<1>9. CASE Embedded
  BY <1>9 DEF Embedded, procVars
<1>10. CASE Outside
  BY <1>10 DEF Outside, Interrupt, MainGoto, Expire, Visits, Answered, VisitorGoto
<1> QED
  BY <1>1, <1>2, <1>3, <1>4, <1>5, <1>6, <1>7, <1>8, <1>9, <1>10 DEF ProcNext, Main

\* main, its goroutines, its configuration and its Server keep their types.
THEOREM ProcTypeCorrect == ProcSpec => []ProcTypeOK
<1>1. ProcInit => ProcTyped
  BY DEF ProcInit, ProcTyped, Stages, TaskSteps, NoKeys, Values
<1>2. ProcTyped /\ IInv => ProcTypeOK
  BY DEF ProcTyped, IInv, ProcTypeOK, Stages, TaskSteps
<1> QED
  BY <1>1, <1>2, ProcTypedStep, Embedding, PTL DEF ProcSpec
=============================================================================
