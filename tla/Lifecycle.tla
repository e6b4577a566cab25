------------------------------ MODULE Lifecycle ------------------------------
(* Server.Start and Server.Stop of src/server.go for any embedder, which      *)
(* calls one after the other, may retry a Start that failed, and need not     *)
(* stop what it started.  A control plane, a sweeper, a secret and a macro    *)
(* are named by the Start they come from; 0 is an earlier process, whose      *)
(* macros a database file still has.                                          *)

EXTENDS Naturals

CONSTANTS Request,    \* authentications Quack may be asked for at once
          Failures,   \* may a step of Start or quack_stop fail?
          MaxStarts   \* bound: calls of Start

ASSUME LifecycleAssumption == Failures \in BOOLEAN /\ MaxStarts \in Nat

VARIABLES pc,         \* where the embedder is in Start or Stop
          returned,   \* what the last of them returned
          start,      \* calls of Start so far; s.serverSecret is the last one's
          control,    \* s.controlServer and s.sweepCancel: {n}, or {} for nil
          plane,      \* the listener of each control plane
          shut,       \* control planes whose Shutdown was called
          sweeper,    \* where each sweepSessions goroutine is
          cancelled,  \* sweepers whose context is cancelled
          macro,      \* who created the auth and the authz macro: {n} or {}
          hooked,     \* are both callbacks set?
          serving,    \* {n} while Quack serves with the secret of Start n
          at,         \* where the handler of each request is
          on          \* the control plane it runs on

startVars == <<pc, returned>>
planeVars == <<control, plane, shut>>
sweepVars == <<sweeper, cancelled>>
quackVars == <<macro, hooked, serving>>
requestVars == <<at, on>>
vars == <<startVars, start, planeVars, sweepVars, quackVars, requestVars>>

Starts == 0..MaxStarts
StartSteps == {"setup", "listen", "auth", "authz", "hooks", "serve"}
StopSteps == {"shutdown", "drain", "quackstop"}

TypeOK == /\ pc \in {"idle"} \cup StartSteps \cup StopSteps
          /\ returned \in {"nothing", "started", "failed", "stopped", "unstopped"}
          /\ start \in Starts
          /\ control \subseteq Starts
          /\ plane \in [Starts -> {"closed", "bound", "serving"}]
          /\ shut \subseteq Starts
          /\ sweeper \in [Starts -> {"off", "running"}]
          /\ cancelled \subseteq Starts
          /\ macro \in [{"auth", "authz"} -> SUBSET Starts]
          /\ hooked \in BOOLEAN
          /\ serving \subseteq Starts
          /\ at \in [Request -> {"none", "verify", "record"}]
          /\ on \in [Request -> Starts]

Init == /\ pc = "idle" /\ returned = "nothing" /\ start = 0
        /\ control = {} /\ shut = {} /\ cancelled = {}
        /\ plane = [n \in Starts |-> "closed"]
        /\ sweeper = [n \in Starts |-> "off"]
        /\ \E m \in {{}, {0}} : macro = [f \in {"auth", "authz"} |-> m]
        /\ hooked = FALSE /\ serving = {}
        /\ at = [r \in Request |-> "none"] /\ on = [r \in Request |-> 0]

-----------------------------------------------------------------------------
(* Start.                                                                     *)

Goto(from, to) == pc = from /\ pc' = to /\ UNCHANGED returned

CallStart == /\ pc = "idle" /\ serving = {} /\ start < MaxStarts
             /\ pc' = "setup"
             /\ returned' = "nothing"
             /\ start' = start + 1
             /\ UNCHANGED <<planeVars, sweepVars, quackVars, requestVars>>

\* The extensions and the tables.
Setup == /\ Goto("setup", "listen")
         /\ UNCHANGED <<start, planeVars, sweepVars, quackVars, requestVars>>

\* net.Listen; then Serve and sweepSessions run in goroutines of their own.
Listen == /\ Goto("listen", "auth")
          /\ plane' = [plane EXCEPT ![start] = "bound"]
          /\ sweeper' = [sweeper EXCEPT ![start] = "running"]
          /\ control' = {start}
          /\ UNCHANGED <<start, shut, cancelled, quackVars, requestVars>>

\* Mutant: CREATE MACRO IF NOT EXISTS.
CreateMacroKeeps(f, from, to) ==
    /\ Goto(from, to)
    /\ macro' = IF macro[f] = {} THEN [macro EXCEPT ![f] = {start}] ELSE macro
    /\ UNCHANGED <<start, planeVars, sweepVars, hooked, serving, requestVars>>

\* CREATE OR REPLACE MACRO: the auth macro names the port of this listener.
CreateMacro(f, from, to) ==
    /\ Goto(from, to)
    /\ macro' = [macro EXCEPT ![f] = {start}]
    /\ UNCHANGED <<start, planeVars, sweepVars, hooked, serving, requestVars>>

SetHooks == /\ Goto("hooks", "serve")
            /\ hooked' = TRUE
            /\ UNCHANGED <<start, planeVars, sweepVars, macro, serving, requestVars>>

Serve == /\ pc = "serve"
         /\ pc' = "idle" /\ returned' = "started"
         /\ serving' = {start}
         /\ UNCHANGED <<start, planeVars, sweepVars, macro, hooked, requestVars>>

\* Every error returns at once and undoes nothing.
StartFails == /\ Failures /\ pc \in StartSteps
              /\ pc' = "idle" /\ returned' = "failed"
              /\ UNCHANGED <<start, planeVars, sweepVars, quackVars, requestVars>>

StartStep == \/ Setup \/ Listen
             \/ CreateMacro("auth", "auth", "authz")
             \/ CreateMacro("authz", "authz", "hooks")
             \/ SetHooks \/ Serve \/ StartFails

-----------------------------------------------------------------------------
(* Stop.                                                                      *)

CallStop == /\ pc = "idle"
            /\ pc' = IF control = {} THEN "quackstop" ELSE "shutdown"
            /\ returned' = "nothing"
            /\ cancelled' = cancelled \cup control
            /\ UNCHANGED <<start, planeVars, sweeper, quackVars, requestVars>>

\* Shutdown closes the listeners Serve has registered..
Shutdown == /\ Goto("shutdown", "drain")
            /\ shut' = shut \cup control
            /\ plane' = [n \in Starts |-> IF n \in control /\ plane[n] = "serving"
                                            THEN "closed" ELSE plane[n]]
            /\ UNCHANGED <<start, control, sweepVars, quackVars, requestVars>>

Busy(r) == at[r] # "none"

\* Mutant: Close, which waits for nobody.
DrainAtOnce == /\ Goto("drain", "quackstop")
               /\ UNCHANGED <<start, planeVars, sweepVars, quackVars, requestVars>>

\* ..and waits for the handlers, however long they take.
Drain == /\ Goto("drain", "quackstop")
         /\ \A r \in Request : Busy(r) => on[r] \notin control
         /\ UNCHANGED <<start, planeVars, sweepVars, quackVars, requestVars>>

QuackStops == /\ pc = "quackstop"
              /\ pc' = "idle" /\ returned' = "stopped"
              /\ serving' = {}
              /\ UNCHANGED <<start, planeVars, sweepVars, macro, hooked, requestVars>>

QuackStopFails == /\ Failures /\ pc = "quackstop"
                  /\ pc' = "idle" /\ returned' = "unstopped"
                  /\ UNCHANGED <<start, planeVars, sweepVars, quackVars, requestVars>>

StopStep == Shutdown \/ Drain \/ QuackStops \/ QuackStopFails

-----------------------------------------------------------------------------
(* What runs beside: Serve, the sweepers, and handleAuth.                     *)

\* The goroutine of Serve registers the listener, or finds it was shut down.
Accepts(n) == /\ plane[n] = "bound"
              /\ plane' = [plane EXCEPT ![n] = IF n \in shut THEN "closed" ELSE "serving"]
              /\ UNCHANGED <<startVars, start, control, shut, sweepVars, quackVars,
                             requestVars>>

\* Nobody waits for a sweeper to leave; it may finish the sweep it is at.
SweeperLeaves(n) == /\ sweeper[n] = "running" /\ n \in cancelled
                    /\ sweeper' = [sweeper EXCEPT ![n] = "off"]
                    /\ UNCHANGED <<startVars, start, planeVars, cancelled, quackVars,
                                   requestVars>>

\* Quack evaluates the auth macro, which asks the control plane it names.
Ask(r, n) == /\ serving # {} /\ n \in macro["auth"]
             /\ ~Busy(r) /\ plane[n] = "serving"
             /\ at' = [at EXCEPT ![r] = "verify"]
             /\ on' = [on EXCEPT ![r] = n]
             /\ UNCHANGED <<startVars, start, planeVars, sweepVars, quackVars>>

\* handleAuth: the digest is compared with that of the current secret, the
\* token verified; a refusal ends it.
Verify(r) == /\ at[r] = "verify"
             /\ \/ serving = {start} /\ at' = [at EXCEPT ![r] = "record"]
                \/ at' = [at EXCEPT ![r] = "none"]
             /\ UNCHANGED <<startVars, start, planeVars, sweepVars, quackVars, on>>

\* The INSERT, and the answer.
Record(r) == /\ at[r] = "record"
             /\ at' = [at EXCEPT ![r] = "none"]
             /\ UNCHANGED <<startVars, start, planeVars, sweepVars, quackVars, on>>

Handler(r) == Verify(r) \/ Record(r)

Beside == \/ \E n \in Starts : Accepts(n) \/ SweeperLeaves(n)
          \/ \E r \in Request : Handler(r) \/ \E n \in Starts : Ask(r, n)

Next == CallStart \/ StartStep \/ CallStop \/ StopStep \/ Beside

Spec == Init /\ [][Next]_vars

-----------------------------------------------------------------------------
(* Properties.                                                                *)

\* While Quack serves, both callbacks are set and both macros are this Start's:
\* never the port or the rules of an earlier process or of a failed Start; and
\* from Start's return to the next call, the control plane and the sweeper the
\* server relies on are there (Start).
ServesReady == \A n \in serving :
    /\ hooked /\ macro = [f \in {"auth", "authz"} |-> {n}]
    /\ n = start /\ control = {n}
    /\ returned = "started" =>
         plane[n] # "closed" /\ n \notin shut /\ sweeper[n] # "off" /\ n \notin cancelled

\* After Stop, no request is being handled and none will be: Quack asks nobody,
\* the last control plane takes no connection and its sweeper leaves.  (What a
\* failed Start left behind is out of Stop's reach once Start was retried.)
StopCleansUp ==
    returned \in {"stopped", "unstopped"} =>
        /\ \A r \in Request : ~Busy(r)
        /\ control \subseteq shut \cap cancelled
        /\ \A n \in control : plane[n] # "serving"
==============================================================================
