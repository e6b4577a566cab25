------------------------------ MODULE Sessions ------------------------------
(* The quack_sessions table of src/server.go: handleAuth records the subject  *)
(* of an attaching connection, sweepSessions reaps old rows.  Quack is        *)
(* external: it calls the authentication macro once per connection, over an   *)
(* HTTP client that may repeat the request or give up on it while the handler *)
(* runs on, and it denies every query of a connection without a row.          *)

EXTENDS Integers

CONSTANTS Sid,            \* session ids, one per connection
          Legacy,         \* sids with a row from before the created_at column
          Expiries,       \* when tokens expire, 0 for one that is never good
          SessionTTL,     \* SESSION_TTL
          SweepInterval,  \* defaultSweepInterval
          Persistent,     \* is the database a file?
          DatabaseErrors, \* may an INSERT or a DELETE fail?
          Tries,          \* bound: requests per connection
          MaxTime         \* bound: the clock

Request == Sid \X Tries

ASSUME SessionsAssumption == /\ Legacy \subseteq Sid
                             /\ Expiries \subseteq Nat
                             /\ SessionTTL \in Nat
                             /\ SweepInterval \in Nat \ {0}
                             /\ Persistent \in BOOLEAN
                             /\ DatabaseErrors \in BOOLEAN
                             /\ MaxTime \in Nat

VARIABLES now,
          up,         \* is the server running?
          started,    \* when Start last ran
          nextSweep,  \* when sweepSessions' ticker fires next
          failed,     \* history: when the last sweep failed, 0 if it did not
          rows,       \* the sids with a row in quack_sessions
          created_at, \* its column, NULL in legacy rows
          expiry,     \* when the token of each connection expires
          client,     \* what each connection is, for Quack
          req,        \* where the handler of each request is
          recorded    \* history: when its row was last written

serverVars == <<up, started, nextSweep, failed>>
vars == <<now, serverVars, rows, created_at, expiry, client, req, recorded>>

NULL == -1

TypeOK == /\ now \in Nat
          /\ up \in BOOLEAN
          /\ started \in Nat
          /\ nextSweep \in Nat
          /\ failed \in Nat
          /\ rows \subseteq Sid
          /\ created_at \in [Sid -> Nat \cup {NULL}]
          /\ expiry \in [Sid -> Expiries]
          /\ client \in [Sid -> {"new", "attaching", "open", "closed"}]
          /\ req \in [Request -> {"none", "verify", "record", "accept", "done"}]
          /\ recorded \in [Sid -> Nat \cup {NULL}]

Init == /\ now = 0
        /\ up = TRUE
        /\ started = 0
        /\ nextSweep = SweepInterval
        /\ failed = 0
        /\ rows = Legacy
        /\ created_at = [s \in Sid |-> NULL]
        /\ expiry \in [Sid -> Expiries]
        /\ client = [s \in Sid |-> IF s \in Legacy THEN "closed" ELSE "new"]
        /\ req = [r \in Request |-> "none"]
        /\ recorded = [s \in Sid |-> NULL]

-----------------------------------------------------------------------------
(* Quack and its clients.                                                     *)

Attach(s) == /\ up /\ client[s] = "new"
             /\ client' = [client EXCEPT ![s] = "attaching"]
             /\ UNCHANGED <<now, serverVars, expiry, rows, created_at, req, recorded>>

\* The macro's GET /auth, sent once or, by retries, several times.
Send(r) == /\ up /\ client[r[1]] = "attaching" /\ req[r] = "none"
           /\ req' = [req EXCEPT ![r] = "verify"]
           /\ UNCHANGED <<now, serverVars, expiry, rows, created_at, client, recorded>>

\* The client leaves, or Quack stops waiting for the answer.
Close(s) == /\ client[s] \in {"attaching", "open"}
            /\ client' = [client EXCEPT ![s] = "closed"]
            /\ UNCHANGED <<now, serverVars, expiry, rows, created_at, req, recorded>>

-----------------------------------------------------------------------------
(* handleAuth.                                                                *)

Step(r, from, to) == req[r] = from /\ req' = [req EXCEPT ![r] = to]

\* Mutant: the refusal does not end the handler.
VerifyGoesOn(r) == /\ Step(r, "verify", "record")
                   /\ UNCHANGED <<now, serverVars, expiry, rows, created_at, client, recorded>>

\* s.verify: an expired token is answered {"allowed": false}.
Verify(r) == /\ Step(r, "verify", IF now < expiry[r[1]] THEN "record" ELSE "done")
             /\ UNCHANGED <<now, serverVars, expiry, rows, created_at, client, recorded>>

\* It refuses a token for other reasons too: its key cannot be had.
Refuse(r) == /\ Step(r, "verify", "done")
             /\ UNCHANGED <<now, serverVars, expiry, rows, created_at, client, recorded>>

\* Mutant: DO UPDATE SET sub, without created_at.
RecordKeepsStamp(r) ==
    /\ Step(r, "record", "accept")
    /\ rows' = rows \cup {r[1]}
    /\ created_at' = IF r[1] \in rows THEN created_at ELSE [created_at EXCEPT ![r[1]] = now]
    /\ recorded' = [recorded EXCEPT ![r[1]] = now]
    /\ UNCHANGED <<now, serverVars, expiry, client>>

\* Mutant: the row is stamped with the sweeper's cutoff.
RecordCutoff(r) == /\ Step(r, "record", "accept")
                   /\ rows' = rows \cup {r[1]}
                   /\ created_at' = [created_at EXCEPT ![r[1]] = now - SessionTTL]
                   /\ recorded' = [recorded EXCEPT ![r[1]] = now]
                   /\ UNCHANGED <<now, serverVars, expiry, client>>

\* INSERT ... ON CONFLICT (sid) DO UPDATE, stamped with time.Now().
Record(r) == /\ Step(r, "record", "accept")
             /\ rows' = rows \cup {r[1]}
             /\ created_at' = [created_at EXCEPT ![r[1]] = now]
             /\ recorded' = [recorded EXCEPT ![r[1]] = now]
             /\ UNCHANGED <<now, serverVars, expiry, client>>

RecordFails(r) == /\ DatabaseErrors
                  /\ Step(r, "record", "done")
                  /\ UNCHANGED <<now, serverVars, expiry, rows, created_at, client, recorded>>

\* {"allowed": true}, if anybody still waits for it.
Accept(r) == /\ Step(r, "accept", "done")
             /\ client' = IF client[r[1]] = "attaching"
                            THEN [client EXCEPT ![r[1]] = "open"] ELSE client
             /\ UNCHANGED <<now, serverVars, expiry, rows, created_at, recorded>>

-----------------------------------------------------------------------------
(* sweepSessions, time, and the life of the process.                          *)

\* Mutant: the cutoff is one sweep too early.
ExpiredLate(s) == created_at[s] # NULL /\ created_at[s] < now - SessionTTL - SweepInterval

Expired(s) == created_at[s] # NULL /\ created_at[s] < now - SessionTTL

\* DELETE FROM quack_sessions WHERE created_at < cutoff: NULL < cutoff is not
\* true.
Sweep == /\ up /\ now = nextSweep
         /\ rows' = {s \in rows : ~Expired(s)}
         /\ created_at' = [s \in Sid |-> IF Expired(s) THEN NULL ELSE created_at[s]]
         /\ nextSweep' = now + SweepInterval
         /\ failed' = 0
         /\ UNCHANGED <<now, up, started, expiry, client, req, recorded>>

\* `_, _ = s.db.Exec(...)`: a DELETE that fails is not tried again before the
\* next tick.
SweepFails == /\ DatabaseErrors
              /\ up /\ now = nextSweep
              /\ nextSweep' = now + SweepInterval
              /\ failed' = now
              /\ UNCHANGED <<now, up, started, rows, created_at, expiry, client, req,
                             recorded>>

\* The ticker is served when it is due.
Tick == /\ now < MaxTime
        /\ up => now < nextSweep
        /\ now' = now + 1
        /\ UNCHANGED <<serverVars, expiry, rows, created_at, client, req, recorded>>

\* Stop or a crash: connections and handlers are gone, a file survives.
Stop == /\ up
        /\ up' = FALSE
        /\ IF Persistent THEN UNCHANGED <<rows, created_at>>
                         ELSE rows' = {} /\ created_at' = [s \in Sid |-> NULL]
        /\ client' = [s \in Sid |-> IF client[s] \in {"attaching", "open"}
                                      THEN "closed" ELSE client[s]]
        /\ req' = [r \in Request |-> IF req[r] = "none" THEN "none" ELSE "done"]
        /\ UNCHANGED <<now, started, nextSweep, failed, expiry, recorded>>

Start == /\ ~up
         /\ up' = TRUE
         /\ started' = now
         /\ nextSweep' = now + SweepInterval
         /\ failed' = 0
         /\ UNCHANGED <<now, rows, created_at, expiry, client, req, recorded>>

Handler(r) == Verify(r) \/ Refuse(r) \/ Record(r) \/ RecordFails(r) \/ Accept(r)

Next == \/ \E s \in Sid : Attach(s) \/ Close(s)
        \/ \E r \in Request : Send(r) \/ Handler(r)
        \/ Sweep \/ SweepFails \/ Tick \/ Stop \/ Start

Spec == Init /\ [][Next]_vars

-----------------------------------------------------------------------------
(* Properties.                                                                *)

Later(a, b) == IF a < b THEN b ELSE a

\* The last moment the running server may still have the row of s: the first
\* sweep after its TTL, one interval later when that sweep fails, and so on.
ReapedBy(s) == SweepInterval + Later(Later(created_at[s] + SessionTTL, started), failed)

\* No dated row lingers: late requests, closed connections and restarts
\* included, a row is gone at the first sweep after its TTL that succeeds
\* (sweepSessions drops the error of one that fails).  "Rows older than
\* sessionTTL" (src/server.go:350) are the idle ones and those in use alike.
NothingLingers == up => \A s \in rows \ Legacy : now <= ReapedBy(s)

\* An authenticated session keeps its row for SESSION_TTL after the last
\* request that recorded it, whatever the sweeper and repeated requests do
\* (handleAuth, sweepSessions).
ServedForTTL == \A s \in Sid :
    client[s] = "open" /\ recorded[s] # NULL /\ now <= recorded[s] + SessionTTL
        => s \in rows

\* A token that never verifies gets neither a row nor a connection, whatever
\* is repeated and whatever races with the sweeper and restarts (handleAuth).
BadTokenNeverServed == \A s \in Sid \ Legacy :
    expiry[s] = 0 => s \notin rows /\ client[s] # "open"
=============================================================================
