--------------------------- MODULE Sessions_proofs ---------------------------
(* Proofs about Sessions, for any sessions, requests, times and databases.    *)

EXTENDS Sessions, TLAPS

\* The session table, its requests and its clock keep their types.
THEOREM TypeCorrect == Spec => []TypeOK
<1> USE SessionsAssumption DEF NULL, Request
<1>1. Init => TypeOK
  BY DEF Init, TypeOK
<1>2. TypeOK /\ [Next]_vars => TypeOK'
  <2> SUFFICES ASSUME TypeOK, [Next]_vars
               PROVE  TypeOK'
    OBVIOUS
  <2> USE DEF TypeOK, serverVars
  <2>1. CASE UNCHANGED vars
    BY <2>1 DEF vars
  <2>2. ASSUME NEW s \in Sid, Attach(s)
        PROVE  TypeOK'
    BY <2>2 DEF Attach
  <2>3. ASSUME NEW s \in Sid, Close(s)
        PROVE  TypeOK'
    BY <2>3 DEF Close
  <2>5. ASSUME NEW r \in Request, Send(r)
        PROVE  TypeOK'
    BY <2>5 DEF Send
  <2>6. ASSUME NEW r \in Request, Verify(r) \/ Refuse(r) \/ RecordFails(r)
        PROVE  TypeOK'
    BY <2>6 DEF Verify, Refuse, RecordFails, Step
  <2>7. ASSUME NEW r \in Request, Record(r)
        PROVE  TypeOK'
    BY <2>7 DEF Record, Step
  <2>8. ASSUME NEW r \in Request, Accept(r)
        PROVE  TypeOK'
    BY <2>8 DEF Accept, Step
  <2>9. CASE Sweep \/ SweepFails
    BY <2>9 DEF Sweep, SweepFails, Expired
  <2>10. CASE Tick
    BY <2>10 DEF Tick
  <2>11. CASE Stop
    BY <2>11 DEF Stop
  <2>12. CASE Start
    BY <2>12 DEF Start
  <2> QED
    BY <2>1, <2>2, <2>3, <2>5, <2>6, <2>7, <2>8, <2>9, <2>10, <2>11, <2>12
       DEF Next, Handler
<1> QED
  BY <1>1, <1>2, PTL DEF Spec

-----------------------------------------------------------------------------
(* Nothing lingers.  While the server runs, the next sweep is at most one     *)
(* interval away, and no row outlives it that is due before, unless the sweep *)
(* fails: `failed` then puts the row's time off by one interval.              *)

SweepScheduled == up => now <= nextSweep /\ nextSweep <= now + SweepInterval

SweptInTime == up => \A s \in rows \ Legacy : created_at[s] # NULL
                                     /\ nextSweep <= ReapedBy(s)

\* Only rows from before the created_at column have no date.
RowsDated == \A s \in rows \ Legacy : created_at[s] # NULL

LInv == TypeOK /\ SweepScheduled /\ SweptInTime /\ RowsDated

LEMMA LInvPreserved == LInv /\ TypeOK' /\ [Next]_vars => LInv'
<1> SUFFICES ASSUME LInv, TypeOK', [Next]_vars
             PROVE  LInv'
  OBVIOUS
<1> USE SessionsAssumption DEF LInv, TypeOK, SweepScheduled, SweptInTime, RowsDated,
        ReapedBy, Later, NULL, serverVars
<1>1. CASE UNCHANGED <<now, serverVars, rows, created_at>>
  BY <1>1
<1>2. ASSUME NEW r \in Request, Record(r)
      PROVE  LInv'
  BY <1>2 DEF Record, Request
<1>3. CASE Sweep
  <2>1. ASSUME NEW s \in rows' \ Legacy
        PROVE  created_at'[s] = created_at[s] /\ now <= created_at[s] + SessionTTL
    BY <1>3 DEF Sweep, Expired
  <2>2. SweptInTime'
    <3> SUFFICES ASSUME NEW s \in rows' \ Legacy
                 PROVE  created_at'[s] # NULL /\ nextSweep' <= ReapedBy(s)'
      OBVIOUS
    <3>1. s \in rows \ Legacy /\ created_at[s] \in Int /\ created_at'[s] = created_at[s]
      BY <1>3, <2>1 DEF Sweep
    <3>2. created_at[s] # NULL
      BY <3>1
    <3>3. nextSweep' = now + SweepInterval /\ failed' = 0 /\ started' = started
      BY <1>3 DEF Sweep
    <3>4. now <= created_at[s] + SessionTTL
      BY <2>1
    <3>5. now <= Later(Later(created_at'[s] + SessionTTL, started'), failed')
      BY <3>1, <3>3, <3>4
    <3> QED
      BY <3>1, <3>2, <3>3, <3>5
  <2> QED
    BY <1>3, <2>1, <2>2 DEF Sweep
<1>7. CASE SweepFails
  BY <1>7 DEF SweepFails
<1>4. CASE Tick
  BY <1>4 DEF Tick
<1>5. CASE Stop
  BY <1>5 DEF Stop
<1>6. CASE Start
  BY <1>6 DEF Start
<1> QED
  BY <1>1, <1>2, <1>3, <1>4, <1>5, <1>6, <1>7
     DEF Next, vars, Handler, Attach, Close, Send, Verify, Refuse, RecordFails, Accept

\* sweepSessions reaps every dated row at the first sweep after its TTL that
\* succeeds; each one that fails gives the row an interval more.
THEOREM NothingLingersHolds == Spec => []NothingLingers
<1>1. Init => LInv
  BY SessionsAssumption DEF Init, LInv, TypeOK, SweepScheduled, SweptInTime, RowsDated,
     NULL, Request
<1>2. LInv /\ TypeOK' /\ [Next]_vars => LInv'
  BY LInvPreserved
<1>3. LInv => NothingLingers
  <2> SUFFICES ASSUME LInv, up, NEW s \in rows \ Legacy
               PROVE  now <= ReapedBy(s)
    BY DEF NothingLingers
  <2>1. now <= nextSweep /\ nextSweep <= ReapedBy(s)
    BY DEF LInv, SweepScheduled, SweptInTime
  <2>2. now \in Int /\ nextSweep \in Int /\ ReapedBy(s) \in Int
    BY SessionsAssumption DEF LInv, TypeOK, ReapedBy, Later, NULL
  <2> QED
    BY <2>1, <2>2
<1> QED
  BY <1>1, <1>2, <1>3, TypeCorrect, PTL DEF Spec

-----------------------------------------------------------------------------
(* A session is served for its TTL.  The row of a connection that is, or may  *)
(* still become, open carries the time of the last request that recorded it.  *)

NewUntouched == \A s \in Sid : client[s] = "new" =>
                   /\ recorded[s] = NULL
                   /\ \A i \in Tries : req[<<s, i>>] = "none"

LiveHasRow == \A s \in Sid :
    /\ client[s] \in {"attaching", "open"}
    /\ recorded[s] # NULL
    /\ now <= recorded[s] + SessionTTL
    => s \in rows /\ created_at[s] = recorded[s]

RInv == TypeOK /\ NewUntouched /\ LiveHasRow

LEMMA RInvPreserved == RInv /\ TypeOK' /\ [Next]_vars => RInv'
<1> SUFFICES ASSUME RInv, TypeOK', [Next]_vars
             PROVE  RInv'
  OBVIOUS
<1> USE SessionsAssumption DEF RInv, TypeOK, NewUntouched, LiveHasRow, NULL, Request,
        serverVars
<1>1. CASE UNCHANGED vars
  BY <1>1 DEF vars
<1>2. ASSUME NEW s \in Sid, Attach(s)
      PROVE  RInv'
  BY <1>2 DEF Attach
<1>3. ASSUME NEW s \in Sid, Close(s)
      PROVE  RInv'
  BY <1>3 DEF Close
<1>4. ASSUME NEW r \in Request, Send(r) \/ Verify(r) \/ Refuse(r) \/ RecordFails(r)
      PROVE  RInv'
  <2>1. /\ UNCHANGED <<now, rows, created_at, client, recorded>>
        /\ \E to \in {"verify", "record", "done"} : req' = [req EXCEPT ![r] = to]
        /\ client[r[1]] # "new"
    BY <1>4 DEF Send, Verify, Refuse, RecordFails, Step
  <2> QED
    BY <2>1
<1>5. ASSUME NEW r \in Request, Record(r)
      PROVE  RInv'
  <2>1. client[r[1]] # "new"
    BY <1>5 DEF Record, Step
  <2>2. /\ rows' = rows \cup {r[1]}
        /\ created_at' = [created_at EXCEPT ![r[1]] = now]
        /\ recorded' = [recorded EXCEPT ![r[1]] = now]
        /\ req' = [req EXCEPT ![r] = "accept"]
        /\ UNCHANGED <<now, client>>
    BY <1>5 DEF Record, Step
  <2>3. NewUntouched'
    BY <2>1, <2>2
  <2>4. LiveHasRow'
    BY <2>2
  <2> QED
    BY <2>3, <2>4
<1>6. ASSUME NEW r \in Request, Accept(r)
      PROVE  RInv'
  BY <1>6 DEF Accept, Step
<1>7. CASE Sweep \/ SweepFails
  BY <1>7 DEF Sweep, SweepFails, Expired
<1>8. CASE Tick
  BY <1>8 DEF Tick
<1>9. CASE Stop
  BY <1>9 DEF Stop
<1>10. CASE Start
  BY <1>10 DEF Start
<1> QED
  BY <1>1, <1>2, <1>3, <1>4, <1>5, <1>6, <1>7, <1>8, <1>9, <1>10 DEF Next, Handler

\* The sweeper leaves an open connection its row until its TTL is over.
THEOREM ServedForTTLHolds == Spec => []ServedForTTL
<1>1. Init => RInv
  BY SessionsAssumption DEF Init, RInv, TypeOK, NewUntouched, LiveHasRow, NULL, Request
<1>2. RInv /\ TypeOK' /\ [Next]_vars => RInv'
  BY RInvPreserved
<1>3. RInv => ServedForTTL
  BY DEF RInv, LiveHasRow, ServedForTTL
<1> QED
  BY <1>1, <1>2, <1>3, TypeCorrect, PTL DEF Spec

-----------------------------------------------------------------------------
(* A bad token is never served: no request of it passes verification, so none *)
(* records a row.                                                             *)

BadTokenStopped == \A s \in Sid \ Legacy : expiry[s] = 0 =>
    /\ s \notin rows
    /\ client[s] # "open"
    /\ \A i \in Tries : req[<<s, i>>] \notin {"record", "accept"}

BInv == TypeOK /\ BadTokenStopped

LEMMA BInvPreserved == BInv /\ TypeOK' /\ [Next]_vars => BInv'
<1> SUFFICES ASSUME BInv, TypeOK', [Next]_vars
             PROVE  BInv'
  OBVIOUS
<1> USE SessionsAssumption DEF BInv, TypeOK, BadTokenStopped, Request, serverVars
<1>1. CASE UNCHANGED vars
  BY <1>1 DEF vars
<1>2. ASSUME NEW s \in Sid, Attach(s) \/ Close(s)
      PROVE  BInv'
  BY <1>2 DEF Attach, Close
<1>3. ASSUME NEW r \in Request, Send(r)
      PROVE  BInv'
  BY <1>3 DEF Send
<1>4. ASSUME NEW r \in Request, Verify(r)
      PROVE  BInv'
  <2>1. \/ req' = [req EXCEPT ![r] = "done"]
        \/ req' = [req EXCEPT ![r] = "record"] /\ expiry[r[1]] # 0
    <3>1. CASE now < expiry[r[1]]
      <4>1. req' = [req EXCEPT ![r] = "record"]
        BY <1>4, <3>1 DEF Verify, Step
      <4>2. expiry[r[1]] # 0
        BY <3>1
      <4> QED
        BY <4>1, <4>2
    <3>2. CASE ~(now < expiry[r[1]])
      BY <1>4, <3>2 DEF Verify, Step
    <3> QED
      BY <3>1, <3>2
  <2> QED
    BY <1>4, <2>1 DEF Verify
<1>5. ASSUME NEW r \in Request, Refuse(r) \/ Record(r) \/ RecordFails(r) \/ Accept(r)
      PROVE  BInv'
  BY <1>5 DEF Refuse, Record, RecordFails, Accept, Step
<1>6. CASE Sweep \/ SweepFails \/ Tick \/ Start
  BY <1>6 DEF Sweep, SweepFails, Tick, Start
<1>7. CASE Stop
  BY <1>7 DEF Stop
<1> QED
  BY <1>1, <1>2, <1>3, <1>4, <1>5, <1>6, <1>7 DEF Next, Handler

\* handleAuth never serves a session whose token does not verify.
THEOREM BadTokenNeverServedHolds == Spec => []BadTokenNeverServed
<1>1. Init => BInv
  BY SessionsAssumption DEF Init, BInv, TypeOK, BadTokenStopped, Request, NULL
<1>2. BInv /\ TypeOK' /\ [Next]_vars => BInv'
  BY BInvPreserved
<1>3. BInv => BadTokenNeverServed
  BY DEF BInv, BadTokenStopped, BadTokenNeverServed
<1> QED
  BY <1>1, <1>2, <1>3, TypeCorrect, PTL DEF Spec
=============================================================================
