------------------------- MODULE Authorization_proofs -------------------------
(* Proofs about Authorization, for any connections, names, statements,        *)
(* mappings and syncers.                                                      *)

EXTENDS Authorization, TLAPS

\* The tables a statement may read by its verdict; what it got respects them.
Decided(s) ==
    /\ verdict[s] \in {"none", "allowed", "denied"}
    /\ verdict[s] # "none" => statement[s] # {}
    /\ verdict[s] = "none" => got[s] = {} /\ known[s] = {}
    /\ verdict[s] = "allowed" => \A q \in statement[s] :
          /\ ~q.outside
          /\ \A n \in Name : Fold[n] \in q.reads => n \in known[s]
    /\ got[s] \subseteq known[s]

Shape == /\ session \in [Sid -> SUBSET Sub]
         /\ catalog \subseteq Name
         /\ statement \in [Sid -> SUBSET Statements]
         /\ \A s \in Sid : \A q, r \in statement[s] : q = r
         /\ verdict \in [Sid -> {"none", "allowed", "denied"}]
         /\ got \in [Sid -> SUBSET (Name \cup {Outside})]
         /\ known \in [Sid -> SUBSET Name]

IInv == Shape /\ \A s \in Sid : Decided(s)

\* An allowed statement names no table of the catalog but granted ones: the
\* clause on other tables does it, and a session without a row has none granted.
LEMMA AllowedReads ==
    ASSUME NEW s \in Sid, NEW q \in Statements, Allowed(s, q)
    PROVE  /\ ~q.outside
           /\ \A n \in Name : Fold[n] \in q.reads => n \in Granted(s) \cup (Name \ catalog)
<1>1. CASE q.kind = "ungated"
  BY <1>1, StatementAssumption
<1>2. CASE q.kind = "select"
  <2>1. q.kind # "ungated" /\ MentionsGranted(s, q) /\ ~MentionsOther(s, q) /\ ~q.pattern
    BY <1>2 DEF Allowed
  <2>2. ~q.outside /\ q.reads \subseteq q.names
    BY <2>1, StatementAssumption
  <2>3. session[s] # {}
    BY <2>1 DEF MentionsGranted, Granted
  <2> QED
    BY <2>1, <2>2, <2>3 DEF MentionsOther, Mentions
<1> QED
  BY <1>1, <1>2 DEF Allowed

LEMMA InitIInv == Init => IInv
BY TablesAssumption DEF Init, IInv, Shape, Decided

LEMMA NextIInv == IInv /\ [Next]_vars => IInv'
<1> SUFFICES ASSUME IInv, [Next]_vars
             PROVE  IInv'
  OBVIOUS
<1> USE DEF IInv, Shape, Decided, connectionVars, statementVars
<1>1. CASE UNCHANGED vars
  BY <1>1 DEF vars
<1>2. ASSUME NEW s \in Sid, NEW q \in Statements, Submit(s, q)
      PROVE  IInv'
  BY <1>2 DEF Submit
<1>3. ASSUME NEW s \in Sid, Decide(s)
      PROVE  IInv'
  <2>1. PICK q \in statement[s] :
            verdict' = [verdict EXCEPT ![s] = IF Allowed(s, q) THEN "allowed" ELSE "denied"]
    BY <1>3 DEF Decide
  <2>2. q \in Statements /\ statement[s] = {q}
    BY <2>1
  <2>3. Granted(s) \cup (Name \ catalog) \subseteq Name
    BY DEF Granted
  <2>4. /\ known' = [known EXCEPT ![s] = Granted(s) \cup (Name \ catalog)]
        /\ verdict[s] = "none"
        /\ UNCHANGED <<session, open, catalog, statement, got>>
    BY <1>3 DEF Decide
  <2>5. CASE Allowed(s, q)
    <3>1. /\ ~q.outside
          /\ \A n \in Name : Fold[n] \in q.reads => n \in Granted(s) \cup (Name \ catalog)
      BY <2>2, <2>5, AllowedReads
    <3> QED
      BY <2>1, <2>2, <2>3, <2>4, <2>5, <3>1
  <2>6. CASE ~Allowed(s, q)
    BY <2>1, <2>2, <2>3, <2>4, <2>6
  <2> QED
    BY <2>5, <2>6
<1>4. ASSUME NEW s \in Sid, Run(s)
      PROVE  IInv'
  <2>1. PICK q \in statement[s] : got' = [got EXCEPT ![s] = Reads(q)]
    BY <1>4 DEF Run
  <2>2. Reads(q) \subseteq known[s] /\ Reads(q) \subseteq Name
    BY <1>4, <2>1 DEF Run, Reads
  <2> QED
    BY <1>4, <2>1, <2>2 DEF Run
<1>5. ASSUME NEW s \in Sid, Answer(s)
      PROVE  IInv'
  BY <1>5 DEF Answer
<1>6. ASSUME NEW s \in Sid, NEW u \in Sub, Authenticate(s, u)
      PROVE  IInv'
  BY <1>6 DEF Authenticate
<1>7. ASSUME NEW s \in Sid, Reap(s)
      PROVE  IInv'
  BY <1>7 DEF Reap
<1>8. ASSUME NEW n \in Name, CreateTable(n)
      PROVE  IInv'
  BY <1>8 DEF CreateTable
<1>9. CASE Permissions
  BY <1>9 DEF Permissions
<1> QED
  BY <1>1, <1>2, <1>3, <1>4, <1>5, <1>6, <1>7, <1>8, <1>9 DEF Next

\* A statement reads what was granted to its session when the macro decided,
\* or what was not there yet.
THEOREM ReadsOnlyGrantedHolds == Spec => []ReadsOnlyGranted
<1>1. IInv => ReadsOnlyGranted
  BY DEF IInv, Decided, ReadsOnlyGranted
<1> QED
  BY <1>1, InitIInv, NextIInv, PTL DEF Spec

-----------------------------------------------------------------------------
(* Kept grants.                                                               *)

\* Every mapping and every first table has the pair.
KeptPair(g) == \A S \in Mappings \cup InitialTables : g \in S

\* It is in the table, and in whatever may replace the table.
KeptInv == /\ \A g \in Grant : KeptPair(g) => g \in rows
           /\ want \in [Syncer -> SUBSET Grant] /\ phase \in [Syncer -> DB!Phases]
           /\ \A p \in Syncer : DB!Active(p) => want[p] \in Mappings

LEMMA InitKept == Init => KeptInv
BY DEF Init, DB!Init, KeptInv, KeptPair, DB!Active, DB!Phases

\* A commit deletes what its snapshot saw, and inserts a mapping.
LEMMA NextKept == KeptInv /\ [Next]_vars => KeptInv'
<1> SUFFICES ASSUME KeptInv, [Next]_vars
             PROVE  KeptInv'
  OBVIOUS
<1> USE DEF KeptInv, KeptPair, DB!Active, DB!Phases, dbVars
<1>1. CASE UNCHANGED dbVars
  BY <1>1
<1>2. ASSUME NEW p \in Syncer, NEW S \in Mappings, DB!Begin(p, S)
      PROVE  KeptInv'
  BY <1>2, TablesAssumption DEF DB!Begin
<1>3. ASSUME NEW p \in Syncer, DB!SyncStep(p)
      PROVE  KeptInv'
  BY <1>3 DEF DB!SyncStep, DB!Write, DB!WriteFails, DB!Commit, DB!CommitFails, DB!Rollback,
              DB!Return, DB!Written
<1>4. ASSUME NEW g \in Extra, DB!GrantAccess(g)
      PROVE  KeptInv'
  BY <1>4 DEF DB!GrantAccess
<1> QED
  BY <1>1, <1>2, <1>3, <1>4 DEF Next, Submit, Decide, Run, Answer, Authenticate, Reap,
     CreateTable, Permissions, vars

\* A plain SELECT of kept tables is allowed.
LEMMA PlainAllowed ==
    ASSUME KeptInv, Shape, NEW s \in Sid, NEW u \in session[s], NEW q \in Statements,
           Plain(q, Kept(u))
    PROVE  Allowed(s, q)
<1>1. Kept(u) \subseteq Granted(s)
  BY DEF KeptInv, KeptPair, Kept, Granted, Grant, Shape
<1> QED
  BY <1>1 DEF Plain, Allowed, MentionsGranted, MentionsOther

\* Syncs do not disturb what they do not change.
THEOREM NoLapseHolds == Spec => NoLapse
<1>1. IInv /\ KeptInv /\ [Next]_vars =>
          [\A s \in Sid : verdict[s] = "none" /\ verdict'[s] = "denied" =>
             \A u \in session[s], q \in statement[s] : ~Plain(q, Kept(u))]_vars
  <2> SUFFICES ASSUME IInv, KeptInv, [Next]_vars,
                      NEW s \in Sid, verdict[s] = "none", verdict'[s] = "denied",
                      NEW u \in session[s], NEW q \in statement[s], Plain(q, Kept(u))
               PROVE  FALSE
    OBVIOUS
  <2> USE DEF IInv, Shape
  <2>1. q \in Statements /\ statement[s] = {q}
    OBVIOUS
  <2>2. Decide(s)
    BY DEF Next, Submit, Decide, Run, Answer, Authenticate, Reap, CreateTable, Permissions,
           vars, statementVars
  <2>3. Allowed(s, q)
    BY <2>1, PlainAllowed
  <2> QED
    BY <2>1, <2>2, <2>3 DEF Decide
<1> QED
  BY <1>1, InitIInv, NextIInv, InitKept, NextKept, PTL DEF Spec, NoLapse

-----------------------------------------------------------------------------
(* The rest.                                                                  *)

\* The grants and their transactions are those of QuackPermissions, so that
\* what QuackPermissions_proofs proves of them holds here.
THEOREM Embedding == Spec => DB!Spec
<1>1. Init => DB!Init
  BY DEF Init
<1>2. [Next]_vars => [DB!Next]_(DB!vars)
  <2> USE DEF dbVars, DB!vars
  <2>1. CASE UNCHANGED vars
    BY <2>1 DEF vars
  <2>2. CASE Permissions
    BY <2>2, TablesAssumption DEF Permissions, DB!Next
  <2> QED
    BY <2>1, <2>2 DEF Next, Submit, Decide, Run, Answer, Authenticate, Reap, CreateTable
<1> QED
  BY <1>1, <1>2, PTL DEF Spec, DB!Spec

\* Sessions, statements, verdicts and what is read keep their types.
THEOREM TypeCorrect == Spec => []TypeOK
<1>1. Init => open \subseteq Sid
  BY DEF Init
<1>2. open \subseteq Sid /\ [Next]_vars => (open \subseteq Sid)'
  BY DEF Next, Submit, Decide, Run, Answer, Authenticate, Reap, CreateTable, Permissions,
     vars, connectionVars
<1>3. IInv /\ open \subseteq Sid => TypeOK
  BY DEF IInv, Shape, TypeOK
<1> QED
  BY <1>1, <1>2, <1>3, InitIInv, NextIInv, PTL DEF Spec
=============================================================================
