---------------------------- MODULE Authorization ----------------------------
(* quack_jwt_authz of src/server.go, the macro that Quack calls with every    *)
(* statement of a connection before it runs it, while SyncPermissions and     *)
(* GrantAccess write the grants (QuackPermissions), connections come, the     *)
(* sweeper reaps their rows and views are created.                            *)
(*                                                                            *)
(* DuckDB and Quack are external: the macro is one query, over one snapshot;  *)
(* between it and the run of the statement anything may happen.  A statement  *)
(* is what the macro can tell of it: its kind, the names that occur in it,    *)
(* case aside, and whether it matches one of the three patterns.              *)

CONSTANTS Sid, Sub,
          Name,        \* of tables and views, as spelled
          Fold,        \* a name's spelling in lower case
          Statements,  \* what clients submit
          Catalogs,    \* the tables there can be at first
          Extra,       \* what GrantAccess may be given
          Syncer, Mappings, InitialTables, DatabaseErrors

Kinds == {"ungated", "select", "other"}

\* Reading a table requires naming it; the ungated statements read none, and
\* what reads anything but tables matches a pattern.  Names in the catalog
\* differ in more than case.
ASSUME StatementAssumption ==
    /\ Fold \in [Name -> Name]
    /\ \A q \in Statements :
          /\ q \in [kind : Kinds, names : SUBSET Name, reads : SUBSET Name,
                    pattern : BOOLEAN, outside : BOOLEAN]
          /\ q.reads \subseteq q.names
          /\ q.kind = "ungated" => q.reads = {} /\ ~q.outside
          /\ q.outside => q.pattern

VARIABLES rows, phase, want, snap, stale, result, late, merged,  \* QuackPermissions
          session,   \* sub of each sid's row in quack_sessions: {u} or {}
          open,      \* connections Quack let in
          catalog,   \* information_schema.tables
          statement, \* what each connection submitted: {q} or {}
          verdict,   \* the macro's answer
          got,       \* what the statement read: {names, outside}, or {}
          known      \* history: at the verdict, names granted or not in use

Grant == Sub \X Name

ASSUME TablesAssumption ==
    /\ Mappings \cup InitialTables \subseteq SUBSET Grant
    /\ Extra \subseteq Grant
    /\ DatabaseErrors \in BOOLEAN
    /\ \A C \in Catalogs : C \subseteq Name /\ \A m, n \in C : Fold[m] = Fold[n] => m = n

DB == INSTANCE QuackPermissions

dbVars == <<rows, phase, want, snap, stale, result, late, merged>>
connectionVars == <<session, open>>
statementVars == <<statement, verdict, got, known>>
vars == <<dbVars, connectionVars, catalog, statementVars>>

Outside == "outside"  \* files, the network, the server itself

TypeOK == /\ session \in [Sid -> SUBSET Sub]
          /\ open \subseteq Sid
          /\ catalog \subseteq Name
          /\ statement \in [Sid -> SUBSET Statements]
          /\ verdict \in [Sid -> {"none", "allowed", "denied"}]
          /\ got \in [Sid -> SUBSET (Name \cup {Outside})]
          /\ known \in [Sid -> SUBSET Name]

Init == /\ DB!Init
        /\ session = [s \in Sid |-> {}]
        /\ open = {}
        /\ catalog \in Catalogs
        /\ statement = [s \in Sid |-> {}]
        /\ verdict = [s \in Sid |-> "none"]
        /\ got = [s \in Sid |-> {}]
        /\ known = [s \in Sid |-> {}]

-----------------------------------------------------------------------------
(* The macro.                                                                 *)

Granted(s) == {n \in Name : \E u \in session[s] : <<u, n>> \in rows}

\* regexp_matches(req_query, '(?i)\b' || name || '\b')
Mentions(q, n) == Fold[n] \in q.names

MentionsGranted(s, q) == \E n \in Granted(s) : Mentions(q, n)

MentionsOther(s, q) == /\ session[s] # {}
                       /\ \E n \in catalog \ Granted(s) : Mentions(q, n)

\* Mutant: the design of before, which asked for a granted name alone.
AllowedByMention(s, q) ==
    \/ q.kind = "ungated"
    \/ q.kind = "select" /\ MentionsGranted(s, q) /\ ~q.pattern

Allowed(s, q) ==
    \/ q.kind = "ungated"
    \/ /\ q.kind = "select"
       /\ MentionsGranted(s, q)
       /\ ~MentionsOther(s, q)
       /\ ~q.pattern

-----------------------------------------------------------------------------
(* Quack.                                                                     *)

Submit(s, q) == /\ s \in open /\ statement[s] = {}
                /\ statement' = [statement EXCEPT ![s] = {q}]
                /\ UNCHANGED <<dbVars, connectionVars, catalog, verdict, got, known>>

Decide(s) == /\ verdict[s] = "none"
             /\ \E q \in statement[s] :
                  verdict' = [verdict EXCEPT ![s] = IF Allowed(s, q) THEN "allowed"
                                                                     ELSE "denied"]
             /\ known' = [known EXCEPT ![s] = Granted(s) \cup (Name \ catalog)]
             /\ UNCHANGED <<dbVars, connectionVars, catalog, statement, got>>

Reads(q) == {n \in catalog : Fold[n] \in q.reads}
                \cup (IF q.outside THEN {Outside} ELSE {})

Run(s) == /\ verdict[s] = "allowed"
          /\ \E q \in statement[s] : got' = [got EXCEPT ![s] = Reads(q)]
          /\ UNCHANGED <<dbVars, connectionVars, catalog, statement, verdict, known>>

Answer(s) == /\ verdict[s] # "none"
             /\ statement' = [statement EXCEPT ![s] = {}]
             /\ verdict' = [verdict EXCEPT ![s] = "none"]
             /\ got' = [got EXCEPT ![s] = {}]
             /\ known' = [known EXCEPT ![s] = {}]
             /\ UNCHANGED <<dbVars, connectionVars, catalog>>

-----------------------------------------------------------------------------
(* What goes on beside it.                                                    *)

\* Mutant: the arguments of the INSERT swapped.
AuthenticateSwapped(s, u) == /\ s \notin open
                             /\ session' = [session EXCEPT ![s] = {s}]
                             /\ open' = open \cup {s}
                             /\ UNCHANGED <<dbVars, catalog, statementVars>>

\* handleAuth's row, and {"allowed": true} (Sessions).
Authenticate(s, u) == /\ s \notin open
                      /\ session' = [session EXCEPT ![s] = {u}]
                      /\ open' = open \cup {s}
                      /\ UNCHANGED <<dbVars, catalog, statementVars>>

\* sweepSessions, which leaves the connection open.
Reap(s) == /\ session[s] # {}
           /\ session' = [session EXCEPT ![s] = {}]
           /\ UNCHANGED <<dbVars, open, catalog, statementVars>>

\* The embedder creates a table or a view.
CreateTable(n) == /\ \A m \in catalog : Fold[m] # Fold[n]
                  /\ catalog' = catalog \cup {n}
                  /\ UNCHANGED <<dbVars, connectionVars, statementVars>>

\* SyncPermissions and GrantAccess.
Permissions == /\ \/ \E p \in Syncer : DB!SyncStep(p) \/ \E S \in Mappings : DB!Begin(p, S)
                  \/ \E g \in Extra : DB!GrantAccess(g)
               /\ UNCHANGED <<connectionVars, catalog, statementVars>>

Next == \/ \E s \in Sid : \/ \E q \in Statements : Submit(s, q)
                          \/ Decide(s) \/ Run(s) \/ Answer(s)
                          \/ \E u \in Sub : Authenticate(s, u)
                          \/ Reap(s)
        \/ \E n \in Name : CreateTable(n)
        \/ Permissions

Spec == Init /\ [][Next]_vars

-----------------------------------------------------------------------------
(* Properties.                                                                *)

\* Whatever a statement reads was granted to its session's subject when the
\* macro decided, or has been created since: names in comments and aliases,
\* spellings, reaped sessions and concurrent syncs do not change that
\* (server.go:271-274).
ReadsOnlyGranted == \A s \in Sid : got[s] \subseteq known[s]

\* Grants that no mapping lacks.
Kept(u) == {n \in Name : \A S \in Mappings \cup InitialTables : <<u, n>> \in S}

\* SELECTs of these tables and of nothing else.
Plain(q, names) == /\ q.kind = "select" /\ ~q.pattern
                   /\ \E n \in names : Mentions(q, n)
                   /\ \A m \in catalog : Mentions(q, m) => m \in names

\* Syncs do not disturb what they do not change: as long as its session has its
\* row, no plain SELECT of tables that every mapping grants is denied, however
\* many syncs run, fail or conflict meanwhile ("concurrent authz-macro reads
\* never observe a half-applied state", server.go:380-382).
NoLapse ==
    [][\A s \in Sid : verdict[s] = "none" /\ verdict'[s] = "denied" =>
         \A u \in session[s], q \in statement[s] : ~Plain(q, Kept(u))]_vars
=============================================================================
