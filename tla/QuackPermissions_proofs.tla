----------------------- MODULE QuackPermissions_proofs -----------------------
(* Proofs about QuackPermissions, for any syncers, pairs and mappings.        *)

EXTENDS QuackPermissions, TLAPS

\* The quack_permissions transactions keep their types.
THEOREM TypeCorrect == Spec => []TypeOK
<1>1. Init => TypeOK
  BY ConstantsAssumption DEF Init, TypeOK, Phases, Results
<1>2. TypeOK /\ [Next]_vars => TypeOK'
  <2> SUFFICES ASSUME TypeOK, [Next]_vars
               PROVE  TypeOK'
    OBVIOUS
  <2> USE DEF TypeOK, Phases, Results
  <2>1. CASE UNCHANGED vars
    BY <2>1 DEF vars
  <2>2. ASSUME NEW p \in Syncer, NEW S \in Mappings, Begin(p, S)
        PROVE  TypeOK'
    BY <2>2, ConstantsAssumption DEF Begin
  <2>3. ASSUME NEW p \in Syncer, Write(p)
        PROVE  TypeOK'
    BY <2>3 DEF Write
  <2>4. ASSUME NEW p \in Syncer, Rollback(p)
        PROVE  TypeOK'
    BY <2>4 DEF Rollback, Return
  <2>5. ASSUME NEW p \in Syncer, Commit(p)
        PROVE  TypeOK'
    BY <2>5 DEF Commit, Return
  <2>6. ASSUME NEW g \in Grant, GrantAccess(g)
        PROVE  TypeOK'
    BY <2>6 DEF GrantAccess
  <2> QED
    BY <2>1, <2>2, <2>3, <2>4, <2>5, <2>6
       DEF Next, SyncStep, WriteFails, CommitFails
<1> QED
  BY <1>1, <1>2, PTL DEF Spec

-----------------------------------------------------------------------------
(* The inductive invariant.  A transaction is fresh while no commit has       *)
(* deleted a row it can see.  Rows it can see are in the table then, and the  *)
(* rest of the table is in its histories.  Of two fresh transactions, one     *)
(* sees all that the other sees, so that only one of them can delete rows.    *)

Fresh(p) == Active(p) /\ snap[p] \cap stale[p] = {}

SnapshotsCurrent == \A p \in Syncer : Fresh(p) =>
                       /\ snap[p] \subseteq rows
                       /\ rows \ snap[p] \subseteq late[p] \cup merged[p]

SnapshotsNested == \A p, q \in Syncer : Fresh(p) /\ Fresh(q) =>
                      snap[p] \subseteq snap[q] \/ snap[q] \subseteq snap[p]

WritersFresh == \A p \in Syncer : Written(p) => Fresh(p)

RunningHasNoResult == \A p \in Syncer : Active(p) => result[p] = "none"

IInv == /\ TypeOK
        /\ SnapshotsCurrent
        /\ SnapshotsNested
        /\ WritersFresh
        /\ RunningHasNoResult
        /\ OneWriter

\* Fresh transactions that delete no row in common: one of them found none.
LEMMA DisjointSnapshots ==
  ASSUME IInv, NEW p \in Syncer, NEW q \in Syncer, Fresh(p), Fresh(q),
         snap[p] \cap snap[q] = {}
  PROVE  NothingInCommon(p, q)
BY DEF IInv, SnapshotsNested, NothingInCommon

\* A commit spoils every other running transaction that sees a row it deletes.
LEMMA CommitSpoilsOthers ==
  ASSUME IInv, TypeOK', NEW p \in Syncer, Commit(p), NEW q \in Syncer, Fresh(q)'
  PROVE  /\ q # p /\ Fresh(q) /\ snap'[q] = snap[q]
         /\ snap[q] \cap snap[p] = {}
         /\ merged'[q] = merged[q] \cup want[p] /\ late'[q] = late[q]
<1>1. q # p
  BY DEF Commit, Return, Fresh, Active, IInv, TypeOK
<1>2. /\ snap'[q] = snap[q] /\ phase'[q] = phase[q] /\ late'[q] = late[q]
      /\ Active(q)
  BY <1>1 DEF Commit, Return, IInv, TypeOK, Fresh, Active
<1>3. stale'[q] = stale[q] \cup snap[p]
  BY <1>1, <1>2 DEF Commit
<1>4. Fresh(q) /\ snap[q] \cap snap[p] = {}
  BY <1>2, <1>3 DEF Fresh
<1>5. Fresh(p)
  BY DEF IInv, WritersFresh, Commit
<1>6. NothingInCommon(p, q)
  BY <1>4, <1>5, DisjointSnapshots
<1>7. merged'[q] = merged[q] \cup want[p]
  BY <1>1, <1>2, <1>6 DEF Commit
<1> QED
  BY <1>1, <1>2, <1>4, <1>7

\* A DELETE goes through beside another one only if one of them deletes no row.
LEMMA OnlyWriter ==
  ASSUME IInv, NEW p \in Syncer, Write(p)
  PROVE  /\ Fresh(p)
         /\ \A q \in Syncer \ {p} : Written(q) => NothingInCommon(p, q)
<1>1. Fresh(p)
  BY DEF Write, DeleteConflict, DeletedByOthers, Fresh, Active
<1>2. ASSUME NEW q \in Syncer \ {p}, Written(q)
      PROVE  NothingInCommon(p, q)
  <2>1. Fresh(q)
    BY <1>2 DEF IInv, WritersFresh
  <2>2. snap[q] \subseteq DeletedByOthers(p)
    BY <1>2 DEF DeletedByOthers
  <2>3. snap[p] \cap snap[q] = {}
    BY <2>2 DEF Write, DeleteConflict
  <2> QED
    BY <1>1, <2>1, <2>3, DisjointSnapshots
<1> QED
  BY <1>1, <1>2

LEMMA InitEstablishes == Init => IInv
<1> SUFFICES ASSUME Init
             PROVE  IInv
  OBVIOUS
<1>1. TypeOK
  BY ConstantsAssumption DEF Init, TypeOK, Phases, Results
<1>2. \A p \in Syncer : ~Active(p) /\ ~Written(p)
  BY DEF Init, Active, Written
<1> QED
  BY <1>1, <1>2 DEF IInv, SnapshotsCurrent, SnapshotsNested, WritersFresh,
                    RunningHasNoResult, OneWriter, Fresh

LEMMA BeginPreserves ==
  ASSUME IInv, TypeOK', NEW p \in Syncer, NEW S \in Mappings, Begin(p, S)
  PROVE  IInv'
<1> USE DEF IInv, TypeOK
<1>1. \A q \in Syncer \ {p} :
         /\ phase'[q] = phase[q] /\ want'[q] = want[q] /\ snap'[q] = snap[q]
         /\ stale'[q] = stale[q] /\ late'[q] = late[q] /\ merged'[q] = merged[q]
  BY DEF Begin
<1>2. /\ phase'[p] = "begun" /\ want'[p] = S /\ snap'[p] = rows
      /\ rows' = rows
  BY DEF Begin
<1>3. SnapshotsCurrent'
  BY <1>1, <1>2 DEF SnapshotsCurrent, Fresh, Active
<1>4. SnapshotsNested'
  BY <1>1, <1>2 DEF SnapshotsNested, SnapshotsCurrent, Fresh, Active
<1>5. WritersFresh'
  BY <1>1, <1>2 DEF WritersFresh, Written, Fresh, Active
<1>6. OneWriter'
  BY <1>1, <1>2 DEF OneWriter, Written, NothingInCommon
<1>7. RunningHasNoResult'
  BY DEF Begin, RunningHasNoResult, Active
<1> QED
  BY <1>3, <1>4, <1>5, <1>6, <1>7

LEMMA WritePreserves ==
  ASSUME IInv, TypeOK', NEW p \in Syncer, Write(p)
  PROVE  IInv'
<1> USE DEF IInv, TypeOK
<1>1. /\ phase' = [phase EXCEPT ![p] = "written"]
      /\ UNCHANGED <<rows, want, snap, stale, result, late, merged>>
      /\ phase[p] = "begun"
  BY DEF Write
<1>2. \A q \in Syncer : Active(q)' = Active(q) /\ Fresh(q)' = Fresh(q)
  BY <1>1 DEF Active, Fresh
<1>3. /\ Fresh(p)
      /\ \A q \in Syncer \ {p} : /\ Written(q)' = Written(q)
                                 /\ Written(q) => NothingInCommon(p, q)
  BY <1>1, OnlyWriter DEF Written
<1>4. SnapshotsCurrent' /\ SnapshotsNested' /\ RunningHasNoResult'
  BY <1>1, <1>2 DEF SnapshotsCurrent, SnapshotsNested, RunningHasNoResult
<1>5. WritersFresh'
  BY <1>2, <1>3 DEF WritersFresh
<1>6. OneWriter'
  BY <1>1, <1>3 DEF OneWriter, NothingInCommon
<1> QED
  BY <1>4, <1>5, <1>6

LEMMA RollbackPreserves ==
  ASSUME IInv, TypeOK', NEW p \in Syncer, Rollback(p)
  PROVE  IInv'
<1> USE DEF IInv, TypeOK
<1>1. \A q \in Syncer \ {p} :
         /\ phase'[q] = phase[q] /\ want'[q] = want[q] /\ snap'[q] = snap[q]
         /\ stale'[q] = stale[q] /\ late'[q] = late[q] /\ merged'[q] = merged[q]
  BY DEF Rollback, Return
<1>2. rows' = rows /\ phase'[p] = "idle"
  BY DEF Rollback, Return
<1>3. \A q \in Syncer : /\ Active(q)' => q # p /\ Active(q)
                        /\ Fresh(q)' => q # p /\ Fresh(q)
                        /\ Written(q)' => q # p /\ Written(q) /\ (Fresh(q) => Fresh(q)')
  BY <1>1, <1>2 DEF Active, Fresh, Written
<1>4. SnapshotsCurrent' /\ SnapshotsNested'
  BY <1>1, <1>2, <1>3 DEF SnapshotsCurrent, SnapshotsNested
<1>5. WritersFresh' /\ OneWriter'
  BY <1>1, <1>3 DEF WritersFresh, OneWriter, NothingInCommon
<1>6. RunningHasNoResult'
  BY DEF Rollback, Return, RunningHasNoResult, Active
<1> QED
  BY <1>4, <1>5, <1>6

LEMMA CommitPreserves ==
  ASSUME IInv, TypeOK', NEW p \in Syncer, Commit(p)
  PROVE  IInv'
<1> USE DEF IInv, TypeOK
<1>1. rows' = (rows \ snap[p]) \cup want[p]
  BY DEF Commit
<1>2. SnapshotsCurrent'
  <2> SUFFICES ASSUME NEW q \in Syncer, Fresh(q)'
               PROVE  (/\ snap[q] \subseteq rows
                       /\ rows \ snap[q] \subseteq late[q] \cup merged[q])'
    BY DEF SnapshotsCurrent
  <2>1. /\ Fresh(q) /\ snap'[q] = snap[q] /\ snap[q] \cap snap[p] = {}
        /\ merged'[q] = merged[q] \cup want[p] /\ late'[q] = late[q]
    BY CommitSpoilsOthers
  <2>2. snap[q] \subseteq rows /\ rows \ snap[q] \subseteq late[q] \cup merged[q]
    BY <2>1 DEF SnapshotsCurrent
  <2> QED
    BY <1>1, <2>1, <2>2
<1>3. SnapshotsNested'
  BY CommitSpoilsOthers DEF SnapshotsNested
<1>4. \A q \in Syncer : Written(q)' => q # p /\ Written(q) /\ snap'[q] = snap[q]
  BY DEF Commit, Return, Written
<1>5. WritersFresh'
  <2> SUFFICES ASSUME NEW q \in Syncer, Written(q)'
               PROVE  Fresh(q)'
    BY DEF WritersFresh
  <2>1. q # p /\ Written(q) /\ Written(p) /\ Fresh(q)
    BY <1>4 DEF Commit, WritersFresh
  <2>2. snap[p] \cap snap[q] = {}
    BY <2>1 DEF OneWriter, NothingInCommon
  <2>3. /\ snap'[q] = snap[q] /\ stale'[q] = stale[q] \cup snap[p]
        /\ phase'[q] = phase[q]
    BY <2>1 DEF Commit, Return, Fresh
  <2> QED
    BY <2>1, <2>2, <2>3 DEF Fresh, Active
<1>6. OneWriter'
  BY <1>4 DEF OneWriter, NothingInCommon
<1>7. RunningHasNoResult'
  BY DEF Commit, Return, RunningHasNoResult, Active
<1> QED
  BY <1>2, <1>3, <1>5, <1>6, <1>7

LEMMA GrantAccessPreserves ==
  ASSUME IInv, TypeOK', NEW g \in Grant, GrantAccess(g)
  PROVE  IInv'
<1> USE DEF IInv, TypeOK
<1>1. /\ rows' = rows \cup {g}
      /\ UNCHANGED <<phase, want, snap, stale, result, merged>>
      /\ \A p \in Syncer : Active(p) => late'[p] = late[p] \cup {g}
  BY DEF GrantAccess
<1>2. \A p \in Syncer : /\ Active(p)' = Active(p)
                        /\ Fresh(p)' = Fresh(p)
                        /\ Written(p)' = Written(p)
  BY <1>1 DEF Active, Fresh, Written
<1>3. /\ SnapshotsNested' /\ WritersFresh' /\ RunningHasNoResult' /\ OneWriter'
  BY <1>1, <1>2 DEF SnapshotsNested, WritersFresh, RunningHasNoResult, OneWriter,
                    NothingInCommon
<1>4. SnapshotsCurrent'
  BY <1>1, <1>2 DEF SnapshotsCurrent, Fresh
<1> QED
  BY <1>3, <1>4

\* No step of the table leaves the inductive invariant.
LEMMA NextPreserves == IInv /\ TypeOK' /\ [Next]_vars => IInv'
<1> SUFFICES ASSUME IInv, TypeOK', [Next]_vars
             PROVE  IInv'
  OBVIOUS
<1>1. CASE UNCHANGED vars
  BY <1>1 DEF vars, IInv, TypeOK, SnapshotsCurrent, SnapshotsNested, WritersFresh,
              RunningHasNoResult, OneWriter, NothingInCommon, Fresh, Active, Written
<1>2. ASSUME NEW p \in Syncer, NEW S \in Mappings, Begin(p, S)
      PROVE  IInv'
  BY <1>2, BeginPreserves
<1>3. ASSUME NEW p \in Syncer, SyncStep(p)
      PROVE  IInv'
  BY <1>3, WritePreserves, RollbackPreserves, CommitPreserves
     DEF SyncStep, WriteFails, CommitFails
<1>4. ASSUME NEW g \in Grant, GrantAccess(g)
      PROVE  IInv'
  BY <1>4, GrantAccessPreserves
<1> QED
  BY <1>1, <1>2, <1>3, <1>4 DEF Next

THEOREM Invariance == Spec => []IInv
  BY InitEstablishes, NextPreserves, TypeCorrect, PTL DEF Spec

\* Of two callers of SyncPermissions past their DELETE, one found no row.
THEOREM MutualExclusion == Spec => []OneWriter
<1>1. IInv => OneWriter
  BY DEF IInv
<1> QED
  BY <1>1, Invariance, PTL

-----------------------------------------------------------------------------
(* What the invariant gives the callers.                                      *)

\* What a commit leaves besides the mapping was added meanwhile.
LEMMA CommitKeepsOnlyLate ==
  ASSUME IInv, NEW p \in Syncer, Commit(p)
  PROVE  \E kept \in SUBSET (late[p] \cup merged[p]) : rows' = want[p] \cup kept
<1>1. Fresh(p)
  BY DEF IInv, WritersFresh, Commit
<1>2. rows \ snap[p] \subseteq late[p] \cup merged[p]
  BY <1>1 DEF IInv, SnapshotsCurrent
<1>3. rows' = want[p] \cup (rows \ snap[p])
  BY DEF Commit
<1> QED
  BY <1>2, <1>3

\* SyncPermissions replaces the table, whatever the interleaving of its callers,
\* but for what GrantAccess and syncs over an empty table added meanwhile.
THEOREM WholeTable == Spec => ReplacesWholeTable
<1> DEFINE Replaced(p) == Written(p) /\ result'[p] = "nil"
                             => /\ want[p] \subseteq rows'
                                /\ rows' \ want[p] \subseteq late[p] \cup merged[p]
<1>1. ASSUME IInv, [Next]_vars, NEW p \in Syncer, Written(p), result'[p] = "nil"
      PROVE  Commit(p)
  <2>1. result[p] = "none" /\ phase[p] = "written"
    BY <1>1 DEF IInv, RunningHasNoResult, Written, Active
  <2>2. ASSUME NEW q \in Syncer, NEW S \in Mappings, Begin(q, S)
        PROVE  FALSE
    BY <1>1, <2>1, <2>2 DEF Begin, IInv, TypeOK
  <2>3. ASSUME NEW q \in Syncer, SyncStep(q)
        PROVE  Commit(p)
    BY <1>1, <2>1, <2>3 DEF SyncStep, Write, WriteFails, Commit, CommitFails, Rollback,
                            Return, IInv, TypeOK
  <2> QED
    BY <1>1, <2>1, <2>2, <2>3 DEF Next, GrantAccess, vars
<1>2. IInv /\ [Next]_vars => [\A p \in Syncer : Replaced(p)]_vars
  BY <1>1, CommitKeepsOnlyLate
<1> QED
  BY <1>2, Invariance, PTL DEF Spec, ReplacesWholeTable

\* Once its DELETE went through, a sync is beaten only by GrantAccess, or by a
\* sync over an empty table.
THEOREM FirstWriterWins ==
  ASSUME DatabaseErrors = FALSE
  PROVE  Spec => WriterCommits
<1> DEFINE Beaten(p) == Written(p) /\ result'[p] = "error"
                           => want[p] \cap (late[p] \cup merged[p]) # {}
<1>1. ASSUME IInv, [Next]_vars, NEW p \in Syncer, Written(p), result'[p] = "error"
      PROVE  UniqueConflict(p)
  <2>1. result[p] = "none" /\ phase[p] = "written"
    BY <1>1 DEF IInv, RunningHasNoResult, Written, Active
  <2>2. ASSUME NEW q \in Syncer, NEW S \in Mappings, Begin(q, S)
        PROVE  FALSE
    BY <1>1, <2>1, <2>2 DEF Begin, IInv, TypeOK
  <2>3. ASSUME NEW q \in Syncer, SyncStep(q)
        PROVE  UniqueConflict(p)
    BY <1>1, <2>1, <2>3 DEF SyncStep, Write, WriteFails, Commit, CommitFails, Rollback,
                            Return, IInv, TypeOK
  <2> QED
    BY <1>1, <2>1, <2>2, <2>3 DEF Next, GrantAccess, vars
<1>2. ASSUME IInv, NEW p \in Syncer, Written(p), UniqueConflict(p)
      PROVE  want[p] \cap (late[p] \cup merged[p]) # {}
  BY <1>2 DEF IInv, WritersFresh, SnapshotsCurrent, UniqueConflict
<1>3. IInv /\ [Next]_vars => [\A p \in Syncer : Beaten(p)]_vars
  BY <1>1, <1>2
<1> QED
  BY <1>3, Invariance, PTL DEF Spec, WriterCommits

-----------------------------------------------------------------------------
(* Refinement of GrantTable.                                                  *)

\* What a commit tells the others, in the terms of GrantTable.
LEMMA CommitApplies ==
  ASSUME IInv, TypeOK', NEW p \in Syncer, Commit(p)
  PROVE  GT!Apply(p)
<1> USE DEF TypeOK, Active
<1>0. TypeOK /\ phase[p] = "written"
  BY DEF IInv, Commit, Written
<1>1. PICK kept \in SUBSET (late[p] \cup merged[p]) : rows' = want[p] \cup kept
  BY CommitKeepsOnlyLate
<1>2. /\ phase' = [phase EXCEPT ![p] = "idle"] /\ want' = [want EXCEPT ![p] = {}]
      /\ snap' = [snap EXCEPT ![p] = {}] /\ late' = [late EXCEPT ![p] = {}]
  BY DEF Commit, Return
<1>3. merged' = [q \in Syncer |->
                   CASE q = p -> {}
                     [] q # p /\ Active(q) /\ NothingInCommon(p, q) -> merged[q] \cup want[p]
                     [] OTHER -> merged[q]]
  BY DEF Commit
<1>4. [q \in Syncer |-> late[q] \cup merged[q]]' =
        [q \in Syncer |->
           CASE q = p -> {}
             [] q # p /\ Active(q) /\ NothingInCommon(p, q) ->
                  (late[q] \cup merged[q]) \cup want[p]
             [] OTHER -> late[q] \cup merged[q]]
  <2>1. ASSUME NEW q \in Syncer
        PROVE  late'[q] \cup merged'[q] =
                 CASE q = p -> {}
                   [] q # p /\ Active(q) /\ NothingInCommon(p, q) ->
                        (late[q] \cup merged[q]) \cup want[p]
                   [] OTHER -> late[q] \cup merged[q]
    BY <1>0, <1>2, <1>3
  <2> QED
    BY <2>1
<1>5. [q \in Syncer |-> IF Active(q) THEN {want[q]} ELSE {}]' =
        [[q \in Syncer |-> IF Active(q) THEN {want[q]} ELSE {}] EXCEPT ![p] = {}]
  BY <1>0, <1>2
<1>6. [q \in Syncer |-> Active(q) /\ snap[q] = {}]' =
        [[q \in Syncer |-> Active(q) /\ snap[q] = {}] EXCEPT ![p] = FALSE]
  BY <1>0, <1>2
<1> QED
  BY <1>0, <1>1, <1>4, <1>5, <1>6 DEF GT!Apply, NothingInCommon

LEMMA StepRefines ==
  ASSUME IInv, TypeOK', [Next]_vars
  PROVE  [GT!Next]_(GT!vars)
<1> USE DEF TypeOK, Active
<1>0. TypeOK
  BY DEF IInv
<1>1. CASE UNCHANGED vars
  BY <1>1 DEF vars, GT!vars
<1>2. ASSUME NEW p \in Syncer, NEW S \in Mappings, Begin(p, S)
      PROVE  GT!Next
  <2>1. GT!Begin(p, S)
    BY <1>0, <1>2 DEF Begin, GT!Begin
  <2> QED
    BY <2>1, ConstantsAssumption DEF GT!Next
<1>3. ASSUME NEW p \in Syncer, Write(p)
      PROVE  UNCHANGED GT!vars
  BY <1>0, <1>3 DEF Write, GT!vars
<1>4. ASSUME NEW p \in Syncer, Active(p), Rollback(p)
      PROVE  GT!Next
  <2>1. GT!Abandon(p)
    BY <1>0, <1>4 DEF Rollback, Return, GT!Abandon
  <2> QED
    BY <2>1 DEF GT!Next
<1>5. ASSUME NEW p \in Syncer, Commit(p)
      PROVE  GT!Next
  BY <1>5, CommitApplies DEF GT!Next
<1>6. ASSUME NEW g \in Grant, GrantAccess(g)
      PROVE  GT!Next
  <2>1. GT!Add(g)
    BY <1>0, <1>6 DEF GrantAccess, GT!Add
  <2> QED
    BY <2>1 DEF GT!Next
<1> QED
  BY <1>1, <1>2, <1>3, <1>4, <1>5, <1>6
     DEF Next, SyncStep, WriteFails, CommitFails, Written

\* The table with its transactions implements the replaced table of GrantTable.
THEOREM Refinement == Spec => ImplementsGrantTable
<1>1. Init => GT!Init
  BY DEF Init, GT!Init, Active
<1>2. IInv /\ TypeOK' /\ [Next]_vars => [GT!Next]_(GT!vars)
  BY StepRefines
<1> QED
  BY <1>1, <1>2, Invariance, TypeCorrect, PTL DEF Spec, ImplementsGrantTable, GT!Spec
=============================================================================
