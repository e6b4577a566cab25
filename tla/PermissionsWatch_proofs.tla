----------------------- MODULE PermissionsWatch_proofs -----------------------
(* Proofs about PermissionsWatch, for any subjects, tables and contents and   *)
(* any number of edits.                                                       *)

EXTENDS PermissionsWatch, TLAPS

LEMMA ContentParses ==
  ASSUME NEW c \in Content
  PROVE  Parse(c) \in Parsed
BY DEF Content, Parsed, Parse

LEMMA EmptyFileTyped == EmptyFile \in Content
BY DEF Content, EmptyFile, Faults

\* A Load leaves admins and grants of their types, whatever was in the file.
LEMMA LoadTyped ==
  ASSUME mgr \in Parsed, NEW c \in Content, NEW m \in LoadOutcomes(c)
  PROVE  m \in Parsed
<1>1. CASE c.fault = "none" \/ c.fault = "syntax"
  BY <1>1, ContentParses DEF LoadOutcomes
<1>2. CASE c.fault = "key"
  BY <1>2 DEF LoadOutcomes, Content, Parsed
<1>3. CASE c.fault = "admins"
  BY <1>3 DEF LoadOutcomes, Content, Parsed
<1>4. CASE c.fault = "user"
  BY <1>4 DEF LoadOutcomes, Content, Parsed, OnlyOf
<1> QED
  BY <1>1, <1>2, <1>3, <1>4 DEF Content, Faults

LEMMA EventsTyped ==
  ASSUME events \in Seq(Events), NEW i, NEW es \in Seq(Events), Raise(i, es)
  PROVE  events' \in Seq(Events)
BY DEF Raise

LEMMA TypeInit == Init => TypeOK
<1> USE WatchAssumption
<1>1. Parse(EmptyFile) \in Parsed
  BY EmptyFileTyped, ContentParses
<1>2. <<>> \in Seq(Events)
  OBVIOUS
<1>3. Init => file \subseteq Content
  BY DEF Init
<1>4. 0 \in 0..MaxEdits
  OBVIOUS
<1>5. Init => inode \in Nat /\ old \subseteq Nat /\ watched \subseteq Nat
  BY DEF Init
<1>6. Init => writing \subseteq Content /\ buf \subseteq Content
  BY DEF Init
<1>7. Init => wpc \in WatchSteps /\ timer \in BOOLEAN
  BY DEF Init, WatchSteps
<1> QED
  BY <1>1, <1>2, <1>3, <1>4, <1>5, <1>6, <1>7 DEF Init, TypeOK

LEMMA TypeStep == TypeOK /\ [Next]_vars => TypeOK'
<1> USE WatchAssumption
<1> SUFFICES ASSUME TypeOK, [Next]_vars
             PROVE  TypeOK'
  OBVIOUS
<1> USE DEF TypeOK, fsVars
<1>0. /\ <<"write">> \in Seq(Events)
      /\ <<"remove">> \in Seq(Events)
      /\ <<"write", "remove">> \in Seq(Events)
  BY DEF Events
<1>1. CASE UNCHANGED vars
  BY <1>1 DEF vars
<1>2. ASSUME NEW c \in Contents, Truncate(c)
      PROVE  TypeOK'
  <2>1. events' \in Seq(Events)
    BY <1>0, <1>2, EventsTyped DEF Truncate
  <2> QED
    BY <1>2, <2>1, EmptyFileTyped DEF Truncate, MayEdit, Edit
<1>3. ASSUME NEW c \in Contents, Swap(c) \/ Create(c)
      PROVE  TypeOK'
  <2>1. CASE Swap(c)
    BY <2>1 DEF Swap, MayEdit, Edit
  <2>2. CASE Create(c)
    BY <2>2 DEF Create
  <2> QED
    BY <1>3, <2>1, <2>2
<1>4. CASE FinishWrite
  <2>1. events' \in Seq(Events)
    BY <1>0, <1>4, EventsTyped DEF FinishWrite
  <2> QED
    BY <1>4, <2>1 DEF FinishWrite
<1>5. ASSUME NEW i \in old, UnlinkOld(i)
      PROVE  TypeOK'
  <2>1. events' \in Seq(Events)
    BY <1>0, <1>5, EventsTyped DEF UnlinkOld, LoseWatch
  <2> QED
    BY <1>5, <2>1 DEF UnlinkOld, LoseWatch
<1>6. CASE Delete
  <2>1. events' \in Seq(Events)
    BY <1>0, <1>6, EventsTyped DEF Delete, LoseWatch
  <2>2. watched' \subseteq watched
    BY <1>6 DEF Delete, LoseWatch
  <2> QED
    BY <1>6, <2>1, <2>2 DEF Delete, MayEdit, Edit
<1>7. CASE New
  <2>1. mgr' \in Parsed
    BY <1>7, LoadTyped DEF New
  <2> QED
    BY <1>7, <2>1 DEF New, WatchSteps
<1>8. CASE Reload
  <2>1. CASE Apply
    <3>1. mgr' \in Parsed
      BY <2>1, LoadTyped DEF Apply
    <3> QED
      BY <2>1, <3>1 DEF Apply, WatchSteps
  <2> QED
    BY <1>8, <2>1 DEF Reload, TimerFires, ReadFile, WatchSteps
<1>9. CASE StartWatch \/ OnChange \/ Cancelled
  <2>1. CASE StartWatch
    BY <2>1 DEF StartWatch, WatchSteps
  <2>2. CASE OnChange \/ Cancelled
    BY <2>2 DEF OnChange, Cancelled, WatchSteps
  <2> QED
    BY <1>9, <2>1, <2>2
<1>10. CASE Handle
  <2>1. events' \in Seq(Events)
    BY <1>10 DEF Handle, HandleWrite, HandleRemove
  <2>2. watched' \subseteq Nat /\ timer' \in BOOLEAN
    BY <1>10 DEF Handle, HandleWrite, HandleRemove
  <2> QED
    BY <1>10, <2>1, <2>2 DEF Handle, HandleWrite, HandleRemove
<1> QED
  BY <1>1, <1>2, <1>3, <1>4, <1>5, <1>6, <1>7, <1>8, <1>9, <1>10
     DEF Next, Environment, Watcher

\* The Manager, its goroutine and its events keep their types.
THEOREM TypeCorrect == Spec => []TypeOK
<1> QED
  BY TypeInit, TypeStep, PTL DEF Spec

-----------------------------------------------------------------------------
(* The watcher does not miss an edit: if nothing is left to do, the Manager   *)
(* holds the file, unless Watch once found the path empty or no edit came     *)
(* after it had placed its watch.                                             *)

RemoveIn(es) == \E k \in DOMAIN es : es[k] = "remove"

\* The path leads to one file or, where editors delete, to none; swapped-out
\* inodes are older; a file that is gone has no watch.
Present ==
    /\ file = {} => "delete" \in EditKinds /\ inode \notin watched
    /\ lost => "delete" \in EditKinds
    /\ file = {} \/ \E c \in Content : file = {c}
    /\ writing = {} \/ \E c \in Content : writing = {c}
    /\ \A i \in old : i < inode

\* Unless editors are early, none is at work before Watch places its watch.
Untouched == wpc \in {"off", "loaded"} /\ ~EarlyEdits =>
    /\ writing = {}
    /\ wpc = "loaded" => file # {} /\ Follows

\* The watch is on the file, or on its way there, or lost.
Hearing == Watching =>
    \/ watched = {inode}
    \/ \E i \in old : watched = {i}
    \/ RemoveIn(events)
    \/ lost

Excused == lost \/ (EarlyEdits /\ edits = unseen)

\* Something will still make the watcher read the file.
Coming == timer \/ events # <<>> \/ watched \cap old # {} \/ writing # {}

\* What the Manager has, or is about to have, is the file; or more is coming.
Catching ==
    /\ wpc \in {"select", "onchange"} => Follows \/ Coming \/ Excused
    /\ wpc = "apply" => buf = file \/ Coming \/ Excused

IInv == TypeOK /\ Present /\ Untouched /\ Hearing /\ Catching

\* No editor removes the file, and none is at work before Watch is.
KindEditors == ~EarlyEdits /\ "delete" \notin EditKinds

LEMMA RemoveKept ==
  ASSUME events \in Seq(Events), RemoveIn(events),
         NEW i, NEW es \in Seq(Events), Raise(i, es)
  PROVE  RemoveIn(events')
<1>1. PICK k \in DOMAIN events : events[k] = "remove"
  BY DEF RemoveIn
<1>2. CASE events' = events
  BY <1>1, <1>2 DEF RemoveIn
<1>3. CASE events' = events \o es
  <2>1. k \in DOMAIN events' /\ events'[k] = events[k]
    BY <1>3
  <2> QED
    BY <1>1, <2>1 DEF RemoveIn
<1> QED
  BY <1>2, <1>3 DEF Raise

LEMMA RemoveAdded ==
  ASSUME NEW es \in Seq(Events), NEW fs \in {<<"remove">>, <<"write", "remove">>}
  PROVE  RemoveIn(es \o fs)
<1>1. /\ fs \in Seq(Events)
      /\ Len(fs) \in DOMAIN fs
      /\ fs[Len(fs)] = "remove"
  <2>1. CASE fs = <<"remove">>
    BY <2>1 DEF Events
  <2>2. CASE fs = <<"write", "remove">>
    BY <2>2 DEF Events
  <2> QED
    BY <2>1, <2>2
<1>2. /\ Len(es) + Len(fs) \in DOMAIN (es \o fs)
      /\ (es \o fs)[Len(es) + Len(fs)] = fs[Len(fs)]
  BY <1>1
<1> QED
  BY <1>1, <1>2 DEF RemoveIn

LEMMA RemoveInTail ==
  ASSUME NEW es \in Seq(Events), es # <<>>, Head(es) = "write", RemoveIn(es)
  PROVE  RemoveIn(Tail(es))
<1>1. PICK k \in DOMAIN es : es[k] = "remove"
  BY DEF RemoveIn
<1>2. k # 1
  BY <1>1
<1>3. k - 1 \in DOMAIN Tail(es) /\ Tail(es)[k - 1] = "remove"
  BY <1>1, <1>2
<1> QED
  BY <1>3 DEF RemoveIn

LEMMA RemoveNotEmpty ==
  ASSUME NEW es \in Seq(Events), RemoveIn(es)
  PROVE  es # <<>>
BY DEF RemoveIn

\* While the watch is not on the file itself, more is coming.
LEMMA MovedWatchIsComing ==
  ASSUME TypeOK, Hearing, Watching, watched # {inode}
  PROVE  RemoveIn(events) \/ watched \cap old # {} \/ lost
BY DEF Hearing

\* No edit takes back the event by which Watch will look for the file again.
LEMMA EditKeepsRemove ==
  ASSUME TypeOK, Environment, RemoveIn(events)
  PROVE  RemoveIn(events')
<1>1. /\ <<"write">> \in Seq(Events)
      /\ <<"remove">> \in Seq(Events)
      /\ <<"write", "remove">> \in Seq(Events)
  BY DEF Events
<1>2. \/ UNCHANGED events
      \/ \E i \in Nat, es \in Seq(Events) : Raise(i, es)
  <2>1. CASE FinishWrite \/ \E c \in Contents : Truncate(c) \/ Swap(c) \/ Create(c)
    BY <1>1, <2>1 DEF TypeOK, FinishWrite, Truncate, Swap, Create
  <2>2. CASE Delete \/ \E i \in old : UnlinkOld(i)
    BY <1>1, <2>2 DEF TypeOK, Delete, UnlinkOld, LoseWatch
  <2> QED
    BY <2>1, <2>2 DEF Environment
<1> QED
  BY <1>2, RemoveKept DEF TypeOK

\* An edit that changes the file makes sure that the watcher will read it.
LEMMA EditIsComing ==
  ASSUME TypeOK, Present, Hearing, Watching, Environment
  PROVE  \/ Coming' \/ lost'
         \/ UNCHANGED <<file, edits, unseen, lost>> /\ (Coming => Coming')
<1> USE DEF Present
<1>1. RemoveIn(events) => events # <<>> /\ events' # <<>>
  BY EditKeepsRemove, RemoveNotEmpty, TypeStep DEF TypeOK, Next
<1>2. watched # {inode} => RemoveIn(events) \/ watched \cap old # {} \/ lost
  BY MovedWatchIsComing
<1>3. ASSUME NEW c \in Contents, Truncate(c)
      PROVE  Coming'
  BY <1>3 DEF Coming, Truncate
<1>4. CASE FinishWrite
  <2>1. CASE watched = {inode}
    <3>1. events' = events \o <<"write">> /\ <<"write">> \in Seq(Events)
      BY <1>4, <2>1 DEF FinishWrite, Raise, Events
    <3>2. events' # <<>>
      BY <3>1 DEF TypeOK
    <3> QED
      BY <3>2 DEF Coming
  <2> QED
    BY <1>1, <1>2, <1>4, <2>1 DEF Coming, FinishWrite
<1>5. ASSUME NEW c \in Contents, Swap(c)
      PROVE  Coming' \/ lost'
  BY <1>1, <1>2, <1>5 DEF Coming, Swap, Edit
<1>6. ASSUME NEW i \in old, UnlinkOld(i)
      PROVE  Coming' \/ (UNCHANGED <<file, edits, unseen, lost>> /\ (Coming => Coming'))
  <2>1. CASE i \in watched
    <3>1. RemoveIn(events')
      BY <1>6, <2>1, RemoveAdded DEF TypeOK, UnlinkOld, LoseWatch, Raise
    <3>2. events' # <<>>
      BY <3>1, RemoveNotEmpty, TypeStep DEF TypeOK, Next
    <3> QED
      BY <3>2 DEF Coming
  <2>2. CASE i \notin watched
    <3>1. watched' \cap old' = watched \cap old /\ events' = events
      BY <1>6, <2>2 DEF UnlinkOld, LoseWatch, Raise
    <3> QED
      BY <1>6, <3>1 DEF UnlinkOld, Coming
  <2> QED
    BY <2>1, <2>2
<1>7. CASE Delete
  <2>1. CASE watched = {inode}
    <3>1. RemoveIn(events')
      BY <1>7, <2>1, RemoveAdded DEF TypeOK, Delete, LoseWatch, Raise
    <3>2. events' # <<>>
      BY <3>1, RemoveNotEmpty, TypeStep DEF TypeOK, Next
    <3> QED
      BY <3>2 DEF Coming
  <2>2. watched \cap old \subseteq watched' \cap old'
    BY <1>7 DEF TypeOK, Delete, LoseWatch
  <2> QED
    BY <1>1, <1>2, <1>7, <2>1, <2>2 DEF Coming, Delete, Edit
<1>8. ASSUME NEW c \in Contents, Create(c)
      PROVE  Coming' \/ lost'
  BY <1>1, <1>2, <1>8 DEF Coming, Create
<1> QED
  BY <1>3, <1>4, <1>5, <1>6, <1>7, <1>8 DEF Environment

LEMMA InvariantInit == Init => IInv
<1> SUFFICES ASSUME Init PROVE IInv
  OBVIOUS
<1>1. TypeOK
  BY TypeInit
<1>2. Present /\ Untouched
  BY WatchAssumption DEF Init, Present, Untouched
<1>3. Hearing /\ Catching
  BY DEF Init, Hearing, Catching, Watching
<1> QED
  BY <1>1, <1>2, <1>3 DEF IInv

LEMMA InvariantStep ==
  ASSUME IInv, [Next]_vars
  PROVE  IInv'
<1> USE WatchAssumption DEF Excused
<1>0. TypeOK'
  BY TypeStep DEF IInv
<1>1. CASE UNCHANGED vars
  BY <1>1, <1>0 DEF IInv, Present, Untouched, Hearing, Catching, Coming,
     Follows, Watching, RemoveIn, vars, fsVars
<1>2. CASE Environment
  <2>1. RemoveIn(events) => RemoveIn(events')
    BY <1>2, EditKeepsRemove DEF IInv
  <2>2. UNCHANGED <<mgr, wpc, buf>>
    BY <1>2 DEF Environment, Truncate, FinishWrite, Swap, UnlinkOld, Delete, Create, Edit
  <2>3. Catching'
    BY <1>2, <2>2, EditIsComing DEF IInv, Catching, Watching, Follows
  <2>4. ASSUME NEW c \in Contents, Truncate(c) \/ Swap(c) \/ Create(c)
        PROVE  Present' /\ Untouched' /\ Hearing'
    <3>1. CASE Truncate(c)
      BY <2>1, <3>1, EmptyFileTyped
         DEF IInv, TypeOK, Present, Untouched, Hearing, Watching, Truncate, MayEdit, Edit
    <3>2. CASE Swap(c)
      BY <3>2 DEF IInv, TypeOK, Present, Untouched, Hearing, Watching, Swap, MayEdit, Edit
    <3>3. CASE Create(c)
      BY <3>3 DEF IInv, TypeOK, Present, Untouched, Hearing, Watching, RemoveIn, Create
    <3> QED
      BY <2>4, <3>1, <3>2, <3>3
  <2>5. ASSUME FinishWrite
        PROVE  Present' /\ Untouched' /\ Hearing'
    BY <2>1, <2>5 DEF IInv, TypeOK, Present, Untouched, Hearing, Watching, FinishWrite
  <2>6. ASSUME NEW i \in old, UnlinkOld(i)
        PROVE  Present' /\ Untouched' /\ Hearing'
    <3>1. i \in watched => RemoveIn(events')
      BY <2>6, RemoveAdded DEF IInv, TypeOK, UnlinkOld, LoseWatch, Raise
    <3>2. Present' /\ Untouched'
      BY <2>6 DEF IInv, Present, Untouched, Follows, UnlinkOld, LoseWatch
    <3>3. Hearing'
      BY <2>1, <2>6, <3>1 DEF IInv, Hearing, Watching, UnlinkOld, LoseWatch
    <3> QED
      BY <3>2, <3>3
  <2>7. ASSUME Delete
        PROVE  Present' /\ Untouched' /\ Hearing'
    <3>1. inode \in watched => RemoveIn(events')
      BY <2>7, RemoveAdded DEF IInv, TypeOK, Delete, LoseWatch, Raise
    <3>2. Present' /\ Untouched'
      BY <2>7 DEF IInv, Present, Untouched, Delete, LoseWatch, MayEdit, Edit
    <3>3. Hearing'
      BY <2>1, <2>7, <3>1
         DEF IInv, Present, TypeOK, Hearing, Watching, Delete, LoseWatch, Edit
    <3> QED
      BY <3>2, <3>3
  <2> QED
    BY <1>0, <1>2, <2>3, <2>4, <2>5, <2>6, <2>7 DEF IInv, Environment
<1>3. CASE New
  <2>1. ASSUME wpc' = "loaded"
        PROVE  Follows'
    BY <1>3, <2>1 DEF IInv, Present, New, Follows, LoadOutcomes, Valid, fsVars
  <2>2. Untouched'
    BY <1>3, <2>1 DEF IInv, Untouched, New, fsVars
  <2>3. wpc' \in {"loaded", "failed"}
    BY <1>3 DEF New
  <2>4. Present' /\ Hearing' /\ Catching'
    BY <1>3, <2>3 DEF IInv, Present, Hearing, Catching, Watching, New, fsVars
  <2> QED
    BY <1>0, <2>2, <2>4 DEF IInv
<1>4. CASE StartWatch
  <2>1. \/ wpc' = "failed" /\ watched' = watched
        \/ wpc' = "select" /\ watched' = {inode} /\ file # {}
    BY <1>4 DEF StartWatch
  <2>2. EarlyEdits \/ Follows'
    BY <1>4 DEF IInv, Untouched, StartWatch, Follows, fsVars
  <2>3. Present' /\ Untouched'
    BY <1>4, <2>1 DEF IInv, Present, Untouched, StartWatch, fsVars
  <2>4. Hearing' /\ Catching'
    BY <1>4, <2>1, <2>2 DEF Hearing, Watching, Catching, StartWatch, fsVars
  <2> QED
    BY <1>0, <2>3, <2>4 DEF IInv
<1>5. CASE HandleWrite
  <2>1. RemoveIn(events) => RemoveIn(events')
    BY <1>5, RemoveInTail DEF IInv, TypeOK, HandleWrite
  <2>2. Hearing'
    BY <1>5, <2>1 DEF IInv, Hearing, Watching, HandleWrite, fsVars
  <2>3. Present' /\ Untouched' /\ Catching'
    BY <1>5 DEF IInv, Present, Untouched, Catching, Coming, HandleWrite, fsVars
  <2> QED
    BY <1>0, <2>2, <2>3 DEF IInv
<1>6. CASE HandleRemove
  <2>1. \/ file # {} /\ watched' = {inode} /\ timer' = TRUE /\ lost' = lost
        \/ file = {} /\ watched' = {} /\ lost' = TRUE
    BY <1>6 DEF HandleRemove
  <2>2. Present' /\ Untouched'
    BY <1>6, <2>1 DEF IInv, Present, Untouched, HandleRemove, fsVars
  <2>3. Hearing' /\ Catching'
    BY <1>6, <2>1 DEF Hearing, Catching, Coming, HandleRemove, fsVars
  <2> QED
    BY <1>0, <2>2, <2>3 DEF IInv
<1>7. CASE TimerFires \/ ReadFile
  <2>1. \/ wpc' \in {"read", "apply"}
        \/ wpc' = "select" /\ file = {}
    BY <1>7 DEF TimerFires, ReadFile
  <2>2. Present' /\ Untouched'
    BY <1>7, <2>1 DEF IInv, Present, Untouched, TimerFires, ReadFile, fsVars
  <2>3. Hearing'
    BY <1>7 DEF IInv, Hearing, Watching, RemoveIn, TimerFires, ReadFile, fsVars
  <2>4. Catching'
    BY <1>7, <2>1 DEF Catching, Follows, TimerFires, ReadFile, fsVars
  <2> QED
    BY <1>0, <2>2, <2>3, <2>4 DEF IInv
<1>8. CASE Apply
  <2>1. PICK c \in buf : /\ mgr' \in LoadOutcomes(c)
                         /\ wpc' = IF Valid(c) THEN "onchange" ELSE "select"
    BY <1>8 DEF Apply
  <2>2. Present' /\ Untouched' /\ Hearing'
    BY <1>8, <2>1 DEF IInv, Present, Untouched, Hearing, Watching, RemoveIn, Apply, fsVars
  <2>3. ASSUME buf = file
        PROVE  Follows'
    <3>1. file = {c}
      BY <2>1, <2>3 DEF IInv, Present
    <3>2. Valid(c) => mgr' = Parse(c)
      BY <2>1 DEF Valid, LoadOutcomes
    <3> QED
      BY <1>8, <3>1, <3>2 DEF Follows, Apply, fsVars
  <2>4. Coming => Coming'
    BY <1>8 DEF Coming, Apply, fsVars
  <2>5. Catching'
    BY <1>8, <2>1, <2>3, <2>4 DEF IInv, Catching, Apply, fsVars
  <2> QED
    BY <1>0, <2>2, <2>5 DEF IInv
<1>9. CASE OnChange \/ Cancelled
  <2>1. Present' /\ Untouched' /\ Hearing'
    BY <1>9 DEF IInv, Present, Untouched, Hearing, Watching, RemoveIn,
       OnChange, Cancelled, fsVars
  <2>2. Catching'
    BY <1>9 DEF IInv, Catching, Coming, Follows, OnChange, Cancelled, fsVars
  <2> QED
    BY <1>0, <2>1, <2>2 DEF IInv
<1> QED
  BY <1>1, <1>2, <1>3, <1>4, <1>5, <1>6, <1>7, <1>8, <1>9
     DEF Next, Watcher, Handle, Reload

\* Whatever edits race with the watcher, at rest it holds the file on disk,
\* unless it found the path empty once or was not there yet.
THEOREM NoEditIsMissed == Spec => []StaleOnlyIfLost
<1>1. IInv => StaleOnlyIfLost
  BY DEF IInv, Catching, Coming, Excused, StaleOnlyIfLost, Quiescent
<1> QED
  BY <1>1, InvariantInit, InvariantStep, PTL DEF Spec

\* The watch is never elsewhere than on the file, on its way to it, or lost.
THEOREM NeverDeafHolds == Spec => []NeverDeaf
<1>1. IInv => NeverDeaf
  BY DEF IInv, Hearing, NeverDeaf, RemoveIn
<1> QED
  BY <1>1, InvariantInit, InvariantStep, PTL DEF Spec

\* With editors that write or swap, and only once Watch runs, no exception is
\* left: at rest, the Manager holds the file on disk.
THEOREM KindEditorsAreFollowed ==
  ASSUME KindEditors
  PROVE  Spec => []QuiescentFollowsFile
<1>1. IInv => QuiescentFollowsFile
  BY DEF IInv, Catching, Coming, Excused, Present, KindEditors,
     QuiescentFollowsFile, Quiescent
<1> QED
  BY <1>1, InvariantInit, InvariantStep, PTL DEF Spec
=============================================================================
