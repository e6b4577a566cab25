-------------------------- MODULE PermissionsWatch --------------------------
(* permissions.Manager and its Watch goroutine (src/permissions): the parsed  *)
(* admins and grants, and the fsnotify loop that reloads them when the file   *)
(* changes.  The file, its editors and inotify are external.                  *)
(*                                                                            *)
(* A content is [admins, perms, fault]: the subjects under admin_users, the   *)
(* (subject, table) pairs under user_permissions, and what is wrong with it:  *)
(*   "none"     a valid file                                                  *)
(*   "syntax"   not YAML (Unmarshal fails)                                    *)
(*   "key"      an unknown top-level key                                      *)
(*   "admins"   an entry of admin_users is not a string                       *)
(*   "user"     one user's list does not decode (perms holds the others')     *)

EXTENDS Naturals, Sequences

CONSTANTS Sub, Tab,     \* subjects, tables
          Contents,     \* what editors write into the file
          EditKinds,    \* how they do it: "write", "swap", "delete"
          MaxEdits,     \* bound: how many times
          EarlyEdits    \* may they do it before Watch has started?

Faults == {"none", "syntax", "key", "admins", "user"}
Content == [admins : SUBSET Sub, perms : SUBSET (Sub \X Tab), fault : Faults]
Parsed == [admins : SUBSET Sub, perms : SUBSET (Sub \X Tab)]

ASSUME WatchAssumption == /\ Contents \subseteq Content
                          /\ EditKinds \subseteq {"write", "swap", "delete"}
                          /\ MaxEdits \in Nat
                          /\ EarlyEdits \in BOOLEAN

VARIABLES file,      \* what the path leads to: {c}, or {} when it is missing
          inode,     \* the inode it leads to
          old,       \* inodes swapped out, not unlinked yet
          writing,   \* {c} while an editor that truncated the file writes c
          edits,     \* edits so far
          watched,   \* {i}: the inode the inotify watch is on, {}: none
          events,    \* watcher.Events
          mgr,       \* the Manager's admins and grants, under m.mu
          wpc,       \* where New and the Watch goroutine are
          timer,     \* is reloadTimer armed?
          buf,       \* {c}: what os.ReadFile returned to Load
          unseen,    \* history: edits made before the watch was placed
          lost       \* history: has Watch found no file to watch again?

fsVars == <<file, inode, old, writing, edits>>
vars == <<fsVars, watched, events, mgr, wpc, timer, buf, unseen, lost>>

WatchSteps == {"off", "loaded", "select", "read", "apply", "onchange",
               "failed", "stopped"}
Events == {"write", "remove"}    \* "write" is a Write, Create or Chmod event

TypeOK == /\ file \subseteq Content
          /\ inode \in Nat
          /\ old \subseteq Nat
          /\ writing \subseteq Content
          /\ edits \in 0..MaxEdits
          /\ watched \subseteq Nat
          /\ events \in Seq(Events)
          /\ mgr \in Parsed
          /\ wpc \in WatchSteps
          /\ timer \in BOOLEAN
          /\ buf \subseteq Content
          /\ unseen \in 0..MaxEdits
          /\ lost \in BOOLEAN

EmptyFile == [admins |-> {}, perms |-> {}, fault |-> "none"]
Valid(c) == c.fault = "none"
\* Mutant: the whole document ends up in the Manager.
ParseAll(c) == c

Parse(c) == [admins |-> c.admins, perms |-> c.perms]

Init == /\ file \in {{c} : c \in Contents}
        /\ inode = 0
        /\ old = {}
        /\ writing = {}
        /\ edits = 0
        /\ watched = {}
        /\ events = <<>>
        /\ mgr = Parse(EmptyFile)
        /\ wpc = "off"
        /\ timer = FALSE
        /\ buf = {}
        /\ unseen = 0
        /\ lost = FALSE

-----------------------------------------------------------------------------
(* Editors, and the inotify events an edit raises if its inode is watched.    *)

MayEdit(kind) == /\ kind \in EditKinds
                 /\ edits < MaxEdits
                 /\ writing = {}
                 /\ EarlyEdits \/ wpc \notin {"off", "loaded"}

Edit == edits' = edits + 1 /\ UNCHANGED <<mgr, wpc, timer, buf, unseen, lost>>

Raise(i, es) == events' = IF i \in watched THEN events \o es ELSE events

\* An inode that leaves takes its watch with it.
LoseWatch(i, es) == /\ Raise(i, es)
                    /\ watched' = watched \ {i}

\* An editor truncates the file and writes it in place.
Truncate(c) == /\ MayEdit("write") /\ file # {}
               /\ file' = {EmptyFile}
               /\ writing' = {c}
               /\ Raise(inode, <<"write">>)
               /\ Edit
               /\ UNCHANGED <<inode, old, watched>>

FinishWrite == /\ writing # {}
               /\ file' = writing
               /\ writing' = {}
               /\ Raise(inode, <<"write">>)
               /\ UNCHANGED <<inode, old, edits, watched, mgr, wpc, timer, buf,
                              unseen, lost>>

\* kubelet swaps the symlink the path goes through (or mv renames a new file
\* over it); the old file is unlinked afterwards.
Swap(c) == /\ MayEdit("swap") /\ file # {}
           /\ file' = {c}
           /\ inode' = inode + 1
           /\ old' = old \cup {inode}
           /\ Edit
           /\ UNCHANGED <<writing, watched, events>>

UnlinkOld(i) == /\ i \in old
                /\ old' = old \ {i}
                /\ LoseWatch(i, <<"write", "remove">>)
                /\ UNCHANGED <<file, inode, writing, edits, mgr, wpc, timer, buf,
                               unseen, lost>>

\* rm, or mv to another name; and a new file made at the path.
Delete == /\ MayEdit("delete") /\ file # {}
          /\ file' = {}
          /\ LoseWatch(inode, <<"write", "remove">>) \/ LoseWatch(inode, <<"remove">>)
          /\ Edit
          /\ UNCHANGED <<inode, old, writing>>

Create(c) == /\ "delete" \in EditKinds /\ file = {}
             /\ file' = {c}
             /\ inode' = inode + 1
             /\ UNCHANGED <<old, writing, edits, watched, events, mgr, wpc, timer,
                            buf, unseen, lost>>

Environment == \/ \E c \in Contents : Truncate(c) \/ Swap(c) \/ Create(c)
               \/ FinishWrite
               \/ \E i \in old : UnlinkOld(i)
               \/ Delete

-----------------------------------------------------------------------------
(* Manager.Load.  The keys of the YAML maps come in a random order, and an    *)
(* error leaves behind what was decoded before it.                            *)

OnlyOf(subs, perms) == {g \in perms : g[1] \in subs}

LoadOutcomes(c) ==
    CASE c.fault = "none"   -> {Parse(c)}
      [] c.fault = "syntax" -> {mgr}
      [] c.fault = "key"    -> [admins : {{}, c.admins}, perms : {{}, c.perms}]
      [] c.fault = "admins" -> [admins : {c.admins}, perms : {{}, c.perms}]
      [] c.fault = "user"   -> [admins : {{}, c.admins},
                                perms : {OnlyOf(subs, c.perms) : subs \in SUBSET Sub}]

\* New: the first Load, whose failure main does not survive.
New == /\ wpc = "off"
       /\ IF \E c \in file : Valid(c)
            THEN /\ wpc' = "loaded"
                 /\ \E c \in file : mgr' \in LoadOutcomes(c)
            ELSE wpc' = "failed" /\ UNCHANGED mgr
       /\ UNCHANGED <<fsVars, watched, events, timer, buf, unseen, lost>>

\* Load, first half: os.ReadFile (and Unmarshal) before the lock is taken.
ReadFile == /\ wpc = "read"
            /\ buf' = file
            /\ wpc' = IF file = {} THEN "select" ELSE "apply"
            /\ UNCHANGED <<fsVars, watched, events, mgr, timer, unseen, lost>>

\* Mutant: a failed Load ends Watch.
ApplyOrStop == /\ wpc = "apply"
               /\ \E c \in buf : /\ mgr' \in LoadOutcomes(c)
                                 /\ wpc' = IF Valid(c) THEN "onchange" ELSE "failed"
               /\ buf' = {}
               /\ UNCHANGED <<fsVars, watched, events, timer, unseen, lost>>

\* Load, second half, under m.mu; reload calls onChange only if it succeeds.
Apply == /\ wpc = "apply"
         /\ \E c \in buf : /\ mgr' \in LoadOutcomes(c)
                           /\ wpc' = IF Valid(c) THEN "onchange" ELSE "select"
         /\ buf' = {}
         /\ UNCHANGED <<fsVars, watched, events, timer, unseen, lost>>

-----------------------------------------------------------------------------
(* Watch.                                                                     *)

\* NewWatcher and the first addWatch.  Either may fail, the latter at least
\* when there is no file to watch: Watch returns an error.
StartWatch == /\ wpc = "loaded"
              /\ \/ wpc' = "failed" /\ UNCHANGED watched
                 \/ file # {} /\ wpc' = "select" /\ watched' = {inode}
              /\ unseen' = edits
              /\ UNCHANGED <<fsVars, events, mgr, timer, buf, lost>>

\* Mutant: a write does not arm the timer.
HandleWriteUnarmed == /\ wpc = "select" /\ events # <<>> /\ Head(events) = "write"
                      /\ events' = Tail(events)
                      /\ UNCHANGED <<fsVars, watched, mgr, wpc, timer, buf, unseen, lost>>

HandleWrite == /\ wpc = "select" /\ events # <<>> /\ Head(events) = "write"
               /\ events' = Tail(events)
               /\ timer' = TRUE
               /\ UNCHANGED <<fsVars, watched, mgr, wpc, buf, unseen, lost>>

\* Mutant: reload, without a new watch.
HandleRemoveReloads == /\ wpc = "select" /\ events # <<>> /\ Head(events) = "remove"
                       /\ events' = Tail(events)
                       /\ timer' = TRUE
                       /\ UNCHANGED <<fsVars, watched, mgr, wpc, buf, unseen, lost>>

\* Mutant: a new watch, without a reload.
HandleRemoveRewatches == /\ wpc = "select" /\ events # <<>> /\ Head(events) = "remove"
                         /\ events' = Tail(events)
                         /\ IF file = {} THEN watched' = {} /\ lost' = TRUE
                                         ELSE watched' = {inode} /\ UNCHANGED lost
                         /\ UNCHANGED <<fsVars, mgr, wpc, timer, buf, unseen>>

\* watcher.Remove and addWatch; when the path is missing the loop goes on
\* without a watch and without arming the timer.
HandleRemove == /\ wpc = "select" /\ events # <<>> /\ Head(events) = "remove"
                /\ events' = Tail(events)
                /\ IF file = {}
                     THEN watched' = {} /\ lost' = TRUE /\ UNCHANGED timer
                     ELSE watched' = {inode} /\ timer' = TRUE /\ UNCHANGED lost
                /\ UNCHANGED <<fsVars, mgr, wpc, buf, unseen>>

\* The debounce timer fires at any time after it was armed.
TimerFires == /\ wpc = "select" /\ timer
              /\ timer' = FALSE
              /\ wpc' = "read"
              /\ UNCHANGED <<fsVars, watched, events, mgr, buf, unseen, lost>>

\* The onChange callback returns.
OnChange == /\ wpc = "onchange"
            /\ wpc' = "select"
            /\ UNCHANGED <<fsVars, watched, events, mgr, timer, buf, unseen, lost>>

\* ctx.Done: Watch returns.
Cancelled == /\ wpc = "select"
             /\ wpc' = "stopped"
             /\ UNCHANGED <<fsVars, watched, events, mgr, timer, buf, unseen, lost>>

Handle == HandleWrite \/ HandleRemove
Reload == TimerFires \/ ReadFile \/ Apply
Watcher == New \/ StartWatch \/ Handle \/ Reload

Next == Environment \/ Watcher \/ OnChange \/ Cancelled

\* The goroutine is scheduled and its timer fires; writers finish what they
\* began and kubelet removes what it swapped out.  Nobody has to edit.
Fairness == /\ WF_vars(New) /\ WF_vars(StartWatch) /\ WF_vars(Handle)
            /\ WF_vars(Reload) /\ WF_vars(OnChange)
            /\ WF_vars(FinishWrite)
            /\ WF_vars(\E i \in old : UnlinkOld(i))
            /\ WF_vars(\E c \in Contents : Create(c))

Spec == Init /\ [][Next]_vars
FairSpec == Spec /\ Fairness

-----------------------------------------------------------------------------
(* Properties.                                                                *)

Watching == wpc \in {"select", "read", "apply", "onchange"}

\* While Watch runs, a change of the file at the path will be noticed: its
\* inode is watched, or the event that moves the watch there is on its way;
\* unless Watch once found the path empty (its Remove/Rename branch).
NeverDeaf == Watching /\ file # {} /\ ~lost =>
    \/ watched = {inode}
    \/ watched \cap old # {}
    \/ \E i \in DOMAIN events : events[i] = "remove"

Quiescent == /\ wpc = "select" /\ events = <<>> /\ ~timer
             /\ writing = {} /\ old = {}

Follows == \A c \in file : Valid(c) => mgr = Parse(c)

\* When the watcher has nothing left to do and no edit is under way, the
\* Manager holds the file on disk (Watch; editors as in KindEditors of
\* PermissionsWatch_proofs).
QuiescentFollowsFile == Quiescent => Follows

\* At rest, the Manager holds another file than the one on disk only if Watch
\* once found the path empty, or if every edit came before it placed its watch.
StaleOnlyIfLost == Quiescent /\ ~Follows => lost \/ edits = unseen

\* Once edits stop, the Manager settles on the last valid file, with the same
\* two exceptions (Watch).
EventuallyFollowsFile == <>[](Watching => Follows \/ lost \/ edits = unseen)

\* The same without the first exception: "whenever it is updated ... the
\* server re-parses it" (README.md:105), be it removed and made again.
RemoveIsSurvived == <>[](Watching => Follows \/ edits = unseen)
=============================================================================
