---------------------------- MODULE LibraryWatch ----------------------------
(***************************************************************************)
(* The library watcher of internal/watch/watch.go, composed with the scan  *)
(* jobs it asks internal/libraries/service.go for.                         *)
(*                                                                         *)
(* Two goroutines: the event loop of watchCycle turns filesystem events    *)
(* into owed work (pendingChanges) and pokes a channel of capacity one;    *)
(* scanLoop debounces the pokes, drains the owed work and asks for scans,  *)
(* and puts back what was refused.  Between the two, and between scanLoop  *)
(* and the scan service, every check is made before the act it guards.     *)
(***************************************************************************)
EXTENDS LibraryScans

CONSTANTS
  Watcher,       \* the caller that is scanLoop
  OtherRequests, \* what the other callers ask for
  MaxChanges,    \* bound: changes on disk
  MaxRequests,   \* bound: scans that other callers start
  MaxRebuilds    \* bound: changes of the library list

ASSUME WatcherAssumption ==
  /\ Watcher \in Callers
  /\ OtherRequests \subseteq Requests
  /\ [scope : {"library", "subpaths"}, library : Libraries, paths : SUBSET Folders]
       \subseteq Requests
ASSUME WatchBounds == {MaxChanges, MaxRequests, MaxRebuilds} \subseteq Nat

VARIABLES
  dirty,      \* folders with files that no scan has read
  gone,       \* folders with rows whose file has left the disk
  events,     \* fsnotify events not yet handled: [kind, folder]
  pend,       \* pendingChanges: the folders owed a scan
  full,       \* pendingChanges: the libraries owed a whole reconcile
  poke,       \* the event loop is between pending.add and notify
  trigger,    \* the trigger channel holds a token
  timer,      \* the debounce timer is armed
  drained,    \* scanLoop is in rescan
  batch,      \* the libraries of the drained work that are still to be asked for
  paths,      \* the folders that were drained
  whole,      \* the libraries that were drained for a reconcile
  failed,     \* the libraries whose scan was refused
  changes, requests, rebuilds  \* counters of the bounds

diskVars == <<dirty, gone, events>>
pendVars == <<pend, full>>
loopVars == <<poke, trigger, timer, drained, batch, paths, whole, failed>>
budget   == <<changes, requests, rebuilds>>
watchVars == <<diskVars, pendVars, loopVars, budget>>
allVars   == <<vars, watchVars>>

Kinds == {"write", "remove"}

WatchTypeOK ==
  /\ TypeOK
  /\ dirty \in SUBSET Folders /\ gone \in SUBSET Folders
  /\ events \in SUBSET [kind : Kinds, folder : Folders]
  /\ pend \in SUBSET Folders /\ full \in SUBSET Libraries
  /\ {poke, trigger, timer, drained} \subseteq BOOLEAN
  /\ batch \in SUBSET Libraries /\ failed \in SUBSET Libraries
  /\ paths \in SUBSET Folders /\ whole \in SUBSET Libraries
  /\ changes \in 0..MaxChanges /\ requests \in 0..MaxRequests /\ rebuilds \in 0..MaxRebuilds

WatchInit ==
  /\ Init
  /\ dirty = {} /\ gone = {} /\ events = {}
  /\ pend = {} /\ full = {}
  /\ poke = FALSE /\ trigger = FALSE /\ timer = FALSE /\ drained = FALSE
  /\ batch = {} /\ paths = {} /\ whole = {} /\ failed = {}
  /\ changes = 0 /\ requests = 0 /\ rebuilds = 0

-----------------------------------------------------------------------------
(* The disk, and the event loop of watchCycle.                              *)

\* Files appear in a folder, or leave it; the kernel reports it.
DiskChange(f, kind) ==
  /\ changes < MaxChanges
  /\ changes' = changes + 1
  /\ dirty' = IF kind = "write" THEN dirty \cup {f} ELSE dirty
  /\ gone' = IF kind = "remove" THEN gone \cup {f} ELSE gone
  /\ events' = events \cup {[kind |-> kind, folder |-> f]}
  /\ UNCHANGED <<vars, pendVars, loopVars, requests, rebuilds>>

\* owningRoot.
OwningLibrary(f) == LibraryOf[f]

\* handleEvent: what left the tree owes the library a reconcile, anything else
\* owes its folder a scan.  The change is queued before scanLoop is poked.
HandleEvent(e) ==
  /\ ~poke /\ e \in events
  /\ events' = events \ {e}
  /\ IF e.kind = "remove"
       THEN full' = full \cup {OwningLibrary(e.folder)} /\ UNCHANGED pend
       ELSE pend' = pend \cup {e.folder} /\ UNCHANGED full
  /\ poke' = TRUE
  /\ UNCHANGED <<vars, dirty, gone, trigger, timer, drained, batch, paths, whole,
                 failed, budget>>

\* notify: a send that is dropped when the token is already there.
Notify ==
  /\ poke
  /\ poke' = FALSE
  /\ trigger' = TRUE
  /\ UNCHANGED <<vars, diskVars, pendVars, timer, drained, batch, paths, whole,
                 failed, budget>>

-----------------------------------------------------------------------------
(* scanLoop.                                                                *)

\* A token arms the debounce timer, or restarts it.
TakeTrigger ==
  /\ ~drained /\ trigger
  /\ trigger' = FALSE
  /\ timer' = TRUE
  /\ UNCHANGED <<vars, diskVars, pendVars, poke, drained, batch, paths, whole,
                 failed, budget>>

\* The timer fires: wait again while a scan runs, otherwise drain what is owed.
\* A library owed a reconcile drops its folders: the reconcile covers them.
TimerFires ==
  /\ ~drained /\ timer /\ Unlocked
  /\ IF active # NoJob
       THEN UNCHANGED <<pendVars, loopVars>>
       ELSE /\ timer' = FALSE
            /\ drained' = TRUE
            /\ batch' = full \cup {LibraryOf[f] : f \in pend}
            /\ paths' = {f \in pend : LibraryOf[f] \notin full}
            /\ whole' = full
            /\ failed' = {}
            /\ pend' = {} /\ full' = {}
            /\ UNCHANGED <<poke, trigger>>
  /\ UNCHANGED <<vars, diskVars, budget>>

\* A mutant: removals are asked for like additions.
FoldersOnly(l) ==
  [scope |-> "subpaths", library |-> l, paths |-> {f \in paths : LibraryOf[f] = l}]

\* The request rescan makes for one library of the drained work.
RequestFor(l) ==
  IF l \in whole
    THEN [scope |-> "library", library |-> l, paths |-> {}]
    ELSE [scope |-> "subpaths", library |-> l, paths |-> {f \in paths : LibraryOf[f] = l}]

Ask(l) ==
  /\ drained /\ l \in batch /\ at[Watcher] = "idle"
  /\ \/ \E j \in Jobs : InsertJob(Watcher, RequestFor(l), j)
     \/ FindActive(Watcher, RequestFor(l))
  /\ UNCHANGED watchVars

\* A scan that starts, or that the service says runs already, settles its
\* library; a refusal is remembered.
Asked == want[Watcher].library

AskStarts ==
  /\ Activate(Watcher)
  /\ batch' = batch \ {Asked}
  /\ UNCHANGED <<diskVars, pendVars, poke, trigger, timer, drained, paths, whole,
                 failed, budget>>

AskAnswered ==
  /\ AnswerFromRow(Watcher)
  /\ batch' = batch \ {Asked}
  /\ failed' = IF Joins(Watcher) THEN failed ELSE failed \cup {Asked}
  /\ UNCHANGED <<diskVars, pendVars, poke, trigger, timer, drained, paths, whole, budget>>

NoRetry == FALSE  \* a mutant
Retry == failed # {}

\* restore: the refused work is owed again, and the timer is armed for it.
EndRescan ==
  /\ drained /\ batch = {}
  /\ drained' = FALSE
  /\ pend' = pend \cup {f \in paths : LibraryOf[f] \in failed}
  /\ full' = full \cup (whole \cap failed)
  /\ timer' = Retry
  /\ paths' = {} /\ whole' = {} /\ failed' = {}
  /\ UNCHANGED <<vars, diskVars, poke, trigger, batch, budget>>

\* The library list changed: the cycle ends, and with it the events the old
\* fsnotify watcher held, scanLoop and everything it owed.  The next cycle
\* starts with an empty queue.
Rebuild ==
  /\ rebuilds < MaxRebuilds
  /\ ~poke /\ ~drained
  /\ rebuilds' = rebuilds + 1
  /\ events' = {}
  /\ pend' = {} /\ full' = {}
  /\ trigger' = FALSE /\ timer' = FALSE
  /\ UNCHANGED <<vars, dirty, gone, poke, drained, batch, paths, whole, failed,
                 changes, requests>>

-----------------------------------------------------------------------------
(* The scan service, and its other callers.                                 *)

\* A walk reads the folder's files; only a scan of whole libraries runs the
\* phases that mark files missing and prune their rows.
Read(j, f) ==
  /\ WalkFolder(j, f)
  /\ dirty' = dirty \ {f}
  /\ gone' = IF request[j].scope = "subpaths" THEN gone ELSE gone \ {f}
  /\ UNCHANGED <<events, pendVars, loopVars, budget>>

OtherStarts(c, req) ==
  /\ requests < MaxRequests
  /\ requests' = requests + 1
  /\ (\E j \in Jobs : InsertJob(c, req, j)) \/ FindActive(c, req)
  /\ UNCHANGED <<diskVars, pendVars, loopVars, changes, rebuilds>>

OtherSteps(c) ==
  /\ Activate(c) \/ AnswerFromRow(c)
  /\ UNCHANGED watchVars

Work(j) ==
  /\ EndWalk(j) \/ PersistVerdict(j) \/ ReleaseScan(j) \/ ScanComplete(j)
  /\ UNCHANGED watchVars

\* Job ids are never used up in the code: a finished row nobody refers to makes
\* room for a new id, so that the bound on Jobs is not a bound on scans.
Recycle(j) ==
  /\ worker[j] = "gone" /\ status[j] \in Terminal
  /\ \A c \in Callers : about[c] # j
  /\ worker' = [worker EXCEPT ![j] = "none"]
  /\ status' = [status EXCEPT ![j] = "absent"]
  /\ request' = [request EXCEPT ![j] = NoRequest]
  /\ verdict' = [verdict EXCEPT ![j] = "none"]
  /\ ctxDone' = ctxDone \ {j}
  /\ lost' = lost \ {j}
  /\ UNCHANGED <<active, left, callerVars, stale, up, crashes, watchVars>>

Others == Callers \ {Watcher}

ScanLoop ==
  \/ TakeTrigger
  \/ TimerFires
  \/ \E l \in Libraries : Ask(l)
  \/ AskStarts
  \/ AskAnswered
  \/ EndRescan

EventLoop == (\E e \in events : HandleEvent(e)) \/ Notify

Scanning(j) == (\E f \in Folders : Read(j, f)) \/ Work(j)

WatchNext ==
  \/ \E f \in Folders, kind \in Kinds : DiskChange(f, kind)
  \/ EventLoop
  \/ ScanLoop
  \/ Rebuild
  \/ \E c \in Others : (\E req \in OtherRequests : OtherStarts(c, req)) \/ OtherSteps(c)
  \/ \E j \in Jobs : Scanning(j) \/ Recycle(j)

\* Every goroutine that can step does; the timer fires in time.  The scanLoop
\* goroutine is never held up for ever, the other callers need not come.
WatchSpec ==
  /\ WatchInit /\ [][WatchNext]_allVars
  /\ WF_allVars(EventLoop)
  /\ WF_allVars(TakeTrigger) /\ WF_allVars(TimerFires) /\ WF_allVars(EndRescan)
  /\ WF_allVars(AskStarts \/ AskAnswered)
  /\ \A l \in Libraries : WF_allVars(Ask(l))
  /\ \A c \in Others : WF_allVars(OtherSteps(c))
  /\ \A j \in Jobs : WF_allVars(Scanning(j)) /\ WF_allVars(Recycle(j))

-----------------------------------------------------------------------------
(* What must hold.                                                          *)

\* Work is never owed in silence: while anything is queued, some step that
\* leads to a drain is still to come.
Waking == poke \/ trigger \/ timer \/ drained
OwedWorkHasATimer == (pend # {} \/ full # {}) => Waking

\* Every change on disk is on its way to a scan: it is an unhandled event, it
\* is queued, it was drained, or the scan that will read it runs.  Of the two
\* places it may be lost between, this names the check-then-act of scanLoop; the
\* other is a rebuild of the cycle, which is excepted.
NoChangeForgotten ==
  rebuilds = 0 => \A f \in dirty :
    \/ [kind |-> "write", folder |-> f] \in events
    \/ f \in pend \/ LibraryOf[f] \in full
    \/ drained /\ LibraryOf[f] \in batch \cup failed
               /\ (f \in paths \/ LibraryOf[f] \in whole)
    \/ \E j \in Jobs : \/ worker[j] = "walking" /\ f \in left[j]
                       \/ worker[j] = "none" /\ status[j] = "running"
                                             /\ f \in FoldersOf(request[j])

\* "Drop a folder in and it shows up": whatever changed is eventually scanned,
\* and what left the disk is eventually reconciled, unless the watch was rebuilt.
ChangesAreScanned ==
  \A f \in Folders : (f \in dirty) ~> (f \notin dirty \/ rebuilds > 0)
RemovalsAreReconciled ==
  \A f \in Folders : (f \in gone) ~> (f \notin gone \/ rebuilds > 0)

\* restore: work that did not start is put back rather than dropped, so a
\* folder the watcher once queued is scanned.
OwedWorkIsScanned == \A f \in Folders : (f \in pend) ~> (f \notin dirty)
=============================================================================
