---------------------------- MODULE LibraryScans ----------------------------
(***************************************************************************)
(* The scan jobs of internal/libraries/service.go.                         *)
(*                                                                         *)
(* The service runs one scan at a time.  The claim on the scanner is       *)
(* in memory (activeJobID and activeCancel, under scanMu); the record of   *)
(* the job is a scan_jobs row in the database.  The two are written by     *)
(* different steps of different goroutines: the caller that starts a scan, *)
(* the goroutine that runs it, the operators who cancel it, and the next   *)
(* process, which finds rows whose goroutine died with the last one.       *)
(*                                                                         *)
(* A scan is a walk over the folders its request names.  What it writes in *)
(* the catalog is abstracted to `stale`: the database holds rows that the  *)
(* in-memory catalog projection has not been rebuilt from.                 *)
(***************************************************************************)
EXTENDS Naturals, FiniteSets

CONSTANTS
  Jobs,           \* the job ids newScanJobID may return
  Folders,        \* the folders of the libraries
  Libraries,      \* the filesystem libraries
  LibraryOf,      \* [Folders -> Libraries]
  Requests,       \* the requests that callers make
  Callers,        \* API requests, the watcher, the keep path: who calls the service
  NoJob,          \* activeJobID = ""
  NoRequest,
  ExternalScan,   \* SAMO_SCANNER_EXTERNAL: the walk runs in a subprocess
  ScanErrors,     \* may a walk fail by itself (a database error, a panic)?
  RowErrors,      \* may a statement on the scan_jobs rows fail (the terminal write:
                  \* all its retries)?
  MaxCrashes      \* bound: how often the process dies

Scopes == {"all", "library", "subpaths"}

ASSUME JobsAssumption == NoJob \notin Jobs
ASSUME LibraryOfAssumption == LibraryOf \in [Folders -> Libraries]
ASSUME RequestsAssumption ==
  /\ Requests \subseteq
       [scope : Scopes, library : Libraries \cup {NoRequest}, paths : SUBSET Folders]
  /\ NoRequest \notin Requests
ASSUME FlagsAssumption ==
  /\ ExternalScan \in BOOLEAN
  /\ ScanErrors \in BOOLEAN
  /\ RowErrors \in BOOLEAN
  /\ MaxCrashes \in Nat

VARIABLES
  status,    \* scan_jobs.status of each row
  request,   \* what the job was started for: the row's scope and library, the
             \* goroutine's subpaths
  lost,      \* history: the rows this process failed to settle, and nobody has since
  active,    \* activeJobID
  worker,    \* where executeScan of each job is
  left,      \* the folders its walk has not reached
  verdict,   \* job.Status as the goroutine decided it
  ctxDone,   \* the jobs whose scan context is cancelled
  at,        \* where each caller is in runScan or CancelScan
  about,     \* the job it is about
  want,      \* the request it made
  stale,     \* the database has rows the projection was not rebuilt from
  up,        \* the process runs
  crashes    \* how often it died

rowVars    == <<status, request, lost>>
workerVars == <<worker, left, verdict, ctxDone>>
callerVars == <<at, about, want>>
vars == <<rowVars, active, workerVars, callerVars, stale, up, crashes>>

Statuses == {"absent", "running", "completed", "failed", "cancelled"}
Terminal == {"completed", "failed", "cancelled"}
Stages   == {"none", "walking", "finishing", "settled", "callback", "gone"}
Places   == {"idle", "starting", "joining", "cancelling", "checking", "marking"}

\* The stages in which the goroutine owns its job.
Owning == {"walking", "finishing", "settled"}

TypeOK ==
  /\ status \in [Jobs -> Statuses]
  /\ request \in [Jobs -> Requests \cup {NoRequest}]
  /\ lost \in SUBSET Jobs
  /\ active \in Jobs \cup {NoJob}
  /\ worker \in [Jobs -> Stages]
  /\ left \in [Jobs -> SUBSET Folders]
  /\ verdict \in [Jobs -> {"none"} \cup Terminal]
  /\ ctxDone \in SUBSET Jobs
  /\ at \in [Callers -> Places]
  /\ about \in [Callers -> Jobs \cup {NoJob}]
  /\ want \in [Callers -> Requests \cup {NoRequest}]
  /\ stale \in BOOLEAN
  /\ up \in BOOLEAN
  /\ crashes \in Nat

Init ==
  /\ status = [j \in Jobs |-> "absent"]
  /\ request = [j \in Jobs |-> NoRequest]
  /\ lost = {}
  /\ active = NoJob
  /\ worker = [j \in Jobs |-> "none"]
  /\ left = [j \in Jobs |-> {}]
  /\ verdict = [j \in Jobs |-> "none"]
  /\ ctxDone = {}
  /\ at = [c \in Callers |-> "idle"]
  /\ about = [c \in Callers |-> NoJob]
  /\ want = [c \in Callers |-> NoRequest]
  /\ stale = FALSE
  /\ up = TRUE
  /\ crashes = 0

\* resolveScanLibraries and the scanner's subpath filter: what a request walks.
FoldersOf(req) ==
  CASE req.scope = "all"      -> Folders
    [] req.scope = "library"  -> {f \in Folders : LibraryOf[f] = req.library}
    [] req.scope = "subpaths" -> {f \in req.paths : LibraryOf[f] = req.library}

\* scanJobMatchesRequest: the scope and the library are compared, the subpaths
\* are not part of the row.
Matches(row, req) ==
  /\ row.scope = req.scope
  /\ req.scope = "all" \/ row.library = req.library

\* activeJobID, looked at under scanMu: nothing runs, or this job does.
ClaimIgnored == TRUE  \* a mutant
ScannerFree == active = NoJob

OwnerIgnored(j) == FALSE  \* a mutant
Owned(j) == active = j

\* scanMu is held by a caller between the insert of its row and the assignment
\* of activeJobID.  Every other use of scanMu is a single step.
LockIgnored == TRUE  \* a mutant
Unlocked == \A c \in Callers : at[c] # "starting"

Return(c) ==
  /\ at' = [at EXCEPT ![c] = "idle"]
  /\ about' = [about EXCEPT ![c] = NoJob]
  /\ want' = [want EXCEPT ![c] = NoRequest]

-----------------------------------------------------------------------------
(* runScan: the caller's side of a scan.                                    *)

\* Nothing runs: insert the job's row, still holding scanMu.  When the libraries cannot
\* be resolved or the insert fails, the caller has its error and nothing has changed.
InsertJob(c, req, j) ==
  /\ up /\ at[c] = "idle" /\ Unlocked
  /\ ScannerFree
  /\ status[j] = "absent"
  /\ status' = [status EXCEPT ![j] = "running"]
  /\ request' = [request EXCEPT ![j] = req]
  /\ at' = [at EXCEPT ![c] = "starting"]
  /\ about' = [about EXCEPT ![c] = j]
  /\ want' = [want EXCEPT ![c] = req]
  /\ UNCHANGED <<lost, active, workerVars, stale, up, crashes>>

\* Claim the scanner, release scanMu, spawn executeScan and return the job.
Activate(c) ==
  LET j == about[c] IN
  /\ up /\ at[c] = "starting"
  /\ active' = j
  /\ worker' = [worker EXCEPT ![j] = "walking"]
  /\ left' = [left EXCEPT ![j] = FoldersOf(request[j])]
  /\ Return(c)
  /\ UNCHANGED <<rowVars, verdict, ctxDone, stale, up, crashes>>

\* A scan runs already: remember its id and release scanMu.
FindActive(c, req) ==
  /\ up /\ at[c] = "idle" /\ Unlocked
  /\ active # NoJob
  /\ at' = [at EXCEPT ![c] = "joining"]
  /\ about' = [about EXCEPT ![c] = active]
  /\ want' = [want EXCEPT ![c] = req]
  /\ UNCHANGED <<rowVars, active, workerVars, stale, up, crashes>>

\* Read that job's row, without scanMu: the caller is given the running job if
\* it matches, ErrScanInProgress if it does not, the error if the read fails; the row
\* and the claim are left alone by each.
JoinsAnything(c) == TRUE  \* a mutant
Joins(c) == Matches(request[about[c]], want[c])

AnswerFromRow(c) ==
  /\ up /\ at[c] = "joining"
  /\ Return(c)
  /\ UNCHANGED <<rowVars, active, workerVars, stale, up, crashes>>

-----------------------------------------------------------------------------
(* executeScan, finishScanJob and the completion callback.                  *)

WalkFolder(j, f) ==
  /\ worker[j] = "walking" /\ f \in left[j]
  /\ left' = [left EXCEPT ![j] = @ \ {f}]
  /\ stale' = TRUE
  /\ UNCHANGED <<rowVars, active, worker, verdict, ctxDone, callerVars, up, crashes>>

\* A mutant: the cancellation is not told from an error.
CancelIsFailure(j) ==
  {v \in Terminal : (v = "completed" /\ left[j] = {}) \/ (v = "failed" /\ j \in ctxDone)}

\* What the walk may return.  In process a cancelled context surfaces as
\* context.Canceled.  A subprocess is killed instead, and its exit error does
\* not wrap context.Canceled; only a cancel that lands after its exit does.
Verdicts(j) ==
  {v \in Terminal :
     \/ v = "completed" /\ left[j] = {}
     \/ v = "cancelled" /\ j \in ctxDone /\ (ExternalScan => left[j] = {})
     \/ v = "failed" /\ (ScanErrors \/ (ExternalScan /\ j \in ctxDone /\ left[j] # {}))}

EndWalk(j) ==
  /\ worker[j] = "walking"
  /\ \E v \in Verdicts(j) : verdict' = [verdict EXCEPT ![j] = v]
  /\ worker' = [worker EXCEPT ![j] = "finishing"]
  /\ UNCHANGED <<rowVars, active, left, ctxDone, callerVars, stale, up, crashes>>

\* finishScanJob writes the terminal row on a context of its own; when every
\* retry fails the row is left as it was and the failure is only logged.
PersistVerdict(j) ==
  /\ worker[j] = "finishing"
  /\ \/ status' = [status EXCEPT ![j] = verdict[j]] /\ UNCHANGED lost
     \/ RowErrors /\ lost' = lost \cup {j} /\ UNCHANGED status
  /\ worker' = [worker EXCEPT ![j] = "settled"]
  /\ UNCHANGED <<request, active, left, verdict, ctxDone, callerVars, stale, up, crashes>>

\* A mutant: only a scan that went well gives the claim back.
ReleaseOnSuccess(j) ==
  /\ worker[j] = "settled" /\ Unlocked /\ verdict[j] = "completed"
  /\ active' = NoJob
  /\ worker' = [worker EXCEPT ![j] = "callback"]
  /\ UNCHANGED <<rowVars, left, verdict, ctxDone, callerVars, stale, up, crashes>>

\* The deferred function: release the claim under scanMu, spawn the callback.
ReleaseScan(j) ==
  /\ worker[j] = "settled" /\ Unlocked
  /\ active' = NoJob
  /\ worker' = [worker EXCEPT ![j] = "callback"]
  /\ UNCHANGED <<rowVars, left, verdict, ctxDone, callerVars, stale, up, crashes>>

\* The callback of main.go reloads the projection with the scan's context: the
\* read fails at once when that context is cancelled.
ScanComplete(j) ==
  /\ worker[j] = "callback"
  /\ worker' = [worker EXCEPT ![j] = "gone"]
  /\ stale' = IF j \in ctxDone THEN stale ELSE FALSE
  /\ UNCHANGED <<rowVars, active, left, verdict, ctxDone, callerVars, up, crashes>>

-----------------------------------------------------------------------------
(* CancelScan and CancelActiveScan.                                         *)

\* Take activeJobID and activeCancel under scanMu.  An operator can only name
\* a job whose row it has seen.
ReadActive(c, j) ==
  /\ up /\ at[c] = "idle" /\ Unlocked
  /\ status[j] # "absent"
  /\ at' = [at EXCEPT ![c] = IF Owned(j) THEN "cancelling" ELSE "checking"]
  /\ about' = [about EXCEPT ![c] = j]
  /\ UNCHANGED <<rowVars, active, workerVars, want, stale, up, crashes>>

\* cancel() is called after scanMu was released, on the job it was read for.
FireCancel(c) ==
  /\ up /\ at[c] = "cancelling"
  /\ ctxDone' = ctxDone \cup {about[c]}
  /\ Return(c)
  /\ UNCHANGED <<rowVars, active, worker, left, verdict, stale, up, crashes>>

StatusIgnored(c) == TRUE  \* a mutant
SaysRunning(c) == status[about[c]] = "running"

\* Not the active job: read its row.  Only a row that still says running is an
\* orphan to be marked; the other answers, and a failing read, change nothing.
ReadRow(c) ==
  /\ up /\ at[c] = "checking"
  /\ \/ SaysRunning(c) /\ at' = [at EXCEPT ![c] = "marking"] /\ UNCHANGED <<about, want>>
     \/ (SaysRunning(c) => RowErrors) /\ Return(c)
  /\ UNCHANGED <<rowVars, active, workerVars, stale, up, crashes>>

\* updateScanJob has no condition on the status it replaces.  It is not retried: when it
\* fails the operator has the error, and the row is as it was.
MarkOrphan(c) ==
  /\ up /\ at[c] = "marking"
  /\ \/ /\ status' = [status EXCEPT ![about[c]] = "cancelled"]
        /\ lost' = lost \ {about[c]}
     \/ RowErrors /\ UNCHANGED <<status, lost>>
  /\ Return(c)
  /\ UNCHANGED <<request, active, workerVars, stale, up, crashes>>

-----------------------------------------------------------------------------
(* The process dies, with everything it held in memory, and boots again.    *)

Crash ==
  /\ up /\ crashes < MaxCrashes
  /\ up' = FALSE
  /\ crashes' = crashes + 1
  /\ active' = NoJob
  /\ worker' = [j \in Jobs |-> IF worker[j] = "none" THEN "none" ELSE "gone"]
  /\ left' = [j \in Jobs |-> {}]
  /\ verdict' = [j \in Jobs |-> "none"]
  /\ ctxDone' = {}
  /\ lost' = {}
  /\ at' = [c \in Callers |-> "idle"]
  /\ about' = [c \in Callers |-> NoJob]
  /\ want' = [c \in Callers |-> NoRequest]
  /\ UNCHANGED <<status, request, stale>>

\* ReconcileOrphanScans: what boot makes of a row.
RowsUntouched(s) == s  \* a mutant
Reconciled(s) == IF s = "running" THEN "failed" ELSE s

\* Boot reconciles the rows with one statement before any request is accepted; if that
\* fails, main.go warns and serves on.  Then comes the catalog load that builds the
\* first projection.
Boot ==
  /\ ~up
  /\ up' = TRUE
  /\ \/ status' = [j \in Jobs |-> Reconciled(status[j])] /\ UNCHANGED lost
     \/ RowErrors /\ lost' = {j \in Jobs : status[j] = "running"} /\ UNCHANGED status
  /\ stale' = FALSE
  /\ UNCHANGED <<request, active, workerVars, callerVars, crashes>>

-----------------------------------------------------------------------------
RunScan(c) ==
  \/ \E req \in Requests : \E j \in Jobs : InsertJob(c, req, j)
  \/ Activate(c)
  \/ \E req \in Requests : FindActive(c, req)
  \/ AnswerFromRow(c)

CancelScan(c) ==
  \/ \E j \in Jobs : ReadActive(c, j)
  \/ FireCancel(c)
  \/ ReadRow(c)
  \/ MarkOrphan(c)

ExecuteScan(j) ==
  \/ \E f \in Folders : WalkFolder(j, f)
  \/ EndWalk(j)
  \/ PersistVerdict(j)
  \/ ReleaseScan(j)
  \/ ScanComplete(j)

Next ==
  \/ \E c \in Callers : RunScan(c) \/ CancelScan(c)
  \/ \E j \in Jobs : ExecuteScan(j)
  \/ Crash
  \/ Boot

Spec == Init /\ [][Next]_vars

\* The Go scheduler runs every goroutine that can run; systemd restarts the
\* process.  Nothing obliges a caller to make a request.
Fairness ==
  /\ \A j \in Jobs : WF_vars(ExecuteScan(j))
  /\ \A c \in Callers : WF_vars(Activate(c) \/ AnswerFromRow(c) \/ FireCancel(c)
                                  \/ ReadRow(c) \/ MarkOrphan(c))
  /\ WF_vars(Boot)

FairSpec == Spec /\ Fairness

-----------------------------------------------------------------------------
(* What must hold.                                                          *)

\* The scanner keeps the mode, the index and the subpaths of "the" scan in its
\* own fields, so two walks at a time would corrupt one another: the claim in
\* memory and the goroutine's life must agree at every step.
OneScanAtATime ==
  \A j \in Jobs : worker[j] \in Owning => active = j

\* CancelScan marks a row only when "no goroutine in this process owns it":
\* a job that is or may still be walked is never marked behind its goroutine,
\* although the claim, the row and the mark are three separate steps.
OrphanMarkSparesOwners ==
  \A c \in Callers : at[c] = "marking" => worker[about[c]] \notin Owning

\* The row of the scan that holds the claim says running until its goroutine
\* has written its verdict: the dashboard never shows a live scan as over.
ActiveRowRuns ==
  \A j \in Jobs : worker[j] \in {"walking", "finishing"} => status[j] = "running"

\* A row that reached a terminal status keeps it, whoever else holds a stale
\* reading of the claim or of the row.
TerminalIsFinal ==
  [][\A j \in Jobs : status[j] \in Terminal => status'[j] = status[j]]_vars

\* CancelScan: "the goroutine's context is cancelled and the row transitions to
\* status=cancelled once the scanner exits".  A scan that was cut short by its
\* cancellation is recorded as cancelled.
CutShortIsCancelled ==
  \A j \in Jobs :
    /\ worker[j] = "settled"
    /\ j \in ctxDone
    /\ left[j] # {}
    => status[j] = "cancelled"

\* OnScanComplete "fires after every async scan, both on success and failure.
\* main.go uses this to reload the catalog projection": once every scan and its
\* callback are over, the projection shows what the scans wrote.
ProjectionFollowsScans ==
  (up /\ \A j \in Jobs : worker[j] \in {"none", "gone"}) => ~stale

\* Every scan comes to an end and gives the claim back, cancelled or not: nothing
\* locks the operator out of scanning.
ClaimIsReleased == \A j \in Jobs : (active = j) ~> (active # j)

\* No row is left saying running for ever by a scan that is over, whether it ended by
\* itself, was cancelled or died with its process at any step.  The ways out are the
\* code's two: every retry of the terminal write failed, or boot's reconcile did, which
\* is only warned of (main.go:191).  What either leaves, an operator's cancel or the
\* next boot may settle.
RowsSettle ==
  \A j \in Jobs : (status[j] = "running") ~> (status[j] \in Terminal \/ j \in lost)
=============================================================================
