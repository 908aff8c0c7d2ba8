---------------------------- MODULE LibraryProofs ----------------------------
(***************************************************************************)
(* Proofs about the scan jobs (LibraryScans) and about the watcher that is *)
(* one of their callers (LibraryWatch): for any number of jobs, folders,   *)
(* libraries, callers and crashes, in process or in a subprocess, whatever *)
(* fails.                                                                  *)
(*                                                                         *)
(* The first part is about the scan jobs.  None of their properties is     *)
(* inductive by itself.  That a row is not marked behind its goroutine's   *)
(* back depends on who claims the scanner, which depends on who holds      *)
(* scanMu, which depends on what the holder has inserted.  IInv gathers    *)
(* these facts.                                                            *)
(*                                                                         *)
(* The second part is about the watcher, for any number of changes on      *)
(* disk, of scans by others and of rebuilds.  The scan service under it    *)
(* keeps IInv: its own steps do, and so does the reuse of a job id.  On    *)
(* top of it stands what the watcher adds: where owed work is, and what    *)
(* the scan it asks for can run into.                                      *)
(***************************************************************************)
EXTENDS LibraryWatch, TLAPS

-----------------------------------------------------------------------------
(* The scan jobs.  Spec, Init and Next are those of LibraryScans.           *)

\* The claim in memory is exactly the goroutine's life.
ClaimIsLife == \A j \in Jobs : worker[j] \in Owning <=> active = j

\* A goroutine exists only for a row that was inserted.
AbsentHasNoWorker == \A j \in Jobs : status[j] = "absent" => worker[j] = "none"

\* A goroutine that has ended its walk has decided how it ended.
FinishingHasVerdict == \A j \in Jobs : worker[j] = "finishing" => verdict[j] \in Terminal

\* The caller between its insert and its claim holds scanMu: it is alone, the
\* scanner is free, and its job has a running row, its request, and no
\* goroutine.
StarterIsAlone ==
  \A c, d \in Callers : at[c] = "starting" /\ at[d] = "starting" => c = d

StarterHasRow ==
  \A c \in Callers : at[c] = "starting" =>
    /\ about[c] \in Jobs
    /\ active = NoJob
    /\ worker[about[c]] = "none"
    /\ status[about[c]] = "running"
    /\ request[about[c]] \in Requests

\* What the other callers are about is a job with a row.
BusyHasRow ==
  \A c \in Callers : at[c] \in {"joining", "cancelling", "checking", "marking"} =>
    about[c] \in Jobs /\ status[about[c]] # "absent"

\* A job that CancelScan found not to be active is not scanned any more, and
\* will not be: nobody is about to start it.
CheckedIsOver ==
  \A c \in Callers : at[c] \in {"checking", "marking"} =>
    /\ worker[about[c]] \notin Owning
    /\ \A d \in Callers : at[d] = "starting" => about[d] # about[c]

\* Its row can only have been marked by another operator meanwhile.
MarkedIsCancelled ==
  \A c \in Callers : at[c] = "marking" => status[about[c]] \in {"running", "cancelled"}

\* Nothing of a process that died is left in memory.
DownIsEmpty == ~up => active = NoJob /\ \A c \in Callers : at[c] = "idle"

IInv ==
  /\ TypeOK
  /\ ClaimIsLife
  /\ ActiveRowRuns
  /\ AbsentHasNoWorker
  /\ FinishingHasVerdict
  /\ StarterIsAlone
  /\ StarterHasRow
  /\ BusyHasRow
  /\ CheckedIsOver
  /\ MarkedIsCancelled
  /\ DownIsEmpty

-----------------------------------------------------------------------------
\* A request walks folders of the libraries.
LEMMA FoldersOfType ==
  ASSUME NEW req \in Requests
  PROVE  FoldersOf(req) \in SUBSET Folders
<1>1. req.scope \in Scopes /\ req.paths \in SUBSET Folders
  BY RequestsAssumption
<1>2. CASE req.scope = "all"
  BY <1>2 DEF FoldersOf
<1>3. CASE req.scope = "library"
  BY <1>3 DEF FoldersOf
<1>4. CASE req.scope = "subpaths"
  BY <1>1, <1>4 DEF FoldersOf
<1>5. QED
  BY <1>1, <1>2, <1>3, <1>4 DEF Scopes

-----------------------------------------------------------------------------
(* Each action keeps IInv: the conjuncts it can disturb one by one, then the *)
(* ones that mention nothing it changes.                                     *)

\* The new row is nobody's: it was absent.
LEMMA InsertJobKeeps ==
  ASSUME IInv, NEW c \in Callers, NEW req \in Requests, NEW j \in Jobs,
         InsertJob(c, req, j)
  PROVE  IInv'
<1>1. TypeOK'
  BY DEF IInv, TypeOK, InsertJob, ScannerFree, workerVars, Statuses, Places
<1>2. ActiveRowRuns'
  BY DEF IInv, ActiveRowRuns, AbsentHasNoWorker, InsertJob, ScannerFree, workerVars
<1>3. AbsentHasNoWorker'
  BY DEF IInv, AbsentHasNoWorker, InsertJob, ScannerFree, workerVars
<1>4. StarterIsAlone'
  BY DEF IInv, StarterIsAlone, InsertJob, ScannerFree, Unlocked
<1>5. StarterHasRow'
  BY DEF IInv, TypeOK, StarterHasRow, AbsentHasNoWorker, InsertJob, ScannerFree,
         workerVars
<1>6. BusyHasRow'
  BY DEF IInv, BusyHasRow, InsertJob, ScannerFree
<1>7. CheckedIsOver'
  BY DEF IInv, TypeOK, CheckedIsOver, BusyHasRow, InsertJob, ScannerFree, workerVars
<1>8. MarkedIsCancelled'
  BY DEF IInv, MarkedIsCancelled, BusyHasRow, InsertJob, ScannerFree
<1>9. DownIsEmpty'
  BY DEF IInv, DownIsEmpty, InsertJob, ScannerFree
<1>10. ClaimIsLife' /\ FinishingHasVerdict'
  BY DEF IInv, ClaimIsLife, FinishingHasVerdict, InsertJob, ScannerFree, workerVars
<1>11. QED
  BY <1>1, <1>2, <1>3, <1>4, <1>5, <1>6, <1>7, <1>8, <1>9, <1>10 DEF IInv

\* The claim and the goroutine appear together, for the starter's own row.
LEMMA ActivateKeeps ==
  ASSUME IInv, NEW c \in Callers, Activate(c)
  PROVE  IInv'
<1>1. TypeOK'
  <2>1. about[c] \in Jobs /\ FoldersOf(request[about[c]]) \in SUBSET Folders
    BY FoldersOfType DEF IInv, StarterHasRow, Activate
  <2>2. QED
    BY <2>1 DEF IInv, TypeOK, Activate, Return, rowVars, Stages, Places
<1>2. ClaimIsLife'
  BY JobsAssumption DEF IInv, TypeOK, ClaimIsLife, StarterHasRow, Owning,
         Activate
<1>3. ActiveRowRuns'
  BY DEF IInv, ActiveRowRuns, StarterHasRow, Activate, rowVars
<1>4. AbsentHasNoWorker'
  BY DEF IInv, AbsentHasNoWorker, StarterHasRow, Activate, rowVars
<1>5. FinishingHasVerdict'
  BY DEF IInv, FinishingHasVerdict, StarterHasRow, Activate
<1>6. StarterIsAlone'
  BY DEF IInv, StarterIsAlone, Activate, Return
<1>7. StarterHasRow'
  BY DEF IInv, TypeOK, StarterHasRow, StarterIsAlone, Activate, Return
<1>8. BusyHasRow'
  BY DEF IInv, BusyHasRow, Activate, Return, rowVars
<1>9. CheckedIsOver'
  BY DEF IInv, TypeOK, CheckedIsOver, StarterHasRow, Activate, Return
<1>10. MarkedIsCancelled'
  BY DEF IInv, MarkedIsCancelled, Activate, Return, rowVars
<1>11. DownIsEmpty'
  BY DEF IInv, DownIsEmpty, Activate
<1>12. QED
  BY <1>1, <1>2, <1>3, <1>4, <1>5, <1>6, <1>7, <1>8, <1>9, <1>10, <1>11 DEF IInv

LEMMA FindActiveKeeps ==
  ASSUME IInv, NEW c \in Callers, NEW req \in Requests, FindActive(c, req)
  PROVE  IInv'
<1>1. TypeOK'
  BY DEF IInv, TypeOK, FindActive, rowVars, workerVars, Places
<1>2. StarterIsAlone'
  BY DEF IInv, StarterIsAlone, FindActive
<1>3. StarterHasRow'
  BY DEF IInv, StarterHasRow, FindActive
<1>4. BusyHasRow'
  BY JobsAssumption DEF IInv, TypeOK, BusyHasRow, ClaimIsLife,
         AbsentHasNoWorker, Owning, FindActive, rowVars
<1>5. CheckedIsOver'
  BY JobsAssumption DEF IInv, CheckedIsOver, FindActive, workerVars
<1>6. MarkedIsCancelled'
  BY DEF IInv, MarkedIsCancelled, FindActive, rowVars
<1>7. DownIsEmpty'
  BY DEF IInv, DownIsEmpty, FindActive
<1>8. ClaimIsLife' /\ ActiveRowRuns' /\ AbsentHasNoWorker' /\ FinishingHasVerdict'
  BY DEF IInv, ClaimIsLife, ActiveRowRuns, AbsentHasNoWorker,
         FinishingHasVerdict, FindActive, rowVars, workerVars
<1>9. QED
  BY <1>1, <1>2, <1>3, <1>4, <1>5, <1>6, <1>7, <1>8 DEF IInv

LEMMA AnswerFromRowKeeps ==
  ASSUME IInv, NEW c \in Callers, AnswerFromRow(c)
  PROVE  IInv'
<1>1. TypeOK'
  BY DEF IInv, TypeOK, AnswerFromRow, Return, rowVars, workerVars, Places
<1>2. StarterIsAlone'
  BY DEF IInv, StarterIsAlone, AnswerFromRow, Return
<1>3. StarterHasRow'
  BY DEF IInv, StarterHasRow, AnswerFromRow, Return, rowVars, workerVars
<1>4. BusyHasRow'
  BY DEF IInv, TypeOK, BusyHasRow, AnswerFromRow, Return, rowVars
<1>5. CheckedIsOver'
  BY DEF IInv, CheckedIsOver, AnswerFromRow, Return, workerVars
<1>6. MarkedIsCancelled'
  BY DEF IInv, MarkedIsCancelled, AnswerFromRow, Return, rowVars
<1>7. DownIsEmpty'
  BY DEF IInv, DownIsEmpty, AnswerFromRow
<1>8. ClaimIsLife' /\ ActiveRowRuns' /\ AbsentHasNoWorker' /\ FinishingHasVerdict'
  BY DEF IInv, ClaimIsLife, ActiveRowRuns, AbsentHasNoWorker,
         FinishingHasVerdict, AnswerFromRow, rowVars, workerVars
<1>9. QED
  BY <1>1, <1>2, <1>3, <1>4, <1>5, <1>6, <1>7, <1>8 DEF IInv

\* A job that is not claimed has no goroutine, and nobody is starting it.
LEMMA ReadActiveKeeps ==
  ASSUME IInv, NEW c \in Callers, NEW j \in Jobs, ReadActive(c, j)
  PROVE  IInv'
<1>1. TypeOK'
  BY DEF IInv, TypeOK, ReadActive, Owned, rowVars, workerVars, Places
<1>2. StarterIsAlone'
  BY DEF IInv, StarterIsAlone, ReadActive, Owned
<1>3. StarterHasRow'
  BY DEF IInv, StarterHasRow, ReadActive, Owned, rowVars, workerVars
<1>4. BusyHasRow'
  BY JobsAssumption DEF IInv, TypeOK, BusyHasRow, ReadActive, Owned, rowVars
<1>5. CheckedIsOver'
  BY JobsAssumption DEF IInv, TypeOK, CheckedIsOver, ClaimIsLife, ReadActive, Owned,
         Unlocked, workerVars
<1>6. MarkedIsCancelled'
  BY DEF IInv, MarkedIsCancelled, ReadActive, Owned, rowVars
<1>7. DownIsEmpty'
  BY DEF IInv, DownIsEmpty, ReadActive, Owned
<1>8. ClaimIsLife' /\ ActiveRowRuns' /\ AbsentHasNoWorker' /\ FinishingHasVerdict'
  BY DEF IInv, ClaimIsLife, ActiveRowRuns, AbsentHasNoWorker,
         FinishingHasVerdict, ReadActive, Owned, rowVars, workerVars
<1>9. QED
  BY <1>1, <1>2, <1>3, <1>4, <1>5, <1>6, <1>7, <1>8 DEF IInv

LEMMA FireCancelKeeps ==
  ASSUME IInv, NEW c \in Callers, FireCancel(c)
  PROVE  IInv'
<1>1. TypeOK'
  BY DEF IInv, TypeOK, BusyHasRow, FireCancel, Return, rowVars, Places
<1>2. StarterIsAlone'
  BY DEF IInv, StarterIsAlone, FireCancel, Return
<1>3. StarterHasRow'
  BY DEF IInv, StarterHasRow, FireCancel, Return, rowVars
<1>4. BusyHasRow'
  BY DEF IInv, TypeOK, BusyHasRow, FireCancel, Return, rowVars
<1>5. CheckedIsOver'
  BY DEF IInv, CheckedIsOver, FireCancel, Return
<1>6. MarkedIsCancelled'
  BY DEF IInv, MarkedIsCancelled, FireCancel, Return, rowVars
<1>7. DownIsEmpty'
  BY DEF IInv, DownIsEmpty, FireCancel
<1>8. ClaimIsLife' /\ ActiveRowRuns' /\ AbsentHasNoWorker' /\ FinishingHasVerdict'
  BY DEF IInv, ClaimIsLife, ActiveRowRuns, AbsentHasNoWorker,
         FinishingHasVerdict, FireCancel, rowVars
<1>9. QED
  BY <1>1, <1>2, <1>3, <1>4, <1>5, <1>6, <1>7, <1>8 DEF IInv

LEMMA ReadRowKeeps ==
  ASSUME IInv, NEW c \in Callers, ReadRow(c)
  PROVE  IInv'
<1>1. TypeOK'
  BY DEF IInv, TypeOK, ReadRow, SaysRunning, Return, rowVars, workerVars, Places
<1>2. StarterIsAlone'
  BY DEF IInv, TypeOK, StarterIsAlone, ReadRow, SaysRunning, Return
<1>3. StarterHasRow'
  BY DEF IInv, TypeOK, StarterHasRow, ReadRow, SaysRunning, Return, rowVars, workerVars
<1>4. BusyHasRow'
  BY DEF IInv, TypeOK, BusyHasRow, ReadRow, SaysRunning, Return, rowVars
<1>5. CheckedIsOver'
  BY DEF IInv, TypeOK, CheckedIsOver, ReadRow, SaysRunning, Return, workerVars
<1>6. MarkedIsCancelled'
  BY DEF IInv, TypeOK, MarkedIsCancelled, ReadRow, SaysRunning, Return, rowVars
<1>7. DownIsEmpty'
  BY DEF IInv, DownIsEmpty, ReadRow, SaysRunning
<1>8. ClaimIsLife' /\ ActiveRowRuns' /\ AbsentHasNoWorker' /\ FinishingHasVerdict'
  BY DEF IInv, ClaimIsLife, ActiveRowRuns, AbsentHasNoWorker,
         FinishingHasVerdict, ReadRow, SaysRunning, rowVars, workerVars
<1>9. QED
  BY <1>1, <1>2, <1>3, <1>4, <1>5, <1>6, <1>7, <1>8 DEF IInv

\* The row that is marked belongs to no goroutine and to no starter.
LEMMA MarkOrphanKeeps ==
  ASSUME IInv, NEW c \in Callers, MarkOrphan(c)
  PROVE  IInv'
<1>1. TypeOK'
  BY DEF IInv, TypeOK, MarkOrphan, Return, workerVars, Statuses, Places
<1>0. /\ about[c] \in Jobs /\ status[about[c]] # "absent" /\ UNCHANGED <<worker, request, active>>
      /\ \A j \in Jobs : status'[j] = status[j] \/ (j = about[c] /\ status'[j] = "cancelled")
  <2>1. about[c] \in Jobs /\ status[about[c]] # "absent" /\ UNCHANGED <<worker, request, active>>
    BY DEF IInv, BusyHasRow, MarkOrphan, workerVars
  <2>2. status' = [status EXCEPT ![about[c]] = "cancelled"] \/ status' = status
    BY DEF MarkOrphan
  <2>3. status \in [Jobs -> Statuses]
    BY DEF IInv, TypeOK
  <2>4. QED
    BY <2>1, <2>2, <2>3
<1>2. ActiveRowRuns'
  BY <1>0 DEF IInv, ActiveRowRuns, CheckedIsOver, Owning, MarkOrphan
<1>3. AbsentHasNoWorker'
  BY <1>0 DEF IInv, AbsentHasNoWorker
<1>4. StarterIsAlone'
  BY DEF IInv, StarterIsAlone, MarkOrphan, Return
<1>5. StarterHasRow'
  <2>1. SUFFICES ASSUME NEW d \in Callers, at'[d] = "starting"
                 PROVE  /\ about'[d] \in Jobs /\ active' = NoJob
                        /\ worker'[about'[d]] = "none" /\ status'[about'[d]] = "running"
                        /\ request'[about'[d]] \in Requests
    BY DEF StarterHasRow
  <2>2. d # c /\ at[d] = "starting" /\ about'[d] = about[d] /\ about[d] # about[c]
    BY <2>1 DEF IInv, TypeOK, CheckedIsOver, MarkOrphan, Return
  <2>3. QED
    BY <1>0, <2>2 DEF IInv, StarterHasRow
<1>6. BusyHasRow'
  BY DEF IInv, TypeOK, BusyHasRow, MarkOrphan, Return
<1>7. CheckedIsOver'
  BY DEF IInv, TypeOK, CheckedIsOver, MarkOrphan, Return, workerVars
<1>8. MarkedIsCancelled'
  BY DEF IInv, TypeOK, MarkedIsCancelled, BusyHasRow, MarkOrphan, Return
<1>9. DownIsEmpty'
  BY DEF IInv, DownIsEmpty, MarkOrphan
<1>10. ClaimIsLife' /\ FinishingHasVerdict'
  BY DEF IInv, ClaimIsLife, FinishingHasVerdict, MarkOrphan, workerVars
<1>11. QED
  BY <1>1, <1>2, <1>3, <1>4, <1>5, <1>6, <1>7, <1>8, <1>9, <1>10 DEF IInv

LEMMA WalkFolderKeeps ==
  ASSUME IInv, NEW j \in Jobs, NEW f \in Folders, WalkFolder(j, f)
  PROVE  IInv'
<1>1. TypeOK'
  BY DEF IInv, TypeOK, WalkFolder, rowVars, callerVars
<1>2. ClaimIsLife' /\ ActiveRowRuns' /\ AbsentHasNoWorker' /\ FinishingHasVerdict' /\ StarterIsAlone' /\ StarterHasRow' /\ BusyHasRow' /\ CheckedIsOver' /\ MarkedIsCancelled' /\ DownIsEmpty'
  BY DEF IInv, ClaimIsLife, ActiveRowRuns, AbsentHasNoWorker,
         FinishingHasVerdict, StarterIsAlone, StarterHasRow, BusyHasRow,
         CheckedIsOver, MarkedIsCancelled, DownIsEmpty, WalkFolder, rowVars,
         callerVars
<1>3. QED
  BY <1>1, <1>2 DEF IInv

LEMMA EndWalkKeeps ==
  ASSUME IInv, NEW j \in Jobs, EndWalk(j)
  PROVE  IInv'
<1>1. TypeOK'
  BY DEF IInv, TypeOK, EndWalk, Verdicts, rowVars, callerVars, Stages
<1>2. ClaimIsLife'
  BY JobsAssumption DEF IInv, ClaimIsLife, Owning, EndWalk
<1>3. ActiveRowRuns'
  BY DEF IInv, ActiveRowRuns, EndWalk, rowVars
<1>4. AbsentHasNoWorker'
  BY DEF IInv, AbsentHasNoWorker, EndWalk, rowVars
<1>5. FinishingHasVerdict'
  BY DEF IInv, TypeOK, FinishingHasVerdict, EndWalk, Verdicts
<1>6. StarterHasRow'
  BY DEF IInv, StarterHasRow, EndWalk, rowVars, callerVars
<1>7. CheckedIsOver'
  BY DEF IInv, CheckedIsOver, Owning, EndWalk, callerVars
<1>8. StarterIsAlone' /\ BusyHasRow' /\ MarkedIsCancelled' /\ DownIsEmpty'
  BY DEF IInv, StarterIsAlone, BusyHasRow, MarkedIsCancelled, DownIsEmpty,
         EndWalk, rowVars, callerVars
<1>9. QED
  BY <1>1, <1>2, <1>3, <1>4, <1>5, <1>6, <1>7, <1>8 DEF IInv

\* The goroutine's row says running until now, and nobody is about to mark it.
LEMMA PersistVerdictKeeps ==
  ASSUME IInv, NEW j \in Jobs, PersistVerdict(j)
  PROVE  IInv'
<1>1. TypeOK'
  BY DEF IInv, TypeOK, FinishingHasVerdict, PersistVerdict, callerVars,
         Statuses, Terminal, Stages
<1>2. ClaimIsLife'
  BY JobsAssumption DEF IInv, ClaimIsLife, Owning, PersistVerdict
<1>3. ActiveRowRuns'
  BY DEF IInv, TypeOK, ActiveRowRuns, PersistVerdict
<1>4. AbsentHasNoWorker'
  BY DEF IInv, TypeOK, AbsentHasNoWorker, FinishingHasVerdict, Terminal,
         ActiveRowRuns, PersistVerdict
<1>5. FinishingHasVerdict'
  BY DEF IInv, FinishingHasVerdict, PersistVerdict
<1>6. StarterHasRow'
  BY DEF IInv, TypeOK, StarterHasRow, PersistVerdict, callerVars
<1>7. BusyHasRow'
  BY DEF IInv, TypeOK, BusyHasRow, FinishingHasVerdict, Terminal,
         PersistVerdict, callerVars
<1>8. CheckedIsOver'
  BY DEF IInv, CheckedIsOver, Owning, PersistVerdict, callerVars
<1>9. MarkedIsCancelled'
  BY DEF IInv, TypeOK, MarkedIsCancelled, CheckedIsOver, Owning, BusyHasRow,
         PersistVerdict, callerVars
<1>10. StarterIsAlone' /\ DownIsEmpty'
  BY DEF IInv, StarterIsAlone, DownIsEmpty, PersistVerdict, callerVars
<1>11. QED
  BY <1>1, <1>2, <1>3, <1>4, <1>5, <1>6, <1>7, <1>8, <1>9, <1>10 DEF IInv

\* No caller holds scanMu, so no claim but the goroutine's own is dropped.
LEMMA ReleaseScanKeeps ==
  ASSUME IInv, NEW j \in Jobs, ReleaseScan(j)
  PROVE  IInv'
<1>1. TypeOK'
  BY DEF IInv, TypeOK, ReleaseScan, rowVars, callerVars, Stages
<1>2. ClaimIsLife'
  BY JobsAssumption DEF IInv, TypeOK, ClaimIsLife, Owning, ReleaseScan
<1>3. ActiveRowRuns'
  BY DEF IInv, ActiveRowRuns, ReleaseScan, rowVars
<1>4. AbsentHasNoWorker'
  BY DEF IInv, AbsentHasNoWorker, ReleaseScan, rowVars
<1>5. FinishingHasVerdict'
  BY DEF IInv, FinishingHasVerdict, ReleaseScan
<1>6. StarterHasRow'
  BY DEF IInv, StarterHasRow, ReleaseScan, rowVars, callerVars
<1>7. CheckedIsOver'
  BY DEF IInv, CheckedIsOver, Owning, ReleaseScan, callerVars
<1>8. DownIsEmpty'
  BY DEF IInv, DownIsEmpty, ReleaseScan, callerVars
<1>9. StarterIsAlone' /\ BusyHasRow' /\ MarkedIsCancelled'
  BY DEF IInv, StarterIsAlone, BusyHasRow, MarkedIsCancelled, ReleaseScan,
         rowVars, callerVars
<1>10. QED
  BY <1>1, <1>2, <1>3, <1>4, <1>5, <1>6, <1>7, <1>8, <1>9 DEF IInv

LEMMA ScanCompleteKeeps ==
  ASSUME IInv, NEW j \in Jobs, ScanComplete(j)
  PROVE  IInv'
<1>1. TypeOK'
  BY DEF IInv, TypeOK, ScanComplete, rowVars, callerVars, Stages
<1>2. ClaimIsLife'
  BY JobsAssumption DEF IInv, ClaimIsLife, Owning, ScanComplete
<1>3. ActiveRowRuns'
  BY DEF IInv, ActiveRowRuns, ScanComplete, rowVars
<1>4. AbsentHasNoWorker'
  BY DEF IInv, AbsentHasNoWorker, ScanComplete, rowVars
<1>5. FinishingHasVerdict'
  BY DEF IInv, FinishingHasVerdict, ScanComplete
<1>6. StarterHasRow'
  BY DEF IInv, StarterHasRow, ScanComplete, rowVars, callerVars
<1>7. CheckedIsOver'
  BY DEF IInv, CheckedIsOver, Owning, ScanComplete, callerVars
<1>8. StarterIsAlone' /\ BusyHasRow' /\ MarkedIsCancelled' /\ DownIsEmpty'
  BY DEF IInv, StarterIsAlone, BusyHasRow, MarkedIsCancelled, DownIsEmpty,
         ScanComplete, rowVars, callerVars
<1>9. QED
  BY <1>1, <1>2, <1>3, <1>4, <1>5, <1>6, <1>7, <1>8 DEF IInv

LEMMA CrashKeeps ==
  ASSUME IInv, Crash
  PROVE  IInv'
<1>1. TypeOK'
  <2>1. /\ worker' \in [Jobs -> Stages]
        /\ left' \in [Jobs -> SUBSET Folders]
        /\ ctxDone' \in SUBSET Jobs
    BY DEF IInv, Crash, Stages
  <2>2. /\ at' \in [Callers -> Places]
        /\ about' \in [Callers -> Jobs \cup {NoJob}]
        /\ want' \in [Callers -> Requests \cup {NoRequest}]
    BY DEF Crash, Places
  <2>3. crashes' \in Nat
    BY DEF IInv, TypeOK, Crash
  <2>4. QED
    BY <2>1, <2>2, <2>3 DEF IInv, TypeOK, Crash, rowVars
<1>2. ClaimIsLife'
  BY JobsAssumption DEF IInv, ClaimIsLife, Owning, Crash
<1>3. ActiveRowRuns'
  BY DEF IInv, ActiveRowRuns, Crash
<1>4. AbsentHasNoWorker'
  BY DEF IInv, AbsentHasNoWorker, Crash, rowVars
<1>5. FinishingHasVerdict'
  BY DEF IInv, FinishingHasVerdict, Crash
<1>6. StarterIsAlone'
  BY DEF IInv, StarterIsAlone, Crash
<1>7. StarterHasRow'
  BY DEF IInv, StarterHasRow, Crash
<1>8. BusyHasRow'
  BY DEF IInv, BusyHasRow, Crash
<1>9. CheckedIsOver'
  BY DEF IInv, CheckedIsOver, Crash
<1>10. MarkedIsCancelled'
  BY DEF IInv, MarkedIsCancelled, Crash
<1>11. DownIsEmpty'
  BY DEF IInv, DownIsEmpty, Crash
<1>12. QED
  BY <1>1, <1>2, <1>3, <1>4, <1>5, <1>6, <1>7, <1>8, <1>9, <1>10, <1>11 DEF IInv

\* No goroutine and no caller is left whose row could be failed under it.
LEMMA BootKeeps ==
  ASSUME IInv, Boot
  PROVE  IInv'
<1>1. TypeOK'
  BY DEF IInv, TypeOK, Boot, Reconciled, workerVars, callerVars, Statuses
<1>2. ActiveRowRuns'
  BY JobsAssumption DEF IInv, ActiveRowRuns, DownIsEmpty, ClaimIsLife, Owning,
         Boot, Reconciled, workerVars
<1>3. AbsentHasNoWorker'
  BY DEF IInv, AbsentHasNoWorker, Boot, Reconciled, workerVars
<1>4. StarterHasRow'
  BY DEF IInv, StarterHasRow, DownIsEmpty, Boot, Reconciled, callerVars
<1>5. BusyHasRow'
  BY DEF IInv, BusyHasRow, DownIsEmpty, Boot, Reconciled, callerVars
<1>6. MarkedIsCancelled'
  BY DEF IInv, MarkedIsCancelled, DownIsEmpty, Boot, Reconciled, callerVars
<1>7. DownIsEmpty'
  BY DEF IInv, DownIsEmpty, Boot, Reconciled
<1>8. ClaimIsLife' /\ FinishingHasVerdict' /\ StarterIsAlone' /\ CheckedIsOver'
  BY DEF IInv, ClaimIsLife, FinishingHasVerdict, StarterIsAlone,
         CheckedIsOver, Boot, Reconciled, workerVars, callerVars
<1>9. QED
  BY <1>1, <1>2, <1>3, <1>4, <1>5, <1>6, <1>7, <1>8 DEF IInv

-----------------------------------------------------------------------------
LEMMA InitHolds == Init => IInv
<1> SUFFICES ASSUME Init
             PROVE  IInv
  OBVIOUS
<1>1. TypeOK
  BY DEF Init, TypeOK, Statuses, Stages, Places
<1>2. ClaimIsLife /\ ActiveRowRuns /\ AbsentHasNoWorker /\ FinishingHasVerdict
  BY JobsAssumption
  DEF Init, ClaimIsLife, ActiveRowRuns, AbsentHasNoWorker, FinishingHasVerdict, Owning
<1>3. StarterIsAlone /\ StarterHasRow /\ BusyHasRow /\ CheckedIsOver /\ MarkedIsCancelled
  BY DEF Init, StarterIsAlone, StarterHasRow, BusyHasRow, CheckedIsOver, MarkedIsCancelled
<1>4. DownIsEmpty
  BY DEF Init, DownIsEmpty
<1>5. QED
  BY <1>1, <1>2, <1>3, <1>4 DEF IInv

LEMMA StutterKeeps == IInv /\ UNCHANGED vars => IInv'
BY DEF IInv, TypeOK, ClaimIsLife, ActiveRowRuns, AbsentHasNoWorker, FinishingHasVerdict,
     StarterIsAlone, StarterHasRow, BusyHasRow, CheckedIsOver, MarkedIsCancelled,
     DownIsEmpty, vars, rowVars, workerVars, callerVars

\* The invariant is inductive.
LEMMA StepKeeps == IInv /\ [Next]_vars => IInv'
<1> SUFFICES ASSUME IInv, [Next]_vars
             PROVE  IInv'
  OBVIOUS
<1>1. CASE \E c \in Callers : RunScan(c)
  BY <1>1, InsertJobKeeps, ActivateKeeps, FindActiveKeeps, AnswerFromRowKeeps DEF RunScan
<1>2. CASE \E c \in Callers : CancelScan(c)
  BY <1>2, ReadActiveKeeps, FireCancelKeeps, ReadRowKeeps, MarkOrphanKeeps DEF CancelScan
<1>3. CASE \E j \in Jobs : ExecuteScan(j)
  BY <1>3, WalkFolderKeeps, EndWalkKeeps, PersistVerdictKeeps, ReleaseScanKeeps,
     ScanCompleteKeeps DEF ExecuteScan
<1>4. CASE Crash
  BY <1>4, CrashKeeps
<1>5. CASE Boot
  BY <1>5, BootKeeps
<1>6. CASE UNCHANGED vars
  BY <1>6, StutterKeeps
<1>7. QED
  BY <1>1, <1>2, <1>3, <1>4, <1>5, <1>6 DEF Next

THEOREM InvariantHolds == Spec => []IInv
BY InitHolds, StepKeeps, PTL DEF Spec

-----------------------------------------------------------------------------
\* Every variable keeps its type.
THEOREM TypesAreCorrect == Spec => []TypeOK
<1>1. IInv => TypeOK
  BY DEF IInv
<1>2. QED
  BY <1>1, InvariantHolds, PTL

\* runScan, executeScan and CancelScan together never let two goroutines walk:
\* a goroutine that has not released its scan is the one that is claimed.
THEOREM ScansExclude == Spec => []OneScanAtATime
<1>1. IInv => OneScanAtATime
  BY DEF IInv, ClaimIsLife, OneScanAtATime
<1>2. QED
  BY <1>1, InvariantHolds, PTL

\* CancelScan never marks the row of a job that a goroutine of this process
\* still owns, however long ago it read the claim.
THEOREM OrphansAreOrphans == Spec => []OrphanMarkSparesOwners
<1>1. IInv => OrphanMarkSparesOwners
  BY DEF IInv, CheckedIsOver, OrphanMarkSparesOwners
<1>2. QED
  BY <1>1, InvariantHolds, PTL

\* The row of a scan that is being walked says running.
THEOREM WalkedRowsRun == Spec => []ActiveRowRuns
<1>1. IInv => ActiveRowRuns
  BY DEF IInv
<1>2. QED
  BY <1>1, InvariantHolds, PTL

-----------------------------------------------------------------------------
(* A terminal row is final.  Four actions write a row; each of them finds it *)
(* in a status from which the new one does not take a verdict back.          *)

TerminalKept == \A j \in Jobs : status[j] \in Terminal => status'[j] = status[j]

LEMMA StepKeepsTerminal == IInv /\ [Next]_vars => TerminalKept
<1> SUFFICES ASSUME IInv, [Next]_vars
             PROVE  TerminalKept
  OBVIOUS
<1>1. CASE UNCHANGED status
  BY <1>1 DEF TerminalKept
<1>2. ASSUME NEW c \in Callers, NEW req \in Requests, NEW j \in Jobs, InsertJob(c, req, j)
      PROVE  TerminalKept
  BY <1>2 DEF TerminalKept, InsertJob, ScannerFree, IInv, TypeOK, Terminal
<1>3. ASSUME NEW c \in Callers, MarkOrphan(c)
      PROVE  TerminalKept
  BY <1>3 DEF TerminalKept, MarkOrphan, IInv, TypeOK, MarkedIsCancelled, Terminal
<1>4. ASSUME NEW j \in Jobs, PersistVerdict(j)
      PROVE  TerminalKept
  BY <1>4 DEF TerminalKept, PersistVerdict, IInv, TypeOK, ActiveRowRuns, Terminal
<1>5. CASE Boot
  BY <1>5 DEF TerminalKept, Boot, Reconciled, IInv, TypeOK, Terminal
<1>6. ASSUME NEW c \in Callers, RunScan(c)
      PROVE  TerminalKept
  BY <1>1, <1>2, <1>6 DEF RunScan, Activate, FindActive, AnswerFromRow, rowVars
<1>7. ASSUME NEW c \in Callers, CancelScan(c)
      PROVE  TerminalKept
  BY <1>1, <1>3, <1>7 DEF CancelScan, ReadActive, Owned, FireCancel, ReadRow, SaysRunning, rowVars
<1>8. ASSUME NEW j \in Jobs, ExecuteScan(j)
      PROVE  TerminalKept
  BY <1>1, <1>4, <1>8 DEF ExecuteScan, WalkFolder, EndWalk, ReleaseScan, ScanComplete, rowVars
<1>9. QED
  BY <1>1, <1>5, <1>6, <1>7, <1>8 DEF Next, Crash, rowVars, vars

\* A scan that was recorded as completed, failed or cancelled stays so: a late
\* cancel, a second cancel or a restart cannot rewrite how it ended.
THEOREM VerdictsAreFinal == Spec => TerminalIsFinal
<1>1. IInv /\ [Next]_vars => [TerminalKept]_vars
  BY StepKeepsTerminal
<1>2. Spec => [][TerminalKept]_vars
  BY <1>1, InvariantHolds, PTL DEF Spec
<1>3. QED
  BY <1>2 DEF TerminalIsFinal, TerminalKept

-----------------------------------------------------------------------------
(* The watcher.                                                             *)

\* Nothing cancels a scan here.
NobodyCancels ==
  /\ ctxDone = {}
  /\ \A c \in Callers : at[c] \in {"idle", "starting", "joining"}

\* Work that is owed has a step to come that is not the running rescan: what is
\* queued while scanLoop is in rescan is announced by the event loop.
OwedIsAnnounced == (pend # {} \/ full # {}) => poke \/ trigger \/ (timer /\ ~drained)

\* While scanLoop is in the service it is in rescan, and about one library that
\* is still to be asked for; what it starts is what it asked for.
WatcherIsAsking ==
  at[Watcher] # "idle" =>
    /\ drained /\ Asked \in batch
    /\ want[Watcher] = RequestFor(Asked)
    /\ at[Watcher] = "starting" => request[about[Watcher]] = want[Watcher]

\* Whatever the other callers ask for, these hold.
BaseInv == IInv /\ WatchTypeOK /\ NobodyCancels /\ OwedIsAnnounced /\ WatcherIsAsking

\* The other callers start what they asked for.
OthersStartTheirs ==
  \A c \in Others : at[c] = "starting" => request[about[c]] \in OtherRequests

\* While scanLoop is in rescan, the scan that runs is another caller's or one
\* of a library it has already asked for.
ActiveIsAnother ==
  drained /\ active # NoJob =>
    request[active] \in OtherRequests \/ request[active].library \notin batch

\* So what the watcher finds running is not what it is about to ask for.
NothingIsJoined == at[Watcher] = "joining" => ~Joins(Watcher)

WatchInv ==
  /\ BaseInv /\ OthersStartTheirs /\ ActiveIsAnother /\ NothingIsJoined
  /\ NoChangeForgotten

-----------------------------------------------------------------------------
(* The scan service under the watcher.                                      *)

\* What scanLoop asks for is a request of the service.
LEMMA RequestForType ==
  ASSUME WatchTypeOK, NEW l \in Libraries
  PROVE  /\ RequestFor(l) \in Requests
         /\ RequestFor(l).library = l /\ RequestFor(l).scope # "all"
<1>1. RequestFor(l) \in
        [scope : {"library", "subpaths"}, library : Libraries, paths : SUBSET Folders]
  BY DEF WatchTypeOK, RequestFor
<1>2. RequestFor(l).library = l /\ RequestFor(l).scope # "all"
  BY DEF RequestFor
<1>3. QED
  BY <1>1, <1>2, WatcherAssumption

\* A row that nobody refers to and no goroutine runs for can be forgotten.
LEMMA RecycleKeeps ==
  ASSUME IInv, NEW j \in Jobs, Recycle(j)
  PROVE  IInv'
<1>1. TypeOK'
  BY DEF IInv, TypeOK, Recycle, callerVars, Statuses, Stages
<1>2. ClaimIsLife'
  BY DEF IInv, TypeOK, ClaimIsLife, Owning, Recycle
<1>3. ActiveRowRuns' /\ AbsentHasNoWorker' /\ FinishingHasVerdict'
  BY DEF IInv, TypeOK, ActiveRowRuns, AbsentHasNoWorker, FinishingHasVerdict, Recycle
<1>4. StarterIsAlone' /\ DownIsEmpty'
  BY DEF IInv, StarterIsAlone, DownIsEmpty, Recycle, callerVars
<1>5. StarterHasRow' /\ BusyHasRow' /\ MarkedIsCancelled'
  BY DEF IInv, StarterHasRow, BusyHasRow, MarkedIsCancelled, Recycle, callerVars
<1>6. CheckedIsOver'
  BY DEF IInv, TypeOK, CheckedIsOver, Owning, Recycle, callerVars
<1>7. QED
  BY <1>1, <1>2, <1>3, <1>4, <1>5, <1>6 DEF IInv

\* Every step of the composition is a step of the service, the reuse of an id,
\* or leaves the service alone.
LEMMA ScansKeep ==
  ASSUME IInv, WatchTypeOK, [WatchNext]_allVars
  PROVE  IInv'
<1>1. CASE UNCHANGED vars
  BY <1>1, StutterKeeps
<1>2. ASSUME NEW l \in Libraries, Ask(l)
      PROVE  IInv'
  BY <1>2, RequestForType, WatcherAssumption, InsertJobKeeps, FindActiveKeeps DEF Ask
<1>3. ASSUME AskStarts
      PROVE  IInv'
  BY <1>3, WatcherAssumption, ActivateKeeps DEF AskStarts
<1>4. ASSUME AskAnswered
      PROVE  IInv'
  BY <1>4, WatcherAssumption, AnswerFromRowKeeps DEF AskAnswered
<1>5. ASSUME ScanLoop
      PROVE  IInv'
  BY <1>1, <1>2, <1>3, <1>4, <1>5 DEF ScanLoop, TakeTrigger, TimerFires, EndRescan
<1>6. ASSUME NEW c \in Others, NEW req \in OtherRequests, OtherStarts(c, req)
      PROVE  IInv'
  BY <1>6, WatcherAssumption, InsertJobKeeps, FindActiveKeeps DEF OtherStarts, Others
<1>7. ASSUME NEW c \in Others, OtherSteps(c)
      PROVE  IInv'
  BY <1>7, ActivateKeeps, AnswerFromRowKeeps DEF OtherSteps, Others
<1>8. ASSUME NEW j \in Jobs, Scanning(j)
      PROVE  IInv'
  BY <1>8, WalkFolderKeeps, EndWalkKeeps, PersistVerdictKeeps, ReleaseScanKeeps,
     ScanCompleteKeeps DEF Scanning, Read, Work
<1>9. QED
  BY <1>1, <1>5, <1>6, <1>7, <1>8, RecycleKeeps
  DEF WatchNext, EventLoop, DiskChange, HandleEvent, Notify, Rebuild, allVars

-----------------------------------------------------------------------------
(* The queue and the goroutines.                                            *)

LEMMA WatchTypesKeep ==
  ASSUME BaseInv, [WatchNext]_allVars
  PROVE  WatchTypeOK'
<1> USE DEF BaseInv, WatchTypeOK, Kinds
<1>1. TypeOK'
  BY ScansKeep DEF IInv
<1>2. CASE UNCHANGED watchVars
  BY <1>1, <1>2 DEF watchVars, diskVars, pendVars, loopVars, budget
<1>3. ASSUME NEW f \in Folders, NEW kind \in Kinds, DiskChange(f, kind)
      PROVE  WatchTypeOK'
  BY <1>1, <1>3, WatchBounds DEF DiskChange, pendVars, loopVars
<1>4. ASSUME NEW e \in events, HandleEvent(e)
      PROVE  WatchTypeOK'
  BY <1>1, <1>4, LibraryOfAssumption DEF HandleEvent, OwningLibrary, budget
<1>5. CASE Notify \/ TakeTrigger
  BY <1>1, <1>5 DEF Notify, TakeTrigger, diskVars, pendVars, budget
<1>6. CASE TimerFires
  <2>1. CASE UNCHANGED <<pendVars, loopVars>>
    BY <1>1, <1>6, <2>1 DEF TimerFires, pendVars, loopVars, diskVars, budget
  <2>2. CASE active = NoJob
    <3>1. /\ {LibraryOf[f] : f \in pend} \subseteq Libraries
          /\ {f \in pend : LibraryOf[f] \notin full} \subseteq Folders
      BY LibraryOfAssumption
    <3>2. /\ batch' \in SUBSET Libraries /\ failed' \in SUBSET Libraries
          /\ paths' \in SUBSET Folders /\ whole' \in SUBSET Libraries
          /\ pend' \in SUBSET Folders /\ full' \in SUBSET Libraries
      BY <1>6, <2>2, <3>1 DEF TimerFires
    <3>3. {poke', trigger', timer', drained'} \subseteq BOOLEAN
      BY <1>6, <2>2 DEF TimerFires
    <3>4. QED
      BY <1>1, <1>6, <3>2, <3>3 DEF TimerFires, diskVars, budget
  <2>3. QED
    BY <1>6, <2>1, <2>2 DEF TimerFires
<1>7. CASE AskStarts \/ AskAnswered
  <2>1. Asked \in Libraries
    BY <1>7 DEF AskStarts, AskAnswered, Activate, AnswerFromRow, WatcherIsAsking
  <2>2. /\ batch' \in SUBSET Libraries /\ failed' \in SUBSET Libraries
        /\ UNCHANGED <<diskVars, pendVars, poke, trigger, timer, drained, paths, whole, budget>>
    BY <1>7, <2>1 DEF AskStarts, AskAnswered
  <2>3. QED
    BY <1>1, <2>2 DEF diskVars, pendVars, budget
<1>8. CASE EndRescan
  BY <1>1, <1>8 DEF EndRescan, Retry, diskVars, budget
<1>9. CASE Rebuild
  <2>1. {poke', trigger', timer', drained'} \subseteq BOOLEAN
    BY <1>9 DEF Rebuild
  <2>2. rebuilds' \in 0..MaxRebuilds
    BY <1>9, WatchBounds DEF Rebuild
  <2>3. QED
    BY <1>1, <1>9, <2>1, <2>2 DEF Rebuild
<1>10. ASSUME NEW c \in Others, NEW req \in OtherRequests, OtherStarts(c, req)
       PROVE  WatchTypeOK'
  BY <1>1, <1>10, WatchBounds DEF OtherStarts, diskVars, pendVars, loopVars
<1>11. ASSUME NEW j \in Jobs, NEW f \in Folders, Read(j, f)
       PROVE  WatchTypeOK'
  BY <1>1, <1>11 DEF Read, pendVars, loopVars, budget
<1>12. QED
  BY <1>2, <1>3, <1>4, <1>5, <1>6, <1>7, <1>8, <1>9, <1>10, <1>11
  DEF WatchNext, EventLoop, ScanLoop, Ask, OtherSteps, Scanning, Work, Recycle, allVars

LEMMA NobodyCancelsKeeps ==
  ASSUME BaseInv, [WatchNext]_allVars
  PROVE  NobodyCancels'
<1> USE DEF BaseInv, NobodyCancels
<1>1. at \in [Callers -> Places]
  BY DEF IInv, TypeOK
<1>2. CASE UNCHANGED <<ctxDone, at>>
  BY <1>2
<1>3. ASSUME NEW c \in Callers, NEW req, NEW j, InsertJob(c, req, j)
      PROVE  NobodyCancels'
  BY <1>1, <1>3 DEF InsertJob, workerVars
<1>4. ASSUME NEW c \in Callers, NEW req, FindActive(c, req)
      PROVE  NobodyCancels'
  BY <1>1, <1>4 DEF FindActive, workerVars
<1>5. ASSUME NEW c \in Callers, Activate(c) \/ AnswerFromRow(c)
      PROVE  NobodyCancels'
  BY <1>1, <1>5 DEF Activate, AnswerFromRow, Return, workerVars
<1>6. ASSUME NEW j \in Jobs, Recycle(j)
      PROVE  NobodyCancels'
  BY <1>6 DEF Recycle, callerVars
<1>7. ASSUME ScanLoop
      PROVE  NobodyCancels'
  BY <1>2, <1>3, <1>4, <1>5, <1>7, WatcherAssumption
  DEF ScanLoop, TakeTrigger, TimerFires, Ask, AskStarts, AskAnswered, EndRescan, vars,
      workerVars, callerVars
<1>8. ASSUME NEW j \in Jobs, Scanning(j)
      PROVE  NobodyCancels'
  BY <1>2, <1>8 DEF Scanning, Read, Work, WalkFolder, EndWalk, PersistVerdict, ReleaseScan,
      ScanComplete, callerVars
<1>9. ASSUME NEW c \in Others, (\E req \in OtherRequests : OtherStarts(c, req)) \/ OtherSteps(c)
      PROVE  NobodyCancels'
  BY <1>3, <1>4, <1>5, <1>9 DEF Others, OtherStarts, OtherSteps
<1>10. CASE EventLoop \/ Rebuild \/ (\E f \in Folders, kind \in Kinds : DiskChange(f, kind))
  BY <1>2, <1>10 DEF EventLoop, HandleEvent, Notify, Rebuild, DiskChange, vars, workerVars,
      callerVars
<1>11. QED
  BY <1>2, <1>6, <1>7, <1>8, <1>9, <1>10
  DEF WatchNext, allVars, vars, workerVars, callerVars

\* A change is queued before the poke, and the poke is before the token; what is
\* put back arms the timer itself.
LEMMA OwedKeeps ==
  ASSUME BaseInv, [WatchNext]_allVars
  PROVE  OwedIsAnnounced'
<1> USE DEF BaseInv, OwedIsAnnounced
<1>1. CASE UNCHANGED <<pendVars, poke, trigger, timer, drained>>
  BY <1>1 DEF pendVars
<1>2. CASE EventLoop
  BY <1>2 DEF EventLoop, HandleEvent, Notify, pendVars
<1>3. CASE TakeTrigger
  BY <1>3 DEF TakeTrigger
<1>4. CASE TimerFires
  BY <1>4 DEF TimerFires, pendVars, loopVars
<1>5. CASE EndRescan
  <2>1. CASE failed = {}
    BY <1>5, <2>1 DEF EndRescan
  <2>2. CASE failed # {}
    BY <1>5, <2>2 DEF EndRescan, Retry
  <2>3. QED
    BY <2>1, <2>2
<1>6. CASE Rebuild
  BY <1>6 DEF Rebuild
<1>7. QED
  BY <1>1, <1>2, <1>3, <1>4, <1>5, <1>6
  DEF WatchNext, ScanLoop, DiskChange, Ask, AskStarts, AskAnswered, OtherStarts, OtherSteps,
      Scanning, Read, Work, Recycle, allVars, watchVars, loopVars

LEMMA AskingKeeps ==
  ASSUME BaseInv, [WatchNext]_allVars
  PROVE  WatcherIsAsking'
<1> USE DEF BaseInv
<1>1. /\ at \in [Callers -> Places] /\ want \in [Callers -> Requests \cup {NoRequest}]
      /\ about \in [Callers -> Jobs \cup {NoJob}]
      /\ request \in [Jobs -> Requests \cup {NoRequest}]
      /\ Watcher \in Callers
  BY WatcherAssumption DEF IInv, TypeOK
<1>2. ASSUME UNCHANGED <<drained, batch, paths, whole>>,
             /\ at'[Watcher] = at[Watcher] /\ want'[Watcher] = want[Watcher]
             /\ about'[Watcher] = about[Watcher]
             /\ at[Watcher] = "starting" => request'[about[Watcher]] = request[about[Watcher]]
      PROVE  WatcherIsAsking'
  BY <1>2 DEF WatcherIsAsking, Asked, RequestFor
<1>3. CASE at'[Watcher] = "idle"
  BY <1>3 DEF WatcherIsAsking
<1>4. ASSUME NEW l \in Libraries, Ask(l)
      PROVE  WatcherIsAsking'
  <2>1. /\ drained' /\ l \in batch' /\ want'[Watcher] = RequestFor(l)
        /\ at'[Watcher] = "starting" => request'[about'[Watcher]] = RequestFor(l)
    BY <1>1, <1>4 DEF Ask, InsertJob, FindActive, watchVars, loopVars, Places
  <2>2. UNCHANGED <<paths, whole>>
    BY <1>4 DEF Ask, watchVars, loopVars
  <2>3. RequestFor(l)' = RequestFor(l) /\ Asked' = l
    BY <2>1, <2>2, RequestForType DEF RequestFor, Asked
  <2>4. QED
    BY <2>1, <2>3, <2>2 DEF WatcherIsAsking, RequestFor
<1>5. ASSUME NEW c \in Others, OtherSteps(c)
      PROVE  WatcherIsAsking'
  BY <1>1, <1>2, <1>5 DEF OtherSteps, Activate, AnswerFromRow, Return, Others, watchVars,
      loopVars, rowVars
<1>6. ASSUME NEW c \in Others, NEW req \in OtherRequests, OtherStarts(c, req)
      PROVE  WatcherIsAsking'
  <2>1. at[Watcher] # "starting"
    BY <1>1, <1>6 DEF OtherStarts, InsertJob, FindActive, Unlocked
  <2>2. QED
    BY <1>1, <1>2, <1>6, <2>1 DEF OtherStarts, InsertJob, FindActive, Others, loopVars
<1>7. ASSUME NEW j \in Jobs, Recycle(j)
      PROVE  WatcherIsAsking'
  <2>1. about[Watcher] # j /\ (at[Watcher] = "starting" => about[Watcher] \in Jobs)
    BY <1>1, <1>7 DEF Recycle, IInv, StarterHasRow
  <2>2. QED
    BY <1>1, <1>2, <1>7, <2>1 DEF Recycle, callerVars, watchVars, loopVars
<1>8. ASSUME NEW j \in Jobs, Scanning(j)
      PROVE  WatcherIsAsking'
  BY <1>2, <1>8 DEF Scanning, Read, Work, WalkFolder, EndWalk, PersistVerdict, ReleaseScan,
      ScanComplete, rowVars, callerVars, watchVars, loopVars
<1>9. CASE TimerFires \/ EndRescan \/ Rebuild
  BY <1>1, <1>3, <1>9 DEF TimerFires, EndRescan, Rebuild, WatcherIsAsking, vars, callerVars
<1>10. CASE AskStarts \/ AskAnswered
  BY <1>1, <1>3, <1>10 DEF AskStarts, AskAnswered, Activate, AnswerFromRow, Return
<1>11. CASE TakeTrigger \/ EventLoop \/ (\E f \in Folders, kind \in Kinds : DiskChange(f, kind))
  BY <1>2, <1>11 DEF TakeTrigger, EventLoop, HandleEvent, Notify, DiskChange, loopVars, vars,
      rowVars, callerVars
<1>12. CASE UNCHANGED allVars
  BY <1>2, <1>12 DEF allVars, vars, rowVars, callerVars, watchVars, loopVars
<1>13. QED
  BY <1>4, <1>5, <1>6, <1>7, <1>8, <1>9, <1>10, <1>11, <1>12 DEF WatchNext, ScanLoop

LEMMA BaseKeeps ==
  ASSUME BaseInv, [WatchNext]_allVars
  PROVE  BaseInv'
BY ScansKeep, WatchTypesKeep, NobodyCancelsKeeps, OwedKeeps, AskingKeeps DEF BaseInv

LEMMA BaseInit == WatchInit => BaseInv
<1> SUFFICES ASSUME WatchInit PROVE BaseInv
  OBVIOUS
<1>1. IInv
  BY InitHolds DEF WatchInit
<1>2. {poke, trigger, timer, drained} \subseteq BOOLEAN
  BY DEF WatchInit
<1>3. WatchTypeOK
  BY <1>1, <1>2, WatchBounds DEF IInv, WatchInit, WatchTypeOK
<1>4. NobodyCancels /\ OwedIsAnnounced /\ WatcherIsAsking
  BY WatcherAssumption
  DEF WatchInit, Init, NobodyCancels, OwedIsAnnounced, WatcherIsAsking
<1>5. QED
  BY <1>1, <1>3, <1>4 DEF BaseInv

-----------------------------------------------------------------------------
(* What the watcher's request can run into.                                 *)

\* The other callers ask for full scans, as the watcher's run has it.  (A scan of
\* some folders of a library is joined by a request for others: see the run
\* that loses a change.)
OthersScanAll == \A req \in OtherRequests : req.scope = "all"

\* A row's request is written when the row is made, and forgotten with the row.
LEMMA RowsStay ==
  ASSUME [WatchNext]_allVars, NEW j \in Jobs, TypeOK
  PROVE  status[j] = "absent" \/ request'[j] = request[j] \/ Recycle(j)
<1>1. CASE UNCHANGED request
  BY <1>1
<1>2. ASSUME NEW c \in Callers, NEW req, NEW i \in Jobs, InsertJob(c, req, i)
      PROVE  status[j] = "absent" \/ request'[j] = request[j]
  BY <1>2 DEF InsertJob, TypeOK
<1>3. ASSUME NEW i \in Jobs, Recycle(i)
      PROVE  request'[j] = request[j] \/ Recycle(j)
  BY <1>3 DEF Recycle, TypeOK
<1>4. ASSUME NEW l \in Libraries, Ask(l)
      PROVE  status[j] = "absent" \/ request'[j] = request[j]
  BY <1>2, <1>4, WatcherAssumption DEF Ask, FindActive, rowVars
<1>5. ASSUME NEW c \in Others, NEW req \in OtherRequests, OtherStarts(c, req)
      PROVE  status[j] = "absent" \/ request'[j] = request[j]
  BY <1>2, <1>5 DEF OtherStarts, Others, FindActive, rowVars
<1>6. QED
  BY <1>1, <1>3, <1>4, <1>5
  DEF WatchNext, EventLoop, HandleEvent, Notify, DiskChange, ScanLoop, TakeTrigger, TimerFires,
      AskStarts, AskAnswered, Activate, AnswerFromRow, EndRescan, Rebuild, OtherSteps,
      Scanning, Read, Work, WalkFolder, EndWalk, PersistVerdict, ReleaseScan, ScanComplete,
      rowVars, vars, allVars

\* So the request of a job that a caller is about, or that runs, stays.
LEMMA RequestsStay ==
  ASSUME BaseInv, [WatchNext]_allVars
  PROVE  /\ \A c \in Callers : at[c] # "idle" =>
              about[c] \in Jobs /\ request'[about[c]] = request[about[c]]
         /\ active # NoJob => active \in Jobs /\ request'[active] = request[active]
<1> USE DEF BaseInv
<1>1. ASSUME NEW c \in Callers, at[c] # "idle"
      PROVE  about[c] \in Jobs /\ request'[about[c]] = request[about[c]]
  <2>1. about[c] \in Jobs /\ status[about[c]] # "absent"
    BY <1>1 DEF NobodyCancels, IInv, StarterHasRow, BusyHasRow
  <2>2. ~Recycle(about[c])
    BY DEF Recycle
  <2>3. QED
    BY <2>1, <2>2, RowsStay DEF IInv
<1>2. ASSUME active # NoJob
      PROVE  active \in Jobs /\ request'[active] = request[active]
  <2>1. active \in Jobs /\ worker[active] \in Owning
    BY <1>2 DEF IInv, TypeOK, ClaimIsLife
  <2>2. status[active] # "absent" /\ ~Recycle(active)
    BY <2>1 DEF IInv, AbsentHasNoWorker, Owning, Recycle
  <2>3. QED
    BY <2>1, <2>2, RowsStay DEF IInv
<1>3. QED
  BY <1>1, <1>2

LEMMA OthersKeep ==
  ASSUME BaseInv, OthersStartTheirs, [WatchNext]_allVars
  PROVE  OthersStartTheirs'
<1>1. at \in [Callers -> Places] /\ about \in [Callers -> Jobs \cup {NoJob}]
      /\ request \in [Jobs -> Requests \cup {NoRequest}]
  BY DEF BaseInv, IInv, TypeOK
<1> SUFFICES ASSUME NEW c \in Others, at'[c] = "starting"
             PROVE  request'[about'[c]] \in OtherRequests
  BY DEF OthersStartTheirs
<1>2. CASE at[c] = "starting" /\ about'[c] = about[c]
  BY <1>2, RequestsStay DEF Others, OthersStartTheirs
<1>3. CASE UNCHANGED <<at, about>>
  BY <1>2, <1>3
<1>4. ASSUME NEW d \in Others, NEW req \in OtherRequests, OtherStarts(d, req)
      PROVE  request'[about'[c]] \in OtherRequests
  BY <1>1, <1>4 DEF OtherStarts, InsertJob, FindActive, Unlocked, Others
<1>5. ASSUME NEW l \in Libraries, Ask(l)
      PROVE  FALSE
  BY <1>1, <1>5 DEF Ask, InsertJob, FindActive, Unlocked, Others
<1>6. CASE AskStarts \/ AskAnswered \/ \E d \in Others : OtherSteps(d)
  BY <1>1, <1>2, <1>6
  DEF AskStarts, AskAnswered, OtherSteps, Activate, AnswerFromRow, Return, Others
<1>7. QED
  BY <1>3, <1>4, <1>5, <1>6
  DEF WatchNext, EventLoop, HandleEvent, Notify, DiskChange, ScanLoop, TakeTrigger, TimerFires,
      EndRescan, Rebuild, Scanning, Read, Work, WalkFolder, EndWalk, PersistVerdict,
      ReleaseScan, ScanComplete, Recycle, callerVars, vars, allVars

LEMMA ActiveKeeps ==
  ASSUME BaseInv, OthersStartTheirs, ActiveIsAnother, [WatchNext]_allVars
  PROVE  ActiveIsAnother'
<1>1. CASE /\ active' = active
           /\ drained' => drained /\ batch' \subseteq batch
  BY <1>1, RequestsStay DEF ActiveIsAnother
<1>2. CASE active' = NoJob \/ ~drained'
  BY <1>2 DEF ActiveIsAnother
<1>3. CASE TimerFires
  BY <1>1, <1>2, <1>3 DEF TimerFires, loopVars, vars
<1>4. CASE AskStarts
  <2>1. /\ active' = about[Watcher] /\ batch' = batch \ {Asked}
        /\ at[Watcher] = "starting" /\ UNCHANGED request
    BY <1>4 DEF AskStarts, Activate, rowVars
  <2>2. request[about[Watcher]] = RequestFor(Asked) /\ Asked \in Libraries
    BY <2>1 DEF BaseInv, WatcherIsAsking, WatchTypeOK
  <2>3. request'[active'].library = Asked
    BY <2>1, <2>2, RequestForType DEF BaseInv
  <2>4. QED
    BY <2>1, <2>3 DEF ActiveIsAnother
<1>5. ASSUME NEW c \in Others, OtherSteps(c)
      PROVE  ActiveIsAnother'
  <2>1. CASE Activate(c)
    BY <1>5, <2>1 DEF Activate, OthersStartTheirs, ActiveIsAnother, rowVars
  <2>2. CASE AnswerFromRow(c)
    BY <1>1, <1>5, <2>2 DEF OtherSteps, AnswerFromRow, watchVars, loopVars
  <2>3. QED
    BY <1>5, <2>1, <2>2 DEF OtherSteps
<1>6. ASSUME NEW j \in Jobs, Scanning(j)
      PROVE  ActiveIsAnother'
  BY <1>1, <1>2, <1>6 DEF Scanning, Read, Work, WalkFolder, EndWalk, PersistVerdict,
      ReleaseScan, ScanComplete, watchVars, loopVars
<1>7. CASE EndRescan \/ Rebuild \/ AskAnswered \/ TakeTrigger
  BY <1>1, <1>2, <1>7 DEF EndRescan, Rebuild, AskAnswered, AnswerFromRow, TakeTrigger, vars
<1>8. CASE \E l \in Libraries : Ask(l)
  BY <1>1, <1>8 DEF Ask, InsertJob, FindActive, watchVars, loopVars
<1>9. CASE \E c \in Others, req \in OtherRequests : OtherStarts(c, req)
  BY <1>1, <1>9 DEF OtherStarts, InsertJob, FindActive, loopVars
<1>10. QED
  BY <1>1, <1>3, <1>4, <1>5, <1>6, <1>7, <1>8, <1>9
  DEF WatchNext, ScanLoop, EventLoop, HandleEvent, Notify, DiskChange, Recycle, loopVars,
      watchVars, vars, allVars

\* What runs is a full scan, or of a library that is not asked for any more.
LEMMA JoinedKeeps ==
  ASSUME BaseInv, ActiveIsAnother, NothingIsJoined, OthersScanAll, [WatchNext]_allVars
  PROVE  NothingIsJoined'
<1>1. /\ at \in [Callers -> Places] /\ want \in [Callers -> Requests \cup {NoRequest}]
      /\ about \in [Callers -> Jobs \cup {NoJob}] /\ Watcher \in Callers
  BY WatcherAssumption DEF BaseInv, IInv, TypeOK
<1> SUFFICES ASSUME at'[Watcher] = "joining"
             PROVE  ~Matches(request'[about'[Watcher]], want'[Watcher])
  BY DEF NothingIsJoined, Joins
<1>2. ASSUME at[Watcher] = "joining", about'[Watcher] = about[Watcher],
             want'[Watcher] = want[Watcher]
      PROVE  ~Matches(request'[about'[Watcher]], want'[Watcher])
  BY <1>1, <1>2, RequestsStay DEF NothingIsJoined, Joins
<1>3. CASE UNCHANGED callerVars
  BY <1>2, <1>3 DEF callerVars
<1>4. ASSUME NEW l \in Libraries, Ask(l)
      PROVE  ~Matches(request'[about'[Watcher]], want'[Watcher])
  <2>1. /\ active # NoJob /\ about'[Watcher] = active /\ want'[Watcher] = RequestFor(l)
        /\ drained /\ l \in batch
    BY <1>1, <1>4 DEF Ask, InsertJob, FindActive
  <2>2. request[active].scope = "all" \/ request[active].library # l
    BY <2>1 DEF ActiveIsAnother, OthersScanAll
  <2>3. request'[active] = request[active]
    BY <2>1, RequestsStay
  <2>4. RequestFor(l).scope # "all" /\ RequestFor(l).library = l
    BY RequestForType DEF BaseInv
  <2>5. ~Matches(request[active], RequestFor(l))
    BY <2>2, <2>4 DEF Matches
  <2>6. QED
    BY <2>1, <2>3, <2>5
<1>5. CASE AskStarts \/ AskAnswered
  BY <1>1, <1>5 DEF AskStarts, AskAnswered, Activate, AnswerFromRow, Return
<1>6. ASSUME NEW c \in Others, OtherSteps(c)
      PROVE  ~Matches(request'[about'[Watcher]], want'[Watcher])
  BY <1>1, <1>2, <1>6 DEF OtherSteps, Activate, AnswerFromRow, Return, Others
<1>7. ASSUME NEW c \in Others, NEW req \in OtherRequests, OtherStarts(c, req)
      PROVE  ~Matches(request'[about'[Watcher]], want'[Watcher])
  BY <1>1, <1>2, <1>7 DEF OtherStarts, InsertJob, FindActive, Others
<1>8. QED
  BY <1>3, <1>4, <1>5, <1>6, <1>7
  DEF WatchNext, EventLoop, HandleEvent, Notify, DiskChange, ScanLoop, TakeTrigger, TimerFires,
      EndRescan, Rebuild, Scanning, Read, Work, WalkFolder, EndWalk, PersistVerdict,
      ReleaseScan, ScanComplete, Recycle, vars, allVars

-----------------------------------------------------------------------------
(* Where a change is.                                                       *)

Noticed(f)  == [kind |-> "write", folder |-> f] \in events
Queued(f)   == f \in pend \/ LibraryOf[f] \in full
InHand(f)   == /\ drained /\ LibraryOf[f] \in batch \cup failed
               /\ f \in paths \/ LibraryOf[f] \in whole
WillRead(j, f) ==
  \/ worker[j] = "walking" /\ f \in left[j]
  \/ worker[j] = "none" /\ status[j] = "running" /\ f \in FoldersOf(request[j])
Underway(f) == \E j \in Jobs : WillRead(j, f)

OnItsWay(f) == Noticed(f) \/ Queued(f) \/ InHand(f) \/ Underway(f)

\* A scan that will read a folder reads it: with no cancel and no error it does
\* not end before its last folder.
LEMMA UnderwayStays ==
  ASSUME BaseInv, ~ScanErrors, [WatchNext]_allVars,
         NEW j \in Jobs, NEW f \in Folders, WillRead(j, f)
  PROVE  WillRead(j, f)' \/ f \notin dirty'
<1> USE DEF WillRead
<1>1. /\ worker \in [Jobs -> Stages] /\ left \in [Jobs -> SUBSET Folders]
      /\ status \in [Jobs -> Statuses] /\ request \in [Jobs -> Requests \cup {NoRequest}]
  BY DEF BaseInv, IInv, TypeOK
<1>2. CASE UNCHANGED <<worker, left, status, request>>
  BY <1>2 DEF FoldersOf
<1>3. ASSUME NEW c \in Callers, NEW req, NEW i \in Jobs, InsertJob(c, req, i)
      PROVE  WillRead(j, f)'
  BY <1>1, <1>3 DEF InsertJob, workerVars, FoldersOf
<1>4. ASSUME NEW c \in Callers, Activate(c)
      PROVE  WillRead(j, f)'
  <2>1. about[c] \in Jobs /\ worker[about[c]] = "none"
    BY <1>4 DEF Activate, BaseInv, IInv, StarterHasRow
  <2>2. CASE about[c] = j
    BY <1>1, <1>4, <2>1, <2>2 DEF Activate
  <2>3. CASE about[c] # j
    BY <1>1, <1>4, <2>1, <2>3 DEF Activate, rowVars, FoldersOf
  <2>4. QED
    BY <2>2, <2>3
<1>5. ASSUME NEW i \in Jobs, NEW g \in Folders, Read(i, g)
      PROVE  WillRead(j, f)' \/ f \notin dirty'
  BY <1>1, <1>5 DEF Read, WalkFolder, rowVars, FoldersOf
<1>6. ASSUME NEW i \in Jobs, EndWalk(i)
      PROVE  WillRead(j, f)'
  <2>1. Verdicts(i) # {}
    BY <1>6 DEF EndWalk
  <2>2. left[i] = {}
    BY <2>1 DEF Verdicts, BaseInv, NobodyCancels
  <2>3. QED
    BY <1>1, <1>6, <2>2 DEF EndWalk, rowVars, FoldersOf
<1>7. ASSUME NEW i \in Jobs, PersistVerdict(i) \/ ReleaseScan(i) \/ ScanComplete(i)
      PROVE  WillRead(j, f)'
  BY <1>1, <1>7 DEF PersistVerdict, ReleaseScan, ScanComplete, rowVars, FoldersOf
<1>8. ASSUME NEW i \in Jobs, Recycle(i)
      PROVE  WillRead(j, f)'
  BY <1>1, <1>8 DEF Recycle, FoldersOf
<1>9. CASE ScanLoop
  BY <1>2, <1>3, <1>4, <1>9, WatcherAssumption
  DEF ScanLoop, TakeTrigger, TimerFires, Ask, FindActive, AskStarts, AskAnswered,
      AnswerFromRow, EndRescan, vars, rowVars, workerVars
<1>10. ASSUME NEW c \in Others,
              (\E req \in OtherRequests : OtherStarts(c, req)) \/ OtherSteps(c)
       PROVE  WillRead(j, f)'
  BY <1>2, <1>3, <1>4, <1>10
  DEF Others, OtherStarts, OtherSteps, FindActive, AnswerFromRow, rowVars, workerVars
<1>11. QED
  BY <1>2, <1>5, <1>6, <1>7, <1>8, <1>9, <1>10
  DEF WatchNext, EventLoop, HandleEvent, Notify, DiskChange, Rebuild, Scanning, Work,
      vars, rowVars, workerVars, allVars

\* An event is handled by queueing its folder.
LEMMA NoticedStays ==
  ASSUME [WatchNext]_allVars, ~Rebuild, NEW f \in Folders, Noticed(f)
  PROVE  Noticed(f)' \/ Queued(f)'
<1> USE DEF Noticed, Queued
<1>1. ASSUME NEW e \in events, HandleEvent(e)
      PROVE  Noticed(f)' \/ Queued(f)'
  <2>1. CASE e = [kind |-> "write", folder |-> f]
    BY <1>1, <2>1 DEF HandleEvent
  <2>2. CASE e # [kind |-> "write", folder |-> f]
    BY <1>1, <2>2 DEF HandleEvent
  <2>3. QED
    BY <2>1, <2>2
<1>2. CASE \E g \in Folders, kind \in Kinds : DiskChange(g, kind)
  BY <1>2 DEF DiskChange
<1>3. CASE UNCHANGED events
  BY <1>3
<1>4. QED
  BY <1>1, <1>2, <1>3
  DEF WatchNext, EventLoop, Notify, ScanLoop, TakeTrigger, TimerFires, Ask, AskStarts,
      AskAnswered, EndRescan, OtherStarts, OtherSteps, Scanning, Read, Work, Recycle,
      diskVars, watchVars, allVars

\* What is queued is drained, by folders or by libraries.
LEMMA QueuedStays ==
  ASSUME [WatchNext]_allVars, ~Rebuild, NEW f \in Folders, Queued(f)
  PROVE  Queued(f)' \/ InHand(f)'
<1> USE DEF Queued, InHand
<1>1. CASE TimerFires
  <2>1. CASE active # NoJob
    BY <1>1, <2>1 DEF TimerFires, pendVars
  <2>2. CASE active = NoJob
    BY <1>1, <2>2 DEF TimerFires
  <2>3. QED
    BY <2>1, <2>2
<1>2. CASE pend \subseteq pend' /\ full \subseteq full'
  BY <1>2
<1>3. ASSUME NEW e \in events, HandleEvent(e)
      PROVE  pend \subseteq pend' /\ full \subseteq full'
  BY <1>3 DEF HandleEvent
<1>4. QED
  BY <1>1, <1>2, <1>3
  DEF WatchNext, EventLoop, DiskChange, Notify, ScanLoop, TakeTrigger, Ask, AskStarts,
      AskAnswered, EndRescan, OtherStarts, OtherSteps, Scanning, Read, Work, Recycle,
      pendVars, watchVars, allVars

\* What scanLoop has in hand is scanned, refused, or put back.
LEMMA InHandStays ==
  ASSUME BaseInv, NothingIsJoined, [WatchNext]_allVars, NEW f \in Folders, InHand(f)
  PROVE  InHand(f)' \/ Queued(f)' \/ Underway(f)'
<1> USE DEF InHand
<1>1. CASE UNCHANGED <<drained, paths, whole, batch, failed>>
  BY <1>1
<1>2. CASE AskStarts
  <2>1. CASE LibraryOf[f] # Asked
    BY <1>2, <2>1 DEF AskStarts
  <2>2. CASE LibraryOf[f] = Asked
    <3> DEFINE j == about[Watcher]
    <3>1. at[Watcher] = "starting" /\ j \in Jobs
      BY <1>2, WatcherAssumption DEF AskStarts, Activate, BaseInv, IInv, StarterHasRow
    <3>2. request[j] = RequestFor(Asked)
      BY <3>1 DEF BaseInv, WatcherIsAsking
    <3>3. f \in FoldersOf(RequestFor(Asked))
      BY <2>2 DEF FoldersOf, RequestFor
    <3>4. worker'[j] = "walking" /\ left'[j] = FoldersOf(request[j])
      BY <1>2, <3>1 DEF AskStarts, Activate, BaseInv, IInv, TypeOK
    <3>5. QED
      BY <3>1, <3>2, <3>3, <3>4 DEF Underway, WillRead
  <2>3. QED
    BY <2>1, <2>2
<1>3. CASE AskAnswered
  BY <1>3 DEF AskAnswered, AnswerFromRow, NothingIsJoined
<1>4. CASE EndRescan
  BY <1>4 DEF EndRescan, Queued
<1>5. CASE TimerFires \/ Rebuild
  BY <1>1, <1>5 DEF TimerFires, Rebuild
<1>6. QED
  BY <1>1, <1>2, <1>3, <1>4, <1>5
  DEF WatchNext, EventLoop, HandleEvent, DiskChange, Notify, ScanLoop, TakeTrigger, Ask,
      OtherStarts, OtherSteps, Scanning, Read, Work, Recycle, loopVars, watchVars, allVars

LEMMA ForgottenIsOnItsWay ==
  NoChangeForgotten <=> (rebuilds = 0 => \A f \in dirty : OnItsWay(f))
BY DEF NoChangeForgotten, OnItsWay, Noticed, Queued, InHand, Underway, WillRead

LEMMA ChangesKeep ==
  ASSUME BaseInv, NothingIsJoined, NoChangeForgotten, ~ScanErrors, [WatchNext]_allVars
  PROVE  NoChangeForgotten'
<1> SUFFICES ASSUME rebuilds' = 0, NEW f \in dirty'
             PROVE  OnItsWay(f)'
  BY DEF NoChangeForgotten, OnItsWay, Noticed, Queued, InHand, Underway, WillRead
<1>1. rebuilds = 0 /\ ~Rebuild
  BY DEF BaseInv, WatchTypeOK, WatchNext, DiskChange, EventLoop, HandleEvent, Notify, ScanLoop,
         TakeTrigger, TimerFires, Ask, AskStarts, AskAnswered, EndRescan, Rebuild, OtherStarts,
         OtherSteps, Scanning, Read, Work, Recycle, budget, watchVars, allVars
<1>2. f \in dirty \/ Noticed(f)'
  BY DEF WatchNext, DiskChange, EventLoop, HandleEvent, Notify, ScanLoop, TakeTrigger,
         TimerFires, Ask, AskStarts, AskAnswered, EndRescan, Rebuild, OtherStarts, OtherSteps,
         Scanning, Read, Work, Recycle, Noticed, Kinds, diskVars, watchVars, allVars
<1>3. CASE f \in dirty
  <2>1. OnItsWay(f) /\ f \in Folders
    BY <1>1, <1>3, ForgottenIsOnItsWay DEF BaseInv, WatchTypeOK
  <2>2. CASE Underway(f)
    BY <2>1, <2>2, UnderwayStays DEF Underway, OnItsWay
  <2>3. QED
    BY <1>1, <2>1, <2>2, NoticedStays, QueuedStays, InHandStays DEF OnItsWay
<1>4. QED
  BY <1>2, <1>3 DEF OnItsWay

-----------------------------------------------------------------------------
LEMMA WatchInitHolds == WatchInit => WatchInv
<1> SUFFICES ASSUME WatchInit PROVE WatchInv
  OBVIOUS
<1>1. BaseInv
  BY BaseInit
<1>2. OthersStartTheirs /\ ActiveIsAnother /\ NothingIsJoined /\ NoChangeForgotten
  BY WatcherAssumption
  DEF WatchInit, Init, Others, OthersStartTheirs, ActiveIsAnother, NothingIsJoined,
      NoChangeForgotten
<1>3. QED
  BY <1>1, <1>2 DEF WatchInv

LEMMA WatchStepKeeps ==
  ASSUME ~ScanErrors, OthersScanAll, WatchInv, [WatchNext]_allVars
  PROVE  WatchInv'
BY BaseKeeps, OthersKeep, ActiveKeeps, JoinedKeeps, ChangesKeep DEF WatchInv

\* The invariant of the watch, whatever fails and whatever the other callers ask for.
THEOREM WatchInvariantHolds == WatchSpec => []BaseInv
<1>1. BaseInv /\ [WatchNext]_allVars => BaseInv'
  BY BaseKeeps
<1>2. QED
  BY <1>1, BaseInit, PTL DEF WatchSpec

\* pendingChanges, the trigger and the debounce timer: the event loop queues before it
\* pokes, and scanLoop takes the token before it drains, so that work is never owed
\* without a step to come that drains it.
THEOREM OwedWorkIsAnnounced == WatchSpec => []OwedWorkHasATimer
<1>1. BaseInv => OwedWorkHasATimer
  BY DEF BaseInv, OwedIsAnnounced, OwedWorkHasATimer, Waking
<1>2. QED
  BY <1>1, WatchInvariantHolds, PTL

\* The scan service keeps its promise under the watcher, with job ids in endless
\* supply: scanLoop checks that nothing runs long before it asks, and still two scans
\* never run at a time.
THEOREM WatchedScansExclude == WatchSpec => []OneScanAtATime
<1>1. BaseInv => OneScanAtATime
  BY DEF BaseInv, IInv, ClaimIsLife, OneScanAtATime
<1>2. QED
  BY <1>1, WatchInvariantHolds, PTL

\* scanLoop's check-then-act loses no change: while walks do not fail by themselves and
\* the other callers ask for full scans, a change on disk that no scan has read is an
\* unhandled event, queued, in scanLoop's hands, or in the folders a scan has yet to read.
THEOREM ChangesAreNotForgotten ==
  ASSUME ~ScanErrors, OthersScanAll
  PROVE  WatchSpec => []NoChangeForgotten
<1>1. WatchInv /\ [WatchNext]_allVars => WatchInv'
  BY WatchStepKeeps
<1>2. WatchInv => NoChangeForgotten
  BY DEF WatchInv
<1>3. QED
  BY <1>1, <1>2, WatchInitHolds, PTL DEF WatchSpec

=============================================================================
