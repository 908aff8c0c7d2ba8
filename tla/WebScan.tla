------------------------------- MODULE WebScan -------------------------------
(***************************************************************************)
(* The scan readout of the dashboard: web/src/ui/scan.js, the event stream *)
(* it lives on (web/src/ui/events.js) and the bulk identification of       *)
(* web/src/app.js, which borrows the same readout.                         *)
(*                                                                         *)
(* One browser tab.  Its code runs one callback at a time, but every       *)
(* `await` lets any other callback in between, and the answers of the      *)
(* server come back in an order of their own: a request is sent, the       *)
(* server reads its rows, and the answer is applied are three steps.  The  *)
(* event stream delivers in order, but it is another connection, and what  *)
(* is published while it is down is lost.                                  *)
(*                                                                         *)
(* The texts are left out: of a readout only its state and whether its     *)
(* label is "CANCEL" matter to what the code does next.  So is the panel   *)
(* of recent jobs, which shows what it fetches and remembers nothing; the  *)
(* operator may cancel whenever cancelActiveScan itself would go ahead.    *)
(***************************************************************************)
EXTENDS Naturals, Sequences, FiniteSets

CONSTANTS
  MaxJobs,    \* bound: how many scans the server runs
  Buffer,     \* bound: subscriberBuffer, the snapshots under way to the tab
  MaxCalls,   \* bound: how many GET requests are under way at a time
  MaxBreaks,  \* bound: how often the event stream breaks
  MaxTimers   \* bound: how many idle timeouts are pending at a time

ASSUME BoundsAssumption ==
  /\ MaxJobs \in Nat /\ Buffer \in Nat \ {0} /\ MaxCalls \in Nat \ {0}
  /\ MaxBreaks \in Nat /\ MaxTimers \in Nat

VARIABLES
  job,         \* the scan_jobs rows: the status of each job
  stream,      \* where the loop of events.js is
  frames,      \* the snapshots on the stream, oldest first
  breaks,      \* how often it broke
  missed,      \* history: the jobs whose last snapshot did not get on the stream
  watch,       \* scanWatchJobID
  readout,     \* scanLastState; "cancelling" is "running" under the label CANCEL
  timers,      \* the pending timeouts that turn the readout idle
  calls,       \* the GET requests under way, and what the server read for them
  post,        \* the POST of triggerScan under way
  cancel,      \* where cancelActiveScan is
  cancelOf,    \* its jobID
  strayed,     \* history: cancelActiveScan applied a snapshot of a job not watched
  bulk         \* runBulkIdentify is at work

streamVars == <<stream, frames, breaks, missed>>
shownVars  == <<readout, timers>>
cancelVars == <<cancel, cancelOf, strayed>>
vars == <<job, streamVars, watch, shownVars, calls, post, cancelVars, bulk>>

Jobs == 1 .. MaxJobs
None == 0

Terminal == {"completed", "cancelled", "failed"}
Statuses == {"absent", "running"} \cup Terminal
Readouts == {"idle", "running", "cancelling", "ok", "error"}
Busy     == {"running", "cancelling"}

\* A GET for job `of` ("watch", "poll"); the GET of the list on load, whose answer
\* tells the job that runs ("resume"); the requests of a view that is loaded anew
\* after the end of job `of` ("reload").
Calls == [by : {"watch", "poll", "resume", "reload"}, of : Jobs \cup {None},
          status : Statuses \cup {"unread"}]
Call(by, j) == [by |-> by, of |-> j, status |-> "unread"]

\* POST scan and its answer: a job, or an error.
Posts == [at : {"none", "sent", "failed"}, of : {None}] \cup [at : {"job"}, of : Jobs]
NoPost == [at |-> "none", of |-> None]

TypeOK ==
  /\ job \in [Jobs -> Statuses]
  /\ stream \in {"connecting", "live", "waiting"}
  /\ frames \in Seq([of : Jobs, status : Statuses]) /\ Len(frames) <= Buffer
  /\ breaks \in 0 .. MaxBreaks
  /\ missed \subseteq Jobs
  /\ watch \in Jobs \cup {None}
  /\ readout \in Readouts
  /\ timers \in 0 .. MaxTimers
  /\ calls \subseteq Calls
  /\ post \in Posts
  /\ cancel \in {"off", "posting", "accepted", "polling", "pausing", "reloading"}
  /\ cancelOf \in Jobs \cup {None}
  /\ strayed \in BOOLEAN
  /\ bulk \in BOOLEAN

Init ==
  /\ job \in {[j \in Jobs |-> IF j = 1 THEN s ELSE "absent"] : s \in {"absent", "running"}}
  /\ stream = "connecting" /\ frames = << >> /\ breaks = 0 /\ missed = {}
  /\ watch = None
  /\ readout = "idle" /\ timers = 0
  /\ calls = {Call("resume", None)}
  /\ post = NoPost
  /\ cancel = "off" /\ cancelOf = None /\ strayed = FALSE
  /\ bulk = FALSE

-----------------------------------------------------------------------------
(* The server, as far as the tab can see it.                                *)

Running == {j \in Jobs : job[j] = "running"}

\* publishScanJob: a snapshot of the row, for whoever is connected and whose
\* buffer has room.
Publish(j, status) ==
  IF stream = "live" /\ Len(frames) < Buffer
  THEN /\ frames' = Append(frames, [of |-> j, status |-> status])
       /\ UNCHANGED missed
  ELSE /\ missed' = IF status \in Terminal THEN missed \cup {j} ELSE missed
       /\ UNCHANGED frames

\* The next job of runScan; one runs at a time.
StartJob(j) ==
  /\ Running = {}
  /\ job[j] = "absent" /\ j = Cardinality({i \in Jobs : job[i] # "absent"}) + 1
  /\ job' = [job EXCEPT ![j] = "running"]

\* Somebody else starts a scan: another dashboard, the watcher.
ScanStartsElsewhere ==
  /\ \E j \in Jobs : StartJob(j)
  /\ UNCHANGED <<streamVars, watch, shownVars, calls, post, cancelVars, bulk>>

\* The scan reports what it has seen so far.
ScanProgresses ==
  /\ \E j \in Running :
       /\ stream = "live" /\ Len(frames) < Buffer
       /\ Publish(j, "running")
  /\ UNCHANGED <<job, stream, breaks, watch, shownVars, calls, post, cancelVars, bulk>>

\* finishScanJob: the row is final, then its snapshot is published.  Any dashboard
\* may have cancelled the job.
ScanEnds ==
  /\ \E j \in Running, status \in Terminal :
       /\ job' = [job EXCEPT ![j] = status]
       /\ Publish(j, status)
  /\ UNCHANGED <<stream, breaks, watch, shownVars, calls, post, cancelVars, bulk>>

\* The server reads its rows for a GET under way.
ServerReads ==
  /\ \E c \in calls :
       /\ c.status = "unread" /\ c.by # "reload"
       /\ \/ /\ c.by # "resume"
             /\ calls' = (calls \ {c}) \cup {[c EXCEPT !.status = job[c.of]]}
          \/ /\ c.by = "resume"
             /\ \E j \in IF Running = {} THEN {None} ELSE Running :
                  calls' = (calls \ {c}) \cup {[by |-> "resume", of |-> j, status |-> "running"]}
  /\ UNCHANGED <<job, streamVars, watch, shownVars, post, cancelVars, bulk>>

\* POST scan: a new job, the running one if the request matches it, or an
\* error: 409 if another one runs, or the request fails.
ServerStarts ==
  /\ post.at = "sent"
  /\ \/ \E j \in Jobs : StartJob(j) /\ post' = [at |-> "job", of |-> j]
     \/ \E j \in Running : post' = [at |-> "job", of |-> j] /\ UNCHANGED job
     \/ post' = [at |-> "failed", of |-> None] /\ UNCHANGED job
  /\ UNCHANGED <<streamVars, watch, shownVars, calls, cancelVars, bulk>>

-----------------------------------------------------------------------------
(* The event stream: events.js and startEventStream.                        *)

\* applyScanJobStatus: show a snapshot of job j; the end of a job ends the watch.
\* A cancellation under way keeps its label until the job ends.
ApplyScanJobStatus(j, status) ==
  /\ watch' = IF status \in Terminal /\ watch = j THEN None ELSE watch
  /\ timers' = IF status \in {"completed", "cancelled"} THEN timers + 1 ELSE timers
  /\ timers' <= MaxTimers
  /\ readout' = CASE status = "running"   -> IF readout = "cancelling" THEN readout ELSE "running"
                  [] status = "completed" -> "ok"
                  [] status = "cancelled" -> "idle"
                  [] OTHER -> "error"

\* A mutant: the snapshot of any job is shown.
HandleAnyScanJobEvent(j, status) == ApplyScanJobStatus(j, status)

\* handleScanJobEvent: snapshots of a job that is not watched are ignored.
HandleScanJobEvent(j, status) ==
  IF j = watch
  THEN ApplyScanJobStatus(j, status)
  ELSE UNCHANGED <<watch, shownVars>>

\* pump: the answer has come; attempt is reset, the waits being left out.
Connect ==
  /\ stream = "connecting"
  /\ stream' = "live"
  /\ UNCHANGED <<job, frames, breaks, missed, watch, shownVars, calls, post,
                 cancelVars, bulk>>

\* The fetch fails, or the stream ends: what was on it is gone.
Disconnect ==
  /\ stream \in {"connecting", "live"} /\ breaks < MaxBreaks
  /\ stream' = "waiting" /\ breaks' = breaks + 1
  /\ frames' = << >>
  /\ missed' = missed \cup
       {frames[i].of : i \in {n \in DOMAIN frames : frames[n].status \in Terminal}}
  /\ UNCHANGED <<job, watch, shownVars, calls, post, cancelVars, bulk>>

\* loop: the wait before the next attempt is over.
Retry ==
  /\ stream = "waiting"
  /\ stream' = "connecting"
  /\ UNCHANGED <<job, frames, breaks, missed, watch, shownVars, calls, post,
                 cancelVars, bulk>>

\* parseFrames and onEvent: the next snapshot on the stream is handled.
Deliver ==
  /\ stream = "live" /\ frames # << >>
  /\ HandleScanJobEvent(Head(frames).of, Head(frames).status)
  /\ frames' = Tail(frames)
  /\ UNCHANGED <<job, stream, breaks, missed, calls, post, cancelVars, bulk>>

\* One of the timeouts of five seconds that follow the end of a scan.
IdleTimer ==
  /\ timers > 0
  /\ timers' = timers - 1
  /\ readout' = "idle"
  /\ UNCHANGED <<job, streamVars, watch, calls, post, cancelVars, bulk>>

-----------------------------------------------------------------------------
(* Starting a scan, and following one.                                      *)

\* ensureScanAvailable and triggerScan, for a scan or a repair of everything or of
\* a library; while the readout says a scan is running, there is none.
TriggerScan ==
  /\ readout \notin Busy /\ post = NoPost
  /\ readout' = "running"
  /\ post' = [at |-> "sent", of |-> None]
  /\ UNCHANGED <<job, streamVars, watch, timers, calls, cancelVars, bulk>>

\* watchScanJob: remember the job, and fetch it once, for what was published of it
\* before.
UnfetchedWatch(j, other) ==  \* a mutant
  /\ watch' = j
  /\ readout' = "running"
  /\ calls' = other
WatchScanJob(j, other) ==
  /\ watch' = j
  /\ readout' = "running"
  /\ calls' = other \cup {Call("watch", j)}
  /\ Cardinality(calls') <= MaxCalls

\* The rest of triggerScan.
TriggerAnswered ==
  /\ post' = NoPost
  /\ \/ /\ post.at = "job"
        /\ WatchScanJob(post.of, calls)
     \/ /\ post.at = "failed"
        /\ readout' = "error" /\ UNCHANGED <<watch, calls>>
  /\ UNCHANGED <<job, streamVars, timers, cancelVars, bulk>>

\* resumeActiveScan: on load, follow the scan that runs, if any.
ResumeAnswered ==
  /\ \E c \in calls :
       /\ c.by = "resume" /\ c.status # "unread"
       /\ IF c.of # None
          THEN WatchScanJob(c.of, calls \ {c})
          ELSE calls' = calls \ {c} /\ UNCHANGED <<watch, readout>>
  /\ UNCHANGED <<job, streamVars, timers, post, cancelVars, bulk>>

\* The answer to the fetch of watchScanJob; the end of the job loads the view anew.
WatchAnswered ==
  /\ \E c \in calls :
       LET ends == c.of = watch /\ c.status \in Terminal IN
       /\ c.by = "watch" /\ c.status # "unread"
       /\ HandleScanJobEvent(c.of, c.status)
       /\ calls' = (calls \ {c}) \cup IF ends THEN {Call("reload", c.of)} ELSE {}
  /\ UNCHANGED <<job, streamVars, post, cancelVars, bulk>>

\* The view is loaded.
Reloaded ==
  /\ \E c \in calls : c.by = "reload" /\ calls' = calls \ {c}
  /\ UNCHANGED <<job, streamVars, watch, shownVars, post, cancelVars, bulk>>

\* A request fails.  The catch of watchScanJob gives up the watch, whichever job is
\* watched by then; that of resumeActiveScan changes nothing.
CallFails ==
  /\ \E c \in calls :
       /\ c.by # "poll"
       /\ calls' = calls \ {c}
       /\ IF c.by = "resume"
          THEN UNCHANGED <<watch, readout>>
          ELSE watch' = None /\ readout' = "error"
  /\ UNCHANGED <<job, streamVars, timers, post, cancelVars, bulk>>

-----------------------------------------------------------------------------
(* cancelActiveScan.                                                        *)

\* The button is disabled until the function returns (withButton).
CancelScan ==
  /\ cancel = "off" /\ watch # None
  /\ cancel' = "posting" /\ cancelOf' = watch
  /\ readout' = "cancelling"
  /\ UNCHANGED <<job, streamVars, watch, timers, calls, post, strayed, bulk>>

CancelReturns(other) ==
  /\ cancel' = "off" /\ cancelOf' = None
  /\ calls' = other

\* The server tells the scan to stop, or refuses, the job being over.
CancelAnswered ==
  /\ cancel = "posting"
  /\ \/ /\ job[cancelOf] \in {"running", "cancelled"}
        /\ cancel' = "accepted"
        /\ UNCHANGED <<readout, calls, cancelOf>>
     \/ readout' = "error" /\ CancelReturns(calls)
  /\ UNCHANGED <<job, streamVars, watch, timers, post, strayed, bulk>>

\* The head of the loop: poll while the job is watched, for up to a minute.
CancelPolls ==
  /\ cancel \in {"accepted", "pausing"}
  /\ \/ /\ watch = cancelOf
        /\ cancel' = "polling"
        /\ calls' = calls \cup {Call("poll", cancelOf)}
        /\ Cardinality(calls') <= MaxCalls
        /\ UNCHANGED cancelOf
     \/ /\ watch # cancelOf \/ cancel = "pausing"
        /\ CancelReturns(calls)
  /\ UNCHANGED <<job, streamVars, watch, shownVars, post, strayed, bulk>>

\* The answer is applied, whatever is watched by now.
CancelPolled ==
  /\ cancel = "polling"
  /\ \E c \in calls :
       /\ c.by = "poll" /\ c.status # "unread"
       /\ ApplyScanJobStatus(cancelOf, c.status)
       /\ strayed' = (strayed \/ watch # cancelOf)
       /\ cancel' = IF c.status \in Terminal THEN "reloading" ELSE "pausing"
       /\ calls' = calls \ {c}
  /\ UNCHANGED <<job, streamVars, post, cancelOf, bulk>>

CancelReloaded ==
  /\ cancel = "reloading"
  /\ CancelReturns(calls)
  /\ UNCHANGED <<job, streamVars, watch, shownVars, post, strayed, bulk>>

\* The poll fails, or the view does not load.
CancelFails ==
  /\ cancel \in {"polling", "reloading"}
  /\ watch' = None /\ readout' = "error"
  /\ CancelReturns({c \in calls : c.by # "poll"})
  /\ UNCHANGED <<job, streamVars, timers, post, strayed, bulk>>

-----------------------------------------------------------------------------
(* runBulkIdentify: the readout is borrowed, whatever it shows.             *)

BulkStarts ==
  /\ ~bulk /\ bulk' = TRUE
  /\ readout' = "running"
  /\ UNCHANGED <<job, streamVars, watch, timers, calls, post, cancelVars>>

\* The next item: applied, skipped, or failed without stopping the rest.
BulkItem ==
  /\ bulk
  /\ readout' = "running"
  /\ UNCHANGED <<job, streamVars, watch, timers, calls, post, cancelVars, bulk>>

\* The list is done, with no item failed or some; or a page of it cannot be fetched;
\* or the view, loaded anew after the timeout is set, cannot.
BulkEnds ==
  /\ bulk /\ bulk' = FALSE
  /\ \/ readout' \in {"ok", "error"} /\ timers' = timers + 1 /\ timers' <= MaxTimers
     \/ readout' = "error" /\ UNCHANGED timers
  /\ UNCHANGED <<job, streamVars, watch, calls, post, cancelVars>>

-----------------------------------------------------------------------------
Server  == ScanStartsElsewhere \/ ScanProgresses \/ ScanEnds \/ ServerReads \/ ServerStarts
Events  == Connect \/ Disconnect \/ Retry \/ Deliver \/ IdleTimer
Follow  == TriggerScan \/ TriggerAnswered
             \/ ResumeAnswered \/ WatchAnswered \/ Reloaded \/ CallFails
Cancels == CancelScan \/ CancelAnswered \/ CancelPolls \/ CancelPolled \/ CancelReloaded
             \/ CancelFails
Bulk    == BulkStarts \/ BulkItem \/ BulkEnds

Next == Server \/ Events \/ Follow \/ Cancels \/ Bulk

Spec == Init /\ [][Next]_vars

-----------------------------------------------------------------------------
\* A readout that says a scan is running is about something: a job that is
\* watched, a request to start one, or an identification.  Otherwise it would say so
\* until something else happens, and ensureScanAvailable would refuse every further
\* scan.  The exception is what SnapshotsOfOthersAreIgnored is about.
RunningIsExplained ==
  readout \in Busy => watch # None \/ post # NoPost \/ bulk \/ strayed

\* scan.js: "Snapshots for any other job are ignored".  cancelActiveScan applies
\* what it polled without looking at scanWatchJobID again: the stream may have
\* ended the watch while the answer, read earlier, was under way.
SnapshotsOfOthersAreIgnored == ~strayed

\* A job that is watched and over will not stay watched: its last snapshot is on the
\* stream, or the fetch of watchScanJob is under way and its answer will tell.  The
\* exception is a snapshot that was published while the stream was down, or was on it
\* when it broke: nothing asks for the job again when the stream is back.
EndIsUnderWay ==
  watch # None /\ job[watch] \in Terminal =>
    \/ watch \in missed
    \/ \E i \in DOMAIN frames : frames[i].of = watch /\ frames[i].status \in Terminal
    \/ \E c \in calls : c.by = "watch" /\ c.of = watch /\ c.status # "running"

=============================================================================
