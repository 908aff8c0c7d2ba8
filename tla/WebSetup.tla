------------------------------- MODULE WebSetup -------------------------------
(***************************************************************************)
(* The first-run wizard, web/src/setup.js, in front of the scan readout of *)
(* the dashboard: until an administrator, a library and a scan exist, the  *)
(* server sends every page load to /setup.                                 *)
(*                                                                         *)
(* One browser tab.  Every click starts a handler that awaits one request  *)
(* after the other; the handlers of several clicks interleave, and one     *)
(* started on a card goes on when another card has taken its place.        *)
(*                                                                         *)
(* Left out: the folder browser, the podcast feeds and the validation of   *)
(* the forms, which nothing here depends on; signing in at /login.         *)
(***************************************************************************)
EXTENDS WebScan

CONSTANTS
  Libraries,  \* the folders that can be attached
  MaxAsks     \* bound: how many handlers are at work at a time

VARIABLES
  page,       \* "setup" or "dashboard"
  admin,      \* the server has an administrator
  libs,       \* its libraries
  token,      \* the tab has the token of the administrator
  step,       \* the card shown; "none" before the first status and when it fails
  attached,   \* the libraries listed on the card; with none, Continue is disabled
  scanning,   \* the button of the scan card is disabled
  silent,     \* history: the fetchStatus after a completed scan failed, uncaught
  asks,       \* the handlers at work, each at one of its requests
  lost        \* history: a request failed, two status requests overlapped, or a
              \* removal reaches the server after the page has asked for the status anew

cardVars  == <<step, attached, scanning, silent>>
setupVars == <<page, admin, libs, token, cardVars, asks, lost>>
scanVars  == <<streamVars, watch, shownVars, calls, post, cancelVars, bulk>>

\* Request `do` of the handler `for` on `of`, a library or a scan job; its card is
\* shown still (`own`); what the server said (`got`, `libs`).  The handler of a page
\* that was left is "gone".
Ask(for, do, of) ==
  [for |-> for, do |-> do, of |-> of, own |-> TRUE, got |-> "unread", libs |-> {}]

\* computeSetupStatus
CurrentStep ==
  CASE ~admin -> "admin"
    [] admin /\ libs = {} -> "libraries"
    [] admin /\ libs # {} /\ \A j \in Jobs : job[j] = "absent" -> "scan"
    [] OTHER -> "done"
NeedsSetup == CurrentStep # "done"

SetupTypeOK ==
  /\ TypeOK
  /\ page \in {"setup", "dashboard"}
  /\ {admin, token, scanning, silent, lost} \subseteq BOOLEAN
  /\ libs \subseteq Libraries /\ attached \subseteq Libraries
  /\ step \in {"none", "admin", "libraries", "scan", "done"}
  /\ Cardinality(asks) <= MaxAsks
  /\ \A a \in asks : a.libs \subseteq Libraries

\* Libraries may be configured, and scanned on start, before anybody visits.
SetupInit ==
  /\ Init
  /\ admin \in BOOLEAN /\ token = admin
  /\ libs \in SUBSET Libraries
  /\ libs = {} => \A j \in Jobs : job[j] = "absent"
  /\ page = "setup" /\ NeedsSetup
  /\ step = "none" /\ attached = {} /\ scanning = FALSE /\ silent = FALSE
  /\ asks = {Ask("load", "status", None)}
  /\ lost = FALSE

-----------------------------------------------------------------------------
(* The server.                                                              *)

\* Every request but the first two kinds needs the token.
Authorized(a) == token \/ a.do \in {"status", "admin"}

Answered(a, got, shown) ==
  asks' = (asks \ {a}) \cup {[a EXCEPT !.got = got, !.libs = shown]}

\* A request takes effect, and its answer is under way.
SetupServer ==
  /\ \E a \in asks :
       /\ a.got = "unread" /\ Authorized(a)
       /\ \/ /\ a.do = "status" /\ Answered(a, CurrentStep, {})
             /\ UNCHANGED <<job, admin, libs>>
          \/ /\ a.do = "admin" /\ ~admin
             /\ admin' = TRUE /\ Answered(a, "ok", {})
             /\ UNCHANGED <<job, libs>>
          \/ /\ a.do = "list" /\ Answered(a, "ok", libs)
             /\ UNCHANGED <<job, admin, libs>>
          \/ /\ a.do = "attach" /\ a.of \notin libs
             /\ libs' = libs \cup {a.of} /\ Answered(a, "ok", {})
             /\ UNCHANGED <<job, admin>>
          \/ /\ a.do = "remove" /\ a.of \in libs
             /\ libs' = libs \ {a.of} /\ Answered(a, "ok", {})
             /\ UNCHANGED <<job, admin>>
          \/ /\ a.do = "scan"
             /\ \E j \in Jobs :
                  /\ StartJob(j) \/ (j \in Running /\ UNCHANGED job)
                  /\ asks' = (asks \ {a}) \cup {[a EXCEPT !.of = j, !.got = "ok"]}
             /\ UNCHANGED <<admin, libs>>
          \/ /\ a.do = "poll" /\ Answered(a, job[a.of], {})
             /\ UNCHANGED <<job, admin, libs>>
          \/ /\ a.do = "complete" /\ Answered(a, "ok", {})
             /\ UNCHANGED <<job, admin, libs>>
  /\ UNCHANGED <<scanVars, page, token, cardVars, lost>>

\* The watcher starts a scan, or one ends.
SetupScans ==
  /\ \/ libs # {} /\ \E j \in Jobs : StartJob(j)
     \/ \E j \in Running, status \in Terminal : job' = [job EXCEPT ![j] = status]
  /\ UNCHANGED <<scanVars, setupVars>>

-----------------------------------------------------------------------------
(* The cards, and the clicks on them.                                       *)

\* renderLibrariesStep: the card lists nothing until its first list has come.
LibrariesCard == {Ask("render", "list", None)}

\* render: a new card; the handlers started on the old one go on without it.
Render(s, rest) ==
  /\ step' = s /\ attached' = {} /\ scanning' = FALSE /\ silent' = FALSE
  /\ asks' = {[a EXCEPT !.own = FALSE] : a \in rest}
               \cup IF s = "libraries" THEN LibrariesCard ELSE {}
  /\ Cardinality(asks') <= MaxAsks

Click(for, do, of) ==
  /\ Ask(for, do, of) \notin asks
  /\ asks' = asks \cup {Ask(for, do, of)}
  /\ Cardinality(asks') <= MaxAsks

\* The submit button is disabled meanwhile, the Enter key is not.
SubmitAdmin ==
  /\ step = "admin" /\ Click("admin", "admin", None)
  /\ UNCHANGED scanning

\* libraryAdd: the button is disabled until the handler is done.
LibraryAdd ==
  /\ step = "libraries"
  /\ ~\E a \in asks : a.for = "attach" /\ a.own
  /\ \E l \in Libraries : Click("attach", "attach", l)
  /\ UNCHANGED scanning

\* renderAttachedList: every row has a button of its own, never disabled.
RemoveLibrary ==
  /\ step = "libraries"
  /\ \E l \in attached : Click("remove", "remove", l)
  /\ UNCHANGED scanning

Continue ==
  /\ step = "libraries" /\ attached # {}
  /\ Click("continue", "status", None)
  /\ UNCHANGED scanning

ScanRun ==
  /\ step = "scan" /\ ~scanning /\ Click("scan", "scan", None)
  /\ scanning' = TRUE

FinishLater ==
  /\ step = "scan" /\ Click("finish", "complete", None)
  /\ UNCHANGED scanning

Clicks ==
  /\ SubmitAdmin \/ LibraryAdd \/ RemoveLibrary \/ Continue \/ ScanRun \/ FinishLater
  /\ UNCHANGED <<job, scanVars, page, admin, libs, token, step, attached, silent, lost>>

-----------------------------------------------------------------------------
(* The answers.                                                             *)

\* The handler goes on with its next request.
Then(a, do) == (asks \ {a}) \cup
  {[a EXCEPT !.do = do, !.got = "unread", !.libs = {}]}

\* fetchStatus: the card of the step the server was at.
StatusAnswered(a) ==
  /\ a.do = "status"
  /\ Render(a.got, asks \ {a})
  /\ lost' = (lost \/ \E b \in asks \ {a} : b.do = "status")
  /\ UNCHANGED <<page, libs, token>>

AdminAnswered(a) ==
  /\ a.do = "admin"
  /\ token' = TRUE /\ asks' = Then(a, "status")
  /\ UNCHANGED <<page, libs, cardVars, lost>>

\* A mutant: the card is not looked at again after a removal.
RemovalGoesOnListing(a) == asks \ {a}

\* After refreshLibraryList, a removal asks for the step again.
GoesOnListing(a) == IF a.for = "remove" THEN Then(a, "status") ELSE asks \ {a}

\* refreshLibraryList: onto whichever libraries card is shown.
ListAnswered(a) ==
  /\ a.do = "list"
  /\ attached' = IF step = "libraries" THEN a.libs ELSE attached
  /\ asks' = GoesOnListing(a)
  /\ UNCHANGED <<page, libs, token, step, scanning, silent, lost>>

LibraryAnswered(a) ==
  /\ a.do \in {"attach", "remove"}
  /\ asks' = Then(a, "list")
  /\ UNCHANGED <<page, libs, token, cardVars, lost>>

\* The job to poll is known.
ScanAnswered(a) ==
  /\ a.do = "scan"
  /\ asks' = Then(a, "poll")
  /\ UNCHANGED <<page, libs, token, cardVars, lost>>

\* A mutant: a job that runs is not polled again.
PollOnce(a) ==
  CASE a.got = "completed" -> Then(a, "status")
    [] OTHER -> asks \ {a}

\* The next of the poll; the pauses are left out.
PollAgain(a) ==
  CASE a.got = "running"   -> Then(a, "poll")
    [] a.got = "completed" -> Then(a, "status")
    [] OTHER -> asks \ {a}

\* poll: the button it enables again is that of its own card.
Polled(a) ==
  /\ a.do = "poll"
  /\ asks' = PollAgain(a)
  /\ scanning' = (scanning /\ ~(a.own /\ a.got \in {"failed", "cancelled"}))
  /\ UNCHANGED <<page, libs, token, step, attached, silent, lost>>

\* setupPage and appPage: /setup while the setup lacks something, the dashboard
\* after it, which has no use for what the wizard knew (its variables are cleared).
\* What was asked from the page before may still reach the server.
Visit(left) ==
  IF NeedsSetup
  THEN /\ step' = "none" /\ attached' = {} /\ scanning' = FALSE /\ silent' = FALSE
       /\ asks' = {Ask("load", "status", None)} \cup
            {[a EXCEPT !.for = "gone", !.own = FALSE] : a \in {b \in left : b.got = "unread"}}
       /\ Cardinality(asks') <= MaxAsks
       /\ lost' = (lost \/ \E b \in left : b.got = "unread" /\ b.do = "remove")
       /\ UNCHANGED <<page, libs, token>>
  ELSE /\ page' = "dashboard"
       /\ libs' = {} /\ token' = TRUE
       /\ step' = "none" /\ attached' = {} /\ scanning' = FALSE /\ silent' = FALSE
       /\ asks' = {} /\ lost' = FALSE

\* finishLater: off to "/".
Finished(a) ==
  /\ a.do = "complete"
  /\ Visit(asks \ {a})

Answers ==
  /\ \E a \in asks :
       /\ a.got # "unread"
       /\ IF a.for = "gone"
          THEN asks' = asks \ {a} /\ UNCHANGED <<page, libs, token, cardVars, lost>>
          ELSE \/ StatusAnswered(a) \/ AdminAnswered(a) \/ ListAnswered(a)
               \/ LibraryAnswered(a) \/ ScanAnswered(a) \/ Polled(a) \/ Finished(a)
  /\ UNCHANGED <<job, scanVars, admin>>

\* A request is refused, or fails before or after its effect.  The handler stops and
\* says so, but for refreshLibraryList, which shows no library and returns, and for
\* the fetchStatus of a poll, which nothing catches.
HandlerFails ==
  /\ \E a \in asks :
       /\ asks' = IF a.do = "list" THEN GoesOnListing(a) ELSE asks \ {a}
       /\ attached' = IF a.do = "list" /\ a.for # "gone" THEN {} ELSE attached
       /\ scanning' = (scanning /\ ~(a.own /\ a.do \in {"scan", "poll"}))
       /\ silent' = (silent \/ (a.own /\ a.for = "scan" /\ a.do = "status"))
  /\ lost' = TRUE
  /\ UNCHANGED <<job, scanVars, page, admin, libs, token, step>>

\* The link of the last card, or a reload of the page.
Leave ==
  /\ Visit(asks)
  /\ UNCHANGED <<job, scanVars, admin>>

-----------------------------------------------------------------------------
Wizard == SetupServer \/ SetupScans \/ Clicks \/ Answers \/ HandlerFails \/ Leave

SetupNext ==
  \/ page = "setup" /\ Wizard
  \/ page = "dashboard" /\ Next /\ UNCHANGED setupVars

SetupSpec == SetupInit /\ [][SetupNext]_<<vars, setupVars>>

-----------------------------------------------------------------------------
\* The button of the scan card says SCANNING only while the handler that will enable
\* it again, or draw another card, is at work.  The exception is the status fetched
\* after the end of the scan: when that fails, the button stays as it is.
ScanButtonIsExplained ==
  step = "scan" /\ scanning => silent \/ \E a \in asks : a.own /\ a.for = "scan"

\* The card that starts the first scan is not left standing without a library to
\* scan: libraries can be removed while the status that brings the card is under
\* way, but every removal asks for the status again.  Unless a request fails, or
\* two answers overlap and come in the wrong order.
ScanCardHasLibraries ==
  step = "scan" /\ libs = {} => asks # {} \/ lost

=============================================================================
