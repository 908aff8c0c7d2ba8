# TLA+ models of samo-server

samo-server is a self-hosted media server in Go: it scans libraries of music, audiobooks and podcasts into
SQL, serves them from an in-memory projection, runs programmed radio channels, and comes with a dashboard in
JavaScript, one page that talks to it over HTTP and an event stream. This directory holds
specifications of the parts in which goroutines, requests, the database, the user and the clock meet, the TLC runs that
check them, and TLAPS proofs. Paths of Go files are relative to `internal/` unless they begin with `cmd/`, those of
JavaScript files to `web/src/`.

Run from here: `tlc -workers 2 -config MCLibraryScans.cfg MCLibraryScans`, `tlapm LibraryProofs.tla`.
`PROJECT.json` maps every definition to its lines and lists runs, findings, hazards and theorems.

## 1. Inventory

| component | state | operations | what is hard | what makes it correct |
|---|---|---|---|---|
| scan jobs, `libraries/service.go` | `activeJobID`, `activeCancel` under `scanMu`; the `scan_jobs` row | start, join, cancel, mark an orphan, finish, reconcile at boot | claim, goroutine and row are changed in different steps; crash; failing terminal write | one scan at a time; rows of live scans are never marked; a verdict is final; the claim comes back |
| watcher, `watch/watch.go` | `pendingChanges`, a trigger channel of one, a debounce timer, the watched directories | event, debounce, drain, ask, restore, rebuild | check-then-act against the scan service; losing drained work | every change on disk reaches a scan |
| projection, `catalog`, `search`, `api/catalog_commit.go` | two in-memory copies of the catalog | full reload, incremental playlist edit | the copy is made outside the database's transaction; two ways to write it | it never goes back; quiet means current; a client is told after the fact |
| event hub, `events/hub.go` | one bounded queue per subscriber | publish, subscribe | a full queue drops | what is dropped is known to be dropped |
| channel streamer, `channels/streamer.go`, `channels/service.go` | map of streamers; listeners, `done`, `lastDone`, `idleStop` under `s.mu` | attach, detach, linger, restart, close | timer callbacks, unwinding loops, edits and shutdown interleave | a listener has a loop; one loop at a time; an unheard channel stops |
| airings, `channels/streamer.go`, `channels/store.go` | the item on air, `skipCancel`, `cutCause`, the play log, the programme state | pick, log, play, cut, settle, skip | a skip and the loop touch the same item in several locked steps; crash leaves an open row | log and programme state agree with what was let stand |
| scheduler engine, `channels/engine.go`, `scheduler.go`, `candidates.go`, `score.go` | blocks, programme state, play log, obligations | choose the next item | a large rule set over time | fairness between sources, no starvation |
| obligations, `channels/store_obligations.go` | SQL rows with credit, target and state | notice, credit, list, expire | unconditional updates by two writers | a settled obligation stays settled |
| listener queue and mixer, `channels/streamer.go`, `mixer.go` | a bounded channel per listener, `closed` | send, catch up, close | send racing close | a slow listener is dropped, the loop survives |
| skip registry, `channels/skips.go` | a map with expiry | suppress, ask | expiry | a suppressed item is passed over until then |
| background group and shutdown, `safego`, `cmd/samo-server/main.go` | a wait group, `closed`, two contexts, deadlines | start, wait, stop | starts racing the wait; wedged workers | the database is closed after its users, or the wait says it is not |
| scanner, `scanner`, `scannerstore` | the walk, the store's rows | walk, parse, write, mark missing, prune | interruption between phases | only what left the disk is pruned |
| playlists, `playlists/service.go` | rows | create, update, delete, import | read-modify-write without a transaction | no edit is lost |
| scrobbling, `scrobble`, `lastfm`, `listenbrainz` | submission queues | enqueue, flush, retry | at-least-once delivery | every listen arrives once |
| podcast cache, explo imports | download and request jobs | request, advance, prune | long external jobs across restarts | a job ends or is retried |
| scan readout, `ui/scan.js`, `ui/events.js` | the job that is watched, the state of the readout, timers | start, follow, cancel, reconnect | answers and the stream overtake each other; the stream loses | a readout says running only of something, and learns of the end |
| wizard, `setup.js` | the card shown, the libraries listed on it | create, attach, remove, scan, skip | handlers of one card go on under the next | no dead button, no scan of nothing |
| pages, `app.js` | the hash, the screen, the music list, the search, the import panel | navigate, load, write, type | no load is cancelled, none looks whether it is still wanted | nothing says loading in vain; lists and results are those asked for |
| radio tab, `app.js` | open channel, its plan, poll timer, gestures | poll, edit, save, rank, book | a poll repaints under the user's hands; plans are sent back whole | the poll goes on; a plan goes to its channel; the page catches up |
| Explo's panel, `ui/explo_search.js`, `ui/explo_job.js` | requests known, searches, polls | search, ask, poll | panels come and go under their requests | the newest search stays; nothing is asked for twice |
| player dock, `ui/player.js`, `app.js` | what plays, `globalBase`, last report | play, resume, seek, end | cut and whole streams look alike | what is reported is what was heard |
| radio, playback, users, metadata, images, feeds, subsonic, wrapped, config | rows and files, mostly one writer | requests and fetches | little concurrency of their own | not modelled |

How they interact: a file event makes the watcher queue a folder; its loop asks `libraries.Service` for a scan;
the scan's end calls back into `main`, which reloads the projection. Handlers write a row, project it and
publish to the hub; clients refetch. The dashboard starts and cancels scans and hears of them on the hub's stream;
the wizard stands in front of it until an administrator, a library and a scan exist. A listener's request attaches to its channel's streamer, whose loop asks
the scheduler for an item and writes the play log that the scheduler reads next time. SIGTERM cancels the
context all of these derive from; `main` drains requests, reaps streamers, waits for the group and closes the
pool. PROJECT.json lists every component with its status.

## 2. Modules

| module | models | composed with |
|---|---|---|
| `LibraryScans` | scan jobs and their callers, crash and boot | |
| `LibraryWatch` | the watcher | extends `LibraryScans`: the watcher is one of its callers |
| `CatalogProjection` | database, projections, hub, clients | |
| `Shutdown` | `safego.Group` and main's stop | |
| `ChannelStreamer` | streamers, loops, timers, service map | |
| `ChannelAirings` | what a loop does per item, the skip | |
| `WebScan` | the scan readout, its event stream, the bulk identification | |
| `WebSetup` | the first-run wizard and the gate to the dashboard | extends `WebScan`: its scan is the dashboard's first |
| `WebViews` | pages, navigation, writes, music list, search, import panel | |
| `WebExplo` | Explo's panel | |
| `WebPlayer` | the player dock | |
| `WebDashboard` | the pages with the panel and the dock beside them | extends `WebViews`, instantiates `WebExplo` and `WebPlayer` |
| `WebStation` | the radio tab | implements `WebViews` (`ImplementsViews`) |
| `*Proofs` | theorems of the module they extend | `LibraryProofs`: of `LibraryWatch` and so of `LibraryScans`; `WebScanProofs`: of `WebSetup` and `WebScan`; `WebDashboardProofs`: of `WebDashboard` and the three it is made of |
| `MC*` | values of the constants for TLC | |

### LibraryScans
`active` is `activeJobID`, `status`/`request` are the row, `worker` is where `executeScan` stands
(`walking`, `finishing` before the terminal write, `settled` before the deferred release, `callback`). `scanMu` is
held for several steps only by `runScan` between the insert (`InsertJob`) and the claim (`Activate`);
`Unlocked` is the guard of everyone else. A cancel is `ReadActive` then either `FireCancel` or
`ReadRow`, `MarkOrphan`: the code releases the lock between them. What a walk returns is `Verdicts`: in process a
cancelled context gives `context.Canceled`; the subprocess of `scanner/external.go` gives an exit error.
`stale` stands for rows that the projection has not been rebuilt from. `lost` is history: the rows that this process could not settle, because the terminal write's
retries failed, a caller's mark failed, or boot's reconcile did, which `main` only warns of (`cmd/samo-server/main.go:191`); a later mark or boot takes them off again. An error of the other queries of
`runScan` is answered to the caller and changes nothing, so it is no step; the watcher takes it for a refusal. The row heartbeat, `publishScanJob` and
the library rows are left out. The completion callback's later work (artist images, explo) is left out.

### LibraryWatch
`dirty` and `gone` are the disk's truth; `events` is fsnotify's queue; `pend`/`full` are `pendingChanges`;
`trigger`, `timer`, `poke` are the channel, the debounce and the gap between `pending.add` and `notify`. `rescan`
is `Ask`, `AskStarts` and `AskAnswered` for each library of the drained work, through the real `InsertJob` and
`FindActive`. Simplifications: libraries are asked in any order (the code sorts them); `Rebuild` is
one step although `scanLoop` may drain once more before it sees that its channel is closed, and events that arrive
while the new watcher is built are lost in the code; attaching watches to new directories is not modelled.
`Recycle` makes a finished job id available again, so that the two ids are not a bound on the number of scans.

### CatalogProjection
A row is its version, which counts the writes to it; `catalog` and `index` are the projections, `seed` what a
reload has read so far, table by table outside a transaction, and `held` the row in a handler's hands. `Commit`
takes the incremental path for playlists (`FetchRow`, `UpsertCatalog`, `UpsertIndex`, outside the mutex) and the
full reload for the rest. `Scanned` are the entities that a scan writes; handlers may write them too. `AbortCommit` is a commit given up after
its write: the request's client went away, the scan whose completion reloads was cancelled, a query failed, or the row of a playlist could not be read back. `Defer` is an apply that leaves
the projection to the end of its batch, `Reload` the request that ends it. `Keep` and `PublishKept` are `postExploKeep`: it copies a file, asks for a scan, and announces
the library with `noProjectionChange`, whatever the scan has done by then. Clients are outside the
repository's server: `Refetch` and `Reconcile` are how they use the stream. The real buffer, of 8, is shared
with progress events; the model's is 1, so that it fills. `crossed`, `owed` and `untold` are history: the playlists for
which two installs overlapped outside `catalogReloadMu`; the rows whose commit was given up or deferred, until a reload has read them; the rows that a scan wrote, or whose commit was left, of which nobody was told since. The
properties except them, and the table below says how the code breaks the plain statements. Left out: a playlist's import, which writes several playlists, reloads everything and announces the
library (`api/playlist_handlers.go:52`), explo's passes over playlists, and the retries of the seed load (`storage.Retry`).

### Shutdown
`phase` is main's place after SIGTERM, `count` the wait group's counter; a panic is an ordinary end of a worker,
because `Done` is deferred inside the guard. The scan goroutine is apart from the workers, as it is in the code. The deadlines
are not clocks: `ServerShutdown` needs every request over or the stream grace passed, and `Wait` may time
out at any moment. The reaping of streamers is a phase here and a module of its own in `ChannelStreamer`.

### ChannelStreamer
One channel. A loop is named by its done channel; `prev` is the one `startLocked` read as `previous`. `armed`
is `idleStop`; `callbacks` are timers that fired and wait for the lock; `loose` are timers that
`idleStop` no longer refers to (a callback cleared the handle of a later timer). `PromptUnwind` says that a
cancelled loop is over before a linger (20 s) elapses. A goroutine that returns takes its variables with it (`Return`), so `owner` and `cancelled` speak
of loops under way. `crowded` is history: the streamers of which two linger callbacks waited for `s.mu` at once. `stopAndWait`'s deadline branch is left out: `Awaited` is the
wait that succeeds. `Fresh` reuses done channels nobody refers to.

### ChannelAirings
One loop, one skip request at a time per skipper. A turn is `Pick` (which commits the programme state),
`OnPlayStart`, `PutOn`, `EndPlay` and one of three ways to settle. `fate` is what became of a play: aired, forgotten, lost to a crash, or
stranded (forgotten, but its position could not be put back, because the loop's context was done). `PutOn` merges the assignment of the current
item with the arming of the cancel and the watchdogs, which happen back to back on the loop's goroutine. Age is one bit: younger than
`countsAsAired` or not. The database may refuse `MaxMissed` writes: the insert, the close and the delete of a row, the closing of orphans, the position picked and the one put back. The code logs that or ignores
it and plays on. `unwritten` and `unsaved` are history: the rows and positions that stayed wrong for it. An error of `NextItem` is no step: the loop sleeps and asks again, and the engine then uses no position. The skip's four steps are the code's four critical sections. Assumed: the channel has
aired before, its database and its skip registry are there (the code rewinds only then). Live items, which a
false start excludes like bag items, need no class of their own.

### The dashboard: what all its modules share
A JavaScript function runs to its next `await` without interruption. So an action is the stretch from a click, a timer or an answer to the next
`await`; a request is sent, taken by the server (where it matters when it read its rows) and answered in steps of their own, and
answers come in any order or fail. Nothing in the code cancels a request, so neither do the models. What is
painted is kept as its kind, never as markup. What is under way (`calls`, `loads`, `posts`, `asks`) is bounded;
the bound is part of the guards.

### WebScan and WebSetup
`watch` is `scanWatchJobID`, `readout` the state given to `updateRefreshUI`, `timers` the timeouts of five seconds that turn it idle.
`frames` is what the hub has queued for the tab; `Disconnect` loses it, and `missed` remembers whose last snapshot was
lost. `cancel` is where `cancelActiveScan` stands: it polls for a minute while the job is watched. `strayed` remembers that it applied an answer when
another job was watched. In `WebSetup` a handler is a record that carries its next request; `own` says that the card it was started on
is still shown. `Visit` is a page load: `setupPage` or `appPage` send it to the wizard or the dashboard, and from the dashboard on the steps
are `WebScan`'s. `lost` remembers that a request failed, that two statuses overlapped, or that a removal was under way when the page asked for the status anew.

### WebViews, WebExplo, WebPlayer, WebDashboard
A page is a sequence of phases, each a set of requests that it needs and a set with fallbacks; a load goes from phase to phase and paints at the
end, wherever the user is. `Show` is the hash and the load, `Navigate` the tab as well. Buttons and forms are `Write`: sent from a page, answered with whatever that
handler does to the screen. `musicListItems` is the list as pages asked for; `chains` are the timers of `followPlaylistImport`, one for each
painting. In `WebExplo` a search has a number (`revision`), and an answer counts only if it is the newest; `job` is the server's
state of an item and `jobs` the browser's. In `WebPlayer` time is counted in the twenty seconds between reports; `src.from` is where the
server cut the file, which the client never learns: `TakenForWhole` is its guess. A resume is decided when the metadata have come; that `durationchange` and `canplay` ask again (`app.js:583`) is left out, as a stream that has begun
to play does not seek then (`ui/player.js:83`). Titles have a known length: without one `ended` completes a book at its first file (`app.js:596`), see below. `WebDashboard` mounts a panel when the search is painted and takes
it away when anything else is; the dock plays on under every page.

### WebStation
`loads` carry what the server read for them; `activePlan` is the copy that the editors mutate and `savePlan` sends whole. A plan is whose
it was and whether it has the edit; `Blank` is what the editors get when the plan could not be fetched. `strayed` remembers that a channel was painted that was
not the open one. `focused` says that a control of a samo-radio has the focus (`radioControlIsBusy`): those of the device cards on the list, and PLAY TO on a channel's page (`app.js:1828`). It is one of the three things that
hold back the poll and the repaint on return (`Busy`). The plan and the sources of a page are two requests, read by the server in one step here: no property relates the one to the other. Of a source's form the model keeps the tier.
`rankSaves` are the tier changes under way, `late` the timeout of 1.2 s after a skip, `show` the booking of a show: a source, then its windows.

## 3. Runs

Every property of a passing run has a mutant of the code it depends on (`PROJECT.json`, `mutants`) that violates it.

| run | shows | bounds, and why they suffice |
|---|---|---|
| `scans` | exclusion, orphan marks, row of a live scan, verdicts final; the claim comes back, rows settle | 2 jobs, 2 callers, 2 folders, 1 crash: an orphan needs one job to end and one to start; every race is of two callers. What a caller is answered changes no state, so one request is enough. All writes of a row's verdict may fail, at its scan's end, at an operator's mark and at boot, which is how a row is orphaned; `RowsSettle` excepts just those rows (`lost`), a crash at any step included. 307 thousand states. Walks end or are cancelled: with walks that fail the safety properties are proved, not run |
| `watch` | no change is forgotten, each is scanned, each removal reconciled; owed work has a step coming that drains it, also across a rebuild | 2 folders in 2 libraries, 2 changes, one scan of others, one rebuild: the race is of one request of the watcher with one of somebody else |
| `catalog` | announced is projected, no regress, quiet means current for projections and clients, commits reach clients | 2 handlers, one of them an administrator's, and a scan; an entity that is reloaded and a playlist, 2 versions of each and 3 writes in all, 1 reload or kept drop, 1 client with a buffer of 1, commits that are given up or deferred: two writes suffice to overtake each other, and one event to fill a queue. 214 thousand states |
| `shutdown` | the wait's promises, the stop ends | 3 workers, a page and a stream |
| `streamer` | a registered streamer has one loop at a time and with a listener it is started; a listener who stays gets a loop, an unheard channel stops | 1 streamer, 2 listeners, 3 loops, 1 edit, shutdown, 2 linger callbacks at a time; loops unwind promptly. `streamer_edit` explores two streamers, and the safety properties are proved of any number. 181 thousand states |
| `airings` | log and cycle agree with the fates, over stops and crashes | 2 turns of a song or a bulletin, one skip, one write that fails: a skip meets at most the item it read and the next. 2.9 million states |
| `web_scan` | no readout says running of nothing, and each learns of the end; no dead button in the wizard, no scan of nothing left standing | 2 jobs, a buffer of 1, one break of the stream, one GET and two timers at a time; 2 libraries and two handlers at a time. Two jobs are the one that was watched and the next; two handlers can overtake each other. 4.1 million states |
| `web_dashboard` | nothing waits in vain, the music list is whole, the search shows its query, the import is followed; the newest search stays, nothing is asked for twice; reports are what was heard, completion is at the end | a session is a set of pages, and a page occurs in one with the neighbour it could be confused with; two loads, two queries, two modes, two pages of the list, two chains, two searches and requests of a panel, a book of two files. A third of any adds a third order of answers, and the properties are about pairs. 784 thousand states |
| `web_station` | the poll goes on, a plan goes to its channel, a page left alone and without the focus catches up, the tab is a page like the others | two channels where plans are edited, one elsewhere; two loads and one tier change at a time. 330 thousand states |

Three runs end in a violation and show that the code does otherwise than its comments say. Each is a `findings`
entry with both places quoted:

| run | the code |
|---|---|
| `watch_join` | the watcher's folders are answered with a running scan of other folders of the library, and are dropped |
| `streamer_edit` | an edit leaves listeners on a stopped streamer |
| `airings_skip` | a skip may forget the next item's play and cut nothing |

The passing runs leave out what breaks their property, or the property excepts it by a history variable, and only that: `watch` has no scan of others that matches
the watcher's requests, `streamer` no slow unwinding, no panic and no two linger callbacks at once (`crowded`; the panic matters to liveness only); `catalog` excepts crossed and untold writes, and those whose commit was left until a reload reads them. The web properties name their exceptions in their
comments, each a row below.
In `watch` a scan that started reads what it was asked to (`ScanErrors` and crashes are off; the watcher only retries
refusals), and fsnotify loses nothing.

### Stated, not kept by the code, and in no run
The modules also state what comments of the code say and its behaviour does not keep. TLC refutes each of these when
the run named has its constants changed as given. They stay in the modules as the statement a repair would have to make true.

| property | from run, with | what the code does |
|---|---|---|
| `CutShortIsCancelled` | `scans` as `Spec`, `RowErrors = FALSE`, `ExternalScan = TRUE` | with an external scanner a cancel kills the subprocess, `cmd.Run`'s exit error does not wrap `context.Canceled`, and the job is recorded as failed (`scanner/external.go:53`, `libraries/service.go:525`); "the row transitions to status=cancelled once the scanner exits" (`libraries/service.go:206`). In process it holds |
| `ProjectionFollowsScans` | the same, `ExternalScan = FALSE` | the completion callback runs on the scan's context, which a cancel has ended, so the reload fails at its first query (`libraries/service.go:481`); it "fires after every async scan, both on success and failure" (`:80`) |
| `OwedWorkIsScanned` | `watch_join`, `OtherRequests <- mcFullScan`, `MaxRebuilds = 1` | a rebuild discards `pendingChanges`, trigger and timer with the cycle (`watch/watch.go:169`) |
| `KeptIsProjected` | `catalog` | `postExploKeep` announces what its scan has yet to project: "The scan that ran above already refreshed the projection" (`api/explo_handlers.go:204`), but the scan runs in the background (`libraries/service.go:410`), and what is waited for is its row (`explo/keep.go`). Clients refetch the projection before it, and the scan's own reload tells nobody |
| `NotifiedIsProjected` | `catalog`, without the exception of `crossed` | a reload that read before a playlist edit undoes it before its notification (`cmd/samo-server/main.go:383`); "Publish AFTER the projection, never before" (`api/catalog_commit.go:97`) |
| `QuietIsCurrent` | the same, or without that of `owed` | two edits of one playlist install their rows in the other order, outside `catalogReloadMu` (`main.go:397`); or a request that goes away, or a cancelled scan, gives up the reload after its rows were written (`api/source_handlers.go:384`, `libraries/service.go:481`): they wait for a reload of somebody else. A deferred batch does so on purpose (`api/metadata_handlers.go:52`) |
| `ScansReachClients` | `catalog` | the completion of a scan changes the projection and publishes no catalog change (`main.go:560`); the one of `postExploKeep` may come before it |
| `DrainedMeansNoScan` | `shutdown` | the scan goroutine is not in the group that `main` waits for (`libraries/service.go:410`, `main.go:963`) |
| `OneLoopAtATime` | `streamer_edit` | after an edit, a handler that still holds the replaced streamer attaches to it; a loop that is cancelled while it waits closes its own done, and the third starts beside the first (`channels/streamer.go:543`) |
| `RegisteredHasOneLoop` without `crowded` | `streamer` | of two linger callbacks that wait for `s.mu` at once, the second stops a loop that still waits for the one the first has stopped; it closes its own done, and the next loop starts beside the one it waited for (`channels/streamer.go:543`, `:569`) |
| `CloseReapsLoops` | `streamer`, `MaxUpdates = 0` | `Close` waits for the last loop only, and one that shutdown cancels while it waits for its predecessor closes its done at once (`channels/streamer.go:543`, `:610`); nor does it wait for a streamer that an edit has just taken off the map (`channels/service.go:690`) |
| `LingerIsGranted` | `streamer` | a callback that waited for `s.mu` stops a channel whose linger has begun anew (`channels/streamer.go:572`) |
| `AttachedGetsALoop` | `streamer`, `LoopsPanic = TRUE` | a loop that panicked leaves `done` set, so nobody starts another (`channels/streamer.go:539`) |
| `NoPlayIsStranded` | `airings`, also with `MaxMissed = 0` | the rewind is written on the loop's own context, which a stop has ended (`channels/streamer.go:779`, `:1327`); or the database refuses it |
| `DeadSourceFailedInARow` | `airings_skip`, `MaxPlays = 3`, a song as well | failures of three sources in a row suppress the third (`channels/streamer.go:781`, `:1332`) |
| `SnapshotsOfOthersAreIgnored` | `web_scan` | `cancelActiveScan` applies what it polled although another job, or none, is watched by then (`ui/scan.js:270`); "Snapshots for a job we are not watching are ignored" (`:244`). The readout then says CANCELLING or running of nothing |
| `EndIsUnderWay` without `missed` | `web_scan` | a last snapshot lost with the stream is never asked for again (`app.js:4822`, `ui/events.js:89`): the readout says running until the page is loaded anew |
| `ScanButtonIsExplained` without `silent` | `web_scan` | the status fetched after a completed scan is not in the handler's `try` (`setup.js:451`): when it fails the button says SCANNING for ever |
| `ScanCardHasLibraries` without `lost` | `web_scan` | of two status answers the older may be painted last (`setup.js:28`) |
| `MusicListIsWhole` without `crossed` | `web_dashboard` | two loads of the list read one offset and both move it (`app.js:759`): a page is missing, or there twice |
| `SearchShowsItsQuery` without `raced` | `web_dashboard` | `runSearch` does not look which search it is answered (`app.js:2487`) |
| `NothingIsAskedForTwice` without `doubtful` | `web_dashboard` | a poll read before a request and answered after it says failed (`ui/explo_search.js`), and a panel that is left forgets the requests it had under way |
| `ReportIsHeard` of a roll-over | `web_dashboard` | `ended` sets `globalBase` before `playURL` flushes, so the file that ended is counted twice (`app.js:601`, `ui/player.js:48`); "getting it wrong silently reports everyone's progress as near-zero" (`ui/player.js:7`) |
| `ReportIsHeard` without `misled` | `web_dashboard` | a cut stream of 85% or more is taken for the whole file (`ui/player.js:82`); a whole file of a book of several, for a cut one (`files/service.go:208`) |
| `PageCatchesUp` without `focused` | `web_station` | PLAY TO keeps the focus after it was used, and the poll reschedules itself for as long (`app.js:1439`) |
| `PlanIsNotBlanked` | `web_station` | a channel whose plan could not be fetched is given an empty one, and its first edit sends that whole (`app.js:1780`, `:1796`) |
| `NoShowIsHalfMade` | `web_station` | when the windows of a new show fail, a source without windows is left, and nothing removes it (`app.js:3285`); "a half-made show (a source with no window) is never left behind" (`app.js:3284`) |
| `PlanGoesToItsChannel` without `strayed` | `web_station` | a load that comes late paints one channel's plan while another is open, and `savePlan` sends it to the open one (`app.js:2202`) |

Met while modelling, and stated in no module:
- removing one of several libraries advances the wizard to its scan card (`setup.js:230`); "The Continue button is the only thing that should
  advance state" (`setup.js:376`). SKIP FOR NOW leads back to the wizard while there is no scan (`api/app_page.go:13`), since `completeSetup` changes
  nothing; "You can skip and come back to this later from settings" (`setup.js:401`). An administrator who was created while the answer was lost cannot be created again, and the
  card does not say so until the page is loaded anew.
- the editors of the plan mutate the copy that they keep: an edit that is rejected stays in it and goes out with the next one; "a cancelled edit leaves nothing behind"
  (`app.js:1794`).
- the poll looks whether a composer is open and then awaits the page, so it may wipe one that was opened meanwhile (`app.js:1432`); a failed request for the channel stops it
  (`app.js:1784`); a `dragend` that never comes stops it too. A radio answer, or the timeout after a skip, paints over another tab.
- a search that another panel action supersedes leaves its form disabled, and a discography superseded by a search of songs says loading (`ui/explo_search.js`).
- of a book whose length is not known `ended` reports completion at the end of its first file (`app.js:596`).
- an episode's stored position that comes late starts it over what was clicked since (`app.js:478`).
- a playlist's removal of tracks sends back the list as it was painted (`app.js:4591`); fetching artist images paints the settings over the home page (`app.js:4000`).
- `readBlockForm` drops what its form cannot hold: a fifth entry of a pattern, a fraction of a percent (`app.js:2399`, `:2310`).
- a cancelled subprocess surfaces as an exit error (`scanner/external.go:53`); a scan changes the projection and tells nobody (`cmd/samo-server/main.go:560`); `markExpired`
  writes its verdict without a condition on the state, and a lowered target can equal the credit with the obligation still pending (`channels/store_obligations.go:88`, `:132`); two
  edits of a playlist merge without a transaction (`playlists/service.go:95`); the seed is read by many queries outside one (`catalogstore/load_seed.go:17`); an overflow of the
  kernel's queue is only logged (`watch/watch.go:185`); after an edit two streamers of a channel write the play log (`channels/service.go:691`). These are hazards
  without a property, beside those of `PROJECT.json`.

Deadlock is checked in `scans`; elsewhere the bounds on changes, versions, workers, jobs, breaks or turns stop the model.

### Fairness
- `LibraryScans`: weak fairness of each `executeScan` goroutine, of each step of a caller after its first, and of
  the restart. The Go scheduler runs what can run; systemd restarts the process. No caller is obliged to come.
- `LibraryWatch`: the same, and of the event loop and the timer. `WF` of `TimerFires` is enough: the timer is re-armed while a
  scan runs, and every scan ends.
- `CatalogProjection`: weak, of every step of a commit or reload after its first and of what a client does with its queue. It is enough for the mutex too: Go hands it over to a waiter that starves, and here
  writes and calls are bounded, so nobody is overtaken for ever. Nobody is obliged to write, reload or keep.
- `Shutdown`: of main's own steps only; each is bounded by a timer. Workers, requests and scans may be wedged.
- `ChannelStreamer`: of the loops' reaction to a cancel and to their predecessor's end, of timers, and of a handler whose
  channel was closed. Listeners need neither come nor leave.
- `WebStation`: of the poll's timer, of the server's reading and of answers (an answer or a failure: browsers end a request). Strong fairness of an answer that
  brings a plan: requests for the plan do not fail for ever. It cannot be weak, as the page is repainted in between. `PageCatchesUp` asks besides that the user lets the page
  alone, and takes the focus off a samo-radio's controls. The other web modules have no fairness: a readout that waits for a lost answer, say, is what the safety properties describe.

## 4. Proofs

All constants are arbitrary, under the named assumptions of the modules. Every safety property of every passing run, the action properties and the refinement among them, is stated
by a theorem. Each rests on an inductive invariant, which TLC can check like any other. A proof has one lemma per action, or per group of them that change the same state, and a step that puts
them together.

`LibraryProofs`, the scan service: `TypeOK`, `OneScanAtATime`, `OrphanMarkSparesOwners`, `ActiveRowRuns` and `TerminalIsFinal` of
`Spec`. None is inductive. That a caller about to mark a row spares a live goroutine needs that a job found
not active is not being started and will not be: `CheckedIsOver`, which needs that job ids are fresh and that the starter
is alone with the lock (`StarterIsAlone`, `StarterHasRow`, `AbsentHasNoWorker`). `ClaimIsLife` makes `OneScanAtATime`
inductive: the claim is held exactly while the goroutine is in its owning stages. `TerminalIsFinal` is an action property: the two writers of a status
other than the starter, the goroutine and the mark, meet only rows that say running or, for the mark, cancelled already.

The watcher, of `WatchSpec`: the same invariant survives `Recycle`, which hands out old ids again. `OwedWorkHasATimer` holds whatever fails and whatever others
ask for (`BaseInv`: who has queued has yet to poke, or has left a token or a timer; `WatcherIsAsking` knows what the loop holds). `NoChangeForgotten` has two
hypotheses: `~ScanErrors`, as the code asks no second time for the folders of a walk that failed, and `OthersScanAll`, that the other callers ask for whole libraries. Without the second the
property is false, which is what `watch_join` shows. The invariant needs `ActiveIsAnother`: a scan that runs while the loop asks for its
libraries one by one is another caller's, or of a library already asked for. So nothing that the watcher asks for is answered with a running scan (`NothingIsJoined`).

`CatalogProjectionProofs`: `QuietIsCurrent`, `QuietClientsAreCurrent`, `ProjectionNeverRegresses`, `NotifiedIsProjected`. The invariant orders all copies of a row: index, catalog, seed, what a
handler holds, database (`InOrder`, `WritesArrive`). `LastWriteIsProjected` says of each entity that its last version is in both projections or in the hands of somebody who is to
install it; `LastWriteIsTold` says the same of each client: shown, in its queue, yet to be published, or a reconnect is due. `CatalogIsHeralded` is there for the notifications of the whole library, which come from elsewhere than the
row's own commit: where the catalog is behind the database, a handler that will announce the row has it in hand, unless the row is `untold`. So a notification that comes too early, as `postExploKeep`'s does, is followed by another,
or the row is one that the property excepts. That makes the statements about quiet states inductive. `UncrossedIsAlone` is the point of
`crossed`: without it a reload may undo an install, and with it the two are apart in time.

`ShutdownProofs`: the counter is the cardinality of the live workers (`CounterIsExact`, by
`FS_AddElement` and `FS_RemoveElement`), from which `DrainedMeansNoWorker` and `NoAddDuringWait` follow. The only assumption is that the
set of workers is finite.

`ChannelStreamerProofs`: `RegisteredIsStarted` for any number of streamers, loops, late timers and edits, with and without panics.
The invariant adds that a streamer is taken off the map once: the one being stopped is never the registered one, so a stop takes
a loop only from a streamer that has no listener or is off the map (`StoppedIsOffTheMap`, `UnbuiltAreUnheard`).
`RegisteredHasOneLoop` is proved under `PromptUnwind`, also with panics. Its invariant says why one `previous` is enough: a loop under way that is not cancelled is its streamer's `done` (`LiveIsDone`);
a linger that has elapsed found no stopped loop still there (`CallbacksFindNothing`), so the one that it stops is the only one; and a stopped loop that still runs is the last one
started, or the one that the next waits for (`LastWaits`). A third loop would need two stops within one unwinding, which is what `crowded` records.

`ChannelAiringsProofs`: `LogMatchesFate`, `PositionIsKept`. The invariant relates three records of the same play, each written in a step of its own: `EachHasItsFate` (which plays are closed,
and which one the loop still owes a verdict), `OpenIsOn`/`ClosedIsAired` (the rows of the log), `CycleRunsAhead` (the position is committed with the pick, so it is one ahead of the plays that count while one is owed its verdict). The position
is a count, so the proof counts plays by fate with `FiniteSetTheorems`. Refused writes are part of it: a row may stay open, and a position unsaved, only where `unwritten` and `unsaved` say so.

`WebScanProofs`: `RunningIsExplained` and `EndIsUnderWay` of any number of jobs, requests, timers and breaks, under `BoundsAssumption` alone. Neither is inductive.
`EndIsUnderWay` needs to know of everything the tab has been told or will be: a watched job exists; the answer to a fetch, or a snapshot on the stream, that says a job is over is right
(`job` never leaves a terminal status), and one that says running was read before the end. So a watched job is, at every moment, running with a snapshot still to come, or
over with one of the three on their way. `RunningIsExplained` needs that the cancel's job is the watched one unless `strayed` says otherwise.
The wizard: `SetupInv` says of every handler under way what it can be at (`AskOK`: a scan's handler never leaves its three requests, a polled job was started), and that where no library is left under the scan card
a removal is under way that will ask for the step again (`CardIsComingBack`); from it `ScanButtonIsExplained`, `ScanCardHasLibraries`, and the readout's promises once more for the dashboard behind the wizard.

`WebDashboardProofs`: all eight properties of the run, of any sessions, pages, queries and titles.
`ViewsInv`: what is painted as loading has a load; `SearchIsForTheField`, unless two searches overlapped, and `OneLoadOfTheList`: as long as loads of the list have not crossed there is one at most, and what it
counts on (list, offset, mode when it was sent) stays so until it is answered. `ExploInv`: `NewestIsUnderWay` for the searches; `PollsAreCurrent` and `PostCounts` say of each poll and request in flight whether its
answer can still be wrong, from which `AskedForOnce`. `PlayerInv`: `BaseIsTheStart` (where the client's guess was right, its base is where the stream starts) and `EndsWithAFile`; the latter needs to
find the last file that ends before a position, by `Least`: every nonempty set of naturals has a least element (`WFMin`), which is induction without an operator parameter.

`WebStationProofs`: `PollingGoesOn`, `PlanGoesToItsChannel` and the refinement. A plan is read, shown, edited, sent and served back, and each copy is known to be its channel's (`ReadIsTheirs`,
`EditedIsTheirs`, `SavedIsTheirs`, `ServedIsTheirs`) unless `strayed`; `PlanGoesToItsChannel` is the last of these, and needs the other three. `TheTabIsAPage` proves `ImplementsViews`: the initial
states are initial in `WebViews`, and each action is a step of `WebViews` (a load, an answer, a write, a navigation) or a stutter, under the mapping of `loads` and writes that the module states.

What the theorems assume of constants is what the code gives: bounds are naturals; `SessionsAssumption`, `QueriesAssumption`, `WantedAssumption`, `PlayedAssumption` and `ScenesAssumption` say which values inputs are
taken from; `TitlesAssumption` that an item has files of positive length, and one file unless it is an audiobook. `SumAssumption` states the recurrence of the fold that adds up file lengths; TLC
evaluates it, but its proof is an induction over a recursive definition.

With TLC only, because fairness and ENABLED are beyond the prover: the liveness properties `ClaimIsReleased`, `RowsSettle`, `ChangesAreScanned`, `RemovalsAreReconciled`, `CommitsReachClients`,
`StopsAfterSignal`, `AttachedGetsALoop`, `AbandonedLoopStops`, `PageCatchesUp`. What a fold computes for every input stays with it as well (`SumAssumption`). No module uses a RECURSIVE operator.

## 5. Not modelled, and why

Signal processing, pictures, metadata matching, feed parsing, the Subsonic translation and the clients of `client/` and of `api/web-client` (built code of another project) are pure
data transformations or I/O. The scheduler engine is a large function of plan, log and clock: `ChannelAirings` lets it return
any item. SQL is reduced to the effect of its statements.

Of the dashboard: `ui/plan.js`, `ui/rank.js`, `ui/channels.js`, `ui/samo_radio.js` and most of `ui/composer.js` and `ui/labels.js` are functions from data to markup. `wrapped.js`, `login.js` and
`pair.js` send one request and show it. Left out of modelled parts: the panels of recent scans and of activity, the search of the identify modal and of the settings' values,
the user list's local edits, the folder browser and the feeds of the wizard, the choice of Explo's provider.

## 6. Plan

Done, in this order: `LibraryScans`, `LibraryWatch`, `CatalogProjection`, `Shutdown`, `ChannelStreamer`, `ChannelAirings`; then `WebScan` with its proofs, `WebViews`,
`WebStation` and the refinement, `WebExplo`, `WebPlayer`, `WebDashboard`, `WebSetup`.

What would come next:
1. `ChannelBroadcast`: the listener's queue: `send`, `catchUp`, `close`, `flushListeners`; a send never meets a closed channel. Composes with `ChannelStreamer`.
2. `Obligations`: notice, credit, list and expire on the rows; a satisfied obligation stays satisfied, credit is not lost.
3. `ListenEngine`: the sessions of `scrobble/engine.go` and the outboxes of last.fm and ListenBrainz: a listen is submitted at least once, and
   counted once; crash between accept and submit.
4. `SkipRegistry` and the rules of `engine.go` as functions, against a reference definition over small plans.
5. `PlaylistEdits`: the read-modify-write of `playlists.Update` against the abstract promise that no edit is lost.
6. podcast cache and explo requests: jobs over restarts.

Theorems: the safety properties of the runs are proved. Next: the properties of section 3's second table under the repairs they ask for, starting with `OneLoopAtATime` for a loop that waits for its
predecessor even when it is cancelled; and the safety of each new module with the module.
